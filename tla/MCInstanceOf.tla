---------------------------- MODULE MCInstanceOf ----------------------------
(***************************************************************************)
(* InstanceOf with types 1 to 3 and four primitive types: an int array is  *)
(* given its own class, byte and boolean arrays are given int's, and long  *)
(* arrays the class "[L".  load_primitive_class knows "[I", "[B" and "[L". *)
(***************************************************************************)
EXTENDS InstanceOf

INT      == 9
BYTE     == 10
LONG     == 11
BOOLEANS == 12
L        == 13

MCPrimitives == {INT, BYTE, LONG, BOOLEANS}
MCKnown      == {INT, BYTE, L}
MCNewarray   == [p \in MCPrimitives |-> IF p = LONG THEN L ELSE INT]
=============================================================================
