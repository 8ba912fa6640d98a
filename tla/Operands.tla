------------------------------ MODULE Operands ------------------------------
(***************************************************************************)
(* The operand stack and the local variables of one frame (interpreter.c): *)
(* every slot has room for a long, and the macros read and write only as   *)
(* many bytes as the type they are given has.  What else is in a slot is   *)
(* residue of what the slot held before.                                   *)
(*                                                                         *)
(* Each step executes one instruction that a verified class file may have  *)
(* there, on up to MAX_STACK operands.  The handlers that are not faithful *)
(* to Java on some operands, and those that do nothing, end the comparison *)
(* (status "lost").  The values of floats and doubles are the C compiler's *)
(* matter; they are moved like ints and longs.                             *)
(***************************************************************************)
EXTENDS TwosComplement, SequencesExt

CONSTANTS BYTE, SHORT, INT, LONG,  \* widths of char, short, int and long: 2 ^ 8,
                                   \* 2 ^ 16, 2 ^ 32 and 2 ^ 64 values
          MAX_STACK, MAX_LOCALS,   \* what the method declares
          Variables,               \* the indices of the locals it uses
          Residue,                 \* what malloc may leave in a slot
          Contents,                \* words that fields hold
          Refs                     \* addresses of objects

ASSUME WidthAssumption ==
  /\ BYTE \in Nat \ {0} /\ BYTE % 2 = 0
  /\ \A p \in {<<BYTE, SHORT>>, <<SHORT, INT>>, <<INT, LONG>>} :
       p[2] \in Nat /\ p[1] < p[2] /\ p[2] % p[1] = 0
ASSUME FrameAssumption == MAX_STACK \in Nat \ {0} /\ MAX_LOCALS \in Nat \ {0}
                          /\ Variables \subseteq 0 .. MAX_LOCALS - 1
ASSUME WordAssumption  == Residue \cup Contents \cup Refs \subseteq 0 .. LONG - 1

VARIABLES
  cur_stack_frame,  \* operand_stacks, operand_offset (in slots), local_variables
  types,            \* the types of the operands, as the class file was verified
  localTypes,       \* those of the local variables, "none" if it has none
  instr,            \* the instruction executed last
  jump,             \* by how much it moved vm_pc, 0 for the next instruction
  status            \* "run", "lost", or "sigfpe"

vars == <<cur_stack_frame, types, localTypes, instr, jump, status>>

Width == [char |-> BYTE, short |-> SHORT, int |-> INT, long |-> LONG]
Words == 0 .. LONG - 1
Types == {"int", "long", "ref"}
(* The macros know no references: they are moved as longs.                 *)
AsMoved(t) == IF t = "ref" THEN "long" ELSE t

-----------------------------------------------------------------------------
(* The macros, as functions of a frame.                                    *)

Read(word, t) == Signed(Width[t], word)
Value(word, t) == IF t = "ref" THEN word ELSE Read(word, t)
(* Faulty: a negative value is not cut to its width.                       *)
WriteUncut(word, t, v) == word - Unsigned(Width[t], word) + v

Write(word, t, v) == word - Unsigned(Width[t], word) + Unsigned(Width[t], v)

(* Faulty: the top of the stack moves, and the old value stays.            *)
PopKeepingResidue(f, t) == [f EXCEPT !.operand_offset = @ - 1]

Pushed(f, t, v) ==
  [f EXCEPT !.operand_stacks[f.operand_offset] = Write(@, t, v),
            !.operand_offset = @ + 1]
TopWord(f) == f.operand_stacks[f.operand_offset - 1]
Popped(f, t) ==
  [f EXCEPT !.operand_stacks[f.operand_offset - 1] = Write(@, t, 0),
            !.operand_offset = @ - 1]

Loaded(f, n) == Pushed(f, "long", Read(f.local_variables[n], "long"))

Stored(f, t, n) ==
  [Popped(f, t) EXCEPT !.local_variables[n] = Write(@, t, Read(TopWord(f), t))]

-----------------------------------------------------------------------------
Init ==
  /\ cur_stack_frame \in
       [operand_stacks : [0 .. MAX_STACK - 1 -> Residue], operand_offset : {0},
        local_variables : [0 .. MAX_LOCALS - 1 -> Residue]]
  /\ types = << >> /\ localTypes = [n \in 0 .. MAX_LOCALS - 1 |-> "none"]
  /\ instr = [op |-> "none", arg |-> 0] /\ jump = 0 /\ status = "run"

Frame == cur_stack_frame
Has(ts) == status = "run" /\ IsSuffix(ts, types)
(* A verified method never has more than MAX_STACK operands.               *)
Retyped(ts, us) == /\ types' = SubSeq(types, 1, Len(types) - Len(ts)) \o us
                   /\ Len(types') <= MAX_STACK
Executes(op, arg) == instr' = [op |-> op, arg |-> arg]
Faithful(c) == status' = IF c THEN "run" ELSE "lost"

(* The end of a handler: vm_pc.pc += len.                                  *)
Completes(f) == cur_stack_frame' = f /\ jump' = 0

Typed(t, v) == [type |-> t, value |-> v]

-----------------------------------------------------------------------------
(* Constants.                                                              *)

(* A constant v of type t, pushed as type u.                               *)
Constant(t, u, v, f) ==
  /\ status = "run"
  /\ Executes("push", Typed(t, v)) /\ Retyped(<< >>, <<t>>)
  /\ Completes(Pushed(Frame, u, f)) /\ UNCHANGED localTypes

Iconst == \E v \in 0 .. 5 \cap SignedRange(INT) : Constant("int", "int", v, v) /\ Faithful(TRUE)
Lconst == \E v \in 0 .. 1 : Constant("long", "long", v, v) /\ Faithful(TRUE)

(* The operand of bipush is a signed byte and is read as a u1.             *)
Bipush == \E v \in SignedRange(BYTE) :
            Constant("int", "long", v, Unsigned(BYTE, v)) /\ Faithful(v >= 0)

(* sipush writes a short; the rest of the int is residue.                  *)
ResidueAboveShort(word) == Unsigned(INT, word) \div SHORT
Sipush == \E v \in SignedRange(SHORT) :
            /\ Constant("int", "short", v, v)
            /\ Faithful(v >= 0 /\ ResidueAboveShort(Frame.operand_stacks[Frame.operand_offset]) = 0)

Ldc  == \E v \in SignedRange(INT) : Constant("int", "long", v, v) /\ Faithful(TRUE)
Ldc2 == \E v \in SignedRange(LONG) : Constant("long", "long", v, v) /\ Faithful(TRUE)
New  == \E r \in Refs : Constant("ref", "long", r, r) /\ Faithful(TRUE)

-----------------------------------------------------------------------------
(* Local variables.                                                        *)

LoadAny(n) ==
  /\ status = "run" /\ localTypes[n] # "none"
  /\ Executes("load", n) /\ Retyped(<< >>, <<localTypes[n]>>)
  /\ cur_stack_frame' = Loaded(Frame, n) /\ UNCHANGED localTypes

(* iload, lload, fload, dload, aload and their forms with a fixed index.   *)
Load(n) == /\ ~(n = 0 /\ localTypes[n] = "int")
           /\ LoadAny(n) /\ jump' = 0 /\ Faithful(TRUE)
LoadIndexed == localTypes[0] = "int" /\ LoadAny(0) /\ jump' = 0 /\ Faithful(TRUE)

(* iload_0 advances vm_pc before and after.                                *)
Iload0 == localTypes[0] = "int" /\ LoadAny(0) /\ jump' = 2 /\ Faithful(FALSE)

(* The stores with an index in the code move longs, istore_n an int.       *)
StoreAs(t, n) ==
  LET v == Last(types) IN
    /\ status = "run" /\ types # << >>
    /\ v = "long" => n + 1 < MAX_LOCALS
    /\ Executes("store", n) /\ Retyped(<<v>>, << >>)
    /\ Completes(Stored(Frame, t, n))
    /\ localTypes' = [m \in DOMAIN localTypes |->
         IF m = n THEN v
         ELSE IF (m = n + 1 /\ v = "long") \/ (m = n - 1 /\ localTypes[m] = "long")
         THEN "none" ELSE localTypes[m]]
    /\ Faithful(TRUE)
StoreIndexed(n) == StoreAs("long", n)
StoreFixed(n)   == types # << >> /\ StoreAs(AsMoved(Last(types)), n)

-----------------------------------------------------------------------------
(* Operands.                                                               *)

Dup ==
  /\ status = "run" /\ types # << >> /\ Last(types) # "long"
  /\ Executes("dup", 0) /\ Retyped(<< >>, <<Last(types)>>)
  /\ LET v == Read(TopWord(Frame), "long")
     IN  Completes(Pushed(Pushed(Popped(Frame, "long"), "long", v), "long", v))
  /\ UNCHANGED localTypes /\ Faithful(TRUE)

(* An instruction that takes operands of types takes and leaves gives.     *)
Exchange(takes, gives, f, c) ==
  /\ Has(takes) /\ Executes("exchange", [takes |-> takes, gives |-> gives])
  /\ Retyped(takes, [i \in DOMAIN gives |-> gives[i].type])
  /\ Completes(f) /\ UNCHANGED localTypes /\ Faithful(c)

(* println and print, by the descriptor: the operand's type and the one it *)
(* is popped as.                                                           *)
Printed == {<<"int", "long">>, <<"int", "char">>, <<"int", "int">>,
            <<"long", "long">>, <<"ref", "long">>}
Println(u, t) == Exchange(<<u>>, << >>, Popped(Frame, t), TRUE)

(* Fields are moved as longs, whatever their type: residue goes with them, *)
(* and the word w of a field is what was put there.                        *)
GetStatic(t, w) == Exchange(<< >>, <<Typed(t, Value(w, t))>>, Pushed(Frame, "long", w), TRUE)
PutStatic(t)    == Exchange(<<t>>, << >>, Popped(Frame, "long"), TRUE)
GetField(t, w)  == Exchange(<<"ref">>, <<Typed(t, Value(w, t))>>,
                            Pushed(Popped(Frame, "long"), "long", w), TRUE)
PutField(t)     == Exchange(<<"ref", t>>, << >>, Popped(Popped(Frame, "long"), "long"), TRUE)

(* newarray, anewarray and instanceof.                                     *)
NewArray(r)   == Exchange(<<"int">>, <<Typed("ref", r)>>, Pushed(Popped(Frame, "int"), "long", r), TRUE)
Instanceof(v) == Exchange(<<"ref">>, <<Typed("int", v)>>, Pushed(Popped(Frame, "long"), "int", v), TRUE)

(* iaload, baload, caload and saload pop the array's address as an int,    *)
(* the others as a long.  The element is one of the heap's.                *)
ArrayLoads == {<<"int", "int">>, <<"long", "int">>, <<"long", "long">>, <<"long", "ref">>}
Samples(t) == IF t = "ref" THEN Refs ELSE {0, -1}
Element(u, t, v) ==
  LET indexed == Popped(Frame, "int") IN
    Exchange(<<"ref", "int">>, <<Typed(t, v)>>, Pushed(Popped(indexed, u), AsMoved(t), v),
             Unsigned(LONG, Read(TopWord(indexed), u)) = TopWord(indexed))

(* i2f, i2d, l2f, l2d, f2i, f2l, f2d, d2i, d2l and d2f.                    *)
FloatConverts(t, u, v) ==
  Exchange(<<t>>, <<Typed(u, v)>>, Pushed(Popped(Frame, t), u, v), TRUE)

-----------------------------------------------------------------------------
(* Arithmetic.                                                             *)

Result(op, below, top) ==
  CASE op = "add" -> below + top
    [] op = "sub" -> below - top
    [] op = "mul" -> below * top
    [] op = "div" -> Quotient(below, top)

(* The quotient the processor cannot represent, or does not have.          *)
Traps(op, t, below, top) ==
  /\ op = "div"
  /\ IF top = 0 THEN TRUE ELSE Quotient(below, top) \notin SignedRange(Width[t])

Arithmetic(op, t) ==
  LET top   == Read(TopWord(Frame), t)
      once  == Popped(Frame, t)
      below == Read(TopWord(once), t)
  IN /\ Has(<<t, t>>) /\ ~Traps(op, t, below, top)
     /\ Executes(op, t) /\ Retyped(<<t, t>>, <<t>>)
     /\ Completes(Pushed(Popped(once, t), t, Result(op, below, top)))
     /\ UNCHANGED localTypes /\ Faithful(TRUE)

Sigfpe(t) ==
  LET once == Popped(Frame, t) IN
    /\ Has(<<t, t>>) /\ Traps("div", t, Read(TopWord(once), t), Read(TopWord(Frame), t))
    /\ status' = "sigfpe"
    /\ UNCHANGED <<cur_stack_frame, types, localTypes, instr, jump>>

-----------------------------------------------------------------------------
(* Conversions.                                                            *)

Converts(op, t, u, f, c) ==
  /\ Has(<<t>>) /\ Executes(op, 0) /\ Retyped(<<t>>, <<u>>)
  /\ Completes(f)
  /\ UNCHANGED localTypes /\ Faithful(c)

IntOnTop == Read(TopWord(Frame), "int")

(* i2l and i2b do nothing: the bits above an int become part of the long.  *)
I2l == Converts("i2l", "int", "long", Frame, Read(TopWord(Frame), "long") = IntOnTop)
I2b == Converts("i2b", "int", "int", Frame, IntOnTop \in SignedRange(BYTE))
L2i == Converts("l2i", "long", "int",
                Pushed(Popped(Frame, "long"), "int", Read(TopWord(Frame), "long")), TRUE)

(* i2c pushes a C char, i2s a short: the bits above stay 0.                *)
I2c == Converts("i2c", "int", "int", Pushed(Popped(Frame, "int"), "char", IntOnTop),
                Unsigned(SHORT, IntOnTop) < BYTE)
I2s == Converts("i2s", "int", "int", Pushed(Popped(Frame, "int"), "short", IntOnTop),
                Signed(SHORT, IntOnTop) >= 0)

-----------------------------------------------------------------------------
(* Branches: the offset is signed in the class file and read as a u2.      *)

Offsets == SignedRange(SHORT) \ {0}

IfEq(o) ==
  /\ Has(<<"int">>) /\ Executes("ifeq", o) /\ Retyped(<<"int">>, << >>)
  /\ cur_stack_frame' = Popped(Frame, "int")
  /\ jump' = IF IntOnTop = 0 THEN Unsigned(SHORT, o) ELSE 0
  /\ UNCHANGED localTypes /\ Faithful(IntOnTop = 0 => o > 0)

Goto(o) ==
  /\ status = "run" /\ Executes("goto", o)
  /\ jump' = Unsigned(SHORT, o)
  /\ UNCHANGED <<cur_stack_frame, types, localTypes>> /\ Faithful(o > 0)

Nop == /\ status = "run" /\ Executes("nop", 0) /\ Completes(Frame)
       /\ UNCHANGED <<types, localTypes>> /\ Faithful(TRUE)

-----------------------------------------------------------------------------
(* Invocation, followed into the method that is called: the arguments are  *)
(* popped as longs and stored in one local variable each.                  *)

Parameters == {"int", "long", "ref", "short"}  \* short, for S and B, is an int operand
Operand(p) == IF p = "short" THEN "int" ELSE p
Index(ts, i) == i - 1 + Cardinality({j \in 1 .. i - 1 : ts[j] = "long"})

(* get_arg_size does not know the letters S and B.                         *)
get_arg_size(desc) == Cardinality({i \in DOMAIN desc : desc[i] # "short"})

(* invokestatic, and with an object below the arguments, the others.       *)
Invoke(receiver, desc) ==
  LET ts == receiver \o [i \in DOMAIN desc |-> Operand(desc[i])]
      n  == Len(receiver) + get_arg_size(desc)
      args == [i \in 1 .. n |-> Frame.operand_stacks[Frame.operand_offset - n + i - 1]]
  IN /\ Has(ts) /\ Executes("invoke", ts)
     /\ Index(ts, Len(ts) + 1) <= MAX_LOCALS
     /\ types' = << >>
     /\ localTypes' = [m \in DOMAIN localTypes |->
          IF \E i \in DOMAIN ts : Index(ts, i) = m
          THEN ts[CHOOSE i \in DOMAIN ts : Index(ts, i) = m] ELSE "none"]
     /\ \E r \in Residue :
          Completes([operand_stacks |-> [k \in 0 .. MAX_STACK - 1 |-> r], operand_offset |-> 0,
                     local_variables |-> [m \in DOMAIN localTypes |-> IF m < n THEN args[m + 1] ELSE r]])
     /\ Faithful(/\ \A i \in DOMAIN desc : desc[i] # "short"
                 /\ \A i \in DOMAIN ts : Index(ts, i) = i - 1)

-----------------------------------------------------------------------------
(* Instructions whose handlers only advance vm_pc; dup_x1 pushes the top   *)
(* operand three times and leaves the one below where it is.               *)
EmptyConstants == {"aconst_null", "iconst_m1", "ldc_w"}
EmptyMoves     == {"pop", "pop2", "dup_x1", "dup_x2", "dup2", "dup2_x1", "dup2_x2", "swap"}
EmptyArithmetic == {"rem", "neg", "shl", "shr", "ushr", "and", "or", "xor", "iinc"}
EmptyComparisons == {"lcmp", "fcmp", "dcmp", "ifne", "iflt", "ifge", "ifgt", "ifle",
                     "if_icmp", "if_acmp"}
EmptyControl == {"jsr", "ret", "tableswitch", "lookupswitch", "ireturn", "lreturn",
                 "freturn", "dreturn", "areturn"}
EmptyObjects == {"arraylength", "athrow", "checkcast", "monitorenter", "monitorexit",
                 "wide", "ifnull", "ifnonnull", "goto_w", "jsr_w", "invokedynamic"}
NoHandler == {EmptyConstants, EmptyMoves, EmptyArithmetic, EmptyComparisons, EmptyControl,
              EmptyObjects}

Unimplemented ==
  /\ status = "run" /\ \E ops \in NoHandler : Executes("none", ops)
  /\ Completes(Frame) /\ UNCHANGED <<types, localTypes>> /\ Faithful(FALSE)

-----------------------------------------------------------------------------
Locals == 0 .. MAX_LOCALS - 1
Operators == {"add", "sub", "mul", "div"}

Next ==
  \/ Iconst \/ Lconst \/ Bipush \/ Sipush \/ Ldc \/ Ldc2 \/ New
  \/ \E n \in Variables : Load(n) \/ StoreIndexed(n) \/ StoreFixed(n)
  \/ LoadIndexed \/ Iload0
  \/ Dup \/ \E p \in Printed : Println(p[1], p[2])
  \/ \E t \in Types : PutStatic(t) \/ PutField(t)
  \/ \E t \in Types, w \in Contents : GetStatic(t, w) \/ GetField(t, w)
  \/ \E r \in Refs : NewArray(r)
  \/ \E v \in 0 .. 1 : Instanceof(v)
  \/ \E p \in ArrayLoads : \E v \in Samples(p[2]) : Element(p[1], p[2], v)
  \/ \E t, u \in {"int", "long"} : \E v \in Samples(u) : FloatConverts(t, u, v)
  \/ \E t \in {"int", "long"} : Sigfpe(t) \/ \E op \in Operators : Arithmetic(op, t)
  \/ I2l \/ I2b \/ L2i \/ I2c \/ I2s
  \/ \E o \in Offsets : IfEq(o) \/ Goto(o)
  \/ \E receiver \in {<< >>, <<"ref">>}, desc \in BoundedSeq(Parameters, MAX_STACK) :
       Invoke(receiver, desc)
  \/ Nop \/ Unimplemented

Spec == Init /\ [][Next]_vars

-----------------------------------------------------------------------------
(* Properties.                                                             *)

TypeOK ==
  /\ cur_stack_frame \in
       [operand_stacks : [0 .. MAX_STACK - 1 -> Words], operand_offset : 0 .. MAX_STACK,
        local_variables : [Locals -> Words]]
  /\ status = "run" => Frame.operand_offset = Len(types)
  /\ types \in BoundedSeq(Types, MAX_STACK)
  /\ localTypes \in [Locals -> Types \cup {"none"}]
  /\ status \in {"run", "lost", "sigfpe"}

(* What the slots mean, read with the types the class file was verified to *)
(* have there.                                                             *)
stack  == [i \in DOMAIN types |-> Typed(types[i], Value(Frame.operand_stacks[i - 1], types[i]))]
locals == [n \in Locals |->
             IF localTypes[n] = "none" THEN Typed("none", 0)
             ELSE Typed(localTypes[n], Value(Frame.local_variables[n], localTypes[n]))]

Jvm == INSTANCE JvmOperands WITH exact <- status # "lost"

(* Residue never shows: as long as none of the handlers that differ from   *)
(* Java has met an operand it differs on, each instruction does to the     *)
(* typed operands and locals exactly what Java says.                       *)
ImplementsJvm == Jvm!Spec

-----------------------------------------------------------------------------
(* For TLC: nothing is read from instr, jump and the locals that are not   *)
(* used, and nothing follows a step after which the comparison has ended.  *)
View == IF status # "run" THEN <<status>>
        ELSE <<Frame.operand_stacks, Frame.operand_offset, types,
               Restrict(Frame.local_variables, Variables), Restrict(localTypes, Variables)>>
=============================================================================
