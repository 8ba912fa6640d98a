------------------------------ MODULE JvmStack ------------------------------
(***************************************************************************)
(* What the invocation machinery of czvm promises to a Java program: one   *)
(* stack of activations.  Each activation is a method, the place it has    *)
(* reached and its local variables.  Only the top activation may change;   *)
(* a call pushes a fresh activation, and a return uncovers the caller      *)
(* exactly as the call left it.                                            *)
(***************************************************************************)
EXTENDS Naturals, Sequences

CONSTANTS Methods,    \* the methods of the loaded classes
          Positions,  \* the instructions of a method, numbered from 1
          Values      \* what a method's local variables may hold

VARIABLE stack        \* the activations, the running one last

Activation == [meth : Methods, at : Positions, local : Values]

Top == stack[Len(stack)]
Below == SubSeq(stack, 1, Len(stack) - 1)

Init == stack = << >>

(* A boot method (a class initialiser, or main) enters the empty stack.    *)
Start == /\ stack = << >>
         /\ \E m \in Methods, v \in Values :
              stack' = << [meth |-> m, at |-> 1, local |-> v] >>

(* The top activation executes: it moves on, and its locals may change.    *)
Execute == /\ stack # << >>
           /\ \E p \in {q \in Positions : q > Top.at}, v \in Values :
                stack' = Append(Below, [Top EXCEPT !.at = p, !.local = v])

(* A call leaves the caller at the next instruction.                       *)
Call == /\ stack # << >>
        /\ \E m \in Methods, v \in Values :
             stack' = Append(Append(Below, [Top EXCEPT !.at = @ + 1]),
                             [meth |-> m, at |-> 1, local |-> v])

Return == /\ stack # << >>
          /\ stack' = Below

Next == Start \/ Execute \/ Call \/ Return

Spec == Init /\ [][Next]_stack
=============================================================================
