----------------------------- MODULE JvmOperands -----------------------------
(***************************************************************************)
(* The operand stack and the local variables of one activation as the Java *)
(* virtual machine specification defines them: typed values, each          *)
(* instruction exact.  A machine that implements this may give up being    *)
(* exact, for good; what it does then is its own affair.                   *)
(***************************************************************************)
EXTENDS TwosComplement, SequencesExt

CONSTANTS BYTE, SHORT, INT, LONG,  \* widths of the types, by their number of values
          MAX_STACK, MAX_LOCALS    \* what the method declares

VARIABLES stack,   \* the operands, the top one last
          locals,  \* the local variables
          instr,   \* the instruction executed last: [op, arg]
          jump,    \* the offset of the branch it took, or 0
          exact    \* no instruction has gone wrong yet

vars == <<stack, locals, instr, jump, exact>>

Bits == [int |-> INT, long |-> LONG]
Typed(t, v) == [type |-> t, value |-> v]
UNUSABLE == Typed("none", 0)

Init == /\ stack = << >> /\ locals = [n \in 0 .. MAX_LOCALS - 1 |-> UNUSABLE]
        /\ instr = [op |-> "none", arg |-> 0] /\ jump = 0 /\ exact = TRUE

Types == [i \in DOMAIN stack |-> stack[i].type]
Top   == Last(stack).value
Second == Last(Front(stack)).value

(* The operands of types ts on top of the stack give way to those in vs.   *)
Replace(ts, vs) ==
  /\ IsSuffix(ts, Types)
  /\ stack' = SubSeq(stack, 1, Len(stack) - Len(ts)) \o vs
  /\ Len(stack') <= MAX_STACK
Straight == jump' = 0 /\ UNCHANGED <<locals, exact>>

Load(n) == /\ locals[n] # UNUSABLE
           /\ Replace(<< >>, << locals[n] >>) /\ Straight

(* A long takes two local variables, of which the second cannot be read.   *)
Store(n) ==
  LET v == Last(stack) IN
    /\ stack # << >> /\ Replace(<<v.type>>, << >>)
    /\ v.type = "long" => n + 1 < MAX_LOCALS
    /\ locals' = [m \in DOMAIN locals |->
         IF m = n THEN v
         ELSE IF (m = n + 1 /\ v.type = "long") \/ (m = n - 1 /\ locals[m].type = "long")
         THEN UNUSABLE ELSE locals[m]]
    /\ jump' = 0 /\ UNCHANGED exact

Binary(op, t) ==
  /\ op = "div" => Top # 0
  /\ LET r == CASE op = "add" -> Second + Top
                [] op = "sub" -> Second - Top
                [] op = "mul" -> Second * Top
                [] op = "div" -> Quotient(Second, Top)
     IN  Replace(<<t, t>>, << Typed(t, Signed(Bits[t], r)) >>)
  /\ Straight

Convert(op) ==
  /\ CASE op = "i2l" -> Replace(<<"int">>, << Typed("long", Top) >>)
       [] op = "l2i" -> Replace(<<"long">>, << Typed("int", Signed(INT, Top)) >>)
       [] op = "i2b" -> Replace(<<"int">>, << Typed("int", Signed(BYTE, Top)) >>)
       [] op = "i2s" -> Replace(<<"int">>, << Typed("int", Signed(SHORT, Top)) >>)
       [] op = "i2c" -> Replace(<<"int">>, << Typed("int", Unsigned(SHORT, Top)) >>)
  /\ Straight

Branch(op, offset) ==
  /\ IF op = "goto" THEN UNCHANGED stack ELSE Replace(<<"int">>, << >>)
  /\ jump' = IF op = "goto" \/ Top = 0 THEN offset ELSE 0
  /\ UNCHANGED <<locals, exact>>

(* The arguments of types ts become the first local variables of a new     *)
(* activation; a long takes two.                                           *)
Enter(ts) ==
  LET index(i) == i - 1 + Cardinality({j \in 1 .. i - 1 : ts[j] = "long"}) IN
    /\ IsSuffix(ts, Types)
    /\ stack' = << >>
    /\ locals' = [n \in DOMAIN locals |->
         IF \E i \in DOMAIN ts : index(i) = n
         THEN stack[Len(stack) - Len(ts) + (CHOOSE i \in DOMAIN ts : index(i) = n)]
         ELSE UNUSABLE]
    /\ jump' = 0 /\ UNCHANGED exact

Execute(op, arg) ==
  \/ op = "push"  /\ Replace(<< >>, <<arg>>) /\ Straight
  \/ op = "exchange" /\ Replace(arg.takes, arg.gives) /\ Straight
  \/ op = "dup"   /\ Types # << >> /\ Last(Types) # "long"
                  /\ Replace(<< >>, << Last(stack) >>) /\ Straight
  \/ op = "nop"   /\ Replace(<< >>, << >>) /\ Straight
  \/ op = "load"  /\ Load(arg)
  \/ op = "store" /\ Store(arg)
  \/ op \in {"add", "sub", "mul", "div"} /\ Binary(op, arg)
  \/ op \in {"i2l", "l2i", "i2b", "i2s", "i2c"} /\ Convert(op)
  \/ op = "invoke" /\ Enter(arg)
  \/ op \in {"goto", "ifeq"} /\ Branch(op, arg)

GiveUp == exact' = FALSE

Next == exact /\ (Execute(instr'.op, instr'.arg) \/ GiveUp)

Spec == Init /\ [][Next]_vars
=============================================================================
