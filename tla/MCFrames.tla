------------------------------ MODULE MCFrames ------------------------------
(***************************************************************************)
(* Every short program without recursion and without lazily initialised    *)
(* classes: a main of up to MainLength instructions that constructs an     *)
(* object (constructor `a') and calls `b', which `a' calls too, after a    *)
(* <clinit> of the main class.  Class A is loaded on first use.            *)
(***************************************************************************)
EXTENDS StackRefinement

CONSTANTS Main, A,              \* the classes
          clinit, main, a, b,   \* the methods
          MainLength            \* instructions of main, without its return

MCMethods == {clinit, main, a, b}
MCClasses == {Main, A}
MCClassOf == [m \in MCMethods |-> IF m \in {clinit, main} THEN Main ELSE A]
MCClinit  == [c \in MCClasses |-> IF c = Main THEN clinit ELSE NULL]
MCArgs    == [m \in MCMethods |-> IF m \in {a, b} THEN 1 ELSE 0]
MCArgsRead == [c \in MCClasses |-> MCArgs]
MCBoot    == <<clinit, main>>

(* Raw instructions; heights are computed along the code.                  *)
I(op)       == [op |-> op, callee |-> a, target |-> 0]
C(op, m)    == [op |-> op, callee |-> m, target |-> 0]
J(op, n)    == [op |-> op, callee |-> a, target |-> n]

Verified(ops) ==
  LET n == Len(ops)
      height[i \in 1 .. n] ==
        IF i = 1 THEN 0
        ELSE After([op |-> ops[i - 1].op, callee |-> ops[i - 1].callee,
                    target |-> 0, h |-> height[i - 1]])
      highest[i \in 0 .. n] ==
        IF i = 0 THEN 0
        ELSE IF height[i] > highest[i - 1] THEN height[i] ELSE highest[i - 1]
  IN [max_stack |-> highest[n],
      body |-> [i \in 1 .. n |-> [op |-> ops[i].op, callee |-> ops[i].callee,
                                  target |-> ops[i].target, h |-> height[i]]]]

MainOps(n) == {I("push"), I("store"), I("new"), C("special", a), C("virtual", b),
               J("ifeq", n + 1)}
(* Main bodies that leave the stack empty, as a compiler's do.              *)
Balanced(mc) == /\ mc.body[Len(mc.body)].h = 0
                /\ \A n \in 1 .. Len(mc.body) : WellFormedAt(main, mc, n)
MainBodies == {mc \in UNION {{Verified(Append(s, I("return"))) : s \in [1 .. n -> MainOps(n)]} :
                     n \in 1 .. MainLength} : Balanced(mc)}
ClinitBodies == {Verified(<<I("return")>>),
                 Verified(<<I("push"), C("virtual", b), I("return")>>)}
ABodies == {Verified(<<I("push"), I("skip"), I("return")>>),
            Verified(<<I("push"), I("push"), C("static", b), I("store"), I("return")>>)}
BBodies == {Verified(<<I("push"), J("goto", 3), I("print"), I("return")>>),
            Verified(<<I("push"), I("store"), I("return")>>)}

Candidates ==
  {[m \in MCMethods |-> CASE m = main -> mb [] m = clinit -> cb
                          [] m = a -> ab [] m = b -> bb] :
     mb \in MainBodies, cb \in ClinitBodies, ab \in ABodies, bb \in BBodies}

MCPrograms == Candidates
=============================================================================
