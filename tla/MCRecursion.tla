---------------------------- MODULE MCRecursion ----------------------------
(***************************************************************************)
(* Programs with recursion (directly, and through a second class), with a  *)
(* class whose <clinit> runs on first use, and with an invokestatic across *)
(* classes.  The C stack is small enough to overflow.                      *)
(***************************************************************************)
EXTENDS StackRefinement

CONSTANTS Main, Other, Lazy,          \* the classes
          main, rec, mutual, clinit, init   \* the methods

MCMethods == {main, rec, mutual, clinit, init}
MCClasses == {Main, Other, Lazy}
MCClassOf == [m \in MCMethods |-> CASE m \in {main, rec} -> Main
                                    [] m = mutual -> Other
                                    [] OTHER -> Lazy]
MCClinit  == [c \in MCClasses |-> IF c = Lazy THEN clinit ELSE NULL]
MCArgs    == [m \in MCMethods |-> IF m \in {rec, mutual, init} THEN 1 ELSE 0]
(* In Main's constant pool, mutual's descriptor index names something else *)
MCArgsRead == [c \in MCClasses |->
                 IF c = Main THEN [MCArgs EXCEPT ![mutual] = 2] ELSE MCArgs]
MCBoot    == <<main>>

Ins(op, height)         == [op |-> op, callee |-> rec, target |-> 0, h |-> height]
Invocation(op, m, height) == [op |-> op, callee |-> m, target |-> 0, h |-> height]
Branch(op, n, height)   == [op |-> op, callee |-> rec, target |-> n, h |-> height]
Body(max, is) == [max_stack |-> max, body |-> is]

Trivial == Body(0, <<Ins("return", 0)>>)

(* f(x) { if (..) f(y); }  with and without an operand pending at the call *)
Recurse(op, m) ==
  {Body(1, <<Ins("push", 0), Branch("ifeq", 5, 1), Ins("push", 0),
             Invocation(op, m, 1), Ins("return", 0)>>),
   Body(2, <<Ins("push", 0), Ins("push", 1), Branch("ifeq", 6, 2), Ins("push", 1),
             Invocation(op, m, 2), Ins("store", 1), Ins("return", 0)>>)}

CallRec     == Body(1, <<Ins("push", 0), Invocation("static", rec, 1), Ins("return", 0)>>)
(* Two calls in a row, as a loop-free test program makes them.             *)
CallTwice   == Body(2, <<Ins("push", 0), Ins("push", 1), Invocation("static", rec, 2),
                         Invocation("virtual", rec, 1), Ins("return", 0)>>)
Construct   == Body(2, <<Invocation("new", init, 0), Ins("push", 1), Invocation("special", init, 2),
                         Ins("store", 1), Ins("return", 0)>>)
CrossStatic == Body(1, <<Ins("push", 0), Invocation("static", mutual, 1), Ins("return", 0)>>)

Program(mainBody, recBody, mutualBody, clinitBody) ==
  [m \in MCMethods |-> CASE m = main -> mainBody [] m = rec -> recBody
                         [] m = mutual -> mutualBody [] m = clinit -> clinitBody
                         [] m = init -> Body(1, <<Ins("push", 0), Ins("skip", 1),
                                                  Ins("return", 0)>>)]

RecursivePrograms ==
  {Program(mb, rb, ub, Trivial) :
     mb \in {CallRec, CallTwice},
     rb \in Recurse("static", rec) \cup Recurse("virtual", mutual),
     ub \in Recurse("virtual", rec)}
LazyPrograms ==
  {Program(Construct, Trivial, Trivial, cb) :
     cb \in {Trivial, Body(1, <<Ins("push", 0), Ins("print", 1), Ins("return", 0)>>),
             CallRec}}
  \cup {Program(CallRec, Construct, Trivial, Trivial)}
CrossPrograms == {Program(CrossStatic, Trivial, ub, Trivial) : ub \in Recurse("special", mutual)}
AllPrograms == RecursivePrograms \cup LazyPrograms \cup CrossPrograms

(* interpreter.c:1997 says an invocation records the previous stack frame: *)
(* the caller finds its activation, locals included, as it left it.        *)
PrevFrameRecorded == ImplementsStack
=============================================================================
