---------------------------- MODULE FramesProofs ----------------------------
(***************************************************************************)
(* The interpreter's registers stay coherent and no handler pops from an   *)
(* empty operand buffer, for every program, class layout and C stack.      *)
(*                                                                         *)
(* The argument: at every moment there is a set S of frame copies, the     *)
(* SUSPENDED ones, that prev links close off, that neither the current     *)
(* frame nor the current environment belongs to, and each of which still   *)
(* is what its invocation saved.  A call adds the copy it makes to S; a    *)
(* return takes its copy, and what was made later, out of S.               *)
(*                                                                         *)
(* The second part is about the chain of frames.  The links of all frames, *)
(* reachable or not, form a forest: the copy an invocation makes links to  *)
(* an earlier copy only, and a static frame to a copy.  So the walk over   *)
(* prev ends, a call adds one frame to it and a return takes one away.     *)
(* From this follow what is at the bottom of the chain, and what           *)
(* jvm_stack_depth counts.                                                 *)
(***************************************************************************)
EXTENDS Frames, Foundations

(* Frame a is linked to a copy in S that its return address fits, or it is *)
(* the frame of a root and linked to nothing.                              *)
Linked(a, S) ==
  \/ frame[a].prev = NULL /\ frame[a].ret = NULL
  \/ /\ frame[a].prev \in S
     /\ frame[a].ret \in Addr
     /\ frame[a].ret.at \in 1 .. Len(code[frame[a].ret.meth].body)
     /\ frame[frame[a].prev].buf = frame[a].ret.meth
     /\ env[frame[a].prev].cp = ClassOf[frame[a].ret.meth]
     /\ OwnStatics => code[frame[a].ret.meth].body[frame[a].ret.at].h
                        <= frame[frame[a].prev].off

SameLink(a, e) == frame[a].prev # NULL => env[e].prev = frame[a].prev

Suspended(S) ==
  /\ S \subseteq 1 .. invokes
  /\ cur \in Methods \cup 1 .. invokes /\ cur \notin S
  /\ curEnv \in 0 .. invokes /\ curEnv \notin S
  /\ Linked(cur, S) /\ SameLink(cur, curEnv)
  /\ \A k \in S : /\ Linked(k, S) /\ SameLink(k, k)
                  /\ frame[k].prev # NULL => frame[k].prev < k

StaticFrames ==
  /\ \A m \in Methods : frame[m].buf = m
  /\ \A m \in Roots : frame[m].prev = NULL /\ frame[m].ret = NULL

ExecutionInv ==
  Executing => /\ pc \in Addr
               /\ \E S \in SUBSET Nat : Suspended(S)
               /\ OwnStatics => Instr.h <= Top.off

IInv == /\ TypeOK /\ StaticFrames /\ ExecutionInv /\ CoherentRegisters
        /\ OwnStatics => status # "underrun"

-----------------------------------------------------------------------------
(* Facts about the program text.                                           *)

(* The instruction at a valid address is an instruction of a well-formed   *)
(* program.                                                                *)
LEMMA InstructionFacts ==
  ASSUME NEW p \in Programs, NEW m \in Methods, NEW n \in 1 .. Len(p[m].body)
  PROVE  /\ p \in [Methods -> MethodCode]
         /\ p[m] \in MethodCode
         /\ p[m].body[n] \in Instruction
         /\ WellFormedAt(m, p[m], n)
<1>1. p \in [Methods -> MethodCode] /\ WellFormed(p)
  BY ProgramAssumption
<1>2. p[m] \in MethodCode
  BY <1>1
<1>3. p[m].body \in Seq(Instruction)
  BY <1>2 DEF MethodCode
<1>4. p[m].body[n] \in Instruction
  BY <1>3
<1> QED BY <1>1, <1>2, <1>4 DEF WellFormed

(* The first instruction of every method exists and needs no operand.      *)
LEMMA EntryFacts ==
  ASSUME NEW p \in Programs, NEW m \in Methods
  PROVE  /\ 1 \in 1 .. Len(p[m].body)
         /\ p[m].body[1].h = 0
<1>1. p \in [Methods -> MethodCode] /\ WellFormed(p)
  BY ProgramAssumption
<1>2. p[m].body \in Seq(Instruction)
  BY <1>1 DEF MethodCode
<1>3. Len(p[m].body) \in Nat
  BY <1>2
<1> QED BY <1>1, <1>3 DEF WellFormed

(* Roots are methods.                                                      *)
LEMMA RootsAreMethods == Roots \subseteq Methods
<1>1. ASSUME NEW n \in DOMAIN Boot PROVE Boot[n] \in Methods
  BY MethodAssumption
<1>2. {Boot[n] : n \in DOMAIN Boot} \subseteq Methods
  BY <1>1
<1> QED BY <1>2, MethodAssumption DEF Roots

(* A boot method is a root.                                                *)
LEMMA BootIsRoot == ASSUME NEW n \in 0 .. Len(Boot), n < Len(Boot)
                    PROVE  Boot[n + 1] \in Roots /\ n + 1 \in 0 .. Len(Boot)
<1>1. Boot \in Seq(Methods) /\ Len(Boot) \in Nat
  BY MethodAssumption
<1>2. n + 1 \in DOMAIN Boot
  BY <1>1
<1> QED BY <1>1, <1>2 DEF Roots

-----------------------------------------------------------------------------
(* The invariant holds before the first boot method.                       *)
LEMMA InitInv == Init => IInv
<1> SUFFICES ASSUME Init PROVE IInv
  OBVIOUS
<1> USE NameAssumption, MethodAssumption, LimitAssumption
<1>1. PICK g \in [Methods -> Garbage] :
        frame = [m \in Methods |-> [buf |-> m, off |-> g[m], ret |-> NULL, prev |-> NULL]]
  BY DEF Init
<1>2. \A m \in Methods : g[m] \in Nat
  BY <1>1
<1>3. Methods \cup 1 .. invokes = Methods /\ 0 .. invokes = {0}
  BY DEF Init
<1>4. frame \in [Methods \cup 1 .. invokes -> Frame]
  BY <1>1, <1>2, <1>3 DEF Frame
<1>5. env \in [0 .. invokes -> Environment]
  BY <1>3 DEF Init, Environment
<1>6. 0 \in 0 .. LoopLimit /\ 0 \in 0 .. Len(Boot)
  BY SMT
<1>7. TypeOK
  BY <1>4, <1>5, <1>6 DEF Init, TypeOK
<1>8. StaticFrames
  BY <1>1, RootsAreMethods DEF StaticFrames
<1>9. ~Executing /\ status # "underrun"
  BY DEF Init, Executing
<1> QED BY <1>7, <1>8, <1>9 DEF IInv, ExecutionInv, CoherentRegisters

-----------------------------------------------------------------------------
(* What IInv says of the instruction about to execute.                     *)
LEMMA ExecutionFacts ==
  ASSUME IInv, Executing
  PROVE  /\ code \in Programs /\ code[pc.meth].body \in Seq(Instruction)
         /\ pc \in Addr /\ pc.meth \in Methods /\ pc.at \in 1 .. Len(code[pc.meth].body)
         /\ Instr \in Instruction
         /\ WellFormedAt(pc.meth, code[pc.meth], pc.at)
         /\ cur \in Methods \cup 1 .. invokes /\ Top \in Frame /\ Top.buf = pc.meth
         /\ curEnv \in 0 .. invokes /\ env[curEnv] \in Environment
         /\ env[curEnv].cp = ClassOf[pc.meth]
         /\ OwnStatics => Instr.h <= Top.off
<1>1. TypeOK /\ pc \in Addr /\ CoherentRegisters
  BY DEF IInv, ExecutionInv
<1>2. pc.meth \in Methods /\ pc.at \in 1 .. Len(code[pc.meth].body)
  BY <1>1 DEF Addr, CoherentRegisters
<1>3. code \in Programs
  BY <1>1 DEF TypeOK
<1>4. /\ code[pc.meth] \in MethodCode /\ Instr \in Instruction
      /\ WellFormedAt(pc.meth, code[pc.meth], pc.at)
  BY <1>2, <1>3, InstructionFacts DEF Instr
<1>5. PICK S \in SUBSET Nat : Suspended(S)
  BY DEF IInv, ExecutionInv
<1>6. cur \in Methods \cup 1 .. invokes /\ curEnv \in 0 .. invokes
  BY <1>5 DEF Suspended
<1>7. Top \in Frame /\ env[curEnv] \in Environment
  BY <1>1, <1>6 DEF TypeOK, Top
<1>8. Top.buf = pc.meth /\ env[curEnv].cp = ClassOf[pc.meth]
  BY <1>1 DEF CoherentRegisters
<1>9. OwnStatics => Instr.h <= Top.off
  BY DEF IInv, ExecutionInv
<1> QED BY <1>1, <1>2, <1>3, <1>4, <1>6, <1>7, <1>8, <1>9 DEF MethodCode

(* Where every invokestatic reads the right descriptor, a handler pops no  *)
(* more than the verified height, and what it leaves is the next height.   *)
LEMMA PoppedFacts ==
  ASSUME IInv, Executing
  PROVE  /\ Popped \in Nat
         /\ OwnStatics => /\ Popped <= Pops(Instr) /\ Popped <= Top.off
                          /\ Instr.op \in Calls => Popped = Pops(Instr)
         /\ Instr.op \in {"store", "print", "ifeq"} =>
              Popped = 1 /\ Pops(Instr) = 1
<1> USE ExecutionFacts
<1>1. Instr.callee \in Methods /\ Instr.h \in Nat /\ Top.off \in Nat
  BY DEF Instruction, Frame
<1>2. Args[Instr.callee] \in Nat /\ ArgsRead[ClassOf[pc.meth]][Instr.callee] \in Nat
  BY <1>1, MethodAssumption
<1>3. OwnStatics /\ Instr.op = "static" =>
        ArgsRead[ClassOf[pc.meth]][Instr.callee] = Args[Instr.callee]
  BY DEF OwnStatics, Instr
<1>4. Pops(Instr) <= Instr.h
  BY DEF WellFormedAt, Instr
<1>5. Popped = CASE Instr.op \in {"store", "print", "ifeq"} -> 1
            [] Instr.op = "static" -> ArgsRead[ClassOf[pc.meth]][Instr.callee]
            [] Instr.op \in Calls -> Args[Instr.callee]
            [] OTHER -> 0
  BY DEF Popped
<1>6. CASE Instr.op \in {"store", "print", "ifeq"}
  BY <1>1, <1>4, <1>5, <1>6 DEF Pops, Calls
<1>7. CASE Instr.op = "static"
  BY <1>1, <1>2, <1>3, <1>4, <1>5, <1>7 DEF Pops, Calls
<1>8. CASE Instr.op \in {"virtual", "special"}
  BY <1>1, <1>2, <1>4, <1>5, <1>8 DEF Pops, Calls
<1>9. CASE Instr.op \notin Calls \cup {"store", "print", "ifeq"}
  BY <1>1, <1>4, <1>5, <1>9 DEF Pops, Calls
<1> QED BY <1>6, <1>7, <1>8, <1>9 DEF Calls

(* A step inside a method: the pc moves to an instruction of the method    *)
(* that needs no more operands than the step leaves.                       *)
LEMMA LocalStep ==
  ASSUME IInv, Executing,
         NEW n \in Nat, NEW p \in 1 .. Len(code[pc.meth].body),
         OwnStatics => code[pc.meth].body[p].h <= n,
         frame' = [frame EXCEPT ![cur].off = n],
         pc' = [pc EXCEPT !.at = p],
         UNCHANGED <<code, cur, curEnv, env, depth, loops, boot, invokes, status>>,
         locals' \in [Methods -> Nat], loaded' \subseteq Classes
  PROVE  IInv'
<1> USE ExecutionFacts
<1>1. TypeOK /\ StaticFrames
  BY DEF IInv
<1>2. frame \in [Methods \cup 1 .. invokes -> Frame]
  BY <1>1 DEF TypeOK
<1>3. /\ \A a \in Methods \cup 1 .. invokes :
           /\ frame'[a].buf = frame[a].buf /\ frame'[a].ret = frame[a].ret
           /\ frame'[a].prev = frame[a].prev
           /\ a # cur => frame'[a] = frame[a]
      /\ frame'[cur].off = n
      /\ frame' \in [Methods \cup 1 .. invokes -> Frame]
  BY <1>2 DEF Frame
<1>4. pc' \in Addr /\ pc'.meth = pc.meth /\ pc'.at = p
  BY DEF Addr
<1>5. TypeOK'
  BY <1>1, <1>3, <1>4 DEF TypeOK, Frame, Environment
<1>6. StaticFrames'
  BY <1>1, <1>3, RootsAreMethods DEF StaticFrames
<1>7. OwnStatics' = OwnStatics
  BY DEF OwnStatics
<1>8. PICK S \in SUBSET Nat : Suspended(S)
  BY DEF IInv, ExecutionInv
<1>9. ASSUME NEW a \in S \cup {cur} PROVE Linked(a, S)'
  <2>1. a \in Methods \cup 1 .. invokes /\ Linked(a, S)
    BY <1>8, <1>9 DEF Suspended
  <2>2. frame[a].prev \in S => frame'[frame[a].prev] = frame[frame[a].prev]
    BY <1>3, <1>8 DEF Suspended
  <2> QED BY <2>1, <2>2, <1>3, <1>7 DEF Linked
<1>10. Suspended(S)'
  BY <1>3, <1>8, <1>9 DEF Suspended, SameLink
<1>11. Instr'.h <= Top'.off \/ ~OwnStatics
  BY <1>3, <1>4 DEF Instr, Top
<1>12. ExecutionInv'
  BY <1>4, <1>7, <1>10, <1>11 DEF ExecutionInv
<1>13. CoherentRegisters'
  BY <1>3, <1>4 DEF CoherentRegisters, Top
<1> QED BY <1>5, <1>6, <1>7, <1>12, <1>13 DEF IInv

(* A step that only stops the process.                                     *)
LEMMA HaltStep ==
  ASSUME IInv, NEW how \in {"exit", "segv", "overrun", "underrun"}, Halt(how),
         how = "underrun" => ~OwnStatics
  PROVE  IInv'
<1>1. ~Executing' /\ TypeOK' /\ StaticFrames'
  BY DEF Halt, Executing, IInv, TypeOK, Frame, Environment, StaticFrames
<1>2. OwnStatics' => status' # "underrun"
  BY DEF Halt, IInv, OwnStatics
<1> QED BY <1>1, <1>2 DEF IInv, ExecutionInv, CoherentRegisters

(* The virtual machine enters a root at its first instruction, with the    *)
(* root's frame and the current environment, and nothing is suspended.     *)
LEMMA EnterRoot ==
  ASSUME IInv, NEW m \in Roots, curEnv \in 0 .. invokes,
         cur' = m, pc' = [meth |-> m, at |-> 1],
         env' = [env EXCEPT ![curEnv].cp = ClassOf[m]],
         UNCHANGED <<code, frame, curEnv, locals, invokes, status>>,
         depth' \in Nat, loops' \in 0 .. LoopLimit, boot' \in 0 .. Len(Boot),
         loaded' \subseteq Classes, status = "run"
  PROVE  IInv'
<1>1. TypeOK /\ StaticFrames /\ m \in Methods
  BY RootsAreMethods DEF IInv
<1>2. ClassOf[m] \in Classes
  BY <1>1, MethodAssumption
<1>3. env' \in [0 .. invokes -> Environment] /\ env'[curEnv].cp = ClassOf[m]
  BY <1>1, <1>2 DEF TypeOK, Environment
<1>4. /\ frame[m] \in Frame /\ frame[m].buf = m
      /\ frame[m].prev = NULL /\ frame[m].ret = NULL
  BY <1>1 DEF StaticFrames, TypeOK
<1>5. code \in Programs
  BY <1>1 DEF TypeOK
<1>6. 1 \in 1 .. Len(code[m].body) /\ code[m].body[1].h = 0
  BY <1>1, <1>5, EntryFacts
<1>7. pc' \in Addr
  BY <1>1 DEF Addr
<1>8. TypeOK'
  BY <1>1, <1>3, <1>7 DEF TypeOK, Frame, Environment
<1>9. StaticFrames'
  BY <1>1 DEF StaticFrames
<1>10. Suspended({})'
  BY <1>1, <1>4 DEF Suspended, Linked, SameLink
<1>11. Instr'.h <= Top'.off
  BY <1>4, <1>6 DEF Instr, Top, Frame
<1>12. ExecutionInv' /\ CoherentRegisters'
  BY <1>3, <1>4, <1>6, <1>7, <1>10, <1>11 DEF ExecutionInv, CoherentRegisters, Top
<1> QED BY <1>8, <1>9, <1>12 DEF IInv

(* An invocation suspends the copy it makes of the caller.                 *)
LEMMA InvokeStep ==
  ASSUME IInv, NEW m \in Methods, Invoke(m)
  PROVE  IInv'
<1>k. PICK k : k = invokes + 1
  OBVIOUS
<1> DEFINE caller == [Top EXCEPT !.off = Top.off - Popped]
           static == IF m = cur THEN caller ELSE frame[m]
           at     == Following(pc)
<1>1. /\ Executing /\ Instr.op \in Calls /\ Instr.callee = m
      /\ Popped <= Top.off /\ loops < LoopLimit
      /\ frame' = [a \in DOMAIN frame \cup {k} |->
                     IF a = m THEN [static EXCEPT !.ret = at, !.prev = k]
                     ELSE IF a \in {k, cur} THEN caller ELSE frame[a]]
      /\ env' = [e \in DOMAIN env \cup {k} |->
                   IF e = k THEN env[curEnv]
                   ELSE IF e = curEnv THEN [cp |-> ClassOf[m], prev |-> k]
                   ELSE env[e]]
      /\ invokes' = k /\ cur' = m /\ pc' = [meth |-> m, at |-> 1]
      /\ locals' = IF Popped > 0 THEN [locals EXCEPT ![m] = k] ELSE locals
      /\ loaded' = loaded \cup {ClassOf[m]}
      /\ depth' = depth + 1 /\ loops' = loops + 1
      /\ UNCHANGED <<code, curEnv, boot, status>>
  BY <1>k DEF Invoke
<1> USE <1>1, ExecutionFacts, PoppedFacts
<1>2. TypeOK /\ StaticFrames /\ CoherentRegisters /\ invokes \in Nat
      /\ status = "run" /\ k \in Nat /\ k = invokes + 1
  <2>1. TypeOK /\ StaticFrames /\ CoherentRegisters
    BY DEF IInv
  <2>2. invokes \in Nat
    BY <2>1 DEF TypeOK
  <2>3. status = "run" /\ k = invokes + 1
    BY <1>k DEF Executing
  <2> QED BY <2>1, <2>2, <2>3
<1>3. /\ DOMAIN frame = Methods \cup 1 .. invokes
      /\ DOMAIN env = 0 .. invokes
      /\ frame \in [Methods \cup 1 .. invokes -> Frame]
      /\ env \in [0 .. invokes -> Environment]
  BY <1>2 DEF TypeOK
<1>4. /\ DOMAIN frame \cup {k} = Methods \cup 1 .. invokes'
      /\ DOMAIN env \cup {k} = 0 .. invokes'
      /\ k \notin Methods /\ k \in 1 .. invokes' /\ k \notin 0 .. invokes
  BY <1>2, <1>3, NameAssumption
<1>5. PICK S \in SUBSET Nat : Suspended(S)
  BY DEF IInv, ExecutionInv
<1>6. m \notin Roots /\ ClassOf[m] \in Classes /\ m \in DOMAIN frame
  BY <1>3, MethodAssumption DEF WellFormedAt, Instr, Calls
<1>7. /\ at \in Addr /\ at.meth = pc.meth /\ at.at = pc.at + 1
      /\ at.at \in 1 .. Len(code[pc.meth].body)
      /\ OwnStatics => code[pc.meth].body[at.at].h <= caller.off
  <2>1. at \in Addr /\ at.meth = pc.meth /\ at.at = pc.at + 1
    BY DEF Following, Addr
  <2>2. /\ pc.at < Len(code[pc.meth].body)
        /\ code[pc.meth].body[pc.at + 1].h = After(Instr)
    BY DEF WellFormedAt, Instr, Calls
  <2>3. After(Instr) = Instr.h - Pops(Instr)
    <3>1. Pops(Instr) = Args[Instr.callee]
      BY DEF Pops, Calls
    <3>2. Args[Instr.callee] \in Nat /\ Instr.h \in Nat
      BY MethodAssumption DEF Instruction
    <3> QED BY <3>1, <3>2 DEF After, Calls
  <2>4. Instr.h \in Nat /\ Top.off \in Nat /\ caller.off = Top.off - Popped
    BY DEF Instruction, Frame
  <2>5. OwnStatics => After(Instr) <= caller.off
    BY <2>3, <2>4
  <2>6. Len(code[pc.meth].body) \in Nat
    OBVIOUS
  <2> QED BY <2>1, <2>2, <2>5, <2>6
<1>8. /\ caller.buf = pc.meth /\ caller.prev = Top.prev /\ caller.ret = Top.ret
      /\ caller.off \in Nat
      /\ caller \in [buf : Methods, off : Nat, ret : Addr \cup {NULL},
                     prev : 1 .. invokes' \cup {NULL}]
  <2>1. /\ Top.buf \in Methods /\ Top.off \in Nat /\ Top.ret \in Addr \cup {NULL}
        /\ Top.prev \in 1 .. invokes \cup {NULL}
        /\ Top = [buf |-> Top.buf, off |-> Top.off, ret |-> Top.ret, prev |-> Top.prev]
    BY DEF Frame
  <2>2. caller = [buf |-> Top.buf, off |-> Top.off - Popped, ret |-> Top.ret,
                  prev |-> Top.prev]
    BY <2>1
  <2>3. Top.off - Popped \in Nat
    BY <2>1
  <2>4. Top.prev \in 1 .. invokes' \cup {NULL}
    BY <2>1, <1>2
  <2> QED BY <2>1, <2>2, <2>3, <2>4
<1>9. /\ static.buf = m
      /\ static \in [buf : Methods, off : Nat, ret : Addr \cup {NULL},
                     prev : 1 .. invokes' \cup {NULL}]
  BY <1>2, <1>3, <1>8 DEF Frame, StaticFrames, Top
<1> HIDE DEF caller
<1>10. /\ frame'[m] = [static EXCEPT !.ret = at, !.prev = k]
       /\ frame'[k] = caller
       /\ \A a \in DOMAIN frame : a \notin {m, cur} => frame'[a] = frame[a]
       /\ cur # m => frame'[cur] = caller
  BY <1>3, <1>4, <1>6
<1> HIDE DEF static, at
<1>11. /\ frame'[m].buf = m /\ frame'[m].ret = at /\ frame'[m].prev = k
       /\ frame'[m].off \in Nat
       /\ frame'[m] \in [buf : Methods, off : Nat, ret : Addr \cup {NULL},
                         prev : 1 .. invokes' \cup {NULL}]
  BY <1>4, <1>7, <1>9, <1>10
<1>12. /\ env'[k] = env[curEnv] /\ env'[curEnv] = [cp |-> ClassOf[m], prev |-> k]
       /\ \A e \in 0 .. invokes : e # curEnv => env'[e] = env[e]
  BY <1>3, <1>4
<1>13. frame' \in [Methods \cup 1 .. invokes' -> Frame']
  <2>1. \A a \in Methods \cup 1 .. invokes :
          frame[a] \in [buf : Methods, off : Nat, ret : Addr \cup {NULL},
                        prev : 1 .. invokes' \cup {NULL}]
    BY <1>2, <1>3 DEF Frame
  <2>2. \A a \in DOMAIN frame \cup {k} :
          frame'[a] \in [buf : Methods, off : Nat, ret : Addr \cup {NULL},
                         prev : 1 .. invokes' \cup {NULL}]
    BY <2>1, <1>3, <1>8, <1>10, <1>11
  <2> QED BY <2>2, <1>4 DEF Frame
<1>14. env' \in [0 .. invokes' -> Environment']
  <2>1. \A e \in 0 .. invokes :
          env[e] \in [cp : Classes \cup {NULL}, prev : 1 .. invokes' \cup {NULL, WILD}]
    BY <1>2, <1>3 DEF Environment
  <2>2. \A e \in DOMAIN env \cup {k} :
          env'[e] \in [cp : Classes \cup {NULL}, prev : 1 .. invokes' \cup {NULL, WILD}]
    BY <2>1, <1>3, <1>4, <1>6, <1>12
  <2> QED BY <2>2, <1>4 DEF Environment
<1>15. TypeOK'
  <2>1. pc' \in Addr /\ cur' \in Methods /\ curEnv' \in 0 .. invokes'
    BY <1>2 DEF Addr
  <2>2. loops' \in 0 .. LoopLimit /\ depth' \in Nat /\ invokes' \in Nat
    <3>1. loops \in 0 .. LoopLimit /\ depth \in Nat /\ LoopLimit \in Nat
      BY <1>2, LimitAssumption DEF TypeOK
    <3> QED BY <3>1, <1>2
  <2>3. locals' \in [Methods -> Nat] /\ loaded' \subseteq Classes
    BY <1>2, <1>6 DEF TypeOK
  <2> QED BY <1>2, <1>13, <1>14, <2>1, <2>2, <2>3 DEF TypeOK
<1>16. StaticFrames'
  <2>1. ASSUME NEW b \in Methods
        PROVE  frame'[b].buf = b
    <3>1. frame[b].buf = b /\ b \in DOMAIN frame
      BY <1>2, <1>3 DEF StaticFrames
    <3>2. CASE b = m
      BY <3>2, <1>11
    <3>3. CASE b # m /\ b = cur
      BY <3>1, <3>3, <1>8, <1>10 DEF Top
    <3>4. CASE b # m /\ b # cur
      BY <3>1, <3>4, <1>10
    <3> QED BY <3>2, <3>3, <3>4
  <2>2. \A b \in Roots : frame'[b].prev = NULL /\ frame'[b].ret = NULL
    <3>1. ASSUME NEW b \in Roots
          PROVE  frame'[b].prev = NULL /\ frame'[b].ret = NULL
      <4>1. frame[b].prev = NULL /\ frame[b].ret = NULL /\ b \in DOMAIN frame /\ b # m
        BY <1>2, <1>3, <1>6, RootsAreMethods DEF StaticFrames
      <4>2. CASE b = cur
        BY <4>1, <4>2, <1>8, <1>10 DEF Top
      <4>3. CASE b # cur
        BY <4>1, <4>3, <1>10
      <4> QED BY <4>2, <4>3
    <3> QED BY <3>1
  <2> QED BY <2>1, <2>2 DEF StaticFrames
<1>17. OwnStatics' = OwnStatics
  BY DEF OwnStatics
<1> DEFINE T == S \cup {k}
<1> HIDE <1>1, ExecutionFacts, PoppedFacts
<1>18. \A a \in S : frame'[a] = frame[a] /\ env'[a] = env[a] /\ a \in 1 .. invokes
  <2> SUFFICES ASSUME NEW a \in S
               PROVE  frame'[a] = frame[a] /\ env'[a] = env[a] /\ a \in 1 .. invokes
    OBVIOUS
  <2>1. a \in 1 .. invokes /\ a # cur /\ a # curEnv
    BY <1>5 DEF Suspended
  <2>2. a # m /\ a \in DOMAIN frame /\ a \in 0 .. invokes
    BY <2>1, <1>2, <1>3, NameAssumption, ExecutionFacts, <1>1, <1>4
  <2> QED BY <2>1, <2>2, <1>10, <1>12
<1>19. Linked(m, T)'
  <2>1. caller.buf = at.meth /\ at.meth = pc.meth /\ code' = code
    BY <1>1, <1>7, <1>8
  <2>2. env[curEnv].cp = ClassOf[pc.meth]
    BY <1>1, ExecutionFacts
  <2> QED BY <2>1, <2>2, <1>7, <1>10, <1>11, <1>12, <1>17 DEF Linked
<1>20. Linked(k, T)'
  <2>1. Linked(cur, S) /\ code' = code
    BY <1>1, <1>5 DEF Suspended
  <2>2. Top.prev \in S => frame'[Top.prev] = frame[Top.prev] /\ env'[Top.prev] = env[Top.prev]
    BY <1>18
  <2>3. frame'[k].prev = frame[cur].prev /\ frame'[k].ret = frame[cur].ret
    BY <1>8, <1>10 DEF Top
  <2> QED BY <2>1, <2>2, <2>3, <1>17 DEF Linked, Top
<1>21. \A a \in S : Linked(a, T)'
  <2> SUFFICES ASSUME NEW a \in S PROVE Linked(a, T)'
    OBVIOUS
  <2>1. Linked(a, S) /\ code' = code
    BY <1>1, <1>5 DEF Suspended
  <2>2. frame[a].prev \in S => frame'[frame[a].prev] = frame[frame[a].prev]
                               /\ env'[frame[a].prev] = env[frame[a].prev]
    BY <1>18
  <2> QED BY <2>1, <2>2, <1>18, <1>17 DEF Linked
<1>22. SameLink(m, curEnv)' /\ SameLink(k, k)'
  <2>1. SameLink(cur, curEnv) /\ curEnv' = curEnv
    BY <1>1, <1>5 DEF Suspended
  <2>2. env'[curEnv].prev = k
    BY <1>12
  <2>3. env'[k].prev = env[curEnv].prev /\ frame'[k].prev = frame[cur].prev
    BY <1>8, <1>10, <1>12 DEF Top
  <2> QED BY <2>1, <2>2, <2>3, <1>11 DEF SameLink
<1>23. \A a \in S : /\ SameLink(a, a)'
                    /\ frame'[a].prev # NULL => frame'[a].prev < a
  BY <1>5, <1>18 DEF SameLink, Suspended
<1>24. frame'[k].prev # NULL => frame'[k].prev < k
  <2>1. Top.prev \in 1 .. invokes \cup {NULL}
    BY <1>1, ExecutionFacts DEF Frame
  <2>2. frame'[k].prev = Top.prev
    BY <1>8, <1>10
  <2> QED BY <2>1, <2>2, <1>2
<1>25. Suspended(T)'
  <2>1. T \subseteq 1 .. invokes' /\ m \notin T
    BY <1>1, <1>2, <1>4, <1>5, NameAssumption DEF Suspended
  <2>2. curEnv' \in 0 .. invokes' /\ curEnv' \notin T
    BY <1>1, <1>2, <1>4, <1>5 DEF Suspended
  <2>3. cur' = m /\ m \in Methods \cup 1 .. invokes' /\ curEnv' = curEnv
    BY <1>1
  <2>4. \A a \in T : /\ Linked(a, T)' /\ SameLink(a, a)'
                     /\ frame'[a].prev # NULL => frame'[a].prev < a
    BY <1>20, <1>21, <1>22, <1>23, <1>24
  <2>5. Linked(cur, T)' /\ SameLink(cur, curEnv)'
    BY <2>3, <1>19, <1>22 DEF Linked, SameLink
  <2> HIDE DEF T
  <2> QED BY <2>1, <2>2, <2>3, <2>4, <2>5 DEF Suspended
<1>26. /\ pc' \in Addr /\ pc'.meth = m /\ pc'.at = 1
       /\ 1 \in 1 .. Len(code[m].body) /\ code[m].body[1].h = 0
  BY <1>1, ExecutionFacts, EntryFacts DEF Addr
<1>27. Instr'.h <= Top'.off
  BY <1>1, <1>11, <1>26 DEF Instr, Top
<1>28. T \in SUBSET Nat
  BY <1>2
<1>29. ExecutionInv'
  <2> HIDE DEF T
  <2> QED BY <1>25, <1>26, <1>27, <1>28 DEF ExecutionInv
<1>30. CoherentRegisters'
  BY <1>1, <1>11, <1>12, <1>26 DEF CoherentRegisters, Top
<1>31. OwnStatics' => status' # "underrun"
  BY <1>1, <1>2
<1> QED BY <1>15, <1>16, <1>29, <1>30, <1>31 DEF IInv

(* A return takes its copy, and what was made later, out of the suspended. *)
LEMMA ReturnStep ==
  ASSUME IInv, Return
  PROVE  IInv'
<1>1. /\ Executing
      /\ cur' = IF Top.prev # NULL THEN Top.prev ELSE cur
      /\ curEnv' = IF env[curEnv].prev # NULL THEN env[curEnv].prev ELSE curEnv
      /\ depth' = depth - 1
      /\ pc' = IF depth = 1 THEN Following(pc) ELSE Top.ret
      /\ UNCHANGED <<code, frame, env, loops, boot, locals, invokes, loaded, status>>
  BY DEF Return, At
<1> USE <1>1, ExecutionFacts
<1>2. TypeOK /\ StaticFrames /\ invokes \in Nat /\ depth \in Nat /\ depth > 0
      /\ status = "run"
  BY DEF IInv, TypeOK, Executing
<1>3. /\ Top.prev \in 1 .. invokes \cup {NULL} /\ Top.ret \in Addr \cup {NULL}
      /\ env[curEnv].prev \in 1 .. invokes \cup {NULL, WILD}
  BY DEF Frame, Environment
<1>4. TypeOK'
  <2>1. Following(pc) \in Addr
    BY DEF Following, Addr
  <2>2. pc' \in Addr \cup {NULL} /\ cur' \in Methods \cup 1 .. invokes
        /\ curEnv' \in 0 .. invokes \cup {WILD} /\ depth' \in Nat
    BY <2>1, <1>2, <1>3
  <2> QED BY <1>2, <2>2 DEF TypeOK, Frame, Environment
<1>5. StaticFrames' /\ (OwnStatics' => status' # "underrun")
  BY <1>2 DEF StaticFrames
<1>6. CASE ~Executing'
  BY <1>4, <1>5, <1>6 DEF IInv, ExecutionInv, CoherentRegisters
<1>7. CASE Executing'
  <2>1. depth # 1 /\ pc' = Top.ret /\ pc' # NULL
    BY <1>7, <1>2 DEF Executing
  <2>2. PICK S \in SUBSET Nat : Suspended(S)
    BY DEF IInv, ExecutionInv
  <2>k. PICK k : k = Top.prev
    OBVIOUS
  <2>T. PICK T \in SUBSET Nat : \A j : j \in T <=> j \in S /\ j < k
    <3>1. {j \in S : j < k} \in SUBSET Nat
      OBVIOUS
    <3> QED BY <3>1
  <2>3. /\ k \in S /\ k \in 1 .. invokes /\ pc' \in Addr
        /\ pc'.at \in 1 .. Len(code[pc'.meth].body)
        /\ frame[k].buf = pc'.meth /\ env[k].cp = ClassOf[pc'.meth]
        /\ OwnStatics => code[pc'.meth].body[pc'.at].h <= frame[k].off
    BY <2>1, <2>2, <2>k, NameAssumption DEF Suspended, Linked, Top
  <2>4. cur' = k /\ curEnv' = k
    BY <2>2, <2>3, <2>k, NameAssumption DEF Suspended, SameLink, Top
  <2>5. \A a \in T \cup {k} : /\ a \in S /\ a \in Nat /\ a <= k
                              /\ frame[a].prev # NULL => frame[a].prev \in T
    <3> SUFFICES ASSUME NEW a \in T \cup {k}
                 PROVE  /\ a \in S /\ a \in Nat /\ a <= k
                        /\ frame[a].prev # NULL => frame[a].prev \in T
      OBVIOUS
    <3>1. a \in S /\ a \in Nat /\ a <= k
      BY <2>3, <2>T
    <3>2. Linked(a, S) /\ (frame[a].prev # NULL => frame[a].prev < a)
      BY <3>1, <2>2 DEF Suspended
    <3>3. frame[a].prev # NULL => frame[a].prev \in S /\ frame[a].prev \in Nat
      BY <3>2 DEF Linked
    <3> QED BY <3>1, <3>2, <3>3, <2>3, <2>T
  <2>6. OwnStatics' = OwnStatics
    BY DEF OwnStatics
  <2> HIDE <1>1, ExecutionFacts
  <2>7. UNCHANGED <<frame, env, code, invokes>>
    BY <1>1
  <2>8. \A a \in T \cup {k} : Linked(a, T)' /\ SameLink(a, a)'
    <3> SUFFICES ASSUME NEW a \in T \cup {k} PROVE Linked(a, T)' /\ SameLink(a, a)'
      OBVIOUS
    <3>1. Linked(a, S) /\ SameLink(a, a)
      BY <2>2, <2>5 DEF Suspended
    <3>2. frame[a].prev # NULL => frame[a].prev \in T
      BY <2>5
    <3>3. Linked(a, T)'
      BY <3>1, <3>2, <2>6, <2>7, NameAssumption DEF Linked
    <3>4. SameLink(a, a)'
      BY <3>1, <2>7 DEF SameLink
    <3> QED BY <3>3, <3>4
  <2>9. Suspended(T)'
    <3>1. T \subseteq 1 .. invokes' /\ k \notin T /\ k \in 0 .. invokes'
      <4>1. S \subseteq 1 .. invokes
        BY <2>2 DEF Suspended
      <4> QED BY <4>1, <1>2, <2>T, <2>3, <2>7
    <3>2. \A a \in T : frame'[a].prev # NULL => frame'[a].prev < a
      BY <2>2, <2>5, <2>7 DEF Suspended
    <3>3. Linked(cur, T)' /\ SameLink(cur, curEnv)'
      BY <2>4, <2>8 DEF Linked, SameLink
    <3> QED BY <3>1, <3>2, <3>3, <2>3, <2>4, <2>7, <2>8 DEF Suspended
  <2>10. OwnStatics' => Instr'.h <= Top'.off
    BY <2>3, <2>4, <2>6, <2>7 DEF Instr, Top
  <2>11. ExecutionInv' /\ CoherentRegisters'
    BY <2>3, <2>4, <2>7, <2>9, <2>10 DEF ExecutionInv, CoherentRegisters, Top
  <2> QED BY <1>4, <1>5, <2>11 DEF IInv
<1> QED BY <1>6, <1>7

-----------------------------------------------------------------------------
(* Every action preserves the invariant.                                   *)
LEMMA NextInv == IInv /\ [Next]_vars => IInv'
<1> SUFFICES ASSUME IInv, [Next]_vars PROVE IInv'
  OBVIOUS
<1>typ. /\ locals \in [Methods -> Nat] /\ loaded \subseteq Classes /\ invokes \in Nat
        /\ loops \in 0 .. LoopLimit /\ depth \in Nat /\ boot \in 0 .. Len(Boot)
        /\ curEnv \in 0 .. invokes \cup {WILD}
  BY DEF IInv, TypeOK
<1>exec. ASSUME Executing
         PROVE  /\ pc.meth \in Methods /\ pc.at \in Nat /\ Len(code[pc.meth].body) \in Nat
                /\ Top.off \in Nat /\ Top.buf \in Methods
                /\ Instr.callee \in Methods /\ Instr.h \in Nat /\ Popped \in Nat
                /\ Instr.op \notin {"return", "goto"} =>
                     /\ pc.at + 1 \in 1 .. Len(code[pc.meth].body)
                     /\ code[pc.meth].body[pc.at + 1].h = After(Instr)
                /\ Instr.op \in {"goto", "ifeq"} =>
                     /\ Instr.target \in 1 .. Len(code[pc.meth].body)
                     /\ code[pc.meth].body[Instr.target].h = After(Instr)
  <2> USE <1>exec, ExecutionFacts
  <2>1. pc.at \in Nat /\ Len(code[pc.meth].body) \in Nat /\ pc.meth \in Methods
    OBVIOUS
  <2>2. /\ Top.off \in Nat /\ Top.buf \in Methods
        /\ Instr.callee \in Methods /\ Instr.h \in Nat /\ Popped \in Nat
    BY PoppedFacts DEF Frame, Instruction
  <2>3. WellFormedAt(pc.meth, code[pc.meth], pc.at)
    OBVIOUS
  <2> HIDE ExecutionFacts
  <2>4. Instr.op \notin {"return", "goto"} =>
          /\ pc.at < Len(code[pc.meth].body)
          /\ code[pc.meth].body[pc.at + 1].h = After(Instr)
    BY <2>3 DEF WellFormedAt, Instr
  <2>5. Instr.op \in {"goto", "ifeq"} =>
          /\ Instr.target \in pc.at + 1 .. Len(code[pc.meth].body)
          /\ code[pc.meth].body[Instr.target].h = After(Instr)
    BY <2>3 DEF WellFormedAt, Instr
  <2> QED BY <2>1, <2>2, <2>4, <2>5
<1>next. Executing => Following(pc) = [pc EXCEPT !.at = pc.at + 1]
  BY DEF Following
(* The height that an instruction needs and the one it leaves.             *)
<1>room. ASSUME Executing, OwnStatics PROVE Instr.h <= Top.off
  BY <1>room, ExecutionFacts
<1>loaded. ASSUME Executing PROVE loaded \cup {ClassOf[Instr.callee]} \subseteq Classes
  <2>1. ClassOf[Instr.callee] \in Classes
    BY <1>loaded, <1>exec, MethodAssumption
  <2> QED BY <1>typ, <2>1
<1>1. CASE Push
  <2>1. Executing /\ Instr.op = "push"
    BY <1>1 DEF Push, At
  <2>2. After(Instr) = Instr.h + 1
    BY <2>1, <1>exec DEF After, Pops, Calls
  <2>3. OwnStatics => After(Instr) <= Top.off + 1
    BY <2>1, <2>2, <1>exec, <1>room
  <2>4. Top.off + 1 \in Nat /\ pc.at + 1 \in 1 .. Len(code[pc.meth].body)
    BY <2>1, <1>exec
  <2> QED BY <1>1, <2>1, <2>3, <2>4, <1>exec, <1>next, <1>typ, LocalStep
          DEF Push, SetOffset
<1>2. CASE New
  <2>1. Executing /\ Instr.op = "new"
    BY <1>2 DEF New, At
  <2>2. After(Instr) = Instr.h + 1
    BY <2>1, <1>exec DEF After, Pops, Calls
  <2>3. OwnStatics => After(Instr) <= Top.off + 1
    BY <2>1, <2>2, <1>exec, <1>room
  <2>4. Top.off + 1 \in Nat /\ pc.at + 1 \in 1 .. Len(code[pc.meth].body)
    BY <2>1, <1>exec
  <2> QED BY <1>2, <2>1, <2>3, <2>4, <1>exec, <1>next, <1>typ, <1>loaded, LocalStep
          DEF New, SetOffset
<1>pop. ASSUME Executing, Instr.op \in {"store", "print", "ifeq"}, Popped <= Top.off
        PROVE  /\ Top.off - Popped \in Nat
               /\ OwnStatics => After(Instr) <= Top.off - Popped
  <2>1. Popped = 1 /\ Pops(Instr) = 1
    BY <1>pop, PoppedFacts
  <2>2. After(Instr) = Instr.h - 1
    BY <1>pop, <1>exec, <2>1 DEF After
  <2> QED BY <1>pop, <1>exec, <1>room, <2>1, <2>2
<1>3. CASE Overrun
  BY <1>3, HaltStep DEF Overrun
<1>4. CASE Underrun
  <2>1. ~OwnStatics
    BY <1>4, <1>exec, PoppedFacts DEF Underrun
  <2> QED BY <1>4, <2>1, HaltStep DEF Underrun
<1>5. CASE Store
  <2>1. Executing /\ Instr.op = "store" /\ Popped <= Top.off
    BY <1>5 DEF Store, At
  <2>2. pc.at + 1 \in 1 .. Len(code[pc.meth].body)
    BY <2>1, <1>exec
  <2>3. locals' \in [Methods -> Nat]
    BY <1>5, <1>typ DEF Store
  <2> QED BY <1>5, <2>1, <2>2, <2>3, <1>exec, <1>pop, <1>next, <1>typ, LocalStep
          DEF Store, SetOffset, PopOperands
<1>6. CASE PrintValue
  <2>1. Executing /\ Instr.op = "print" /\ Popped <= Top.off
    BY <1>6 DEF PrintValue, At
  <2>2. pc.at + 1 \in 1 .. Len(code[pc.meth].body)
    BY <2>1, <1>exec
  <2> QED BY <1>6, <2>1, <2>2, <1>exec, <1>pop, <1>next, <1>typ, LocalStep
          DEF PrintValue, SetOffset, PopOperands
<1>same. ASSUME Executing, UNCHANGED frame
         PROVE  frame' = [frame EXCEPT ![cur].off = Top.off]
  <2>1. frame \in [Methods \cup 1 .. invokes -> Frame]
    BY DEF IInv, TypeOK
  <2>2. \A a \in DOMAIN frame : [frame[a] EXCEPT !.off = frame[a].off] = frame[a]
    BY <2>1 DEF Frame
  <2> QED BY <1>same, <2>1, <2>2 DEF Top
<1>7. CASE Skip
  <2>1. Executing /\ Instr.op = "skip"
    BY <1>7 DEF Skip, At
  <2>2. After(Instr) = Instr.h - 1
    BY <2>1, <1>exec DEF After, Pops, Calls
  <2>3. OwnStatics => After(Instr) <= Top.off
    BY <2>1, <2>2, <1>exec, <1>room
  <2>4. pc.at + 1 \in 1 .. Len(code[pc.meth].body) /\ Top.off \in Nat
    BY <2>1, <1>exec
  <2> QED BY <1>7, <2>1, <2>3, <2>4, <1>exec, <1>same, <1>next, <1>typ, LocalStep DEF Skip
<1>8. CASE Goto
  <2>1. Executing /\ Instr.op = "goto"
    BY <1>8 DEF Goto, At
  <2>2. After(Instr) = Instr.h
    BY <2>1, <1>exec DEF After, Pops, Calls
  <2>3. OwnStatics => After(Instr) <= Top.off
    BY <2>1, <2>2, <1>exec, <1>room
  <2>4. Instr.target \in 1 .. Len(code[pc.meth].body) /\ Top.off \in Nat
    BY <2>1, <1>exec
  <2> QED BY <1>8, <2>1, <2>3, <2>4, <1>exec, <1>same, <1>typ, LocalStep DEF Goto
<1>9. CASE IfEq
  <2>1. Executing /\ Instr.op = "ifeq" /\ Popped <= Top.off
    BY <1>9 DEF IfEq, At
  <2>2. PICK n \in {pc.at + 1, Instr.target} : pc' = [pc EXCEPT !.at = n]
    BY <1>9 DEF IfEq
  <2>3. n \in 1 .. Len(code[pc.meth].body) /\ code[pc.meth].body[n].h = After(Instr)
    BY <2>1, <1>exec
  <2>4. Top.off - Popped \in Nat /\ (OwnStatics => After(Instr) <= Top.off - Popped)
    BY <2>1, <1>pop
  <2>5. /\ frame' = [frame EXCEPT ![cur].off = Top.off - Popped]
        /\ UNCHANGED <<code, cur, curEnv, env, depth, loops, boot, locals, invokes, loaded, status>>
    BY <1>9 DEF IfEq, PopOperands, SetOffset
  <2> QED BY <2>1, <2>2, <2>3, <2>4, <2>5, <1>typ, LocalStep
<1>10. CASE \E m \in Methods : Invoke(m)
  BY <1>10, InvokeStep
<1>11. CASE NullReceiver
  BY <1>11, HaltStep DEF NullReceiver
<1>12. CASE LazyClinit
  <2>1. Executing /\ NeedsClinit(Instr.callee) /\ loops < LoopLimit
    BY <1>12 DEF LazyClinit
  <2> DEFINE m == Clinit[ClassOf[Instr.callee]]
  <2>2. m \in Roots
    BY <2>1, <1>exec, MethodAssumption DEF NeedsClinit, Roots
  <2>3. curEnv \in 0 .. invokes /\ status = "run"
    BY <2>1, ExecutionFacts DEF Executing
  <2>4. loops + 1 \in 0 .. LoopLimit /\ depth + 1 \in Nat
    BY <2>1, <1>typ, LimitAssumption
  <2>5. loaded' \subseteq Classes
    BY <1>12, <2>1, <1>loaded DEF LazyClinit
  <2> QED BY <1>12, <2>2, <2>3, <2>4, <2>5, <1>typ, EnterRoot DEF LazyClinit
<1>13. CASE StackOverflow
  BY <1>13, HaltStep DEF StackOverflow
<1>14. CASE Return
  BY <1>14, ReturnStep
<1>15. CASE FetchNull
  BY <1>15, HaltStep DEF FetchNull
<1>16. CASE Start
  <2> DEFINE m == Boot[boot + 1]
  <2>1. m \in Roots /\ boot + 1 \in 0 .. Len(Boot)
    BY <1>16, <1>typ, BootIsRoot DEF Start
  <2>2. curEnv \in 0 .. invokes /\ status = "run"
    BY <1>16, <1>typ DEF Start
  <2>3. 1 \in 0 .. LoopLimit
    BY LimitAssumption
  <2>4. loaded' \subseteq Classes
    BY <1>16, <2>1, <1>typ, RootsAreMethods, MethodAssumption DEF Start
  <2> QED BY <1>16, <2>1, <2>2, <2>3, <2>4, EnterRoot DEF Start
<1>17. CASE StartWild
  BY <1>17, HaltStep DEF StartWild
<1>18. CASE Unwind
  <2>1. loops - 1 \in 0 .. LoopLimit
    BY <1>18, <1>typ, LimitAssumption DEF Unwind
  <2>2. TypeOK' /\ StaticFrames' /\ ~Executing'
    BY <1>18, <2>1 DEF Unwind, IInv, TypeOK, Frame, Environment, StaticFrames, Executing
  <2>3. OwnStatics' => status' # "underrun"
    BY <1>18 DEF Unwind, IInv
  <2> QED BY <2>2, <2>3 DEF IInv, ExecutionInv, CoherentRegisters
<1>19. CASE Exit
  BY <1>19, HaltStep DEF Exit
<1>20. CASE UNCHANGED vars
  <2> USE <1>20 DEF vars
  <2>1. TypeOK' /\ StaticFrames' /\ CoherentRegisters'
    BY DEF IInv, TypeOK, Frame, Environment, StaticFrames, CoherentRegisters, Executing, Top
  <2>2. OwnStatics' = OwnStatics /\ Executing' = Executing
    BY DEF OwnStatics, Executing
  <2>3. ASSUME NEW S \in SUBSET Nat, Suspended(S)
        PROVE  Suspended(S)'
    <3>1. \A a : Linked(a, S) => Linked(a, S)'
      BY <2>2 DEF Linked
    <3>2. \A a, e : SameLink(a, e) => SameLink(a, e)'
      BY DEF SameLink
    <3> QED BY <2>3, <3>1, <3>2 DEF Suspended
  <2>4. Instr' = Instr /\ Top' = Top
    BY DEF Instr, Top
  <2>5. ExecutionInv'
    BY <2>2, <2>3, <2>4 DEF IInv, ExecutionInv
  <2> QED BY <2>1, <2>2, <2>5 DEF IInv
<1> QED BY <1>1, <1>2, <1>3, <1>4, <1>5, <1>6, <1>7, <1>8, <1>9, <1>10, <1>11, <1>12,
           <1>13, <1>14, <1>15, <1>16, <1>17, <1>18, <1>19, <1>20
        DEF Next, Stopped

(* The invariant holds in every reachable state.                           *)
LEMMA Invariance == Spec => []IInv
<1> QED BY InitInv, NextInv, PTL DEF Spec

-----------------------------------------------------------------------------
(* Every variable keeps its type, for every program (interpreter.c).       *)
THEOREM TypeCorrect == Spec => []TypeOK
<1>1. IInv => TypeOK
  BY DEF IInv
<1> QED BY <1>1, Invariance, PTL

(* The current frame, the constant pool and the pc always belong to one    *)
(* method, through every nesting of invocations, returns and <clinit>s     *)
(* (the invoke handlers, jvm_interp_return, interpreter_byte_code).        *)
THEOREM RegistersCoherent == Spec => []CoherentRegisters
<1>1. IInv => CoherentRegisters
  BY DEF IInv
<1> QED BY <1>1, Invariance, PTL

(* No handler pops from an empty operand buffer, whatever earlier          *)
(* invocations left on the frame (pop_operand_stack, get_invoke_args).     *)
THEOREM OperandsPresent == Spec => []NoUnderflow
<1>1. IInv => NoUnderflow
  BY DEF IInv, ExecutionInv, NoUnderflow
<1> QED BY <1>1, Invariance, PTL

-----------------------------------------------------------------------------
(* Walks.                                                                  *)

(* The links of the static frames and of n copies.                         *)
Forest(prev, n) ==
  /\ prev \in [Methods \cup 1 .. n -> 1 .. n \cup {NULL}]
  /\ \A k \in 1 .. n : prev[k] # NULL => prev[k] < k

Unfolds(prev, a) ==
  Walk(prev)[a] = IF prev[a] = NULL THEN <<a>> ELSE Append(Walk(prev)[prev[a]], a)

(* The walk from a frame is the walk from the frame before it and then the *)
(* frame.                                                                  *)
LEMMA WalkUnfolds ==
  ASSUME NEW n \in Nat, NEW prev, Forest(prev, n)
  PROVE  /\ Walk(prev) \in [Methods \cup 1 .. n -> Seq(Methods \cup 1 .. n)]
         /\ \A a \in Methods \cup 1 .. n : Unfolds(prev, a)
<1> DEFINE A == Methods \cup 1 .. n
           One(w, a) == IF prev[a] = NULL THEN <<a>> ELSE Append(w[prev[a]], a)
           Walks(w) == w = [a \in DOMAIN prev |-> One(w, a)]
           V == Seq(A)
           step == [q \in (0 .. n) \X [0 .. n -> V] |-> IF q[1] = 0 THEN << >> ELSE One(q[2], q[1])]
<1>1. /\ DOMAIN prev = A
      /\ \A a \in A : prev[a] # NULL => prev[a] \in 1 .. n
      /\ \A k \in 1 .. n : prev[k] # NULL => prev[k] \in 1 .. k - 1
  BY DEF Forest
<1>2. \A a \in A, s \in V : <<a>> \in V /\ Append(s, a) \in V
  OBVIOUS
<1>3. PICK f \in [0 .. n -> V] : \A k \in 1 .. n : f[k] = One(f, k)
  <2>1. \A i \in 0 .. n : \A g \in [0 .. n -> V] :
          step[<<i, g>>] = IF i = 0 THEN << >> ELSE One(g, i)
    OBVIOUS
  <2>2. step \in Steps(n, V)
    <3> SUFFICES ASSUME NEW i \in 0 .. n, NEW g \in [0 .. n -> V]
                 PROVE  (IF i = 0 THEN << >> ELSE One(g, i)) \in V
      BY DEF Steps
    <3>1. i # 0 /\ prev[i] # NULL => g[prev[i]] \in V
      BY <1>1
    <3> HIDE DEF V
    <3>2. << >> \in V
      BY DEF V
    <3>3. i # 0 => i \in A
      OBVIOUS
    <3> QED BY <1>2, <3>1, <3>2, <3>3
  <2> HIDE DEF step
  <2>3. Causal(n, V, step)
    <3> SUFFICES ASSUME NEW i \in 0 .. n, NEW g \in [0 .. n -> V], NEW h \in [0 .. n -> V],
                        \A j \in 0 .. i - 1 : g[j] = h[j]
                 PROVE  step[<<i, g>>] = step[<<i, h>>]
      BY Zenon DEF Causal
    <3>1. i # 0 /\ prev[i] # NULL => g[prev[i]] = h[prev[i]]
      BY <1>1
    <3>2. i # 0 => One(g, i) = One(h, i)
      BY <3>1
    <3> HIDE DEF One
    <3> QED BY <2>1, <3>2
  <2>4. V # {}
    <3>1. << >> \in V
      OBVIOUS
    <3> QED BY <3>1
  <2> HIDE DEF V
  <2>5. PICK f : Recursive(n, V, step, f)
    BY <2>2, <2>3, <2>4, Recursion
  <2> HIDE DEF One
  <2>6. \A k \in 0 .. n : f[k] = IF k = 0 THEN << >> ELSE One(f, k)
    BY <2>1, <2>5 DEF Recursive
  <2>7. \A k \in 1 .. n : k \in 0 .. n /\ k # 0
    OBVIOUS
  <2> QED BY <2>5, <2>6, <2>7 DEF Recursive
<1>4. PICK w : w = [a \in A |-> One(f, a)]
  OBVIOUS
<1>5. Walks(w)
  <2>1. \A k \in 1 .. n : k \in A /\ w[k] = f[k]
    BY <1>3, <1>4
  <2>2. \A a \in A : One(w, a) = One(f, a)
    BY <1>1, <2>1
  <2> HIDE DEF One
  <2> QED BY <1>1, <1>4, <2>2
<1> DEFINE walk == CHOOSE v : Walks(v)
<1>6. Walks(walk)
  BY <1>5, Zenon
<1>7. Walk(prev) = walk
  BY Zenon DEF Walk
<1> HIDE DEF walk
<1>8. \A a \in A : walk[a] = One(walk, a)
  <2> HIDE DEF One
  <2> QED BY <1>1, <1>6
<1>9. \A k \in 1 .. n : walk[k] \in V
  <2> DEFINE T == {k \in Nat : k \in 1 .. n => walk[k] \in V}
  <2>1. ASSUME NEW k \in Nat, \A j \in 0 .. k - 1 : j \in T, k \in 1 .. n
        PROVE  walk[k] \in V
    <3>1. prev[k] # NULL => walk[prev[k]] \in V
      <4>1. prev[k] # NULL => prev[k] \in 0 .. k - 1 /\ prev[k] \in 1 .. n
        BY <1>1, <2>1
      <4> HIDE DEF V
      <4> QED BY <2>1, <4>1
    <3>2. k \in A /\ walk[k] = One(walk, k)
      BY <1>8, <2>1
    <3> HIDE DEF V, A
    <3> QED BY <1>2, <3>1, <3>2
  <2>2. \A k \in Nat : (\A j \in 0 .. k - 1 : j \in T) => k \in T
    BY <2>1
  <2> HIDE DEF T
  <2>3. \A k \in Nat : k \in T
    BY <2>2, Induction
  <2> QED BY <2>3 DEF T
<1>10. \A a \in A : walk[a] \in V
  <2> SUFFICES ASSUME NEW a \in A
               PROVE  walk[a] \in V
    OBVIOUS
  <2>1. prev[a] # NULL => walk[prev[a]] \in V
    BY <1>1, <1>9
  <2>2. walk[a] = One(walk, a)
    BY <1>8
  <2> HIDE DEF V, A
  <2> QED BY <1>2, <2>1, <2>2
<1>11. walk = [a \in A |-> walk[a]]
  BY <1>1, <1>6
<1> HIDE DEF V
<1>12. walk \in [A -> V]
  BY <1>10, <1>11
<1>13. \A a \in A : Unfolds(prev, a)
  BY <1>7, <1>8, Zenon DEF Unfolds
<1> QED BY <1>7, <1>12, <1>13 DEF V

(* New copies do not change the walk from an old one.                      *)
LEMMA OldWalks ==
  ASSUME NEW n \in Nat, NEW prev, NEW new, Forest(prev, n), Forest(new, n + 1),
         \A k \in 1 .. n : new[k] = prev[k]
  PROVE  \A k \in 1 .. n : Walk(new)[k] = Walk(prev)[k]
<1> DEFINE T == {k \in Nat : k \in 1 .. n => Walk(new)[k] = Walk(prev)[k]}
<1>1. ASSUME NEW k \in Nat, \A j \in 0 .. k - 1 : j \in T, k \in 1 .. n
      PROVE  Walk(new)[k] = Walk(prev)[k]
  <2>1. Walk(prev)[k] = IF prev[k] = NULL THEN <<k>> ELSE Append(Walk(prev)[prev[k]], k)
    <3>1. Unfolds(prev, k)
      BY <1>1, WalkUnfolds
    <3> QED BY <3>1 DEF Unfolds
  <2>2. Walk(new)[k] = IF new[k] = NULL THEN <<k>> ELSE Append(Walk(new)[new[k]], k)
    <3>1. n + 1 \in Nat /\ k \in 1 .. n + 1
      BY <1>1
    <3>2. Unfolds(new, k)
      BY <3>1, WalkUnfolds
    <3> QED BY <3>2 DEF Unfolds
  <2>3. prev[k] # NULL => Walk(new)[prev[k]] = Walk(prev)[prev[k]]
    <3>1. prev[k] # NULL => prev[k] \in 1 .. n /\ prev[k] \in 0 .. k - 1
      BY <1>1 DEF Forest
    <3> QED BY <1>1, <3>1
  <2> QED BY <1>1, <2>1, <2>2, <2>3
<1>2. \A k \in Nat : (\A j \in 0 .. k - 1 : j \in T) => k \in T
  BY <1>1
<1> HIDE DEF T
<1>3. \A k \in Nat : k \in T
  BY <1>2, Induction
<1> QED BY <1>3 DEF T

-----------------------------------------------------------------------------
(* The invariant.                                                          *)

(* What is at the bottom of a walk that has come to depth d.               *)
Bottom(walk) == frame[walk[1]].buf
Grounded(walk, d) ==
  /\ Len(walk) \in 1 .. d
  /\ walk[1] \in DOMAIN frame
  /\ IF d = Len(walk) THEN Bottom(walk) = Boot[boot]
     ELSE Bottom(walk) \in Roots \ {Boot[i] : i \in 1 .. boot}

(* The links are a forest, what was started at depth 0 is loaded, and the  *)
(* chain is no longer than the depth.                                      *)
ChainInv ==
  /\ \A k \in 1 .. invokes : frame[k].prev # NULL => frame[k].prev < k
  /\ \A i \in 1 .. boot : ClassOf[Boot[i]] \in loaded
  /\ Executing => Grounded(Chain, depth)

(* The links of well typed frames are a forest.                            *)
LEMMA Links ==
  ASSUME TypeOK, ChainInv
  PROVE  /\ invokes \in Nat /\ Forest(Prev, invokes)
         /\ DOMAIN frame = Methods \cup 1 .. invokes
         /\ \A a \in Methods \cup 1 .. invokes : Prev[a] = frame[a].prev
<1>1. invokes \in Nat /\ frame \in [Methods \cup 1 .. invokes -> Frame]
  BY DEF TypeOK
<1>2. \A a \in Methods \cup 1 .. invokes : frame[a].prev \in 1 .. invokes \cup {NULL}
  BY <1>1 DEF Frame
<1>3. \A a \in Methods \cup 1 .. invokes : Prev[a] = frame[a].prev
  BY <1>1 DEF Prev
<1>4. Prev \in [Methods \cup 1 .. invokes -> 1 .. invokes \cup {NULL}]
  BY <1>1, <1>2 DEF Prev
<1> QED BY <1>1, <1>3, <1>4 DEF Forest, ChainInv

(* Steps within a method, and steps that stop, leave the chain alone.      *)
LEMMA SameChain ==
  ASSUME TypeOK, ChainInv, Executing' => Executing,
         UNCHANGED <<cur, boot, depth, invokes>>, loaded \subseteq loaded',
         DOMAIN frame' = DOMAIN frame,
         \A a \in DOMAIN frame : frame'[a].prev = frame[a].prev /\ frame'[a].buf = frame[a].buf
  PROVE  ChainInv' /\ Chain' = Chain
<1>1. DOMAIN frame = Methods \cup 1 .. invokes
  BY Links
<1>2. Prev' = Prev
  BY DEF Prev
<1>3. Chain' = Chain
  BY <1>2 DEF Chain
<1>4. ASSUME Executing'
      PROVE  Grounded(Chain, depth)'
  <2>1. Grounded(Chain, depth)
    BY <1>4 DEF ChainInv
  <2>2. PICK c : c = Chain
    OBVIOUS
  <2>3. Grounded(c, depth)'
    BY <2>1, <2>2 DEF Grounded, Bottom
  <2> QED BY <1>3, <2>2, <2>3 DEF Grounded, Bottom
<1>5. \A k \in 1 .. invokes : frame[k].prev # NULL => frame[k].prev < k
  BY DEF ChainInv
<1>6. \A i \in 1 .. boot : ClassOf[Boot[i]] \in loaded
  BY DEF ChainInv
<1> QED BY <1>1, <1>3, <1>4, <1>5, <1>6 DEF ChainInv

(* Entering a root starts a chain of one frame.                            *)
LEMMA RootChain ==
  ASSUME IInv, IInv', ChainInv, NEW m \in Roots, cur' = m, UNCHANGED <<frame, invokes>>,
         loaded \subseteq loaded', ClassOf[m] \in loaded',
         depth' \in Nat, depth' > 0,
         \/ depth' = 1 /\ boot' = boot + 1 /\ m = Boot[boot + 1]
         \/ depth' > 1 /\ boot' = boot /\ ClassOf[m] \notin loaded
  PROVE  ChainInv' /\ Chain' = <<m>>
<1>1. /\ m \in Methods /\ frame[m].prev = NULL /\ frame[m].buf = m /\ m \in DOMAIN frame
      /\ boot \in Nat /\ TypeOK
  <2>1. TypeOK /\ StaticFrames
    BY DEF IInv
  <2>2. boot \in 0 .. Len(Boot) /\ m \in Methods
    BY <2>1, RootsAreMethods DEF TypeOK
  <2> QED BY <2>1, <2>2 DEF TypeOK, StaticFrames
<1>2. Prev' = Prev
  BY DEF Prev
<1>3. Chain' = <<m>>
  <2>1. Unfolds(Prev, m) /\ Prev[m] = NULL
    BY <1>1, Links, WalkUnfolds
  <2> QED BY <1>2, <2>1 DEF Unfolds, Chain
<1>4. \A i \in 1 .. boot : ClassOf[Boot[i]] \in loaded
  BY DEF ChainInv
<1>5. \A i \in 1 .. boot' : ClassOf[Boot[i]] \in loaded'
  <2> SUFFICES ASSUME NEW i \in 1 .. boot'
               PROVE  ClassOf[Boot[i]] \in loaded'
    OBVIOUS
  <2>1. i \in 1 .. boot \/ (i = boot + 1 /\ m = Boot[boot + 1])
    BY <1>1
  <2> QED BY <1>4, <2>1
<1>6. PICK c : c = <<m>>
  OBVIOUS
<1>7. Len(c) = 1 /\ c[1] = m
  BY <1>6
<1>8. Grounded(c, depth)'
  <2>1. frame'[c[1]].buf = m /\ c[1] \in DOMAIN frame'
    BY <1>1, <1>7
  <2>2. CASE depth' = 1 /\ boot' = boot + 1 /\ m = Boot[boot + 1]
    BY <1>7, <2>1, <2>2 DEF Grounded, Bottom
  <2>3. CASE depth' > 1 /\ boot' = boot /\ ClassOf[m] \notin loaded
    <3>1. m \notin {Boot[i] : i \in 1 .. boot}
      BY <1>4, <2>3
    <3> QED BY <1>7, <2>1, <2>3, <3>1 DEF Grounded, Bottom
  <2> QED BY <2>2, <2>3
<1>9. Grounded(Chain, depth)'
  BY <1>3, <1>6, <1>8 DEF Grounded, Bottom
<1>10. \A k \in 1 .. invokes' : frame'[k].prev # NULL => frame'[k].prev < k
  BY DEF ChainInv
<1> QED BY <1>3, <1>5, <1>9, <1>10 DEF ChainInv

(* No walk is empty.                                                       *)
LEMMA WalkLength ==
  ASSUME NEW n \in Nat, NEW prev, Forest(prev, n), NEW a \in Methods \cup 1 .. n
  PROVE  /\ Walk(prev)[a] \in Seq(Methods \cup 1 .. n)
         /\ Len(Walk(prev)[a]) \in Nat \ {0}
<1>1. /\ Unfolds(prev, a)
      /\ \A b \in Methods \cup 1 .. n : Walk(prev)[b] \in Seq(Methods \cup 1 .. n)
  BY WalkUnfolds
<1>2. prev[a] # NULL => prev[a] \in 1 .. n
  BY DEF Forest
<1>3. CASE prev[a] = NULL
  BY <1>1, <1>3 DEF Unfolds
<1>4. CASE prev[a] # NULL
  <2>1. PICK w \in Seq(Methods \cup 1 .. n) : w = Walk(prev)[prev[a]]
    BY <1>1, <1>2, <1>4
  <2>2. Walk(prev)[a] = Append(w, a)
    BY <1>1, <1>4, <2>1 DEF Unfolds
  <2> QED BY <1>1, <2>1, <2>2
<1> QED BY <1>3, <1>4

(* Walk d is walk c with its last frame replaced by k and then m.          *)
Pushed(c, d, k, m) ==
  /\ Len(d) = Len(c) + 1 /\ d[Len(c)] = k /\ d[Len(d)] = m
  /\ \A i \in 1 .. Len(c) - 1 : d[i] = c[i]

(* An invocation puts its copy and the callee behind what the current      *)
(* frame is linked to.                                                     *)
LEMMA InvokeChain ==
  ASSUME IInv, IInv', ChainInv, NEW m \in Methods, Invoke(m)
  PROVE  ChainInv' /\ Pushed(Chain, Chain', invokes + 1, m)
<1>1. PICK k : k = invokes + 1
  OBVIOUS
<1>2. PICK caller : caller = [Top EXCEPT !.off = @ - Popped]
  OBVIOUS
<1>3. PICK static : static = [(IF m = cur THEN caller ELSE frame[m])
                                EXCEPT !.ret = Following(pc), !.prev = k]
  OBVIOUS
<1>4. /\ Executing
      /\ frame' = [a \in DOMAIN frame \cup {k} |->
                     IF a = m THEN static ELSE IF a \in {k, cur} THEN caller ELSE frame[a]]
      /\ invokes' = k /\ cur' = m /\ loaded \subseteq loaded'
      /\ depth' = depth + 1 /\ boot' = boot
  BY <1>1, <1>2, <1>3 DEF Invoke
<1>5. /\ TypeOK /\ TypeOK' /\ frame[cur] \in Frame /\ frame[m] \in Frame
      /\ cur \in Methods \cup 1 .. invokes /\ depth \in Nat
  <2>1. TypeOK /\ TypeOK'
    BY DEF IInv
  <2>2. cur \in Methods \cup 1 .. invokes
    BY <1>4, ExecutionFacts
  <2> QED BY <2>1, <2>2 DEF TypeOK
<1>6. /\ invokes \in Nat /\ k \in Nat /\ Forest(Prev, invokes)
      /\ DOMAIN frame = Methods \cup 1 .. invokes
      /\ \A a \in Methods \cup 1 .. invokes : Prev[a] = frame[a].prev
      /\ k \notin DOMAIN frame /\ k # m /\ k # cur /\ m \in DOMAIN frame
  BY <1>1, <1>5, Links, NameAssumption
<1>7. /\ caller.prev = frame[cur].prev /\ caller.buf = frame[cur].buf
      /\ static.prev = k /\ static.buf = frame[m].buf
  BY <1>2, <1>3, <1>5 DEF Frame, Top
<1>8. /\ frame'[m].prev = k /\ frame'[k].prev = frame[cur].prev
      /\ frame'[k].buf = frame[cur].buf
      /\ DOMAIN frame' = Methods \cup 1 .. invokes'
      /\ \A a \in DOMAIN frame :
           frame'[a].buf = frame[a].buf /\ (a # m => frame'[a].prev = frame[a].prev)
  BY <1>1, <1>4, <1>6, <1>7
<1>9. \A j \in 1 .. invokes' : frame'[j].prev # NULL => frame'[j].prev < j
  <2> SUFFICES ASSUME NEW j \in 1 .. invokes'
               PROVE  frame'[j].prev # NULL => frame'[j].prev < j
    OBVIOUS
  <2>1. CASE j = k
    BY <1>1, <1>5, <1>6, <1>8, <2>1 DEF Frame
  <2>2. CASE j # k
    <3>1. j \in 1 .. invokes /\ j # m
      BY <1>1, <1>4, <1>6, <2>2, NameAssumption
    <3> QED BY <1>6, <1>8, <3>1 DEF ChainInv
  <2> QED BY <2>1, <2>2
<1>10. /\ Forest(Prev, invokes)' /\ invokes' = invokes + 1
       /\ Prev'[m] = k /\ Prev'[k] = Prev[cur]
       /\ \A j \in 1 .. invokes : Prev'[j] = Prev[j]
  <2>1. frame' \in [Methods \cup 1 .. invokes' -> Frame']
    BY <1>5 DEF TypeOK
  <2>2. \A a \in Methods \cup 1 .. invokes' : frame'[a].prev \in 1 .. invokes' \cup {NULL}
    BY <2>1 DEF Frame
  <2>3. /\ Prev' \in [Methods \cup 1 .. invokes' -> 1 .. invokes' \cup {NULL}]
        /\ \A a \in Methods \cup 1 .. invokes' : Prev'[a] = frame'[a].prev
    BY <1>8, <2>2 DEF Prev
  <2>4. Forest(Prev, invokes)'
    BY <1>9, <2>3 DEF Forest
  <2>5. m \in DOMAIN frame' /\ k \in DOMAIN frame' /\ invokes' = invokes + 1
    BY <1>1, <1>4, <1>6, <1>8
  <2>6. \A j \in 1 .. invokes : j # m /\ j \in DOMAIN frame /\ j \in 1 .. invokes'
    BY <1>6, <2>5, NameAssumption
  <2> QED BY <1>5, <1>6, <1>8, <2>3, <2>4, <2>5, <2>6
<1>11. PICK new : new = Prev'
  OBVIOUS
<1>12. Forest(new, invokes + 1) /\ Chain' = Walk(new)[m]
  BY <1>4, <1>10, <1>11 DEF Chain, Forest
<1>13. /\ Walk(new)[m] = Append(Walk(new)[k], m)
       /\ Walk(new)[k] = IF Prev[cur] = NULL THEN <<k>> ELSE Append(Walk(new)[Prev[cur]], k)
  <2>1. invokes + 1 \in Nat /\ k \in 1 .. invokes + 1 /\ k # NULL
    BY <1>1, <1>6, NameAssumption
  <2>2. Unfolds(new, m) /\ Unfolds(new, k)
    BY <1>12, <2>1, WalkUnfolds
  <2> QED BY <1>10, <1>11, <2>1, <2>2 DEF Unfolds
<1>14. Chain = IF Prev[cur] = NULL THEN <<cur>> ELSE Append(Walk(Prev)[Prev[cur]], cur)
  <2>1. Unfolds(Prev, cur)
    BY <1>5, <1>6, WalkUnfolds
  <2> QED BY <2>1 DEF Unfolds, Chain
<1>15. Grounded(Chain, depth)
  BY <1>4 DEF ChainInv
<1>16. PICK c : c = Chain'
  OBVIOUS
<1>17. /\ Pushed(Chain, c, k, m) /\ Len(Chain) \in Nat
       /\ c[1] \in DOMAIN frame' /\ frame'[c[1]].buf = frame[Chain[1]].buf
  <2>1. CASE Prev[cur] = NULL
    <3>1. Chain = <<cur>> /\ Walk(new)[k] = <<k>> /\ c = Append(Walk(new)[k], m)
      BY <1>12, <1>13, <1>14, <1>16, <2>1
    <3>2. Len(Chain) = 1 /\ Chain[1] = cur
      BY <3>1
    <3>3. Len(c) = 2 /\ c[1] = k /\ c[2] = m
      BY <3>1
    <3>4. k \in DOMAIN frame'
      BY <1>4
    <3> QED BY <1>8, <3>2, <3>3, <3>4 DEF Pushed
  <2>2. CASE Prev[cur] # NULL
    <3>1. Prev[cur] \in 1 .. invokes
      BY <1>5, <1>6, <2>2 DEF Forest
    <3>2. PICK w \in Seq(Methods \cup 1 .. invokes) : w = Walk(Prev)[Prev[cur]]
      BY <1>6, <3>1, WalkLength
    <3>3. Len(w) \in Nat \ {0} /\ w[1] \in DOMAIN frame
      <4>1. Len(w) \in Nat \ {0}
        BY <1>6, <3>1, <3>2, WalkLength
      <4> QED BY <1>6, <3>2, <4>1
    <3>4. Walk(new)[Prev[cur]] = w
      BY <1>6, <1>10, <1>11, <1>12, <3>1, <3>2, OldWalks
    <3>5. Chain = Append(w, cur)
      BY <1>14, <2>2, <3>2
    <3>6. Len(Chain) = Len(w) + 1 /\ \A i \in 1 .. Len(w) : Chain[i] = w[i]
      BY <3>2, <3>3, <3>5
    <3>7. PICK u \in Seq(Methods \cup 1 .. invokes \cup {k}) : u = Append(w, k)
      <4> DEFINE B == Methods \cup 1 .. invokes \cup {k}
      <4>1. \A i \in 1 .. Len(w) : w[i] \in B
        BY <3>2
      <4> HIDE DEF B
      <4>2. w \in Seq(B)
        BY <3>2, <4>1
      <4>3. k \in B
        BY DEF B
      <4>4. Append(w, k) \in Seq(B)
        BY <4>2, <4>3
      <4> QED BY <4>4 DEF B
    <3>8. Len(u) = Len(w) + 1 /\ u[Len(u)] = k /\ \A i \in 1 .. Len(w) : u[i] = w[i]
      BY <3>2, <3>3, <3>7
    <3>9. c = Append(u, m)
      BY <1>12, <1>13, <1>16, <2>2, <3>4, <3>7
    <3>10. Len(c) = Len(u) + 1 /\ c[Len(c)] = m /\ \A i \in 1 .. Len(u) : c[i] = u[i]
      BY <3>3, <3>7, <3>8, <3>9
    <3>11. Pushed(Chain, c, k, m)
      BY <3>3, <3>6, <3>8, <3>10 DEF Pushed
    <3> QED BY <1>4, <1>8, <3>3, <3>6, <3>8, <3>10, <3>11
  <2> QED BY <2>1, <2>2
<1>18. Grounded(c, depth)'
  <2>1. /\ Len(Chain) \in 1 .. depth /\ Len(c) \in 1 .. depth'
        /\ depth' = Len(c) <=> depth = Len(Chain)
    BY <1>4, <1>5, <1>15, <1>17 DEF Grounded, Pushed
  <2> QED BY <1>4, <1>15, <1>17, <2>1 DEF Grounded, Bottom
<1>19. Grounded(Chain, depth)'
  BY <1>16, <1>18 DEF Grounded, Bottom
<1>20. \A i \in 1 .. boot' : ClassOf[Boot[i]] \in loaded'
  BY <1>4 DEF ChainInv
<1> QED BY <1>1, <1>9, <1>16, <1>17, <1>19, <1>20 DEF ChainInv

(* A return goes back to the copy its frame is linked to, if any; where    *)
(* the interpreter goes on, there is one.                                  *)
LEMMA ReturnChain ==
  ASSUME IInv, ChainInv, Return
  PROVE  /\ ChainInv'
         /\ Top.prev # NULL =>
              /\ Len(Chain') = Len(Chain) - 1 /\ Top.ret # NULL
              /\ \A i \in 1 .. Len(Chain') : Chain'[i] = Chain[i]
         /\ Top.prev = NULL => Len(Chain) = 1
<1>1. /\ Executing
      /\ cur' = IF Top.prev # NULL THEN Top.prev ELSE cur
      /\ depth' = depth - 1
      /\ pc' = IF depth = 1 THEN Following(pc) ELSE Top.ret
      /\ UNCHANGED <<frame, boot, invokes, loaded, status>>
  BY DEF Return, At
<1>2. /\ TypeOK /\ depth \in Nat /\ depth > 0 /\ cur \in Methods \cup 1 .. invokes
  BY <1>1, ExecutionFacts DEF IInv, TypeOK, Executing
<1>3. /\ invokes \in Nat /\ Forest(Prev, invokes)
      /\ DOMAIN frame = Methods \cup 1 .. invokes
      /\ Prev[cur] = Top.prev
  BY <1>2, Links DEF Top
<1>4. Prev' = Prev
  BY <1>1 DEF Prev
<1>5. Grounded(Chain, depth)
  BY <1>1 DEF ChainInv
<1>6. Chain = IF Top.prev = NULL THEN <<cur>> ELSE Append(Walk(Prev)[Top.prev], cur)
  <2>1. Unfolds(Prev, cur)
    BY <1>2, <1>3, WalkUnfolds
  <2> QED BY <1>3, <2>1 DEF Unfolds, Chain
<1>7. Top.prev = NULL => Len(Chain) = 1
  BY <1>6
<1>8. Linked(cur, 1 .. invokes)
  <2>1. PICK S \in SUBSET Nat : Suspended(S)
    BY <1>1 DEF IInv, ExecutionInv
  <2> QED BY <2>1 DEF Suspended, Linked
<1>9. /\ Top.prev = NULL => Top.ret = NULL
      /\ Top.prev # NULL => Top.ret # NULL
  <2>1. NULL \notin Addr /\ NULL \notin 1 .. invokes
    BY NameAssumption
  <2> QED BY <1>8, <2>1 DEF Linked, Top
<1>10. ASSUME Top.prev # NULL
       PROVE  /\ Len(Chain') = Len(Chain) - 1
              /\ \A i \in 1 .. Len(Chain') : Chain'[i] = Chain[i]
              /\ Executing' => Grounded(Chain, depth)'
  <2>1. Top.prev \in 1 .. invokes
    BY <1>3, <1>2, <1>10 DEF Forest
  <2>2. PICK w \in Seq(Methods \cup 1 .. invokes) : w = Walk(Prev)[Top.prev]
    BY <1>3, <2>1, WalkLength
  <2>3. Len(w) \in Nat \ {0}
    BY <1>3, <2>1, <2>2, WalkLength
  <2>4. Chain = Append(w, cur) /\ Chain' = w
    BY <1>1, <1>4, <1>6, <1>10, <2>2 DEF Chain
  <2>5. Len(Chain) = Len(w) + 1 /\ \A i \in 1 .. Len(w) : Chain[i] = w[i]
    BY <2>2, <2>3, <2>4
  <2>6. /\ Len(w) + 1 \in 1 .. depth /\ w[1] \in DOMAIN frame
        /\ IF depth = Len(w) + 1 THEN frame[w[1]].buf = Boot[boot]
           ELSE frame[w[1]].buf \in Roots \ {Boot[i] : i \in 1 .. boot}
    BY <1>5, <2>3, <2>5 DEF Grounded, Bottom
  <2>7. Grounded(w, depth)'
    BY <1>1, <1>2, <2>3, <2>6 DEF Grounded, Bottom
  <2> QED BY <2>3, <2>4, <2>5, <2>7 DEF Grounded, Bottom
<1>11. Top.prev = NULL => ~Executing'
  BY <1>1, <1>2, <1>9 DEF Executing
<1>12. /\ \A k \in 1 .. invokes : frame[k].prev # NULL => frame[k].prev < k
       /\ \A i \in 1 .. boot : ClassOf[Boot[i]] \in loaded
  BY DEF ChainInv
<1> QED BY <1>1, <1>7, <1>9, <1>10, <1>11, <1>12 DEF ChainInv

(* A step that changes no link and no register but the pc.                 *)
LocalMove ==
  /\ UNCHANGED <<cur, boot, depth, invokes>> /\ loaded \subseteq loaded'
  /\ \E n : frame' = [frame EXCEPT ![cur].off = n] \/ frame' = frame
  /\ Executing' => Executing

(* A class's <clinit> runs on first use of the class.                      *)
LEMMA ClinitChain ==
  ASSUME IInv, IInv', ChainInv, LazyClinit
  PROVE  ChainInv'
<1>1. PICK m : m = Clinit[ClassOf[Instr.callee]]
  OBVIOUS
<1>2. /\ Executing /\ NeedsClinit(Instr.callee) /\ cur' = m
      /\ loaded' = loaded \cup {ClassOf[Instr.callee]}
      /\ depth' = depth + 1 /\ UNCHANGED <<frame, boot, invokes>>
  BY <1>1 DEF LazyClinit
<1>3. Instr.callee \in Methods /\ depth \in Nat /\ depth > 0
  BY <1>2, ExecutionFacts DEF Instruction, Executing, IInv, TypeOK
<1>4. m \in Roots /\ ClassOf[m] = ClassOf[Instr.callee] /\ ClassOf[m] \notin loaded
  BY <1>1, <1>2, <1>3, MethodAssumption DEF NeedsClinit, Roots
<1>5. depth' \in Nat /\ depth' > 1 /\ depth' > 0
  BY <1>2, <1>3
<1> QED BY <1>2, <1>4, <1>5, RootChain

(* The next boot method.                                                   *)
LEMMA StartChain ==
  ASSUME IInv, IInv', ChainInv, Start
  PROVE  ChainInv' /\ Chain' = << Boot[boot + 1] >>
<1>1. PICK m : m = Boot[boot + 1]
  OBVIOUS
<1>2. /\ boot < Len(Boot) /\ cur' = m /\ loaded' = loaded \cup {ClassOf[m]}
      /\ depth' = 1 /\ boot' = boot + 1 /\ UNCHANGED <<frame, invokes>>
  BY <1>1 DEF Start
<1>3. m \in Roots
  BY <1>1, <1>2, BootIsRoot DEF IInv, TypeOK
<1>4. depth' \in Nat /\ depth' > 0
  BY <1>2
<1> QED BY <1>1, <1>2, <1>3, <1>4, RootChain

(* Steps within a method, faults and the end of a C call.                  *)
LEMMA LocalChain ==
  ASSUME IInv, ChainInv, LocalMove
  PROVE  ChainInv' /\ Chain' = Chain
<1>1. TypeOK /\ frame \in [Methods \cup 1 .. invokes -> Frame]
  BY DEF IInv, TypeOK
<1>2. PICK n : frame' = [frame EXCEPT ![cur].off = n] \/ frame' = frame
  BY DEF LocalMove
<1>3. \A a \in DOMAIN frame : frame'[a].prev = frame[a].prev /\ frame'[a].buf = frame[a].buf
  BY <1>1, <1>2 DEF Frame
<1>4. DOMAIN frame' = DOMAIN frame
  BY <1>2
<1> QED BY <1>1, <1>3, <1>4, SameChain DEF LocalMove

LocalAction == \/ Push \/ New \/ Overrun \/ Underrun \/ Store \/ PrintValue \/ Skip
               \/ Goto \/ IfEq \/ NullReceiver \/ StackOverflow \/ FetchNull
               \/ StartWild \/ Unwind \/ Exit \/ UNCHANGED vars

(* These actions are steps of that kind.                                   *)
LEMMA LocalActions ==
  ASSUME LocalAction
  PROVE  LocalMove
<1>1. \A n : frame' = [frame EXCEPT ![cur].off = n] =>
        \E x : frame' = [frame EXCEPT ![cur].off = x] \/ frame' = frame
  OBVIOUS
<1>2. frame' = frame => \E x : frame' = [frame EXCEPT ![cur].off = x] \/ frame' = frame
  OBVIOUS
<1> HIDE <1>1, <1>2
<1>3. CASE Push
  BY <1>1, <1>3 DEF Push, LocalMove, SetOffset, At
<1>4. CASE New
  BY <1>1, <1>4 DEF New, LocalMove, SetOffset, At
<1>5. CASE Store
  BY <1>1, <1>5 DEF Store, LocalMove, PopOperands, SetOffset, At
<1>6. CASE PrintValue
  BY <1>1, <1>6 DEF PrintValue, LocalMove, PopOperands, SetOffset, At
<1>7. CASE IfEq
  BY <1>1, <1>7 DEF IfEq, LocalMove, PopOperands, SetOffset, At
<1>8. CASE Skip \/ Goto
  BY <1>2, <1>8 DEF Skip, Goto, LocalMove, At
<1>9. CASE Overrun \/ Underrun \/ NullReceiver \/ StackOverflow \/ FetchNull \/ StartWild \/ Exit
  <2>1. ASSUME NEW how, Halt(how), how # "run" PROVE LocalMove
    BY <1>2, <2>1 DEF Halt, LocalMove, Executing
  <2> QED BY <1>9, <2>1 DEF Overrun, Underrun, NullReceiver, StackOverflow, FetchNull,
                              StartWild, Exit
<1>10. CASE Unwind
  BY <1>2, <1>10 DEF Unwind, LocalMove, Executing
<1>11. CASE UNCHANGED vars
  BY <1>2, <1>11 DEF vars, LocalMove, Executing
<1> QED BY <1>3, <1>4, <1>5, <1>6, <1>7, <1>8, <1>9, <1>10, <1>11 DEF LocalAction

(* Every other step enters or leaves a method.                             *)
LEMMA Actions ==
  ASSUME [Next]_vars
  PROVE  LocalAction \/ (\E m \in Methods : Invoke(m)) \/ LazyClinit \/ Return \/ Start
BY DEF Next, Stopped, LocalAction

(* Every action keeps the chain grounded.                                  *)
LEMMA NextChain == IInv /\ IInv' /\ ChainInv /\ [Next]_vars => ChainInv'
<1> SUFFICES ASSUME IInv, IInv', ChainInv, [Next]_vars PROVE ChainInv'
  OBVIOUS
<1>1. CASE LocalAction
  BY <1>1, LocalActions, LocalChain
<1>2. CASE \E m \in Methods : Invoke(m)
  BY <1>2, InvokeChain
<1>3. CASE LazyClinit
  BY <1>3, ClinitChain
<1>4. CASE Return
  BY <1>4, ReturnChain
<1>5. CASE Start
  BY <1>5, StartChain
<1> QED BY <1>1, <1>2, <1>3, <1>4, <1>5, Actions

(* At the start nothing runs.                                              *)
LEMMA InitChain == Init => ChainInv
BY DEF Init, ChainInv, Executing

(* The chain is grounded in every reachable state.                         *)
LEMMA ChainInvariance == Spec => []ChainInv
BY InitChain, NextChain, Invariance, PTL DEF Spec

-----------------------------------------------------------------------------
(* The code that runs was entered by the boot method in progress or by a   *)
(* <clinit> that cut the chain, and the latter is none of those started at *)
(* depth 0 (clinit_method, jvm_interp_return).                             *)
THEOREM ChainBottom == Spec => []BottomIsRoot
<1>1. ChainInv => BottomIsRoot
  BY DEF ChainInv, BottomIsRoot, Grounded, Bottom
<1> QED BY <1>1, ChainInvariance, PTL

-----------------------------------------------------------------------------
(* Where no class is loaded in the middle of a method, every return but    *)
(* the last finds a copy to go back to.                                    *)
DepthInv ==
  status = "run" /\ depth > 0 => pc # NULL /\ depth = Len(Chain)

NoLazyClinit == ~LazyClinit

(* A step within a method leaves the pc at an address.                     *)
LEMMA LocalPc ==
  ASSUME IInv, LocalAction, status' = "run", depth' > 0, DepthInv
  PROVE  Executing /\ pc' # NULL
<1>1. \A n \in Nat : Executing => [pc EXCEPT !.at = n] \in Addr
  BY ExecutionFacts DEF Addr
<1>2. Executing => /\ pc.at + 1 \in Nat /\ Instr.target \in Nat
                   /\ Following(pc) = [pc EXCEPT !.at = pc.at + 1]
  <2>1. ASSUME Executing PROVE pc.at + 1 \in Nat /\ Instr.target \in Nat
    BY <2>1, ExecutionFacts DEF Instruction, Addr
  <2> QED BY <2>1 DEF Following
<1>3. NULL \notin Addr
  BY NameAssumption
<1>4. CASE Push \/ New \/ Store \/ PrintValue \/ Skip
  <2>1. Executing /\ pc' = Following(pc)
    BY <1>4 DEF Push, New, Store, PrintValue, Skip, At
  <2> QED BY <1>1, <1>2, <1>3, <2>1
<1>5. CASE Goto \/ IfEq
  <2>1. Executing /\ \E n \in {pc.at + 1, Instr.target} : pc' = [pc EXCEPT !.at = n]
    BY <1>5 DEF Goto, IfEq, At
  <2> QED BY <1>1, <1>2, <1>3, <2>1
<1>6. CASE Overrun \/ Underrun \/ NullReceiver \/ StackOverflow \/ FetchNull \/ StartWild \/ Exit
  BY <1>6 DEF Overrun, Underrun, NullReceiver, StackOverflow, FetchNull, StartWild, Exit, Halt
<1>7. CASE Unwind
  BY <1>7 DEF Unwind
<1>8. CASE UNCHANGED vars
  BY <1>8 DEF vars, DepthInv, Executing
<1> QED BY <1>4, <1>5, <1>6, <1>7, <1>8 DEF LocalAction

(* Calls and returns move the depth and the length of the chain together.  *)
LEMMA NextDepth ==
  IInv /\ IInv' /\ ChainInv /\ DepthInv /\ [Next]_vars /\ [NoLazyClinit]_vars => DepthInv'
<1> SUFFICES ASSUME IInv, IInv', ChainInv, DepthInv, [Next]_vars, [NoLazyClinit]_vars,
                    status' = "run", depth' > 0
             PROVE  pc' # NULL /\ depth' = Len(Chain')
  BY DEF DepthInv
<1>1. CASE LocalAction
  <2>1. Chain' = Chain /\ depth' = depth
    BY <1>1, LocalActions, LocalChain DEF LocalMove
  <2>2. Executing /\ pc' # NULL
    BY <1>1, LocalPc
  <2> QED BY <2>1, <2>2 DEF DepthInv, Executing
<1>2. ASSUME NEW m \in Methods, Invoke(m) PROVE pc' # NULL /\ depth' = Len(Chain')
  <2>1. Executing /\ depth' = depth + 1 /\ pc' = [meth |-> m, at |-> 1]
    BY <1>2 DEF Invoke
  <2>2. Len(Chain') = Len(Chain) + 1
    BY <1>2, InvokeChain DEF Pushed
  <2>3. pc' \in Addr
    BY <2>1 DEF Addr
  <2> QED BY <2>1, <2>2, <2>3, NameAssumption DEF DepthInv, Executing
<1>3. CASE LazyClinit
  <2>1. UNCHANGED vars
    BY <1>3 DEF NoLazyClinit
  <2>2. depth' = depth + 1 /\ depth \in Nat
    BY <1>3 DEF LazyClinit, IInv, TypeOK
  <2> QED BY <2>1, <2>2 DEF vars
<1>4. CASE Return
  <2>1. /\ Executing /\ depth' = depth - 1 /\ depth \in Nat
        /\ depth # 1 => pc' = Top.ret
    BY <1>4 DEF Return, At, IInv, TypeOK
  <2>2. depth = Len(Chain) /\ depth # 1
    BY <2>1 DEF DepthInv, Executing
  <2> QED BY <1>4, <2>1, <2>2, ReturnChain
<1>5. CASE Start
  <2>1. depth' = 1 /\ pc' = [meth |-> Boot[boot + 1], at |-> 1]
    BY <1>5 DEF Start
  <2>2. Boot[boot + 1] \in Methods
    BY <1>5, BootIsRoot, RootsAreMethods DEF Start, IInv, TypeOK
  <2>3. pc' \in Addr
    BY <2>1, <2>2 DEF Addr
  <2>4. Len(Chain') = 1
    BY <1>5, StartChain
  <2> QED BY <2>1, <2>3, <2>4, NameAssumption
<1> QED BY <1>1, <1>2, <1>3, <1>4, <1>5, Actions

(* While no class is loaded in the middle of a method, jvm_stack_depth,    *)
(* whose 0 ends the interpreter, is the number of frames linked behind the *)
(* current one (interpreter_byte_code, jvm_interp_return).                 *)
THEOREM DepthCounts == Spec /\ [][NoLazyClinit]_vars => []DepthCountsFrames
<1>1. Init => DepthInv
  BY DEF Init, DepthInv
<1>2. DepthInv => DepthCountsFrames
  BY DEF DepthInv, DepthCountsFrames
<1> QED BY <1>1, <1>2, NextDepth, Invariance, ChainInvariance, PTL DEF Spec
=============================================================================
