------------------------------- MODULE Frames -------------------------------
(***************************************************************************)
(* Method invocation and return in czvm's interpreter (interpreter.c).     *)
(*                                                                         *)
(* Every method owns ONE static frame, allocated when its class file is    *)
(* parsed (init_method_stack_frame).  An invocation malloc's a copy of the *)
(* caller's frame and of the caller's environment, links the copies behind *)
(* the callee's static frame, and overwrites the registers cur_stack_frame *)
(* and vm_pc.  A return makes the COPY the current frame.  Copies are      *)
(* never freed, so they are numbered by the invocation that made them.     *)
(* A copy shares its method's locals and operand buffers: `buf' names the  *)
(* method whose buffers a frame points to.                                 *)
(*                                                                         *)
(* Each invocation also nests one C call of interpreter_byte_code, and no  *)
(* such loop ends before jvm_stack_depth is back at 0.                     *)
(***************************************************************************)
EXTENDS Naturals, Sequences

CONSTANTS
  Methods,    \* all methods of all classes
  Classes,    \* all classes
  ClassOf,    \* the class that declares a method
  Clinit,     \* the <clinit> that loading a class runs, or NULL
  Args,       \* operands a method takes, the receiver included
  ArgsRead,   \* operands invokestatic pops: it reads the callee's descriptor
              \* index in the constant pool of the class that is running
  Boot,       \* what jvm_init and jvm_run start at depth 0: <clinit>s, then main
  Programs,   \* the programs under study: the code of every method
  LoopLimit,  \* nested interpreter_byte_code calls the C stack has room for
  Garbage,    \* values malloc may leave in a frame's operand_offset
  NULL,       \* the null pointer
  WILD        \* a pointer malloc left uninitialised

Calls == {"static", "virtual", "special"}
Ops == Calls \cup {"push", "store", "print", "skip", "goto", "ifeq", "new", "return"}

(* An instruction: `h' is the operand height the class file was verified   *)
(* with, before the instruction; `callee' is the method of a call or the   *)
(* constructor of a new; `target' is a branch target.                      *)
Instruction == [op : Ops, callee : Methods, target : Nat, h : Nat]
MethodCode  == [max_stack : Nat, body : Seq(Instruction)]

(* Methods that only the virtual machine starts: no bytecode calls them.   *)
Roots == {Boot[n] : n \in DOMAIN Boot} \cup {Clinit[c] : c \in {d \in Classes : Clinit[d] # NULL}}

(* What the instruction takes from, and leaves on, a verified stack.       *)
Pops(i) == CASE i.op \in {"store", "print", "skip", "ifeq"} -> 1
             [] i.op \in Calls -> Args[i.callee]
             [] OTHER -> 0
After(i) == (i.h - Pops(i)) + (IF i.op \in {"push", "new"} THEN 1 ELSE 0)

(* What a Java compiler guarantees of one instruction of a method.         *)
(* Branches go forward: czvm reads their offset unsigned.                  *)
WellFormedAt(m, mc, n) ==
  LET i == mc.body[n] IN
    /\ Pops(i) <= i.h /\ i.h <= mc.max_stack /\ After(i) <= mc.max_stack
    /\ i.op \notin {"return", "goto"} =>
         n < Len(mc.body) /\ mc.body[n + 1].h = After(i)
    /\ i.op \in {"goto", "ifeq"} =>
         /\ i.target \in n + 1 .. Len(mc.body)
         /\ mc.body[i.target].h = After(i)
    /\ i.op \in Calls \cup {"new"} =>
         /\ i.callee \notin Roots
         /\ m \in Roots \ {Boot[Len(Boot)]} => ClassOf[i.callee] # ClassOf[m]

WellFormed(p) == \A m \in Methods :
  /\ Len(p[m].body) > 0 /\ p[m].body[1].h = 0
  /\ \A n \in 1 .. Len(p[m].body) : WellFormedAt(m, p[m], n)

Addr == [meth : Methods, at : Nat]      \* a code address

ASSUME MethodAssumption ==
  /\ ClassOf \in [Methods -> Classes]
  /\ Clinit \in [Classes -> Methods \cup {NULL}]
  /\ \A c \in Classes : Clinit[c] # NULL => ClassOf[Clinit[c]] = c
  /\ Args \in [Methods -> Nat]
  /\ ArgsRead \in [Classes -> [Methods -> Nat]]
  /\ \A m \in Methods : ArgsRead[ClassOf[m]][m] = Args[m]
  /\ Boot \in Seq(Methods) /\ Boot # << >>
ASSUME NameAssumption ==
  /\ Methods \cap Nat = {}
  /\ NULL \notin Methods \cup Nat \cup Addr
  /\ WILD \notin Methods \cup Nat \cup Addr \cup {NULL}
ASSUME LimitAssumption == LoopLimit \in Nat \ {0} /\ Garbage \subseteq Nat
ASSUME ProgramAssumption ==
  \A p \in Programs : p \in [Methods -> MethodCode] /\ WellFormed(p)

VARIABLES
  code,     \* the program that runs; never changes
  pc,       \* vm_pc.pc
  cur,      \* cur_stack_frame: a method's static frame or a copy
  frame,    \* every jvm_stack_frame there is
  curEnv,   \* cur_interpreter_env
  env,      \* every interpreter_env there is; 0 is the one jvm_init allocates
  depth,    \* jvm_stack_depth
  loops,    \* nested C calls of interpreter_byte_code
  boot,     \* how many boot methods have been started
  locals,   \* content of each method's locals buffer, tagged by its writer
  invokes,  \* invocations so far: the number of copies
  loaded,   \* classes in class_list_head
  status    \* "run", "exit", "segv", "overrun" or "underrun" (left
            \* the operand buffer at its end or at its start)

vars == <<code, pc, cur, frame, curEnv, env, depth, loops, boot, locals,
          invokes, loaded, status>>

(* The root environment is malloc'ed and never initialised: its prev is    *)
(* whatever was there.  So is operand_offset in a static frame.            *)
Init ==
  /\ code \in Programs
  /\ pc = NULL /\ cur = NULL
  /\ \E g \in [Methods -> Garbage] :
       frame = [m \in Methods |-> [buf |-> m, off |-> g[m], ret |-> NULL, prev |-> NULL]]
  /\ curEnv = 0
  /\ \E p \in {NULL, WILD} : env = [e \in {0} |-> [cp |-> NULL, prev |-> p]]
  /\ depth = 0 /\ loops = 0 /\ boot = 0 /\ invokes = 0
  /\ locals = [m \in Methods |-> 0]
  /\ loaded = {}
  /\ status = "run"

-----------------------------------------------------------------------------
(* Helpers of the handlers.                                                *)

Executing == status = "run" /\ depth > 0 /\ pc # NULL
Instr     == code[pc.meth].body[pc.at]
At(op)    == Executing /\ Instr.op = op
Top       == frame[cur]
Following(a) == [a EXCEPT !.at = @ + 1]

SetOffset(n) == frame' = [frame EXCEPT ![cur].off = n]
HasRoom == Top.off < code[Top.buf].max_stack

(* Faulty variant of Popped: invokestatic pops a receiver, too.            *)
PoppedWithReceiver ==
  CASE Instr.op \in {"store", "print", "ifeq"} -> 1
    [] Instr.op = "static" -> ArgsRead[env[curEnv].cp][Instr.callee] + 1
    [] Instr.op \in Calls -> Args[Instr.callee]
    [] OTHER -> 0

(* The operands the handler pops: for invokestatic, as many as it reads.   *)
Popped == CASE Instr.op \in {"store", "print", "ifeq"} -> 1
            [] Instr.op = "static" -> ArgsRead[env[curEnv].cp][Instr.callee]
            [] Instr.op \in Calls -> Args[Instr.callee]
            [] OTHER -> 0

(* Faulty variant of PopOperands: the offset moves before and after.       *)
PopTwice == SetOffset(Top.off - 2 * Popped)
PopOperands == SetOffset(Top.off - Popped)

(* find_class_method and `new' load a class on first use; loading it runs  *)
(* its <clinit> inside the handler.  Only the class's own initialiser is   *)
(* followed, not one of a superclass that is loaded with it.               *)
NeedsClinit(m) == ClassOf[m] \notin loaded /\ Clinit[ClassOf[m]] # NULL

Halt(how) == status' = how
            /\ UNCHANGED <<code, pc, cur, frame, curEnv, env, depth, loops,
                           boot, locals, invokes, loaded>>

-----------------------------------------------------------------------------
(* Instructions that stay in the method.                                   *)

(* push_operand_stack: constants and loads, iload_0 excepted, which moves  *)
(* vm_pc twice (Operands has it).                                          *)
Push == /\ At("push") /\ HasRoom
        /\ SetOffset(Top.off + 1)
        /\ pc' = Following(pc)
        /\ UNCHANGED <<code, cur, curEnv, env, depth, loops, boot, locals,
                       invokes, loaded, status>>

New == /\ At("new") /\ ~NeedsClinit(Instr.callee) /\ HasRoom
       /\ loaded' = loaded \cup {ClassOf[Instr.callee]}
       /\ SetOffset(Top.off + 1)
       /\ pc' = Following(pc)
       /\ UNCHANGED <<code, cur, curEnv, env, depth, loops, boot, locals,
                      invokes, status>>

(* push_operand_stack does not compare operand_offset with max_stack.      *)
Overrun == /\ Executing /\ ~HasRoom
           /\ \/ Instr.op = "push"
              \/ Instr.op = "new" /\ ~NeedsClinit(Instr.callee)
           /\ Halt("overrun")

(* Nor does pop_operand_stack compare it with 0.                           *)
Underrun == /\ Executing /\ Popped > Top.off
            /\ Instr.op \in Calls => ~NeedsClinit(Instr.callee)
            /\ Halt("underrun")

Store == /\ At("store") /\ Popped <= Top.off
         /\ PopOperands
         /\ locals' = [locals EXCEPT ![Top.buf] = invokes]
         /\ pc' = Following(pc)
         /\ UNCHANGED <<code, cur, curEnv, env, depth, loops, boot, invokes,
                        loaded, status>>

(* println and print are handled inside invokevirtual: no frame is made.   *)
PrintValue == /\ At("print") /\ Popped <= Top.off
              /\ PopOperands
              /\ pc' = Following(pc)
              /\ UNCHANGED <<code, cur, curEnv, env, depth, loops, boot,
                             locals, invokes, loaded, status>>

(* Object.<init> has no method here, and pop and ifne have no handler: the *)
(* instruction is skipped and its operand stays.                           *)
Skip == /\ At("skip")
        /\ pc' = Following(pc)
        /\ UNCHANGED <<code, cur, frame, curEnv, env, depth, loops, boot,
                       locals, invokes, loaded, status>>

Goto == /\ At("goto")
        /\ pc' = [pc EXCEPT !.at = Instr.target]
        /\ UNCHANGED <<code, cur, frame, curEnv, env, depth, loops, boot,
                       locals, invokes, loaded, status>>

IfEq == /\ At("ifeq") /\ Popped <= Top.off
        /\ PopOperands
        /\ \E n \in {pc.at + 1, Instr.target} : pc' = [pc EXCEPT !.at = n]
        /\ UNCHANGED <<code, cur, curEnv, env, depth, loops, boot, locals,
                       invokes, loaded, status>>

-----------------------------------------------------------------------------
(* Invocation and return.                                                  *)

(* invokestatic, invokevirtual, invokespecial and invokeinterface: pop the *)
(* arguments, copy the caller's frame and environment, switch to the       *)
(* callee's static frame, write the arguments into its locals, and enter a *)
(* nested interpreter_byte_code.                                           *)
Invoke(m) ==
  LET k      == invokes + 1
      caller == [Top EXCEPT !.off = @ - Popped]
      static == IF m = cur THEN caller ELSE frame[m]
  IN /\ Executing /\ Instr.op \in Calls /\ Instr.callee = m
     /\ ~NeedsClinit(m) /\ Popped <= Top.off /\ loops < LoopLimit
     /\ frame' = [a \in DOMAIN frame \cup {k} |->
                    IF a = m THEN [static EXCEPT !.ret = Following(pc), !.prev = k]
                    ELSE IF a \in {k, cur} THEN caller ELSE frame[a]]
     /\ env' = [e \in DOMAIN env \cup {k} |->
                  IF e = k THEN env[curEnv]
                  ELSE IF e = curEnv THEN [cp |-> ClassOf[m], prev |-> k]
                  ELSE env[e]]
     /\ invokes' = k
     /\ cur' = m
     /\ pc' = [meth |-> m, at |-> 1]
     /\ locals' = IF Popped > 0 THEN [locals EXCEPT ![m] = k] ELSE locals
     /\ loaded' = loaded \cup {ClassOf[m]}
     /\ depth' = depth + 1 /\ loops' = loops + 1
     /\ UNCHANGED <<code, curEnv, boot, status>>

(* invokespecial and invokeinterface end the process on a null receiver.   *)
NullReceiver == /\ At("special") /\ ~NeedsClinit(Instr.callee)
                /\ Popped <= Top.off
                /\ Halt("exit")

(* Loading a class in the middle of a method: clinit_method enters the     *)
(* interpreter with the <clinit>'s own frame, linked to nothing, and with  *)
(* the current environment, of which nothing was saved.                    *)
LazyClinit ==
  /\ Executing /\ Instr.op \in Calls \cup {"new"}
  /\ NeedsClinit(Instr.callee) /\ loops < LoopLimit
  /\ LET m == Clinit[ClassOf[Instr.callee]] IN
       /\ cur' = m
       /\ pc' = [meth |-> m, at |-> 1]
       /\ env' = [env EXCEPT ![curEnv].cp = ClassOf[m]]
       /\ loaded' = loaded \cup {ClassOf[Instr.callee]}
  /\ depth' = depth + 1 /\ loops' = loops + 1
  /\ UNCHANGED <<code, frame, curEnv, boot, locals, invokes, status>>

(* The C stack has no room for one more interpreter_byte_code.             *)
StackOverflow ==
  /\ Executing /\ loops = LoopLimit
  /\ \/ Instr.op \in Calls /\ (NeedsClinit(Instr.callee) \/ Popped <= Top.off)
     \/ Instr.op = "new" /\ NeedsClinit(Instr.callee)
  /\ Halt("segv")

(* Faulty variants of Return: one register is not restored, or the return  *)
(* address is advanced by the length of the invoke a second time.          *)
ReturnTo(frameTo, envTo, resume) ==
  /\ At("return")
  /\ cur' = frameTo /\ curEnv' = envTo
  /\ depth' = depth - 1
  /\ pc' = IF depth = 1 THEN Following(pc) ELSE resume
  /\ UNCHANGED <<code, frame, env, loops, boot, locals, invokes, loaded, status>>
PrevOr(prev, this) == IF prev # NULL THEN prev ELSE this
ReturnKeepsFrame ==
  ReturnTo(cur, PrevOr(env[curEnv].prev, curEnv), Top.ret)
ReturnKeepsEnv ==
  ReturnTo(PrevOr(Top.prev, cur), curEnv, Top.ret)
ReturnSkips ==
  ReturnTo(PrevOr(Top.prev, cur), PrevOr(env[curEnv].prev, curEnv), Following(Top.ret))

(* jvm_interp_return: the copy made by the invocation becomes current, and *)
(* goes on at the address in the frame that is left.                       *)
Return ==
  /\ At("return")
  /\ cur' = IF Top.prev # NULL THEN Top.prev ELSE cur
  /\ curEnv' = IF env[curEnv].prev # NULL THEN env[curEnv].prev ELSE curEnv
  /\ depth' = depth - 1
  /\ pc' = IF depth = 1 THEN Following(pc) ELSE Top.ret
  /\ UNCHANGED <<code, frame, env, loops, boot, locals, invokes, loaded, status>>

(* The dispatch loop reads the opcode at vm_pc.pc.                         *)
FetchNull == /\ status = "run" /\ depth > 0 /\ pc = NULL
             /\ Halt("segv")

-----------------------------------------------------------------------------
(* Between the boot methods.                                               *)

(* clinit_method, then jvm_run: enter the next boot method at depth 0.     *)
Start ==
  /\ status = "run" /\ depth = 0 /\ loops = 0 /\ boot < Len(Boot)
  /\ curEnv # WILD
  /\ LET m == Boot[boot + 1] IN
       /\ cur' = m
       /\ pc' = [meth |-> m, at |-> 1]
       /\ env' = [env EXCEPT ![curEnv].cp = ClassOf[m]]
       /\ loaded' = loaded \cup {ClassOf[m]}
  /\ depth' = 1 /\ loops' = 1 /\ boot' = boot + 1
  /\ UNCHANGED <<code, frame, curEnv, locals, invokes, status>>

(* The root environment's prev was followed when the last method returned. *)
StartWild == /\ status = "run" /\ depth = 0 /\ loops = 0 /\ boot < Len(Boot)
             /\ curEnv = WILD
             /\ Halt("segv")

(* Faulty variant of Unwind: the outermost loop misses depth 0.            *)
UnwindNested == /\ status = "run" /\ depth = 0 /\ loops > 1
                /\ loops' = loops - 1
                /\ UNCHANGED <<code, pc, cur, frame, curEnv, env, depth, boot,
                               locals, invokes, loaded, status>>

(* At depth 0 every nested loop ends, one C return after the other.        *)
Unwind == /\ status = "run" /\ depth = 0 /\ loops > 0
          /\ loops' = loops - 1
          /\ UNCHANGED <<code, pc, cur, frame, curEnv, env, depth, boot,
                         locals, invokes, loaded, status>>

Exit == /\ status = "run" /\ depth = 0 /\ loops = 0 /\ boot = Len(Boot)
        /\ Halt("exit")

Stopped == status # "run" /\ UNCHANGED vars

Next == \/ Push \/ New \/ Overrun \/ Underrun \/ Store \/ PrintValue \/ Skip \/ Goto \/ IfEq
        \/ \E m \in Methods : Invoke(m)
        \/ NullReceiver \/ LazyClinit \/ StackOverflow \/ Return \/ FetchNull
        \/ Start \/ StartWild \/ Unwind \/ Exit \/ Stopped

Spec == Init /\ [][Next]_vars

(* The interpreter is one thread that never blocks.                        *)
FairSpec == Spec /\ WF_vars(Next)

-----------------------------------------------------------------------------
(* Properties.                                                             *)

Frame == [buf : Methods, off : Nat, ret : Addr \cup {NULL},
          prev : 1 .. invokes \cup {NULL}]
Environment == [cp : Classes \cup {NULL}, prev : 1 .. invokes \cup {NULL, WILD}]

TypeOK ==
  /\ code \in Programs
  /\ pc \in Addr \cup {NULL}
  /\ invokes \in Nat
  /\ frame \in [Methods \cup 1 .. invokes -> Frame]
  /\ env \in [0 .. invokes -> Environment]
  /\ cur \in Methods \cup 1 .. invokes \cup {NULL}
  /\ curEnv \in 0 .. invokes \cup {WILD}
  /\ depth \in Nat /\ loops \in 0 .. LoopLimit /\ boot \in 0 .. Len(Boot)
  /\ locals \in [Methods -> Nat]
  /\ loaded \subseteq Classes
  /\ status \in {"run", "exit", "segv", "overrun", "underrun"}

(* The registers agree: the frame, the constant pool and the pc always     *)
(* belong to one method, whatever calls and returns switched them.         *)
CoherentRegisters ==
  Executing => /\ pc.at \in 1 .. Len(code[pc.meth].body)
               /\ Top.buf = pc.meth
               /\ env[curEnv].cp = ClassOf[pc.meth]

(* Every invokestatic of the program reads the right descriptor: it names  *)
(* a method of its own class, or both pools agree at the index.            *)
OwnStatics == \A m \in Methods : \A n \in 1 .. Len(code[m].body) :
  code[m].body[n].op = "static" =>
    ArgsRead[ClassOf[m]][code[m].body[n].callee] = Args[code[m].body[n].callee]

(* Frames are reused, and operands left on one by an earlier invocation    *)
(* stay; a handler nevertheless finds at least the operands the class file *)
(* was verified to have there, and never pops from an empty buffer.        *)
NoUnderflow ==
  OwnStatics => /\ Executing => Instr.h <= Top.off
                /\ status # "underrun"

(* The activations, walked from cur_stack_frame by prev, outermost first.  *)
Walk(prev) ==
  LET walk[a \in DOMAIN prev] ==
        IF prev[a] = NULL THEN <<a>> ELSE Append(walk[prev[a]], a)
  IN  walk
Prev  == [a \in DOMAIN frame |-> frame[a].prev]
Chain == Walk(Prev)[cur]

(* jvm_stack_depth, whose 0 ends the interpreter, counts the frames that   *)
(* are linked behind the current one.                                      *)
DepthCountsFrames ==
  status = "run" /\ depth > 0 => depth = Len(Chain)

(* A <clinit> that starts inside a method cuts the chain.  Until the fault *)
(* that follows, the code that runs belongs to that <clinit>, which is     *)
(* none of those started at depth 0, and to what it calls: never does a    *)
(* method it cut off resume under wrong registers.                         *)
BottomIsRoot ==
  Executing =>
    LET bottom == frame[Chain[1]].buf IN
      IF depth = Len(Chain) THEN bottom = Boot[boot]
      ELSE bottom \in Roots \ {Boot[i] : i \in 1 .. boot}

(* The process ends: by itself, or by a fault the model names.             *)
Halts == <>(status # "run")

(* What czvm.h:322 says of operand_offset: it is an array index, the next  *)
(* place that can be stored to.  So no push finds the buffer full.         *)
OffsetIsAnIndex == status # "overrun"
=============================================================================
