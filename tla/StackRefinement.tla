-------------------------- MODULE StackRefinement --------------------------
(***************************************************************************)
(* What the frames of Frames look like to a Java program, and the claim    *)
(* that they are JvmStack's stack.                                         *)
(***************************************************************************)
EXTENDS Frames

CONSTANTS Positions,    \* of the abstract stack
          Values

(* The stack a reader of the frames sees; the refinement mapping.          *)
activations ==
  IF depth = 0 THEN << >>
  ELSE [i \in 1 .. Len(Chain) |->
         [meth  |-> frame[Chain[i]].buf,
          at    |-> IF i < Len(Chain) THEN frame[Chain[i + 1]].ret.at
                    ELSE IF pc = NULL THEN 0 ELSE pc.at,
          local |-> locals[frame[Chain[i]].buf]]]

Stack == INSTANCE JvmStack WITH stack <- activations
(* What calls and returns promise: one stack of activations, of which only *)
(* the top one changes (invoke handlers, jvm_interp_return).               *)
ImplementsStack == Stack!Spec
=============================================================================
