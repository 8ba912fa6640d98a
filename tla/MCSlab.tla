------------------------------- MODULE MCSlab -------------------------------
(***************************************************************************)
(* The size classes of SlabAllocator, in units of the smallest slot.       *)
(***************************************************************************)
EXTENDS SlabAllocator

MCSizes == [c \in Chunks |-> 2 ^ (c - 1)]
=============================================================================
