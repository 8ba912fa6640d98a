------------------------------- MODULE Paths -------------------------------
(***************************************************************************)
(* Walking linked lists.  Many loops of czvm go from pointer to pointer    *)
(* until one is NULL (mem.c, interpreter.c); nothing stops them on a       *)
(* cyclic list or at an entry that has been freed.                         *)
(***************************************************************************)
EXTENDS Integers, FiniteSets, SequencesExt

(* What is met from p on, following next, up to what has no next.  On a    *)
(* cyclic list, one more than there is.                                    *)
Path(next, p) ==
  LET met[i \in 0 .. Cardinality(DOMAIN next)] ==
        IF i = 0 THEN <<p>>
        ELSE LET w == met[i - 1] IN
             IF Last(w) \in DOMAIN next THEN Append(w, next[Last(w)]) ELSE w
  IN met[Cardinality(DOMAIN next)]
=============================================================================
