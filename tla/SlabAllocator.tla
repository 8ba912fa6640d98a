--------------------------- MODULE SlabAllocator ---------------------------
(***************************************************************************)
(* czvm's object allocator (mem.c): one chunk per size class, each with a  *)
(* linked list of empty and one of used slots.  mem_alloc first sweeps the *)
(* used list of its chunk when the chunk is full enough, freeing the slots *)
(* whose object has reference count 0; finding no empty slot it merges     *)
(* slots of a smaller class, and failing that splits a slot of a larger    *)
(* one.  The lists are modelled pointer by pointer, because the sweep and  *)
(* remove_slot relink them in ways a sequence could not express.           *)
(*                                                                         *)
(* A slot's memory is part of the block that init_jvm_mem malloc'ed for    *)
(* the slot (chunk_index, slot_index_in_chunk): `home' and `idx' name the  *)
(* block, `off' and `len' the part.                                        *)
(***************************************************************************)
EXTENDS Paths

CONSTANTS NumChunks,        \* size classes (CHUNK_ARRAY_SIZE, 16 in mem.h)
          slot_size_array,  \* their slot sizes (mem.c:18)
          SlotsPerChunk,    \* SLOT_ARRAY_SIZE_PER_CHUNK, 32 in mem.h
          MaxGroup,         \* length of temp_slot, 256 in mem.c
          MaxAllocs         \* bound: calls of mem_alloc explored

Chunks == 1 .. NumChunks
Size(c) == slot_size_array[c]

ASSUME SizeAssumption ==
  /\ NumChunks \in Nat \ {0} /\ SlotsPerChunk \in Nat \ {0}
  /\ MaxGroup \in Nat \ {0} /\ MaxAllocs \in Nat
  /\ slot_size_array \in [Chunks -> Nat \ {0}]
  /\ \A c \in 1 .. NumChunks - 1 : Size(c + 1) = 2 * Size(c)

(* Addresses of slots: those of init_jvm_mem, and what splitting can add.  *)
MaxSlots == NumChunks * SlotsPerChunk + MaxAllocs * Size(NumChunks)
Null == 0

VARIABLES heap,    \* the slots, the list heads, the sizes, and any fault
          live,    \* memory of the objects whose ref_count is not 0
          allocs   \* calls of mem_alloc so far

vars == <<heap, live, allocs>>

Slot == [next : 0 .. MaxSlots, home : Chunks, idx : 0 .. SlotsPerChunk - 1,
         off : Nat, len : Nat \ {0}]
Extent(s) == [home |-> s.home, idx |-> s.idx, off |-> s.off, len |-> s.len]

(* init_jvm_mem: every slot is inserted before the head of its empty list. *)
FirstSlot(c) == (c - 1) * SlotsPerChunk
InitialHeap ==
  [slot  |-> [i \in 1 .. NumChunks * SlotsPerChunk |->
               LET c == (i - 1) \div SlotsPerChunk + 1
                   j == (i - 1) % SlotsPerChunk
               IN [next |-> IF j = 0 THEN Null ELSE i - 1,
                   home |-> c, idx |-> j, off |-> 0, len |-> Size(c)]],
   empty |-> [c \in Chunks |-> FirstSlot(c) + SlotsPerChunk],
   used  |-> [c \in Chunks |-> Null],
   empty_size |-> [c \in Chunks |-> SlotsPerChunk * Size(c)],
   used_size  |-> [c \in Chunks |-> 0],
   fault |-> "none",     \* "segv": null dereference, "wild": use of a freed
                         \* slot, "hang": a loop over a cyclic list,
                         \* "overread": a read behind temp_slot
   tainted |-> FALSE]    \* history: a sweep met two neighbouring dead slots,
                         \* or a merge joined slots that are not neighbours

(* Faulty variant of Init: slot_index_in_chunk counts from 1.              *)
InitFromOne ==
  /\ heap = [InitialHeap EXCEPT !.slot =
               [u \in DOMAIN @ |-> [@[u] EXCEPT !.idx = @ + 1]]]
  /\ live = {} /\ allocs = 0

Init == heap = InitialHeap /\ live = {} /\ allocs = 0

-----------------------------------------------------------------------------
(* Following next pointers.                                                *)

(* The slots from p on, and what follows the last: Null, a slot that has   *)
(* been freed, or, on a cyclic list, one that was met before.              *)
Following(h) == [u \in DOMAIN h.slot |-> h.slot[u].next]
Walk(h, p)   == Front(Path(Following(h), p))
End(h, p)    == Last(Path(Following(h), p))

Fault(h, f) == [h EXCEPT !.fault = f]
Ok(h)       == h.fault = "none"

(* What a loop that runs off list p does.                                  *)
LostOn(h, p) == Fault(h, IF End(h, p) = Null THEN "segv"
                         ELSE IF End(h, p) \in DOMAIN h.slot THEN "hang" ELSE "wild")

InsertBeforeHead(h, c, u) ==
  [h EXCEPT !.slot[u].next = h.empty[c], !.empty[c] = u]

InsertAfterTail(h, c, u) ==
  LET w == Walk(h, h.empty[c]) IN
    IF End(h, h.empty[c]) # Null THEN LostOn(h, h.empty[c])
    ELSE IF w = << >> THEN [h EXCEPT !.empty[c] = u]
    ELSE [h EXCEPT !.slot[Last(w)].next = u]

(* remove_slot: away from the head it returns the removed slot's           *)
(* predecessor, so the slots before that are lost to the list.             *)
RemoveSlot(h, c, u) ==
  LET head == h.empty[c]
      w == Walk(h, head)
      before == {i \in DOMAIN w : h.slot[w[i]].next = u}
      p == w[CHOOSE i \in before : \A j \in before : i <= j]
  IN IF u \notin DOMAIN h.slot THEN Fault(h, "wild")
     ELSE IF head = u THEN [h EXCEPT !.empty[c] = h.slot[u].next]
     ELSE IF before = {} THEN LostOn(h, head)
     ELSE [h EXCEPT !.slot[p].next = h.slot[u].next, !.empty[c] = p]

-----------------------------------------------------------------------------
(* The sweep.                                                              *)

(* used_size / (empty_size + used_size) >= CHUNK_GC_FACTOR, in doubles:    *)
(* dividing by zero gives an infinity of used_size's sign.                 *)
NeedsSweep(h, c) ==
  LET e == h.empty_size[c]
      u == h.used_size[c]
      total == e + u
  IN \/ e = 0
     \/ total > 0 /\ 10 * u >= 6 * total
     \/ total < 0 /\ 10 * u <= 6 * total
     \/ total = 0 /\ u > 0

Dead(h, u) == ~\E o \in live : /\ o.home = h.slot[u].home /\ o.idx = h.slot[u].idx
                               /\ o.off = h.slot[u].off

(* One turn of the loop; s.pre is the slot of the turn before, even when   *)
(* that turn has moved it to the empty list.                               *)
SweepTurn(c, s) ==
  LET h == s.h
      u == s.u
      after == h.slot[u].next
      unlinked == IF u = s.pre THEN [h EXCEPT !.used[c] = after]
                  ELSE [h EXCEPT !.slot[s.pre].next = after]
      cut == [unlinked EXCEPT !.slot[u].next = Null,
                !.tainted = @ \/ (u # s.pre /\ Dead(h, s.pre))]
      moved == IF h.slot[u].home = c THEN InsertBeforeHead(cut, c, u)
               ELSE InsertAfterTail(cut, c, u)
      counted == [moved EXCEPT !.empty_size[c] = @ + h.slot[u].len,
                               !.used_size[c] = @ - h.slot[u].len]
  IN IF u \notin DOMAIN h.slot THEN [s EXCEPT !.h = Fault(h, "wild")]
     ELSE [h |-> IF Dead(h, u) THEN counted ELSE h, u |-> after, pre |-> u]

Sweep(h, c) ==
  LET n == 4 * (Cardinality(DOMAIN h.slot) + 1)     \* a longer loop never ends
      turn[i \in 0 .. n] ==
        IF i = 0 THEN [h |-> h, u |-> h.used[c], pre |-> h.used[c]]
        ELSE LET s == turn[i - 1] IN
             IF s.u = Null \/ ~Ok(s.h) THEN s ELSE SweepTurn(c, s)
      ended(s) == IF s.u # Null /\ Ok(s.h) THEN Fault(s.h, "hang") ELSE s.h
  IN ended(turn[n])

-----------------------------------------------------------------------------
(* Merging slots of smaller classes.                                       *)

(* temp_slot and size: the head of chunk j's empty list and the slots      *)
(* behind it with the same slot_index_in_chunk, until they make up a slot  *)
(* of chunk c.  Neither their chunk_index nor their addresses are          *)
(* compared.                                                               *)
Full(c, t) == t.size = Size(c) \/ Len(t.temp_slot) = MaxGroup
Group(h, c, j) ==
  LET w == Walk(h, h.empty[j])
      Takes(t, u) == ~Full(c, t) /\ h.slot[u].idx = h.slot[w[1]].idx
      Take(t, u)  == [temp_slot |-> Append(t.temp_slot, u), size |-> t.size + h.slot[u].len]
      taken[i \in 0 .. Len(w)] ==
        IF i = 0 THEN [temp_slot |-> << >>, size |-> 0]
        ELSE IF Takes(taken[i - 1], w[i]) THEN Take(taken[i - 1], w[i]) ELSE taken[i - 1]
  IN taken[Len(w)]

(* Blocks lie in memory in the order init_jvm_mem allocates them.          *)
Below(s, t) == \/ s.home < t.home
               \/ s.home = t.home /\ s.off < t.off

Neighbours(h, g) ==
  LET offs == {h.slot[g[i]].off : i \in DOMAIN g}
      lo == CHOOSE o \in offs : \A p \in offs : o <= p
  IN /\ \A i \in DOMAIN g : h.slot[g[i]].home = h.slot[g[1]].home
     /\ offs = {lo + (i - 1) * h.slot[g[1]].len : i \in DOMAIN g}

Removed(h, j, g) ==
  LET left[i \in 0 .. Len(g)] ==
        IF i = 0 THEN h
        ELSE IF Ok(left[i - 1]) THEN RemoveSlot(left[i - 1], j, g[i]) ELSE left[i - 1]
  IN left[Len(g)]

(* The slot with the lowest address grows, the others are freed.           *)
Joined(h, c, g) ==
  LET first == CHOOSE i \in DOMAIN g :
                 \A k \in DOMAIN g : /\ ~Below(h.slot[g[k]], h.slot[g[i]])
                                     /\ k < i => Below(h.slot[g[i]], h.slot[g[k]])
      kept == g[first]
      freed == {g[i] : i \in DOMAIN g \ {first}}
      taint == h.tainted \/ ~Neighbours(h, g)
      grown == [h.slot[kept] EXCEPT !.len = Size(c), !.next = h.empty[c]]
  IN [h EXCEPT !.slot = [u \in DOMAIN h.slot \ freed |->
                           IF u = kept THEN grown ELSE h.slot[u]],
               !.empty[c] = kept,
               !.empty_size[c] = @ + Size(c),
               !.tainted = taint]

(* A list that ends in a loop is gone round, and its slots are taken       *)
(* twice: "hang" stands for that, too.                                     *)
MergeFrom(h, c, j) ==
  LET t == Group(h, c, j)
      r == Removed(h, j, t.temp_slot)
  IN IF h.empty[j] = Null THEN Fault(h, "segv")
     ELSE IF End(h, h.empty[j]) # Null /\ ~Full(c, t) THEN LostOn(h, h.empty[j])
     ELSE IF t.size # Size(c) THEN h
     ELSE IF Len(t.temp_slot) = MaxGroup THEN Fault(h, "overread")
     ELSE IF Ok(r) THEN Joined(r, c, t.temp_slot) ELSE r

(* From the next smaller class down to the smallest.                       *)
Merge(h, c) ==
  LET tried[d \in 0 .. c - 1] ==
        IF d = 0 THEN h
        ELSE IF tried[d - 1].empty[c] # Null \/ ~Ok(tried[d - 1]) THEN tried[d - 1]
        ELSE MergeFrom(tried[d - 1], c, c - d)
  IN tried[c - 1]

-----------------------------------------------------------------------------
(* Borrowing from a larger class.                                          *)

Lenders(h, c) == {k \in c + 1 .. NumChunks : h.empty_size[k] # 0}

(* Splits the first empty slot of chunk k: the last piece becomes the head *)
(* of chunk c's empty list.  Chunk c does not count the pieces as empty.   *)
Split(h, c, k) ==
  LET t == h.empty[k]
      count == Size(k) \div Size(c)
      kept == DOMAIN h.slot \ {t}
      unused == (1 .. MaxSlots) \ DOMAIN h.slot
      (* malloc: ids that are not in use, the lowest first                 *)
      ids == [i \in 1 .. count |->
               CHOOSE u \in unused : Cardinality({v \in unused : v < u}) = i - 1]
      piece(i) == [next |-> IF i = 1 THEN h.empty[c] ELSE ids[i - 1],
                   home |-> h.slot[t].home, idx |-> h.slot[t].idx,
                   off |-> h.slot[t].off + (i - 1) * Size(c), len |-> Size(c)]
      new == {ids[i] : i \in 1 .. count}
  IN IF t = Null THEN Fault(h, "segv")
     ELSE IF t \notin DOMAIN h.slot THEN Fault(h, "wild")
     ELSE [h EXCEPT !.slot = [u \in kept \cup new |->
                                IF u \in new
                                THEN piece(CHOOSE i \in 1 .. count : ids[i] = u)
                                ELSE h.slot[u]],
                    !.empty = [@ EXCEPT ![k] = h.slot[t].next, ![c] = ids[count]],
                    !.empty_size[k] = @ - Size(k)]

(* Faulty variant of Borrow: every piece gets the lender's mem_ptr.        *)
BorrowWithoutOffset(h, c) ==
  LET k == CHOOSE i \in Lenders(h, c) : \A l \in Lenders(h, c) : i <= l
      r == Split(h, c, k)
  IN [r EXCEPT !.slot = [u \in DOMAIN @ |->
        IF u \in DOMAIN h.slot THEN @[u] ELSE [@[u] EXCEPT !.off = h.slot[h.empty[k]].off]]]

Borrow(h, c) == Split(h, c, CHOOSE k \in Lenders(h, c) :
                              \A l \in Lenders(h, c) : k <= l)

-----------------------------------------------------------------------------
(* mem_alloc for size class c, up to the point where a slot is taken: one  *)
(* operator per stage, each a function of the heap the stage before left.  *)
Swept(h, c) == IF NeedsSweep(h, c) THEN Sweep(h, c) ELSE h

Merged(h, c) == IF h.empty[c] = Null /\ Ok(h) THEN Merge(h, c) ELSE h

Borrowed(h, c) ==
  IF ~Ok(h) THEN h
  ELSE IF h.empty[c] # Null THEN IF h.empty[c] \in DOMAIN h.slot THEN h ELSE Fault(h, "wild")
  ELSE IF Lenders(h, c) # {} THEN Borrow(h, c) ELSE h

Prepared(c) == Borrowed(Merged(Swept(heap, c), c), c)

(* Faulty variants of Taken: the slot stays in the empty list, or the used *)
(* list behind it is dropped.                                              *)
TakenWith(h, c, empty, next) ==
  LET u == h.empty[c]
      own == IF h.slot[u].home = c THEN h.slot[u].len ELSE 0
  IN [h EXCEPT !.empty_size[c] = @ - own, !.used_size[c] = @ + own,
               !.empty[c] = empty, !.slot[u].next = next, !.used[c] = u]
TakenStaysEmpty(h, c) == TakenWith(h, c, h.empty[c], h.used[c])
TakenDropsUsed(h, c)  == TakenWith(h, c, h.slot[h.empty[c]].next, Null)

(* The head of the empty list becomes the head of the used list; a slot    *)
(* that is lent by another chunk is not counted.                           *)
Taken(h, c) ==
  LET u == h.empty[c]
      own == IF h.slot[u].home = c THEN h.slot[u].len ELSE 0
  IN [h EXCEPT !.empty_size[c] = @ - own, !.used_size[c] = @ + own,
               !.empty[c] = h.slot[u].next,
               !.slot[u].next = h.used[c],
               !.used[c] = u]

Running == Ok(heap) /\ allocs < MaxAllocs

(* The caller gives the object a reference: it enters the frame's list.    *)
Alloc(c) ==
  /\ Running
  /\ \E h \in {Prepared(c)} :
       /\ Ok(h) /\ h.empty[c] # Null
       /\ heap' = Taken(h, c)
       /\ live' = live \cup {Extent(h.slot[h.empty[c]])}
  /\ allocs' = allocs + 1

(* mem_alloc returns NULL.                                                 *)
OutOfMemory(c) ==
  /\ Running
  /\ heap' \in {h \in {Prepared(c)} : Ok(h) /\ h.empty[c] = Null}
  /\ allocs' = allocs + 1
  /\ UNCHANGED live

(* mem_alloc faults or never returns.                                      *)
AllocFaults(c) ==
  /\ Running
  /\ heap' \in {h \in {Prepared(c)} : ~Ok(h)}
  /\ allocs' = allocs + 1
  /\ UNCHANGED live

(* The interpreter drops the last reference to an object.                  *)
Release(o) == /\ Ok(heap)
              /\ live' = live \ {o}
              /\ UNCHANGED <<heap, allocs>>

Next == \/ \E c \in Chunks : Alloc(c) \/ OutOfMemory(c) \/ AllocFaults(c)
        \/ \E o \in live : Release(o)

Spec == Init /\ [][Next]_vars

-----------------------------------------------------------------------------
(* Properties.                                                             *)

TypeOK ==
  /\ DOMAIN heap.slot \subseteq 1 .. MaxSlots
  /\ \A u \in DOMAIN heap.slot : heap.slot[u] \in Slot
  /\ heap.empty \in [Chunks -> 0 .. MaxSlots] /\ heap.used \in [Chunks -> 0 .. MaxSlots]
  /\ heap.empty_size \in [Chunks -> Int] /\ heap.used_size \in [Chunks -> Int]
  /\ heap.fault \in {"none", "segv", "wild", "hang", "overread"} /\ heap.tainted \in BOOLEAN
  /\ allocs \in 0 .. MaxAllocs

Untainted == Ok(heap) /\ ~heap.tainted

Heads == {heap.empty[c] : c \in Chunks} \cup {heap.used[c] : c \in Chunks}
ElementsOf(p) == ToSet(Walk(heap, p))

(* Until the first fault of the sweep or of a merge, every list ends, and  *)
(* a slot is in at most one list.                                          *)
ListsDisjoint ==
  Untainted =>
    /\ \A p \in Heads : End(heap, p) = Null
    /\ \A c, d \in Chunks :
         /\ ElementsOf(heap.empty[c]) \cap ElementsOf(heap.used[d]) = {}
         /\ c # d => /\ ElementsOf(heap.empty[c]) \cap ElementsOf(heap.empty[d]) = {}
                     /\ ElementsOf(heap.used[c]) \cap ElementsOf(heap.used[d]) = {}

Overlap(a, b) == /\ a.home = b.home /\ a.idx = b.idx
                 /\ a.off < b.off + b.len /\ b.off < a.off + a.len
InBlock(a)    == a.off + a.len <= Size(a.home)

(* Splitting and merging hand out each byte once: until such a fault, no   *)
(* two slots overlap, and none reaches beyond its block.                   *)
SlotsDisjoint ==
  Untainted =>
    \A u \in DOMAIN heap.slot :
      /\ InBlock(heap.slot[u])
      /\ \A v \in DOMAIN heap.slot \ {u} : ~Overlap(heap.slot[u], heap.slot[v])

(* An object that still has a reference keeps its memory: until such a     *)
(* fault its slot stays in a used list, where no allocation takes it.      *)
LiveStaysUsed ==
  Untainted =>
    \A o \in live : \E c \in Chunks : \E u \in ElementsOf(heap.used[c]) :
      Extent(heap.slot[u]) = o

(* What ends a loop or a walk wrongly is one of these two: without them,   *)
(* mem_alloc uses no freed slot and never hangs (it may follow NULL).      *)
FaultsFollowTaint == heap.fault \in {"wild", "hang"} => heap.tainted

(* mem.c:7: without an empty slot, lent slots are merged, and if there is  *)
(* still none, one is borrowed from a later chunk.  So an allocation never *)
(* faults while a later chunk still has an empty slot to lend.             *)
BorrowsFromLater ==
  [][\A c \in Chunks : AllocFaults(c) /\ Untainted =>
       \A k \in c + 1 .. NumChunks : heap.empty[k] = Null]_vars
=============================================================================
