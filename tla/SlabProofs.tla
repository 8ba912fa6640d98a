----------------------------- MODULE SlabProofs -----------------------------
(***************************************************************************)
(* Proofs about SlabAllocator.  The first part is about types, which hold  *)
(* whatever a fault has done to the lists; the second about what holds     *)
(* until the first wrong sweep or merge: lists that end and are disjoint,  *)
(* slots that do not overlap, and live objects in used lists.              *)
(***************************************************************************)
EXTENDS SlabAllocator, Foundations

-----------------------------------------------------------------------------
(* Heaps.                                                                  *)

Ids      == 1 .. MaxSlots
Pointers == 0 .. MaxSlots
Faults   == {"none", "segv", "wild", "hang", "overread"}
Stores   == UNION {[D -> Slot] : D \in SUBSET Ids}
Heaps    == [slot : Stores, empty : [Chunks -> Pointers], used : [Chunks -> Pointers],
             empty_size : [Chunks -> Int], used_size : [Chunks -> Int],
             fault : Faults, tainted : BOOLEAN]

(* The constants are numbers.                                              *)
LEMMA Constants ==
  /\ NumChunks \in Nat \ {0} /\ SlotsPerChunk \in Nat \ {0} /\ MaxAllocs \in Nat
  /\ MaxGroup \in Nat \ {0} /\ MaxSlots \in Nat /\ NumChunks \in Chunks /\ 1 \in Chunks
  /\ \A c \in Chunks : Size(c) \in Nat \ {0}
<1>1. \A c \in Chunks : Size(c) \in Nat \ {0}
  BY SizeAssumption DEF Size
<1>2. NumChunks \in Chunks /\ 1 \in Chunks
  BY SizeAssumption DEF Chunks
<1>3. PICK s : s = Size(NumChunks) /\ s \in Nat
  BY <1>1, <1>2
<1>4. NumChunks * SlotsPerChunk \in Nat /\ MaxAllocs * s \in Nat
  BY <1>3, SizeAssumption
<1>5. MaxSlots \in Nat
  BY <1>3, <1>4 DEF MaxSlots
<1> QED BY <1>1, <1>2, <1>5, SizeAssumption

(* A larger slot is made up of smaller ones.                               *)
LEMMA Multiples ==
  ASSUME NEW c \in Chunks, NEW k \in Chunks, c <= k
  PROVE  \E m \in Nat \ {0} : Size(k) = m * Size(c)
<1> DEFINE Is(d) == \E m \in Nat \ {0} : Size(c + d) = m * Size(c)
           T == {d \in Nat : Is(d)}
<1>1. c \in Nat /\ k \in Nat /\ k - c \in Nat /\ k <= NumChunks /\ 1 <= c
  BY SizeAssumption DEF Chunks
<1>2. Is(0)
  <2>1. Size(c + 0) = 1 * Size(c)
    BY <1>1, Constants
  <2> QED BY <2>1
<1>3. ASSUME NEW d \in 1 .. k - c, Is(d - 1)
      PROVE  Is(d)
  <2>1. PICK m \in Nat \ {0} : Size(c + (d - 1)) = m * Size(c)
    BY <1>3
  <2>2. c + (d - 1) \in 1 .. NumChunks - 1 /\ c + (d - 1) + 1 = c + d
    BY <1>1, Constants
  <2>3. Size(c + d) = 2 * Size(c + (d - 1))
    BY <2>2, SizeAssumption
  <2>4. PICK s : s = Size(c) /\ s \in Nat
    BY Constants
  <2>5. Size(c + d) = (2 * m) * Size(c) /\ 2 * m \in Nat \ {0}
    BY <2>1, <2>3, <2>4
  <2> QED BY <2>5
<1> HIDE DEF Is
<1>4. 0 \in T /\ \A d \in 1 .. k - c : d - 1 \in T => d \in T
  BY <1>2, <1>3
<1> HIDE DEF T
<1>5. k - c \in T
  BY <1>1, <1>4, Preserved
<1>6. Is(k - c) /\ c + (k - c) = k
  BY <1>1, <1>5 DEF T
<1> QED BY <1>6 DEF Is

(* The largest class.                                                      *)
LEMMA LargestSize ==
  ASSUME NEW c \in Chunks
  PROVE  Size(c) <= Size(NumChunks)
<1>1. c <= NumChunks
  BY SizeAssumption DEF Chunks
<1>2. PICK m \in Nat \ {0} : Size(NumChunks) = m * Size(c)
  BY <1>1, Constants, Multiples
<1>3. PICK s \in Nat \ {0} : s = Size(c)
  BY Constants
<1>4. PICK l \in Nat : m = l + 1
  BY <1>2
<1>5. l * s \in Nat /\ (l + 1) * s = l * s + s
  BY Distribution
<1> QED BY <1>2, <1>3, <1>4, <1>5

(* The slots are finitely many.                                            *)
LEMMA StoreFacts ==
  ASSUME NEW sl \in Stores
  PROVE  /\ DOMAIN sl \subseteq Ids /\ IsFiniteSet(DOMAIN sl)
         /\ sl \in [DOMAIN sl -> Slot]
<1>1. DOMAIN sl \subseteq Ids /\ sl \in [DOMAIN sl -> Slot]
  BY DEF Stores
<1>2. IsFiniteSet(Ids)
  BY Constants, FS_Interval DEF Ids
<1> QED BY <1>1, <1>2, FS_Subset

(* Slots at some of the addresses are a store.                             *)
LEMMA AllStores ==
  ASSUME NEW D \in SUBSET Ids, NEW sl \in [D -> Slot]
  PROVE  sl \in Stores
  BY DEF Stores

(* The parts of a heap.                                                    *)
LEMMA HeapFacts ==
  ASSUME NEW h \in Heaps
  PROVE  /\ h.slot \in Stores /\ DOMAIN h.slot \subseteq Ids /\ IsFiniteSet(DOMAIN h.slot)
         /\ h.slot \in [DOMAIN h.slot -> Slot]
         /\ h.empty \in [Chunks -> Pointers] /\ h.used \in [Chunks -> Pointers]
         /\ h.empty_size \in [Chunks -> Int] /\ h.used_size \in [Chunks -> Int]
         /\ h.fault \in Faults /\ h.tainted \in BOOLEAN
<1>1. /\ h.slot \in Stores
      /\ h.empty \in [Chunks -> Pointers] /\ h.used \in [Chunks -> Pointers]
      /\ h.empty_size \in [Chunks -> Int] /\ h.used_size \in [Chunks -> Int]
      /\ h.fault \in Faults /\ h.tainted \in BOOLEAN
  BY DEF Heaps
<1> QED BY <1>1, StoreFacts

(* The lists and the slots, without the sizes.                             *)
Relisted(h, r, sl, e, us) ==
  /\ r \in Heaps /\ r.slot = sl /\ r.empty = e /\ r.used = us
  /\ r.fault = h.fault /\ r.tainted = h.tainted

(* A fault changes nothing else.                                           *)
LEMMA Faulting ==
  ASSUME NEW h \in Heaps, NEW f \in Faults
  PROVE  LET r == Fault(h, f) IN
         /\ r \in Heaps /\ r.slot = h.slot /\ r.empty = h.empty /\ r.used = h.used
         /\ r.fault = f /\ r.tainted = h.tainted
  BY DEF Fault, Heaps

(* One pointer of a slot.                                                  *)
Relink(sl, u, x) == [sl EXCEPT ![u].next = x]

(* Slots of the same memory.                                               *)
Stays(sl, r) ==
  /\ DOMAIN r = DOMAIN sl
  /\ \A v \in DOMAIN sl : /\ r[v].home = sl[v].home /\ r[v].idx = sl[v].idx
                          /\ r[v].off = sl[v].off /\ r[v].len = sl[v].len

(* A pointer that is changed changes nothing else.                         *)
LEMMA Relinking ==
  ASSUME NEW sl \in Stores, NEW u \in DOMAIN sl, NEW x \in Pointers
  PROVE  /\ Relink(sl, u, x) \in Stores /\ Stays(sl, Relink(sl, u, x))
         /\ Relink(sl, u, x)[u].next = x
         /\ \A v \in DOMAIN sl : v # u => Relink(sl, u, x)[v] = sl[v]
<1>1. sl \in [DOMAIN sl -> Slot] /\ DOMAIN sl \subseteq Ids
  BY StoreFacts
<1>2. PICK s : s = [sl[u] EXCEPT !.next = x]
  OBVIOUS
<1>3. sl[u] \in Slot
  BY <1>1
<1>4. /\ s \in Slot /\ s.next = x /\ s.home = sl[u].home /\ s.idx = sl[u].idx
      /\ s.off = sl[u].off /\ s.len = sl[u].len
  BY <1>2, <1>3 DEF Slot, Pointers
<1>5. PICK r : r = [sl EXCEPT ![u] = s]
  OBVIOUS
<1>6. /\ r \in [DOMAIN sl -> Slot] /\ DOMAIN r = DOMAIN sl /\ r[u] = s
      /\ \A v \in DOMAIN sl : v # u => r[v] = sl[v]
  BY <1>1, <1>4, <1>5
<1>7. r \in Stores
  BY <1>1, <1>6, AllStores
<1>8. Relink(sl, u, x) = r
  BY <1>2, <1>5 DEF Relink
<1>9. \A v \in DOMAIN sl : /\ r[v].home = sl[v].home /\ r[v].idx = sl[v].idx
                           /\ r[v].off = sl[v].off /\ r[v].len = sl[v].len
  BY <1>4, <1>6
<1> QED BY <1>4, <1>6, <1>7, <1>8, <1>9 DEF Stays

(* Walking a list.                                                         *)
LEMMA Walking ==
  ASSUME NEW h \in Heaps, NEW p \in Pointers
  PROVE  /\ Walk(h, p) \in Seq(DOMAIN h.slot) /\ End(h, p) \in Pointers
         /\ Path(Following(h), p) \in Seq(Pointers) /\ Path(Following(h), p) # << >>
<1> DEFINE D == DOMAIN h.slot
<1>1. Following(h) \in [D -> Pointers]
  <2>1. \A u \in D : h.slot[u] \in Slot
    BY HeapFacts
  <2>2. \A u \in D : h.slot[u].next \in Pointers
    BY <2>1 DEF Slot, Pointers
  <2> QED BY <2>2 DEF Following
<1>2. PICK q : q = Path(Following(h), p)
  OBVIOUS
<1>3. q \in Seq(Pointers) /\ Leads(D, Following(h), q)
  BY <1>1, <1>2, PathFacts, HeapFacts
<1>4. /\ q # << >> /\ Len(q) \in Nat \ {0} /\ Last(q) = q[Len(q)] /\ Last(q) \in Pointers
      /\ Front(q) \in Seq(Pointers) /\ Len(Front(q)) = Len(q) - 1
      /\ \A k \in 1 .. Len(q) - 1 : Front(q)[k] = q[k] /\ q[k] \in D
  BY <1>3, SeqParts DEF Leads
<1>5. PICK w : w = Front(q)
  OBVIOUS
<1>6. w \in Seq(Pointers) /\ \A k \in 1 .. Len(w) : w[k] \in D
  BY <1>4, <1>5
<1>7. w \in Seq(D)
  BY <1>6
<1> QED BY <1>2, <1>3, <1>4, <1>5, <1>7 DEF Walk, End

(* Running off a list.                                                     *)
LEMMA Losing ==
  ASSUME NEW h \in Heaps, NEW p \in Pointers
  PROVE  LET r == LostOn(h, p) IN
         /\ r \in Heaps /\ r.slot = h.slot /\ r.empty = h.empty /\ r.used = h.used
         /\ r.fault \in Faults \ {"none"} /\ r.tainted = h.tainted
  BY Faulting DEF LostOn, Faults

-----------------------------------------------------------------------------
(* What the list operations yield.                                         *)

(* insert_before_head.                                                     *)
LEMMA InsertsBefore ==
  ASSUME NEW h \in Heaps, NEW c \in Chunks, NEW u \in DOMAIN h.slot
  PROVE  Relisted(h, InsertBeforeHead(h, c, u), Relink(h.slot, u, h.empty[c]),
                  [h.empty EXCEPT ![c] = u], h.used)
<1>1. PICK sl : sl = Relink(h.slot, u, h.empty[c])
  OBVIOUS
<1>2. PICK e : e = [h.empty EXCEPT ![c] = u]
  OBVIOUS
<1>3. sl \in Stores /\ e \in [Chunks -> Pointers]
  <2>1. h.empty[c] \in Pointers /\ u \in Pointers
    BY HeapFacts DEF Ids, Pointers
  <2> QED BY <1>1, <1>2, <2>1, HeapFacts, Relinking
<1>4. InsertBeforeHead(h, c, u) = [h EXCEPT !.slot = sl, !.empty = e]
  BY <1>1, <1>2 DEF InsertBeforeHead, Relink, Heaps
<1>5. Relisted(h, [h EXCEPT !.slot = sl, !.empty = e], sl, e, h.used)
  BY <1>3 DEF Relisted, Heaps
<1> QED BY <1>1, <1>2, <1>4, <1>5

(* insert_after_tail.                                                      *)
LEMMA InsertsAfter ==
  ASSUME NEW h \in Heaps, NEW c \in Chunks, NEW u \in DOMAIN h.slot
  PROVE  LET w == Walk(h, h.empty[c])
             r == InsertAfterTail(h, c, u)
         IN IF End(h, h.empty[c]) # Null THEN r = LostOn(h, h.empty[c])
            ELSE IF w = << >> THEN Relisted(h, r, h.slot, [h.empty EXCEPT ![c] = u], h.used)
            ELSE Relisted(h, r, Relink(h.slot, Last(w), u), h.empty, h.used)
<1>1. PICK w, r : w = Walk(h, h.empty[c]) /\ r = InsertAfterTail(h, c, u)
  OBVIOUS
<1>2. h.empty[c] \in Pointers /\ u \in Pointers
  BY HeapFacts DEF Ids, Pointers
<1>3. CASE End(h, h.empty[c]) # Null
  <2>1. r = LostOn(h, h.empty[c])
    BY <1>1, <1>3 DEF InsertAfterTail
  <2> QED BY <1>1, <1>3, <2>1
<1>4. CASE End(h, h.empty[c]) = Null /\ w = << >>
  <2>1. PICK e : e = [h.empty EXCEPT ![c] = u]
    OBVIOUS
  <2>2. r = [h EXCEPT !.empty = e]
    BY <1>1, <1>4, <2>1 DEF InsertAfterTail, Heaps
  <2>3. e \in [Chunks -> Pointers]
    BY <1>2, <2>1, HeapFacts
  <2>4. Relisted(h, r, h.slot, e, h.used)
    BY <2>2, <2>3 DEF Relisted, Heaps
  <2> QED BY <1>1, <1>4, <2>1, <2>4
<1>5. CASE End(h, h.empty[c]) = Null /\ w # << >>
  <2>1. PICK t : t = Last(w)
    OBVIOUS
  <2>2. t \in DOMAIN h.slot
    BY <1>1, <1>2, <1>5, <2>1, Walking, SeqParts
  <2>3. PICK sl : sl = Relink(h.slot, t, u)
    OBVIOUS
  <2>4. r = [h EXCEPT !.slot = sl]
    BY <1>1, <1>5, <2>1, <2>3 DEF InsertAfterTail, Relink, Heaps
  <2>5. sl \in Stores
    BY <1>2, <2>2, <2>3, HeapFacts, Relinking
  <2>6. Relisted(h, r, sl, h.empty, h.used)
    BY <2>4, <2>5 DEF Relisted, Heaps
  <2> QED BY <1>1, <1>5, <2>1, <2>3, <2>6
<1> QED BY <1>3, <1>4, <1>5

(* remove_slot.                                                            *)
Before(h, w, u) == {i \in DOMAIN w : h.slot[w[i]].next = u}

(* remove_slot moves the head, runs off the list, or links the predecessor *)
(* to the successor.                                                       *)
LEMMA Removing ==
  ASSUME NEW h \in Heaps, NEW c \in Chunks, NEW u \in Pointers
  PROVE  LET w == Walk(h, h.empty[c])
             r == RemoveSlot(h, c, u)
             i == CHOOSE k \in Before(h, w, u) : \A j \in Before(h, w, u) : k <= j
         IN IF u \notin DOMAIN h.slot THEN r = Fault(h, "wild")
            ELSE IF h.empty[c] = u
            THEN Relisted(h, r, h.slot, [h.empty EXCEPT ![c] = h.slot[u].next], h.used)
            ELSE IF Before(h, w, u) = {} THEN r = LostOn(h, h.empty[c])
            ELSE /\ i \in Before(h, w, u) /\ \A j \in Before(h, w, u) : i <= j
                 /\ w[i] \in DOMAIN h.slot
                 /\ Relisted(h, r, Relink(h.slot, w[i], h.slot[u].next),
                             [h.empty EXCEPT ![c] = w[i]], h.used)
<1> DEFINE w == Walk(h, h.empty[c])
           r == RemoveSlot(h, c, u)
           B == Before(h, w, u)
           i == CHOOSE k \in B : \A j \in B : k <= j
           p == w[i]
<1>1. r = IF u \notin DOMAIN h.slot THEN Fault(h, "wild")
          ELSE IF h.empty[c] = u THEN [h EXCEPT !.empty[c] = h.slot[u].next]
          ELSE IF B = {} THEN LostOn(h, h.empty[c])
          ELSE [h EXCEPT !.slot[p].next = h.slot[u].next, !.empty[c] = p]
  BY Zenon DEF RemoveSlot, Before
<1> SUFFICES IF u \notin DOMAIN h.slot THEN r = Fault(h, "wild")
             ELSE IF h.empty[c] = u
             THEN Relisted(h, r, h.slot, [h.empty EXCEPT ![c] = h.slot[u].next], h.used)
             ELSE IF B = {} THEN r = LostOn(h, h.empty[c])
             ELSE /\ i \in B /\ \A j \in B : i <= j
                  /\ p \in DOMAIN h.slot
                  /\ Relisted(h, r, Relink(h.slot, p, h.slot[u].next),
                              [h.empty EXCEPT ![c] = p], h.used)
  OBVIOUS
<1>2. w = Walk(h, h.empty[c])
  OBVIOUS
<1>3. B = Before(h, w, u)
  OBVIOUS
<1>4. i = CHOOSE k \in B : \A j \in B : k <= j
  OBVIOUS
<1>5. p = w[i]
  OBVIOUS
<1> HIDE DEF w, r, B, i, p
<1>6. CASE u \notin DOMAIN h.slot
  BY <1>1, <1>6
<1>7. ASSUME u \in DOMAIN h.slot
      PROVE  h.slot[u].next \in Pointers
  <2>1. h.slot[u] \in Slot
    BY <1>7, HeapFacts
  <2> QED BY <2>1 DEF Slot, Pointers
<1>8. CASE u \in DOMAIN h.slot /\ h.empty[c] = u
  <2>1. PICK e : e = [h.empty EXCEPT ![c] = h.slot[u].next]
    OBVIOUS
  <2>2. r = [h EXCEPT !.empty = e]
    BY <1>1, <1>8, <2>1 DEF Heaps
  <2>3. e \in [Chunks -> Pointers]
    BY <1>7, <1>8, <2>1, HeapFacts
  <2>4. Relisted(h, r, h.slot, e, h.used)
    BY <2>2, <2>3 DEF Relisted, Heaps
  <2> QED BY <1>2, <1>8, <2>1, <2>4
<1>9. CASE u \in DOMAIN h.slot /\ h.empty[c] # u /\ B = {}
  BY <1>1, <1>9
<1>10. CASE u \in DOMAIN h.slot /\ h.empty[c] # u /\ B # {}
  <2>1. h.empty[c] \in Pointers
    BY HeapFacts
  <2>2. w \in Seq(DOMAIN h.slot) /\ DOMAIN w = 1 .. Len(w)
    <3>1. w \in Seq(DOMAIN h.slot)
      BY <1>2, <2>1, Walking
    <3> QED BY <3>1, SeqElements
  <2>3. B \in SUBSET Nat
    BY <1>3, <2>2 DEF Before
  <2>4. \E k \in B : \A j \in B : k <= j
    BY <1>10, <2>3, LeastNumber
  <2>5. i \in B /\ \A j \in B : i <= j
    BY <1>4, <2>4, Zenon
  <2>6. p \in DOMAIN h.slot
    <3>1. i \in 1 .. Len(w)
      BY <1>3, <2>2, <2>5 DEF Before
    <3> QED BY <1>5, <2>2, <3>1
  <2>7. PICK sl, e : sl = Relink(h.slot, p, h.slot[u].next) /\ e = [h.empty EXCEPT ![c] = p]
    OBVIOUS
  <2>8. r = [h EXCEPT !.slot = sl, !.empty = e]
    BY <1>1, <1>10, <2>7 DEF Relink, Heaps
  <2>9. sl \in Stores /\ e \in [Chunks -> Pointers]
    <3>1. p \in Pointers
      BY <2>6, HeapFacts DEF Ids, Pointers
    <3> QED BY <1>7, <1>10, <2>6, <2>7, <3>1, HeapFacts, Relinking
  <2>10. Relisted(h, r, sl, e, h.used)
    BY <2>8, <2>9 DEF Relisted, Heaps
  <2> QED BY <1>2, <1>3, <1>4, <1>5, <1>10, <2>5, <2>6, <2>7, <2>10
<1> QED BY <1>6, <1>8, <1>9, <1>10

-----------------------------------------------------------------------------
(* The sweep.                                                              *)

(* The sizes do not matter.                                                *)
Counted(h, c, x) == [h EXCEPT !.empty_size[c] = @ + x, !.used_size[c] = @ - x]

(* The byte counts that a dead slot changes leave lists and slots alone.   *)
LEMMA Counting ==
  ASSUME NEW h \in Heaps, NEW c \in Chunks, NEW x \in Nat
  PROVE  Relisted(h, Counted(h, c, x), h.slot, h.empty, h.used)
<1>1. PICK es, us : /\ es = [h.empty_size EXCEPT ![c] = @ + x]
                    /\ us = [h.used_size EXCEPT ![c] = @ - x]
  OBVIOUS
<1>2. es \in [Chunks -> Int] /\ us \in [Chunks -> Int]
  <2>1. h.empty_size[c] + x \in Int /\ h.used_size[c] - x \in Int
    BY HeapFacts
  <2> QED BY <1>1, <2>1, HeapFacts
<1>3. Counted(h, c, x) = [h EXCEPT !.empty_size = es, !.used_size = us]
  BY <1>1 DEF Counted, Heaps
<1> QED BY <1>2, <1>3 DEF Relisted, Heaps

(* A dead slot is taken out of the used list.                              *)
Cut(h, c, u, pre) ==
  LET after == h.slot[u].next
      unlinked == IF u = pre THEN [h EXCEPT !.used[c] = after]
                  ELSE [h EXCEPT !.slot[pre].next = after]
  IN [unlinked EXCEPT !.slot[u].next = Null,
                      !.tainted = @ \/ (u # pre /\ Dead(h, pre))]

Cuts(h, c, u, pre, r) ==
  /\ r \in Heaps /\ r.fault = h.fault /\ r.empty = h.empty
  /\ r.tainted <=> (h.tainted \/ (u # pre /\ Dead(h, pre)))
  /\ IF u = pre
     THEN /\ r.slot = Relink(h.slot, u, Null)
          /\ r.used = [h.used EXCEPT ![c] = h.slot[u].next]
     ELSE /\ r.slot = Relink(Relink(h.slot, pre, h.slot[u].next), u, Null)
          /\ r.used = h.used

(* Taking a dead slot out relinks its predecessor or moves the head of the *)
(* used list.                                                              *)
LEMMA Cutting ==
  ASSUME NEW h \in Heaps, NEW c \in Chunks, NEW u \in DOMAIN h.slot, NEW pre,
         pre \in DOMAIN h.slot \/ pre = u
  PROVE  Cuts(h, c, u, pre, Cut(h, c, u, pre))
<1>1. h.slot[u].next \in Pointers /\ Null \in Pointers
  <2>1. h.slot[u] \in Slot
    BY HeapFacts
  <2> QED BY <2>1, Constants DEF Slot, Pointers, Null
<1>2. PICK t : t = (h.tainted \/ (u # pre /\ Dead(h, pre)))
  OBVIOUS
<1>3. t \in BOOLEAN
  BY <1>2
<1>4. CASE u = pre
  <2>1. PICK us : us = [h.used EXCEPT ![c] = h.slot[u].next]
    OBVIOUS
  <2>2. PICK sl : sl = Relink(h.slot, u, Null)
    OBVIOUS
  <2>3. us \in [Chunks -> Pointers] /\ sl \in Stores
    BY <1>1, <2>1, <2>2, HeapFacts, Relinking
  <2>4. Cut(h, c, u, pre) = [h EXCEPT !.used = us, !.slot = sl, !.tainted = t]
    <3>1. [h EXCEPT !.used[c] = h.slot[u].next] = [h EXCEPT !.used = us]
      BY <2>1 DEF Heaps
    <3>2. PICK m : m = [h EXCEPT !.used = us]
      OBVIOUS
    <3>3. m.slot = h.slot /\ m.tainted = h.tainted
      BY <3>2 DEF Heaps
    <3>4. Cut(h, c, u, pre) = [m EXCEPT !.slot[u].next = Null,
                                 !.tainted = @ \/ (u # pre /\ Dead(h, pre))]
      BY <1>4, <3>1, <3>2 DEF Cut
    <3>5. Cut(h, c, u, pre) = [m EXCEPT !.slot = sl, !.tainted = t]
      BY <1>2, <2>2, <3>2, <3>3, <3>4 DEF Relink, Heaps
    <3> QED BY <3>2, <3>5 DEF Heaps
  <2>5. PICK r : r = [h EXCEPT !.used = us, !.slot = sl, !.tainted = t]
    OBVIOUS
  <2>6. /\ r \in Heaps /\ r.fault = h.fault /\ r.empty = h.empty /\ r.tainted = t
        /\ r.slot = sl /\ r.used = us
    BY <1>3, <2>3, <2>5 DEF Heaps
  <2>7. Cuts(h, c, u, pre, r)
    BY <1>2, <1>4, <2>1, <2>2, <2>6 DEF Cuts
  <2> QED BY <2>4, <2>5, <2>7
<1>5. CASE u # pre
  <2>1. PICK s1 : s1 = Relink(h.slot, pre, h.slot[u].next)
    OBVIOUS
  <2>2. s1 \in Stores /\ u \in DOMAIN s1
    BY <1>1, <1>5, <2>1, HeapFacts, Relinking DEF Stays
  <2>3. PICK sl : sl = Relink(s1, u, Null)
    OBVIOUS
  <2>4. sl \in Stores
    BY <1>1, <2>2, <2>3, Relinking
  <2>5. Cut(h, c, u, pre) = [h EXCEPT !.slot = sl, !.tainted = t]
    <3>1. [h EXCEPT !.slot[pre].next = h.slot[u].next] = [h EXCEPT !.slot = s1]
      BY <2>1 DEF Relink, Heaps
    <3>2. PICK m : m = [h EXCEPT !.slot = s1]
      OBVIOUS
    <3>3. m.slot = s1 /\ m.tainted = h.tainted
      BY <3>2 DEF Heaps
    <3>4. Cut(h, c, u, pre) = [m EXCEPT !.slot[u].next = Null,
                                 !.tainted = @ \/ (u # pre /\ Dead(h, pre))]
      BY <1>5, <3>1, <3>2 DEF Cut
    <3>5. Cut(h, c, u, pre) = [m EXCEPT !.slot = sl, !.tainted = t]
      BY <1>2, <2>3, <3>2, <3>3, <3>4 DEF Relink, Heaps
    <3> QED BY <3>2, <3>5 DEF Heaps
  <2>6. PICK r : r = [h EXCEPT !.slot = sl, !.tainted = t]
    OBVIOUS
  <2>7. /\ r \in Heaps /\ r.fault = h.fault /\ r.empty = h.empty /\ r.tainted = t
        /\ r.slot = sl /\ r.used = h.used
    BY <1>3, <2>4, <2>6 DEF Heaps
  <2>8. Cuts(h, c, u, pre, r)
    BY <1>2, <1>5, <2>1, <2>3, <2>7 DEF Cuts
  <2> QED BY <2>5, <2>6, <2>8
<1> QED BY <1>4, <1>5

(* The memory of the slots stays.                                          *)
LEMMA StaysTwice ==
  ASSUME NEW a, NEW b, NEW d, Stays(a, b), Stays(b, d)
  PROVE  Stays(a, d)
  BY DEF Stays

(* It leaves the memory of all slots alone.                                *)
LEMMA CutStays ==
  ASSUME NEW h \in Heaps, NEW c \in Chunks, NEW u \in DOMAIN h.slot, NEW pre,
         pre \in DOMAIN h.slot \/ pre = u, NEW r, Cuts(h, c, u, pre, r)
  PROVE  Stays(h.slot, r.slot)
<1>1. h.slot[u].next \in Pointers /\ Null \in Pointers
  <2>1. h.slot[u] \in Slot
    BY HeapFacts
  <2> QED BY <2>1, Constants DEF Slot, Pointers, Null
<1>2. CASE u = pre
  <2>1. r.slot = Relink(h.slot, u, Null)
    BY <1>2 DEF Cuts
  <2> QED BY <1>1, <2>1, HeapFacts, Relinking
<1>3. CASE u # pre
  <2>1. r.slot = Relink(Relink(h.slot, pre, h.slot[u].next), u, Null)
    BY <1>3 DEF Cuts
  <2>2. PICK s1 : s1 = Relink(h.slot, pre, h.slot[u].next)
    OBVIOUS
  <2>3. s1 \in Stores /\ Stays(h.slot, s1)
    BY <1>1, <1>3, <2>2, HeapFacts, Relinking
  <2>4. Stays(s1, r.slot)
    <3>1. u \in DOMAIN s1
      BY <2>3 DEF Stays
    <3> QED BY <1>1, <2>1, <2>2, <2>3, <3>1, Relinking
  <2> QED BY <2>3, <2>4, StaysTwice
<1> QED BY <1>2, <1>3

(* It goes to the empty list of its chunk.                                 *)
Moved(h, c, u, home) ==
  IF home = c THEN InsertBeforeHead(h, c, u) ELSE InsertAfterTail(h, c, u)

(* Whatever list a dead slot goes to, the heap stays one, and so does the  *)
(* memory of its slots.                                                    *)
LEMMA Moving ==
  ASSUME NEW h \in Heaps, NEW c \in Chunks, NEW u \in DOMAIN h.slot, NEW home
  PROVE  LET r == Moved(h, c, u, home) IN
         r \in Heaps /\ Stays(h.slot, r.slot) /\ r.tainted = h.tainted
<1>1. h.empty[c] \in Pointers /\ u \in Pointers
  BY HeapFacts DEF Ids, Pointers
<1>2. Stays(h.slot, h.slot)
  BY DEF Stays
<1>3. CASE home = c
  <2>1. Stays(h.slot, Relink(h.slot, u, h.empty[c]))
    BY <1>1, HeapFacts, Relinking
  <2> QED BY <1>3, <2>1, InsertsBefore DEF Moved, Relisted
<1>4. CASE home # c
  <2>1. PICK w, r : w = Walk(h, h.empty[c]) /\ r = InsertAfterTail(h, c, u)
    OBVIOUS
  <2>2. CASE End(h, h.empty[c]) # Null
    <3>1. r = LostOn(h, h.empty[c])
      BY <2>1, <2>2, InsertsAfter
    <3> QED BY <1>1, <1>2, <1>4, <2>1, <3>1, Losing DEF Moved
  <2>3. CASE End(h, h.empty[c]) = Null /\ w = << >>
    <3>1. Relisted(h, r, h.slot, [h.empty EXCEPT ![c] = u], h.used)
      BY <2>1, <2>3, InsertsAfter
    <3> QED BY <1>2, <1>4, <2>1, <3>1 DEF Moved, Relisted
  <2>4. CASE End(h, h.empty[c]) = Null /\ w # << >>
    <3>1. Relisted(h, r, Relink(h.slot, Last(w), u), h.empty, h.used)
      BY <2>1, <2>4, InsertsAfter
    <3>2. Last(w) \in DOMAIN h.slot
      BY <1>1, <2>1, <2>4, Walking, SeqParts
    <3>3. Stays(h.slot, Relink(h.slot, Last(w), u))
      BY <1>1, <3>2, HeapFacts, Relinking
    <3> QED BY <1>4, <2>1, <3>1, <3>3 DEF Moved, Relisted
  <2> QED BY <2>2, <2>3, <2>4
<1> QED BY <1>3, <1>4

(* One turn.                                                               *)
Turns == [h : Heaps, u : Pointers, pre : Pointers]

(* What a turn of the loop does to a slot that exists.                     *)
LEMMA TurnIs ==
  ASSUME NEW s \in Turns, NEW c \in Chunks, s.u \in DOMAIN s.h.slot
  PROVE  SweepTurn(c, s) =
           [h |-> IF Dead(s.h, s.u)
                  THEN Counted(Moved(Cut(s.h, c, s.u, s.pre), c, s.u, s.h.slot[s.u].home),
                               c, s.h.slot[s.u].len)
                  ELSE s.h,
            u |-> s.h.slot[s.u].next, pre |-> s.u]
  BY Zenon DEF SweepTurn, Counted, Moved, Cut

(* Whatever is in the lists.                                               *)
LEMMA Turning ==
  ASSUME NEW s \in Turns, NEW c \in Chunks, s.pre \in DOMAIN s.h.slot \/ s.pre = s.u
  PROVE  LET r == SweepTurn(c, s) IN
         /\ r \in Turns /\ Stays(s.h.slot, r.h.slot) /\ (s.h.tainted => r.h.tainted)
         /\ r.pre \in DOMAIN r.h.slot \/ r.pre = r.u
<1>1. s.h \in Heaps /\ s.u \in Pointers /\ s.pre \in Pointers
  BY DEF Turns
<1>2. PICK h, u, pre : h = s.h /\ u = s.u /\ pre = s.pre
  OBVIOUS
<1>3. Stays(h.slot, h.slot)
  BY DEF Stays
<1>4. CASE u \notin DOMAIN h.slot
  <2>1. SweepTurn(c, s) = [s EXCEPT !.h = Fault(h, "wild")]
    BY <1>2, <1>4 DEF SweepTurn
  <2>2. PICK g : g = Fault(h, "wild")
    OBVIOUS
  <2>3. g \in Heaps /\ g.slot = h.slot /\ g.tainted = h.tainted
    BY <1>1, <1>2, <2>2, Faulting DEF Faults
  <2>4. PICK r : r = SweepTurn(c, s)
    OBVIOUS
  <2>5. r \in Turns /\ r.h = g /\ r.u = u /\ r.pre = pre
    BY <1>1, <1>2, <2>1, <2>2, <2>3, <2>4 DEF Turns
  <2> QED BY <1>2, <1>3, <2>3, <2>4, <2>5
<1>5. CASE u \in DOMAIN h.slot
  <2>1. PICK after : after = h.slot[u].next
    OBVIOUS
  <2>2. after \in Pointers /\ h.slot[u].len \in Nat
    <3>1. h.slot[u] \in Slot
      BY <1>1, <1>2, <1>5, HeapFacts
    <3> QED BY <2>1, <3>1 DEF Slot, Pointers
  <2>3. PICK k, m, n : /\ k = Cut(h, c, u, pre) /\ m = Moved(k, c, u, h.slot[u].home)
                       /\ n = Counted(m, c, h.slot[u].len)
    OBVIOUS
  <2>4. Cuts(h, c, u, pre, k)
    BY <1>1, <1>2, <1>5, <2>3, Cutting
  <2>5. k \in Heaps /\ Stays(h.slot, k.slot) /\ (h.tainted => k.tainted)
    <3>1. k \in Heaps /\ (h.tainted => k.tainted)
      BY <2>4 DEF Cuts
    <3>2. Stays(h.slot, k.slot)
      BY <1>1, <1>2, <1>5, <2>4, CutStays
    <3> QED BY <3>1, <3>2
  <2>6. m \in Heaps /\ Stays(k.slot, m.slot) /\ m.tainted = k.tainted
    <3>1. u \in DOMAIN k.slot
      BY <1>5, <2>5 DEF Stays
    <3> QED BY <2>3, <2>5, <3>1, Moving
  <2>7. n \in Heaps /\ n.slot = m.slot /\ n.tainted = m.tainted
    BY <2>2, <2>3, <2>6, Counting DEF Relisted
  <2>8. Stays(h.slot, n.slot)
    BY <2>5, <2>6, <2>7, StaysTwice
  <2>9. PICK g : g = IF Dead(h, u) THEN n ELSE h
    OBVIOUS
  <2>10. g \in Heaps /\ Stays(h.slot, g.slot) /\ (h.tainted => g.tainted)
    BY <1>1, <1>2, <1>3, <2>5, <2>6, <2>7, <2>8, <2>9
  <2>11. PICK r : r = SweepTurn(c, s)
    OBVIOUS
  <2>12. r = [h |-> g, u |-> after, pre |-> u]
    BY <1>2, <1>5, <2>1, <2>3, <2>9, <2>11, TurnIs
  <2>13. r \in Turns /\ r.h = g /\ r.pre = u
    BY <1>1, <1>2, <2>2, <2>10, <2>12 DEF Turns
  <2>14. u \in DOMAIN g.slot
    BY <1>5, <2>10 DEF Stays
  <2> QED BY <1>2, <2>10, <2>11, <2>13, <2>14
<1> QED BY <1>4, <1>5

(* The loop ends at the end of the list, or with a fault.                  *)
Turned(c, s) == IF s.u = Null \/ ~Ok(s.h) THEN s ELSE SweepTurn(c, s)
Swings(h, c, n, met) ==
  /\ met[0] = [h |-> h, u |-> h.used[c], pre |-> h.used[c]]
  /\ \A i \in 1 .. n : met[i] = Turned(c, met[i - 1])
SweepStates == {s \in Turns : s.pre \in DOMAIN s.h.slot \/ s.pre = s.u}

(* The sweep is a series of turns that ends at NULL, with a fault, or as a *)
(* hang.                                                                   *)
LEMMA SweepIs ==
  ASSUME NEW h \in Heaps, NEW c \in Chunks
  PROVE  \E n \in Nat : \E met :
           /\ n > Cardinality(DOMAIN h.slot) /\ Swings(h, c, n, met)
           /\ \A i \in 0 .. n : met[i] \in SweepStates
           /\ Sweep(h, c) = IF met[n].u # Null /\ Ok(met[n].h) THEN Fault(met[n].h, "hang")
                            ELSE met[n].h
<1> DEFINE n == 4 * (Cardinality(DOMAIN h.slot) + 1)
           V == SweepStates
           s == [h |-> h, u |-> h.used[c], pre |-> h.used[c]]
           F == [q \in (1 .. n) \X V |-> Turned(c, q[2])]
           Is(g) == g = [i \in 0 .. n |-> IF i = 0 THEN s ELSE Turned(c, g[i - 1])]
           met == CHOOSE g : Is(g)
<1>1. n \in Nat /\ n > Cardinality(DOMAIN h.slot)
  <2>1. Cardinality(DOMAIN h.slot) \in Nat
    BY HeapFacts, FS_CardinalityType
  <2> QED BY <2>1
<1>2. Sweep(h, c) = IF met[n].u # Null /\ Ok(met[n].h) THEN Fault(met[n].h, "hang")
                    ELSE met[n].h
  BY Zenon DEF Sweep, Turned
<1> HIDE DEF n
<1>3. s \in V
  <2>1. h.used[c] \in Pointers
    BY HeapFacts
  <2> QED BY <2>1 DEF SweepStates, Turns
<1>4. \A x \in V : Turned(c, x) \in V
  <2> TAKE x \in V
  <2>1. x \in Turns /\ (x.pre \in DOMAIN x.h.slot \/ x.pre = x.u)
    BY DEF SweepStates
  <2>2. SweepTurn(c, x) \in V
    BY <2>1, Turning DEF SweepStates
  <2> QED BY <2>2 DEF Turned
<1>5. F \in LoopBody(n, V) /\ \A i \in 1 .. n : \A x \in V : F[<<i, x>>] = Turned(c, x)
  <2> HIDE DEF V
  <2> QED BY <1>4 DEF LoopBody
<1> HIDE DEF F, s, V
<1>6. PICK f : Iterates(n, V, s, F, f)
  BY <1>1, <1>3, <1>5, Iteration
<1>7. Is(f)
  <2>1. f \in [0 .. n -> V] /\ f[0] = s /\ \A i \in 1 .. n : f[i] = F[<<i, f[i - 1]>>]
    BY <1>6 DEF Iterates
  <2>2. \A i \in 1 .. n : f[i] = Turned(c, f[i - 1])
    <3> TAKE i \in 1 .. n
    <3>1. f[i - 1] \in V
      BY <1>1, <2>1
    <3> QED BY <1>5, <2>1, <3>1
  <2>3. \A i \in 0 .. n : f[i] = IF i = 0 THEN s ELSE Turned(c, f[i - 1])
    BY <1>1, <2>1, <2>2
  <2> QED BY <2>1, <2>3
<1>8. Is(met)
  <2> HIDE DEF Is
  <2> QED BY <1>7, Zenon
<1> HIDE DEF met
<1>9. met[0] = s /\ \A i \in 1 .. n : met[i] = Turned(c, met[i - 1])
  BY <1>1, <1>8
<1>10. \A i \in 0 .. n : met[i] \in V
  <2> DEFINE T == {i \in 0 .. n : met[i] \in V}
  <2>1. 0 \in T
    BY <1>1, <1>3, <1>9
  <2>2. \A i \in 1 .. n : i - 1 \in T => i \in T
    BY <1>1, <1>4, <1>9
  <2>3. \A i \in 0 .. n : i \in T
    <3> HIDE DEF T
    <3> QED BY <1>1, <2>1, <2>2, Preserved
  <2> QED BY <2>3
<1>11. Swings(h, c, n, met)
  BY <1>9 DEF Swings, s
<1> QED BY <1>1, <1>2, <1>10, <1>11 DEF V

(* Whatever is in the lists.                                               *)
LEMMA Sweeping ==
  ASSUME NEW h \in Heaps, NEW c \in Chunks
  PROVE  LET r == Sweep(h, c) IN
         r \in Heaps /\ Stays(h.slot, r.slot) /\ (h.tainted => r.tainted)
<1>1. PICK n, met :
        /\ n \in Nat /\ Swings(h, c, n, met) /\ \A i \in 0 .. n : met[i] \in SweepStates
        /\ Sweep(h, c) = IF met[n].u # Null /\ Ok(met[n].h) THEN Fault(met[n].h, "hang")
                         ELSE met[n].h
  BY SweepIs
<1> DEFINE Good(i) == Stays(h.slot, met[i].h.slot) /\ (h.tainted => met[i].h.tainted)
           T == {i \in 0 .. n : Good(i)}
<1>2. Good(0)
  <2>1. met[0].h = h
    BY <1>1 DEF Swings
  <2> QED BY <2>1 DEF Stays
<1>3. ASSUME NEW i \in 1 .. n, Good(i - 1)
      PROVE  Good(i)
  <2>1. PICK x, y : x = met[i - 1] /\ y = met[i]
    OBVIOUS
  <2>2. x \in Turns /\ (x.pre \in DOMAIN x.h.slot \/ x.pre = x.u)
    BY <1>1, <2>1 DEF SweepStates
  <2>3. y = x \/ y = SweepTurn(c, x)
    BY <1>1, <2>1 DEF Swings, Turned
  <2>4. CASE y = x
    BY <1>3, <2>1, <2>4
  <2>5. CASE y = SweepTurn(c, x)
    <3>1. Stays(x.h.slot, y.h.slot) /\ (x.h.tainted => y.h.tainted)
      BY <2>2, <2>5, Turning
    <3> QED BY <1>3, <2>1, <3>1, StaysTwice
  <2> QED BY <2>3, <2>4, <2>5
<1>4. Good(n)
  <2> HIDE DEF Good
  <2>1. 0 \in T /\ \A i \in 1 .. n : i - 1 \in T => i \in T
    BY <1>1, <1>2, <1>3
  <2> HIDE DEF T
  <2>2. n \in T
    BY <1>1, <2>1, Preserved
  <2> QED BY <2>2 DEF T
<1>5. PICK g : g = met[n].h
  OBVIOUS
<1>6. g \in Heaps /\ Stays(h.slot, g.slot) /\ (h.tainted => g.tainted)
  BY <1>1, <1>4, <1>5 DEF SweepStates, Turns
<1>7. Sweep(h, c) = g \/ Sweep(h, c) = Fault(g, "hang")
  BY <1>1, <1>5
<1> QED BY <1>6, <1>7, Faulting DEF Faults

-----------------------------------------------------------------------------
(* The slots that are merged.                                              *)

(* Some of the first i elements of w, in their order.                      *)
Increasing(at, n) == \A a, b \in 1 .. n : a < b => at[a] < at[b]
Picked(w, i, g) ==
  \E at \in [1 .. Len(g) -> 1 .. i] :
    Increasing(at, Len(g)) /\ \A a \in 1 .. Len(g) : g[a] = w[at[a]]

(* Looking at one more element picks it or does not.                       *)
LEMMA PickedMore ==
  ASSUME NEW S, NEW w \in Seq(S), NEW i \in 1 .. Len(w), NEW g \in Seq(S), Picked(w, i - 1, g)
  PROVE  Picked(w, i, g) /\ Picked(w, i, Append(g, w[i]))
<1>1. PICK at \in [1 .. Len(g) -> 1 .. i - 1] :
        Increasing(at, Len(g)) /\ \A a \in 1 .. Len(g) : g[a] = w[at[a]]
  BY DEF Picked
<1>2. Picked(w, i, g)
  <2>1. at \in [1 .. Len(g) -> 1 .. i]
    OBVIOUS
  <2> QED BY <1>1, <2>1 DEF Picked
<1>3. PICK n, u, v : n = Len(g) /\ u = w[i] /\ v = Append(g, u)
  OBVIOUS
<1>4. n \in Nat /\ u \in S /\ i \in Nat
  BY <1>3
<1>5. Len(v) = n + 1 /\ v[n + 1] = u /\ \A a \in 1 .. n : v[a] = g[a]
  BY <1>3, <1>4
<1>6. PICK more : more = [a \in 1 .. n + 1 |-> IF a = n + 1 THEN i ELSE at[a]]
  OBVIOUS
<1>7. \A a \in 1 .. n : more[a] = at[a] /\ at[a] \in 1 .. i - 1 /\ a \in 1 .. n + 1
  BY <1>1, <1>3, <1>4, <1>6
<1>8. more[n + 1] = i
  BY <1>4, <1>6
<1>9. \A a \in 1 .. n + 1 : a = n + 1 \/ a \in 1 .. n
  BY <1>4
<1>10. more \in [1 .. n + 1 -> 1 .. i]
  <2>1. \A a \in 1 .. n + 1 : more[a] \in 1 .. i
    <3> TAKE a \in 1 .. n + 1
    <3>1. CASE a = n + 1
      BY <1>4, <1>8, <3>1
    <3>2. CASE a \in 1 .. n
      <4>1. more[a] \in 1 .. i - 1
        BY <1>7, <3>2
      <4> QED BY <1>4, <4>1
    <3> QED BY <1>9, <3>1, <3>2
  <2> QED BY <1>6, <2>1
<1>11. Increasing(more, n + 1)
  <2> SUFFICES ASSUME NEW a \in 1 .. n + 1, NEW b \in 1 .. n + 1, a < b
               PROVE  more[a] < more[b]
    BY DEF Increasing
  <2>1. a \in 1 .. n
    BY <1>4
  <2>2. CASE b = n + 1
    BY <1>4, <1>7, <1>8, <2>1, <2>2
  <2>3. CASE b \in 1 .. n
    BY <1>1, <1>3, <1>7, <2>1, <2>3 DEF Increasing
  <2> QED BY <1>9, <2>2, <2>3
<1>12. \A a \in 1 .. n + 1 : v[a] = w[more[a]]
  <2> TAKE a \in 1 .. n + 1
  <2>1. CASE a = n + 1
    BY <1>3, <1>5, <1>8, <2>1
  <2>2. CASE a \in 1 .. n
    BY <1>1, <1>3, <1>5, <1>7, <2>2
  <2> QED BY <1>9, <2>1, <2>2
<1>13. Picked(w, i, v)
  BY <1>5, <1>10, <1>11, <1>12 DEF Picked
<1> QED BY <1>2, <1>3, <1>13

(* What the loop knows after looking at i elements.                        *)
Collected(h, w, i, t) ==
  /\ t.temp_slot \in Seq(DOMAIN h.slot) /\ t.size \in Nat
  /\ Picked(w, i, t.temp_slot)
  /\ t.temp_slot = << >> => t.size = 0
  /\ \A a \in 1 .. Len(t.temp_slot) : h.slot[t.temp_slot[a]].idx = h.slot[w[1]].idx
  /\ \A s \in Nat : (\A k \in 1 .. Len(w) : h.slot[w[k]].len = s)
                      => t.size = Len(t.temp_slot) * s
Taking(h, c, w, t, u) ==
  IF ~Full(c, t) /\ h.slot[u].idx = h.slot[w[1]].idx
  THEN [temp_slot |-> Append(t.temp_slot, u), size |-> t.size + h.slot[u].len] ELSE t
Groups(h) == [temp_slot : Seq(DOMAIN h.slot), size : Nat]

(* One more turn of the loop that picks neighbours.                        *)
LEMMA Collecting ==
  ASSUME NEW h \in Heaps, NEW c \in Chunks, NEW w \in Seq(DOMAIN h.slot),
         NEW i \in 1 .. Len(w), NEW t \in Groups(h), Collected(h, w, i - 1, t)
  PROVE  Collected(h, w, i, Taking(h, c, w, t, w[i]))
<1>1. PICK g, z, D : g = t.temp_slot /\ z = t.size /\ D = DOMAIN h.slot
  OBVIOUS
<1>2. g \in Seq(D) /\ z \in Nat /\ Picked(w, i - 1, g)
  BY <1>1 DEF Collected
<1>3. Picked(w, i, g) /\ Picked(w, i, Append(g, w[i]))
  BY <1>1, <1>2, PickedMore
<1>4. CASE ~(~Full(c, t) /\ h.slot[w[i]].idx = h.slot[w[1]].idx)
  <2>1. Taking(h, c, w, t, w[i]) = t
    BY <1>4 DEF Taking
  <2> QED BY <1>1, <1>3, <2>1 DEF Collected
<1>5. CASE ~Full(c, t) /\ h.slot[w[i]].idx = h.slot[w[1]].idx
  <2>1. PICK u, v, l, r : /\ u = w[i] /\ v = Append(g, u) /\ l = h.slot[u].len
                          /\ r = Taking(h, c, w, t, u)
    OBVIOUS
  <2>2. u \in D /\ l \in Nat
    <3>1. u \in D
      BY <1>1, <2>1
    <3>2. h.slot[u] \in Slot
      BY <1>1, <3>1, HeapFacts
    <3> QED BY <2>1, <3>1, <3>2 DEF Slot
  <2>3. r = [temp_slot |-> v, size |-> z + l]
    BY <1>1, <1>5, <2>1 DEF Taking
  <2>4. r.temp_slot = v /\ r.size = z + l
    BY <2>3
  <2>5. /\ v \in Seq(D) /\ Len(v) = Len(g) + 1 /\ v[Len(g) + 1] = u /\ Len(g) \in Nat
        /\ \A a \in 1 .. Len(g) : v[a] = g[a]
    BY <1>2, <2>1, <2>2
  <2>6. v # << >>
    BY <2>5
  <2>7. \A a \in 1 .. Len(v) : h.slot[v[a]].idx = h.slot[w[1]].idx
    <3> TAKE a \in 1 .. Len(v)
    <3>1. CASE a = Len(g) + 1
      BY <1>5, <2>1, <2>5, <3>1
    <3>2. CASE a \in 1 .. Len(g)
      BY <1>1, <2>5, <3>2 DEF Collected
    <3> QED BY <2>5, <3>1, <3>2
  <2>8. ASSUME NEW s \in Nat, \A k \in 1 .. Len(w) : h.slot[w[k]].len = s
        PROVE  z + l = Len(v) * s
    <3>1. z = Len(g) * s
      BY <1>1, <2>8 DEF Collected
    <3>2. l = s
      BY <2>1, <2>8
    <3> QED BY <2>5, <3>1, <3>2, Distribution
  <2>9. Picked(w, i, v)
    BY <1>3, <2>1
  <2>10. v \in Seq(DOMAIN h.slot) /\ z + l \in Nat
    BY <1>1, <1>2, <2>2, <2>5
  <2>11. Collected(h, w, i, r)
    BY <2>4, <2>6, <2>7, <2>8, <2>9, <2>10 DEF Collected
  <2> QED BY <2>1, <2>11
<1> QED BY <1>4, <1>5

(* temp_slot and size.                                                     *)
LEMMA Grouping ==
  ASSUME NEW h \in Heaps, NEW c \in Chunks, NEW j \in Chunks
  PROVE  LET w == Walk(h, h.empty[j])
         IN  Collected(h, w, Len(w), Group(h, c, j))
<1> DEFINE w == Walk(h, h.empty[j])
           n == Len(w)
           V == Groups(h)
           s == [temp_slot |-> << >>, size |-> 0]
           F == [q \in (1 .. n) \X V |-> Taking(h, c, w, q[2], w[q[1]])]
           Is(g) == g = [i \in 0 .. Len(w) |-> IF i = 0 THEN s ELSE
                           IF ~Full(c, g[i - 1]) /\ h.slot[w[i]].idx = h.slot[w[1]].idx
                           THEN [temp_slot |-> Append(g[i - 1].temp_slot, w[i]),
                                 size |-> g[i - 1].size + h.slot[w[i]].len]
                           ELSE g[i - 1]]
           met == CHOOSE g : Is(g)
<1>1. Group(h, c, j) = met[Len(w)]
  BY Zenon DEF Group
<1>2. w \in Seq(DOMAIN h.slot) /\ n \in Nat
  <2>1. h.empty[j] \in Pointers
    BY HeapFacts
  <2>2. w \in Seq(DOMAIN h.slot)
    BY <2>1, Walking
  <2> QED BY <2>2, SeqElements
<1>3. \A g : Is(g) <=> g = [i \in 0 .. n |-> IF i = 0 THEN s ELSE
                                               Taking(h, c, w, g[i - 1], w[i])]
  BY Zenon DEF Taking
<1> HIDE DEF Is, w
<1>4. s \in V
  BY DEF Groups
<1>5. \A i \in 1 .. n : \A x \in V : Taking(h, c, w, x, w[i]) \in V
  <2> SUFFICES ASSUME NEW i \in 1 .. n, NEW x \in V
               PROVE  Taking(h, c, w, x, w[i]) \in V
    OBVIOUS
  <2>1. PICK u : u = w[i] /\ u \in DOMAIN h.slot
    BY <1>2
  <2>2. h.slot[u] \in Slot
    BY <2>1, HeapFacts
  <2>3. h.slot[u].len \in Nat
    BY <2>2 DEF Slot
  <2>4. Append(x.temp_slot, u) \in Seq(DOMAIN h.slot) /\ x.size + h.slot[u].len \in Nat
    <3>1. PICK g, z, D : g = x.temp_slot /\ z = x.size /\ D = DOMAIN h.slot
      OBVIOUS
    <3>2. g \in Seq(D) /\ z \in Nat /\ u \in D
      BY <2>1, <3>1 DEF Groups
    <3>3. Append(g, u) \in Seq(D)
      BY <3>2
    <3> QED BY <2>3, <3>1, <3>2, <3>3
  <2> QED BY <2>1, <2>4 DEF Taking, Groups
<1>6. /\ F \in LoopBody(n, V)
      /\ \A i \in 1 .. n : \A x \in V : F[<<i, x>>] = Taking(h, c, w, x, w[i])
  <2> HIDE DEF V, n
  <2> QED BY <1>5 DEF LoopBody
<1> HIDE DEF F, s, V
<1>7. PICK f : Iterates(n, V, s, F, f)
  BY <1>2, <1>4, <1>6, Iteration
<1>8. Is(f)
  <2>1. f \in [0 .. n -> V] /\ f[0] = s /\ \A i \in 1 .. n : f[i] = F[<<i, f[i - 1]>>]
    BY <1>7 DEF Iterates
  <2> HIDE DEF n
  <2>2. \A i \in 1 .. n : f[i] = Taking(h, c, w, f[i - 1], w[i])
    <3> TAKE i \in 1 .. n
    <3>1. f[i - 1] \in V
      BY <1>2, <2>1
    <3> QED BY <1>6, <2>1, <3>1
  <2>3. \A i \in 0 .. n : f[i] = IF i = 0 THEN s ELSE Taking(h, c, w, f[i - 1], w[i])
    BY <1>2, <2>1, <2>2
  <2> QED BY <1>3, <2>1, <2>3
<1>9. Is(met)
  BY <1>8, Zenon
<1> HIDE DEF met
<1> HIDE DEF n
<1>10. met[0] = s /\ \A i \in 1 .. n : met[i] = Taking(h, c, w, met[i - 1], w[i])
  BY <1>2, <1>3, <1>9
<1> DEFINE T == {i \in 0 .. n : met[i] \in V /\ Collected(h, w, i, met[i])}
<1>11. 0 \in T
  <2>1. PICK t : t = met[0]
    OBVIOUS
  <2>2. t.temp_slot = << >> /\ t.size = 0
    BY <1>10, <2>1 DEF s
  <2>3. Picked(w, 0, << >>)
    <3>1. PICK g : g = << >>
      OBVIOUS
    <3>2. Len(g) = 0
      BY <3>1
    <3>3. PICK at : at = [a \in 1 .. Len(g) |-> a]
      OBVIOUS
    <3>4. at \in [1 .. Len(g) -> 1 .. 0]
      BY <3>2, <3>3
    <3>5. Increasing(at, Len(g)) /\ \A a \in 1 .. Len(g) : g[a] = w[at[a]]
      BY <3>2 DEF Increasing
    <3>6. Picked(w, 0, g)
      BY <3>4, <3>5 DEF Picked
    <3> QED BY <3>1, <3>6
  <2>4. Collected(h, w, 0, t)
    BY <2>2, <2>3 DEF Collected
  <2> QED BY <1>2, <1>4, <1>10, <2>1, <2>4
<1>12. \A i \in 1 .. n : i - 1 \in T => i \in T
  <2> TAKE i \in 1 .. n
  <2> HAVE i - 1 \in T
  <2>1. met[i - 1] \in V /\ Collected(h, w, i - 1, met[i - 1])
    OBVIOUS
  <2>2. Collected(h, w, i, met[i])
    BY <1>2, <1>10, <2>1, Collecting DEF V, n
  <2>3. met[i] \in V
    BY <1>5, <1>10, <2>1
  <2> QED BY <1>2, <2>2, <2>3
<1>13. n \in T
  <2> HIDE DEF T
  <2>1. \A i \in 0 .. n : i \in T
    BY <1>2, <1>11, <1>12, Preserved
  <2> QED BY <1>2, <2>1
<1> QED BY <1>1, <1>13 DEF n, w

-----------------------------------------------------------------------------
(* Taking them out of their list.                                          *)

(* Whatever is in the list.                                                *)
LEMMA RemovingOne ==
  ASSUME NEW h \in Heaps, NEW c \in Chunks, NEW u \in Pointers
  PROVE  LET r == RemoveSlot(h, c, u) IN
         r \in Heaps /\ Stays(h.slot, r.slot) /\ r.tainted = h.tainted
<1> DEFINE w == Walk(h, h.empty[c])
           r == RemoveSlot(h, c, u)
           i == CHOOSE k \in Before(h, w, u) : \A j \in Before(h, w, u) : k <= j
<1>1. Stays(h.slot, h.slot)
  BY DEF Stays
<1>2. IF u \notin DOMAIN h.slot THEN r = Fault(h, "wild")
      ELSE IF h.empty[c] = u
      THEN Relisted(h, r, h.slot, [h.empty EXCEPT ![c] = h.slot[u].next], h.used)
      ELSE IF Before(h, w, u) = {} THEN r = LostOn(h, h.empty[c])
      ELSE /\ i \in Before(h, w, u) /\ \A j \in Before(h, w, u) : i <= j
           /\ w[i] \in DOMAIN h.slot
           /\ Relisted(h, r, Relink(h.slot, w[i], h.slot[u].next),
                       [h.empty EXCEPT ![c] = w[i]], h.used)
  BY Removing
<1> HIDE DEF w, r, i
<1>3. CASE u \notin DOMAIN h.slot
  <2>1. r = Fault(h, "wild")
    BY <1>2, <1>3
  <2> QED BY <1>1, <2>1, Faulting DEF Faults, r
<1>4. CASE u \in DOMAIN h.slot /\ h.empty[c] = u
  <2>1. Relisted(h, r, h.slot, [h.empty EXCEPT ![c] = h.slot[u].next], h.used)
    BY <1>2, <1>4
  <2> QED BY <1>1, <2>1 DEF Relisted, r
<1>5. CASE u \in DOMAIN h.slot /\ h.empty[c] # u /\ Before(h, w, u) = {}
  <2>1. r = LostOn(h, h.empty[c]) /\ h.empty[c] \in Pointers
    BY <1>2, <1>5, HeapFacts
  <2> QED BY <1>1, <2>1, Losing DEF r
<1>6. CASE u \in DOMAIN h.slot /\ h.empty[c] # u /\ Before(h, w, u) # {}
  <2>1. /\ w[i] \in DOMAIN h.slot
        /\ Relisted(h, r, Relink(h.slot, w[i], h.slot[u].next),
                    [h.empty EXCEPT ![c] = w[i]], h.used)
    BY <1>2, <1>6
  <2>2. h.slot[u].next \in Pointers
    <3>1. h.slot[u] \in Slot
      BY <1>6, HeapFacts
    <3> QED BY <3>1 DEF Slot, Pointers
  <2>3. Stays(h.slot, Relink(h.slot, w[i], h.slot[u].next))
    BY <2>1, <2>2, HeapFacts, Relinking
  <2> QED BY <2>1, <2>3 DEF Relisted, r
<1> QED BY <1>3, <1>4, <1>5, <1>6

(* One after the other.                                                    *)
Dropped(j, r, u) == IF Ok(r) THEN RemoveSlot(r, j, u) ELSE r
Drops(h, j, g, met) ==
  met[0] = h /\ \A i \in 1 .. Len(g) : met[i] = Dropped(j, met[i - 1], g[i])

(* The picked slots are removed one after the other.                       *)
LEMMA RemovedIs ==
  ASSUME NEW h \in Heaps, NEW j \in Chunks, NEW g \in Seq(Pointers)
  PROVE  \E met : /\ Drops(h, j, g, met) /\ \A i \in 0 .. Len(g) : met[i] \in Heaps
                  /\ Removed(h, j, g) = met[Len(g)]
<1> DEFINE n == Len(g)
           F == [q \in (1 .. n) \X Heaps |-> Dropped(j, q[2], g[q[1]])]
           Is(f) == f = [i \in 0 .. Len(g) |->
                           IF i = 0 THEN h ELSE Dropped(j, f[i - 1], g[i])]
           met == CHOOSE f : Is(f)
<1>1. Removed(h, j, g) = met[Len(g)]
  BY Zenon DEF Removed, Dropped
<1>2. n \in Nat /\ \A i \in 1 .. n : g[i] \in Pointers
  OBVIOUS
<1>3. \A f : Is(f) <=> f = [i \in 0 .. n |-> IF i = 0 THEN h ELSE Dropped(j, f[i - 1], g[i])]
  OBVIOUS
<1> HIDE DEF Is
<1>4. \A i \in 1 .. n : \A x \in Heaps : Dropped(j, x, g[i]) \in Heaps
  <2> HIDE DEF n
  <2> QED BY <1>2, RemovingOne DEF Dropped
<1>5. F \in LoopBody(n, Heaps) /\ \A i \in 1 .. n : \A x \in Heaps :
                                    F[<<i, x>>] = Dropped(j, x, g[i])
  <2> HIDE DEF n
  <2> QED BY <1>4 DEF LoopBody
<1> HIDE DEF F
<1>6. PICK f : Iterates(n, Heaps, h, F, f)
  BY <1>2, <1>5, Iteration
<1>7. Is(f)
  <2>1. f \in [0 .. n -> Heaps] /\ f[0] = h /\ \A i \in 1 .. n : f[i] = F[<<i, f[i - 1]>>]
    BY <1>6 DEF Iterates
  <2> HIDE DEF n
  <2>2. \A i \in 1 .. n : f[i] = Dropped(j, f[i - 1], g[i])
    <3> TAKE i \in 1 .. n
    <3>1. f[i - 1] \in Heaps
      BY <1>2, <2>1
    <3> QED BY <1>5, <2>1, <3>1
  <2>3. \A i \in 0 .. n : f[i] = IF i = 0 THEN h ELSE Dropped(j, f[i - 1], g[i])
    BY <1>2, <2>1, <2>2
  <2> QED BY <1>3, <2>1, <2>3
<1>8. Is(met)
  BY <1>7, Zenon
<1> HIDE DEF met
<1> HIDE DEF n
<1>9. met[0] = h /\ \A i \in 1 .. n : met[i] = Dropped(j, met[i - 1], g[i])
  BY <1>2, <1>3, <1>8
<1> DEFINE T == {i \in 0 .. n : met[i] \in Heaps}
<1>10. \A i \in 0 .. n : i \in T
  <2>1. 0 \in T /\ \A i \in 1 .. n : i - 1 \in T => i \in T
    BY <1>2, <1>4, <1>9
  <2> HIDE DEF T
  <2> QED BY <1>2, <2>1, Preserved
<1>11. Drops(h, j, g, met)
  BY <1>9 DEF Drops, n
<1> QED BY <1>1, <1>10, <1>11 DEF n

(* Removing them leaves the memory of all slots alone.                     *)
LEMMA RemovingAll ==
  ASSUME NEW h \in Heaps, NEW j \in Chunks, NEW g \in Seq(Pointers)
  PROVE  LET r == Removed(h, j, g) IN
         r \in Heaps /\ Stays(h.slot, r.slot) /\ r.tainted = h.tainted
<1>1. PICK met : /\ Drops(h, j, g, met) /\ \A i \in 0 .. Len(g) : met[i] \in Heaps
                 /\ Removed(h, j, g) = met[Len(g)]
  BY RemovedIs
<1>2. PICK n \in Nat : n = Len(g)
  OBVIOUS
<1> DEFINE Good(i) == Stays(h.slot, met[i].slot) /\ met[i].tainted = h.tainted
           T == {i \in 0 .. n : Good(i)}
<1>3. Good(0)
  BY <1>1 DEF Drops, Stays
<1>4. ASSUME NEW i \in 1 .. n, Good(i - 1)
      PROVE  Good(i)
  <2>1. PICK x, y : x = met[i - 1] /\ y = met[i]
    OBVIOUS
  <2>2. x \in Heaps
    BY <1>1, <1>2, <2>1
  <2>3. y = x \/ y = RemoveSlot(x, j, g[i])
    BY <1>1, <1>2, <2>1 DEF Drops, Dropped
  <2>4. Stays(x.slot, y.slot) /\ y.tainted = x.tainted
    <3>1. g[i] \in Pointers
      BY <1>2
    <3>2. Stays(x.slot, x.slot)
      BY DEF Stays
    <3> QED BY <2>2, <2>3, <3>1, <3>2, RemovingOne
  <2> QED BY <1>4, <2>1, <2>4, StaysTwice
<1>5. Good(n)
  <2> HIDE DEF Good
  <2>1. 0 \in T /\ \A i \in 1 .. n : i - 1 \in T => i \in T
    BY <1>2, <1>3, <1>4
  <2> HIDE DEF T
  <2>2. \A i \in 0 .. n : i \in T
    BY <2>1, Preserved
  <2> QED BY <2>2 DEF T
<1> QED BY <1>1, <1>2, <1>5

-----------------------------------------------------------------------------
(* Joining them.                                                           *)

(* The first of those with the lowest address.                             *)
Lowest(h, g, i) ==
  \A k \in DOMAIN g : /\ ~Below(h.slot[g[k]], h.slot[g[i]])
                      /\ k < i => Below(h.slot[g[i]], h.slot[g[k]])

(* Some picked slot has the lowest address.                                *)
LEMMA LowestExists ==
  ASSUME NEW h \in Heaps, NEW g \in Seq(DOMAIN h.slot), g # << >>
  PROVE  \E i \in DOMAIN g : Lowest(h, g, i)
<1> DEFINE home(k) == h.slot[g[k]].home
           off(k) == h.slot[g[k]].off
<1>1. \A k \in DOMAIN g : home(k) \in Nat /\ off(k) \in Nat /\ k \in Nat
  <2> TAKE k \in DOMAIN g
  <2>1. g[k] \in DOMAIN h.slot /\ k \in Nat
    OBVIOUS
  <2>2. h.slot[g[k]] \in Slot
    BY <2>1, HeapFacts
  <2>3. Chunks \subseteq Nat
    BY Constants DEF Chunks
  <2> QED BY <2>1, <2>2, <2>3 DEF Slot
<1> HIDE DEF home, off
<1>2. \A k, i \in DOMAIN g : Below(h.slot[g[k]], h.slot[g[i]]) <=>
                               \/ home(k) < home(i)
                               \/ home(k) = home(i) /\ off(k) < off(i)
  BY DEF Below, home, off
<1>3. DOMAIN g # {}
  <2>1. Len(g) # 0 /\ DOMAIN g = 1 .. Len(g) /\ Len(g) \in Nat
    OBVIOUS
  <2>2. 1 \in DOMAIN g
    BY <2>1
  <2> QED BY <2>2
<1>4. PICK a \in DOMAIN g : \A k \in DOMAIN g : home(a) <= home(k)
  <2>1. PICK H : H = {home(k) : k \in DOMAIN g}
    OBVIOUS
  <2>2. H \in SUBSET Nat /\ H # {}
    BY <1>1, <1>3, <2>1
  <2>3. PICK m \in H : \A x \in H : m <= x
    BY <2>2, LeastNumber
  <2> QED BY <2>1, <2>3
<1>5. PICK b \in DOMAIN g : /\ home(b) = home(a)
                            /\ \A k \in DOMAIN g : home(k) = home(a) => off(b) <= off(k)
  <2>1. PICK A : A = {k \in DOMAIN g : home(k) = home(a)}
    OBVIOUS
  <2>2. PICK H : H = {off(k) : k \in A}
    OBVIOUS
  <2>3. H \in SUBSET Nat /\ H # {}
    BY <1>1, <2>1, <2>2
  <2>4. PICK m \in H : \A x \in H : m <= x
    BY <2>3, LeastNumber
  <2> QED BY <2>1, <2>2, <2>4
<1>6. PICK i \in DOMAIN g : /\ home(i) = home(a) /\ off(i) = off(b)
                            /\ \A k \in DOMAIN g : home(k) = home(a) /\ off(k) = off(b) => i <= k
  <2> DEFINE A == {k \in DOMAIN g : home(k) = home(a) /\ off(k) = off(b)}
  <2>1. A \in SUBSET Nat /\ b \in A
    BY <1>1, <1>5
  <2>2. \E x \in A : \A y \in A : x <= y
    <3>1. A # {}
      BY <2>1
    <3> HIDE DEF A
    <3> QED BY <2>1, <3>1, LeastNumber
  <2> QED BY <2>2
<1>7. Lowest(h, g, i)
  <2> SUFFICES ASSUME NEW k \in DOMAIN g
               PROVE  /\ ~Below(h.slot[g[k]], h.slot[g[i]])
                      /\ k < i => Below(h.slot[g[i]], h.slot[g[k]])
    BY DEF Lowest
  <2>1. home(k) \in Nat /\ off(k) \in Nat /\ home(i) \in Nat /\ off(i) \in Nat /\ k \in Nat /\ i \in Nat
    BY <1>1
  <2>2. home(i) <= home(k) /\ (home(k) = home(i) => off(i) <= off(k))
    BY <1>4, <1>5, <1>6
  <2>3. home(k) = home(i) /\ off(k) = off(i) => i <= k
    BY <1>6
  <2> QED BY <1>2, <2>1, <2>2, <2>3
<1> QED BY <1>7

(* The slot of lowest address grows, the others are freed.                 *)
Joins(h, c, g, i, r) ==
  /\ r \in Heaps /\ r.used = h.used /\ r.fault = h.fault
  /\ r.empty = [h.empty EXCEPT ![c] = g[i]]
  /\ r.tainted <=> (h.tainted \/ ~Neighbours(h, g))
  /\ DOMAIN r.slot = DOMAIN h.slot \ {g[k] : k \in DOMAIN g \ {i}}
  /\ \A u \in DOMAIN r.slot : u # g[i] => r.slot[u] = h.slot[u]
  /\ g[i] \in DOMAIN r.slot =>
       /\ r.slot[g[i]].home = h.slot[g[i]].home /\ r.slot[g[i]].idx = h.slot[g[i]].idx
       /\ r.slot[g[i]].off = h.slot[g[i]].off
       /\ r.slot[g[i]].len = Size(c) /\ r.slot[g[i]].next = h.empty[c]

(* It takes the others' memory, and is put into the empty list of the      *)
(* class.                                                                  *)
LEMMA Joining ==
  ASSUME NEW h \in Heaps, NEW c \in Chunks, NEW g \in Seq(DOMAIN h.slot), g # << >>
  PROVE  \E i \in DOMAIN g : Lowest(h, g, i) /\ Joins(h, c, g, i, Joined(h, c, g))
<1> DEFINE i == CHOOSE k \in DOMAIN g : Lowest(h, g, k)
           kept == g[i]
           freed == {g[k] : k \in DOMAIN g \ {i}}
           t == h.tainted \/ ~Neighbours(h, g)
           grown == [h.slot[kept] EXCEPT !.len = Size(c), !.next = h.empty[c]]
           sl == [u \in DOMAIN h.slot \ freed |-> IF u = kept THEN grown ELSE h.slot[u]]
<1>1. i \in DOMAIN g /\ Lowest(h, g, i)
  BY LowestExists
<1>2. Joined(h, c, g) = [h EXCEPT !.slot = sl, !.empty[c] = kept, !.empty_size[c] = @ + Size(c),
                                  !.tainted = t]
  BY Zenon DEF Joined, Lowest
<1> HIDE DEF i
<1>3. kept \in DOMAIN h.slot
  BY <1>1
<1>4. /\ grown \in Slot /\ grown.len = Size(c) /\ grown.next = h.empty[c]
      /\ grown.home = h.slot[kept].home /\ grown.idx = h.slot[kept].idx
      /\ grown.off = h.slot[kept].off
  <2>1. h.slot[kept] \in Slot /\ h.empty[c] \in Pointers /\ Size(c) \in Nat \ {0}
    BY <1>3, HeapFacts, Constants
  <2> HIDE DEF kept
  <2> QED BY <2>1 DEF Slot, Pointers
<1> HIDE DEF grown
<1>5. \A u \in DOMAIN h.slot : h.slot[u] \in Slot /\ u \in Ids
  BY HeapFacts
<1>6. sl \in [DOMAIN h.slot \ freed -> Slot]
  BY <1>4, <1>5
<1>7. sl \in Stores
  <2>1. DOMAIN h.slot \ freed \in SUBSET Ids
    BY <1>5
  <2> HIDE DEF freed, sl
  <2> QED BY <1>6, <2>1, AllStores
<1>8. /\ DOMAIN sl = DOMAIN h.slot \ freed
      /\ \A u \in DOMAIN sl : u # kept => sl[u] = h.slot[u]
      /\ kept \in DOMAIN sl => sl[kept] = grown
  OBVIOUS
<1> HIDE DEF sl
<1>9. PICK e, es : /\ e = [h.empty EXCEPT ![c] = kept]
                   /\ es = [h.empty_size EXCEPT ![c] = @ + Size(c)]
  OBVIOUS
<1>10. e \in [Chunks -> Pointers] /\ es \in [Chunks -> Int]
  <2>1. kept \in Pointers
    BY <1>3, HeapFacts DEF Ids, Pointers
  <2>2. h.empty_size[c] + Size(c) \in Int
    BY HeapFacts, Constants
  <2> HIDE DEF kept
  <2> QED BY <1>9, <2>1, <2>2, HeapFacts
<1>11. t \in BOOLEAN
  OBVIOUS
<1>12. PICK r : r = Joined(h, c, g)
  OBVIOUS
<1> HIDE DEF t, kept
<1>13. r = [h EXCEPT !.slot = sl, !.empty = e, !.empty_size = es, !.tainted = t]
  BY <1>2, <1>9, <1>12 DEF Heaps
<1>14. /\ r \in Heaps /\ r.used = h.used /\ r.fault = h.fault /\ r.empty = e
       /\ r.slot = sl /\ r.tainted = t
  BY <1>7, <1>10, <1>11, <1>13 DEF Heaps
<1>15. Joins(h, c, g, i, r)
  BY <1>4, <1>8, <1>9, <1>14 DEF Joins, kept, freed, t
<1> QED BY <1>1, <1>12, <1>15

-----------------------------------------------------------------------------
(* Merging.                                                                *)

(* No slot is added, and a taint stays.                                    *)
Shrinks(h, r) == /\ r \in Heaps /\ DOMAIN r.slot \subseteq DOMAIN h.slot
                 /\ h.tainted => r.tainted

(* From one class.                                                         *)
LEMMA MergingFrom ==
  ASSUME NEW h \in Heaps, NEW c \in Chunks, NEW j \in Chunks
  PROVE  Shrinks(h, MergeFrom(h, c, j))
<1>1. PICK t, g, r : t = Group(h, c, j) /\ g = t.temp_slot /\ r = Removed(h, j, g)
  OBVIOUS
<1>2. PICK m, f, l, o, v :
        /\ m = MergeFrom(h, c, j) /\ f = Fault(h, "segv") /\ l = LostOn(h, h.empty[j])
        /\ o = Fault(h, "overread") /\ v = Joined(r, c, g)
  OBVIOUS
<1>3. m = f \/ m = l \/ m = h \/ m = o \/ m = r \/ (m = v /\ t.size = Size(c))
  BY <1>1, <1>2 DEF MergeFrom
<1>4. Shrinks(h, h) /\ Shrinks(h, Fault(h, "segv")) /\ Shrinks(h, Fault(h, "overread"))
  BY Faulting DEF Shrinks, Faults
<1>5. Shrinks(h, LostOn(h, h.empty[j]))
  BY Losing, HeapFacts DEF Shrinks
<1>6. g \in Seq(DOMAIN h.slot) /\ (g = << >> => t.size = 0)
  BY <1>1, Grouping DEF Collected
<1>7. r \in Heaps /\ DOMAIN r.slot = DOMAIN h.slot /\ r.tainted = h.tainted
  <2>1. g \in Seq(Pointers)
    <3>1. DOMAIN h.slot \subseteq Pointers
      BY HeapFacts DEF Ids, Pointers
    <3> QED BY <1>6, <3>1
  <2> QED BY <1>1, <2>1, RemovingAll DEF Stays
<1>8. Shrinks(h, r)
  BY <1>7 DEF Shrinks
<1>9. ASSUME t.size = Size(c)
      PROVE  Shrinks(h, Joined(r, c, g))
  <2>1. g # << >>
    BY <1>6, <1>9, Constants
  <2>2. g \in Seq(DOMAIN r.slot)
    BY <1>6, <1>7
  <2>3. PICK i \in DOMAIN g : Joins(r, c, g, i, Joined(r, c, g))
    BY <1>7, <2>1, <2>2, Joining
  <2> QED BY <1>7, <2>3 DEF Joins, Shrinks
<1> QED BY <1>2, <1>4, <1>5, <1>8, <1>9, <1>3

(* From every smaller class, until one yields a slot.                      *)
Attempted(c, r, d) == IF r.empty[c] # Null \/ ~Ok(r) THEN r ELSE MergeFrom(r, c, c - d)
Attempts(h, c, met) ==
  met[0] = h /\ \A d \in 1 .. c - 1 : met[d] = Attempted(c, met[d - 1], d)

(* A merge tries the smaller classes one after the other.                  *)
LEMMA MergeIs ==
  ASSUME NEW h \in Heaps, NEW c \in Chunks
  PROVE  \E met : /\ Attempts(h, c, met) /\ \A d \in 0 .. c - 1 : met[d] \in Heaps
                  /\ Merge(h, c) = met[c - 1]
<1> DEFINE n == c - 1
           F == [q \in (1 .. n) \X Heaps |-> Attempted(c, q[2], q[1])]
           Is(f) == f = [d \in 0 .. c - 1 |->
                           IF d = 0 THEN h ELSE Attempted(c, f[d - 1], d)]
           met == CHOOSE f : Is(f)
<1>1. Merge(h, c) = met[c - 1]
  BY Zenon DEF Merge, Attempted
<1>2. n \in Nat /\ \A d \in 1 .. n : c - d \in Chunks
  BY Constants DEF Chunks
<1>3. \A f : Is(f) <=> f = [d \in 0 .. n |-> IF d = 0 THEN h ELSE Attempted(c, f[d - 1], d)]
  OBVIOUS
<1> HIDE DEF Is
<1>4. \A d \in 1 .. n : \A x \in Heaps : Attempted(c, x, d) \in Heaps
  <2> HIDE DEF n
  <2> QED BY <1>2, MergingFrom DEF Attempted, Shrinks
<1>5. F \in LoopBody(n, Heaps) /\ \A d \in 1 .. n : \A x \in Heaps :
                                    F[<<d, x>>] = Attempted(c, x, d)
  <2> HIDE DEF n
  <2> QED BY <1>4 DEF LoopBody
<1> HIDE DEF F
<1>6. PICK f : Iterates(n, Heaps, h, F, f)
  BY <1>2, <1>5, Iteration
<1>7. Is(f)
  <2>1. f \in [0 .. n -> Heaps] /\ f[0] = h /\ \A d \in 1 .. n : f[d] = F[<<d, f[d - 1]>>]
    BY <1>6 DEF Iterates
  <2> HIDE DEF n
  <2>2. \A d \in 1 .. n : f[d] = Attempted(c, f[d - 1], d)
    <3> TAKE d \in 1 .. n
    <3>1. f[d - 1] \in Heaps
      BY <1>2, <2>1
    <3> QED BY <1>5, <2>1, <3>1
  <2>3. \A d \in 0 .. n : f[d] = IF d = 0 THEN h ELSE Attempted(c, f[d - 1], d)
    BY <1>2, <2>1, <2>2
  <2> QED BY <1>3, <2>1, <2>3
<1>8. Is(met)
  BY <1>7, Zenon
<1> HIDE DEF met
<1> HIDE DEF n
<1>9. met[0] = h /\ \A d \in 1 .. n : met[d] = Attempted(c, met[d - 1], d)
  BY <1>2, <1>3, <1>8
<1> DEFINE T == {d \in 0 .. n : met[d] \in Heaps}
<1>10. \A d \in 0 .. n : d \in T
  <2>1. 0 \in T /\ \A d \in 1 .. n : d - 1 \in T => d \in T
    BY <1>2, <1>4, <1>9
  <2> HIDE DEF T
  <2> QED BY <1>2, <2>1, Preserved
<1>11. Attempts(h, c, met)
  BY <1>9 DEF Attempts, n
<1> QED BY <1>1, <1>10, <1>11 DEF n

(* A merge adds no slot and keeps a taint.                                 *)
LEMMA Merging ==
  ASSUME NEW h \in Heaps, NEW c \in Chunks
  PROVE  Shrinks(h, Merge(h, c))
<1>1. PICK met : /\ Attempts(h, c, met) /\ \A d \in 0 .. c - 1 : met[d] \in Heaps
                 /\ Merge(h, c) = met[c - 1]
  BY MergeIs
<1>2. PICK n \in Nat : n = c - 1
  BY Constants DEF Chunks
<1> DEFINE T == {d \in 0 .. n : Shrinks(h, met[d])}
<1>3. 0 \in T
  BY <1>1 DEF Attempts, Shrinks
<1>4. ASSUME NEW d \in 1 .. n, d - 1 \in T
      PROVE  d \in T
  <2>1. PICK x, y : x = met[d - 1] /\ y = met[d]
    OBVIOUS
  <2>2. x \in Heaps /\ Shrinks(h, x)
    BY <1>4, <2>1 DEF Shrinks
  <2>3. y = x \/ y = MergeFrom(x, c, c - d)
    BY <1>1, <1>2, <2>1 DEF Attempts, Attempted
  <2>4. c - d \in Chunks
    BY <1>2, Constants DEF Chunks
  <2>5. Shrinks(x, MergeFrom(x, c, c - d))
    BY <2>2, <2>4, MergingFrom
  <2>6. Shrinks(h, y)
    BY <2>2, <2>3, <2>5 DEF Shrinks
  <2> QED BY <2>1, <2>6
<1>5. \A d \in 0 .. n : d \in T
  <2> HIDE DEF T
  <2> QED BY <1>3, <1>4, Preserved
<1>6. n \in T
  BY <1>5
<1> QED BY <1>1, <1>2, <1>6

-----------------------------------------------------------------------------
(* Splitting.                                                              *)

(* New slots for the pieces; t's memory is theirs.                         *)
Splits(h, c, k, m, ids, r) ==
  LET t == h.empty[k] IN
  /\ r \in Heaps /\ r.used = h.used /\ r.fault = h.fault /\ r.tainted = h.tainted
  /\ r.empty = [[h.empty EXCEPT ![k] = h.slot[t].next] EXCEPT ![c] = ids[m]]
  /\ DOMAIN r.slot = (DOMAIN h.slot \ {t}) \cup {ids[i] : i \in 1 .. m}
  /\ \A u \in DOMAIN h.slot \ {t} : r.slot[u] = h.slot[u]
  /\ \A i \in 1 .. m :
       /\ r.slot[ids[i]].home = h.slot[t].home /\ r.slot[ids[i]].idx = h.slot[t].idx
       /\ r.slot[ids[i]].off = h.slot[t].off + (i - 1) * Size(c)
       /\ r.slot[ids[i]].len = Size(c)
       /\ r.slot[ids[i]].next = IF i = 1 THEN h.empty[c] ELSE ids[i - 1]
Fresh(h, m, ids) ==
  /\ ids \in [1 .. m -> Ids \ DOMAIN h.slot]
  /\ \A i, l \in 1 .. m : ids[i] = ids[l] => i = l

(* There are enough of them.                                               *)
LEMMA FreshExist ==
  ASSUME NEW h \in Heaps, NEW m \in Nat, Cardinality(DOMAIN h.slot) + m <= MaxSlots, NEW ids,
         LET unused == Ids \ DOMAIN h.slot IN
         ids = [i \in 1 .. m |->
                  CHOOSE u \in unused : Cardinality({v \in unused : v < u}) = i - 1]
  PROVE  Fresh(h, m, ids)
<1> DEFINE S == Ids \ DOMAIN h.slot
           rank(u) == Cardinality({v \in S : v < u})
<1>1. S \in SUBSET Nat /\ IsFiniteSet(S) /\ m <= Cardinality(S)
  <2>1. IsFiniteSet(Ids) /\ Cardinality(Ids) = MaxSlots
    BY Constants, FS_Interval DEF Ids
  <2>2. DOMAIN h.slot \subseteq Ids /\ Ids \cap DOMAIN h.slot = DOMAIN h.slot
    BY HeapFacts
  <2>3. IsFiniteSet(S) /\ Cardinality(S) = MaxSlots - Cardinality(DOMAIN h.slot)
    BY <2>1, <2>2, FS_Difference
  <2>4. Cardinality(DOMAIN h.slot) \in Nat
    BY HeapFacts, FS_CardinalityType
  <2>5. m <= Cardinality(S)
    BY <2>3, <2>4, Constants
  <2>6. S \in SUBSET Nat
    BY DEF Ids
  <2> QED BY <2>3, <2>5, <2>6
<1>2. ids = [i \in 1 .. m |-> CHOOSE u \in S : rank(u) = i - 1]
  OBVIOUS
<1>3. \A i \in 1 .. m : \E u \in S : rank(u) = i - 1
  <2> TAKE i \in 1 .. m
  <2>1. i - 1 \in Nat /\ i - 1 < Cardinality(S)
    <3>1. Cardinality(S) \in Nat
      BY <1>1, FS_CardinalityType
    <3> QED BY <1>1, <3>1
  <2> QED BY <1>1, <2>1, Ranks
<1> HIDE DEF rank
<1>4. \A i \in 1 .. m : ids[i] \in S /\ rank(ids[i]) = i - 1
  <2> TAKE i \in 1 .. m
  <2>1. ids[i] = CHOOSE u \in S : rank(u) = i - 1
    BY <1>2
  <2> QED BY <1>3, <2>1
<1>5. ids \in [1 .. m -> S]
  BY <1>2, <1>4
<1>6. \A i, l \in 1 .. m : ids[i] = ids[l] => i = l
  <2> TAKE i, l \in 1 .. m
  <2> HAVE ids[i] = ids[l]
  <2>1. rank(ids[i]) = i - 1 /\ rank(ids[l]) = l - 1
    BY <1>4
  <2>2. i - 1 = l - 1
    BY <2>1, Zenon
  <2> QED BY <2>2
<1> QED BY <1>5, <1>6 DEF Fresh

(* A split finds an unused address for each piece.                         *)
LEMMA Splitting ==
  ASSUME NEW h \in Heaps, NEW c \in Chunks, NEW k \in Chunks, NEW n \in Nat \ {0},
         Size(k) = n * Size(c), Cardinality(DOMAIN h.slot) + n <= MaxSlots,
         h.empty[k] \in DOMAIN h.slot
  PROVE  \E ids : Fresh(h, n, ids) /\ Splits(h, c, k, n, ids, Split(h, c, k))
<1> DEFINE m == Size(k) \div Size(c)
           t == h.empty[k]
           unused == Ids \ DOMAIN h.slot
           ids == [i \in 1 .. m |->
                    CHOOSE u \in unused : Cardinality({v \in unused : v < u}) = i - 1]
           piece(i) == [next |-> IF i = 1 THEN h.empty[c] ELSE ids[i - 1],
                        home |-> h.slot[t].home, idx |-> h.slot[t].idx,
                        off |-> h.slot[t].off + (i - 1) * Size(c), len |-> Size(c)]
           new == {ids[i] : i \in 1 .. m}
           kept == DOMAIN h.slot \ {t}
           sl == [u \in kept \cup new |->
                    IF u \in new THEN piece(CHOOSE i \in 1 .. m : ids[i] = u) ELSE h.slot[u]]
           e == [h.empty EXCEPT ![k] = h.slot[t].next, ![c] = ids[m]]
<1>1. m = n
  BY Constants, Multiple
<1>2. t # Null /\ t \in Ids
  BY HeapFacts DEF Ids, Null
<1>3. Split(h, c, k) = [h EXCEPT !.slot = sl, !.empty = e, !.empty_size[k] = @ - Size(k)]
  BY <1>2, Zenon DEF Split, Ids
<1> HIDE DEF m
<1>4. m \in Nat \ {0} /\ Cardinality(DOMAIN h.slot) + m <= MaxSlots
  BY <1>1
<1>5. Fresh(h, m, ids)
  BY <1>4, FreshExist
<1> HIDE DEF ids, unused
<1>6. ids \in [1 .. m -> Ids \ DOMAIN h.slot] /\ \A i, l \in 1 .. m : ids[i] = ids[l] => i = l
  BY <1>5 DEF Fresh
<1>7. PICK s : s = h.slot[t] /\ s \in Slot
  BY HeapFacts
<1>8. \A i \in 1 .. m : piece(i) \in Slot
  <2> TAKE i \in 1 .. m
  <2>1. Size(c) \in Nat \ {0} /\ s.off \in Nat /\ s.home \in Chunks /\ s.idx \in 0 .. SlotsPerChunk - 1
    BY <1>7, Constants DEF Slot
  <2>2. PICK o : o = s.off + (i - 1) * Size(c)
    OBVIOUS
  <2>3. o \in Nat
    <3>1. i - 1 \in Nat
      OBVIOUS
    <3>2. (i - 1) * Size(c) \in Nat
      BY <2>1, <3>1, Distribution
    <3> QED BY <2>1, <2>2, <3>2
  <2>4. PICK x : x = IF i = 1 THEN h.empty[c] ELSE ids[i - 1]
    OBVIOUS
  <2>5. x \in 0 .. MaxSlots
    <3>1. h.empty[c] \in Pointers
      BY HeapFacts
    <3>2. i # 1 => ids[i - 1] \in Ids
      BY <1>6, <1>4
    <3> QED BY <2>4, <3>1, <3>2 DEF Ids, Pointers
  <2>6. piece(i) = [next |-> x, home |-> s.home, idx |-> s.idx, off |-> o, len |-> Size(c)]
    BY <1>7, <2>2, <2>4
  <2> QED BY <2>1, <2>3, <2>5, <2>6 DEF Slot
<1>9. \A i \in 1 .. m : (CHOOSE l \in 1 .. m : ids[l] = ids[i]) = i
  BY <1>6
<1> HIDE DEF piece, t
<1>10. \A i \in 1 .. m : ids[i] \in new /\ ids[i] \notin kept
  BY <1>6
<1>11. \A u \in new : \E i \in 1 .. m : u = ids[i]
  OBVIOUS
<1> HIDE DEF new
<1>12. \A i \in 1 .. m : sl[ids[i]] = piece(i)
  BY <1>9, <1>10
<1>13. \A u \in kept : sl[u] = h.slot[u]
  <2>1. \A u \in kept : u \notin new
    BY <1>10, <1>11
  <2> QED BY <2>1
<1>14. DOMAIN sl = kept \cup new
  OBVIOUS
<1>15. sl \in [kept \cup new -> Slot]
  <2> SUFFICES ASSUME NEW u \in kept \cup new
               PROVE  sl[u] \in Slot
    OBVIOUS
  <2>1. CASE u \in kept
    BY <1>13, <2>1, HeapFacts
  <2>2. CASE u \in new
    BY <1>8, <1>11, <1>12, <2>2
  <2> QED BY <2>1, <2>2
<1> HIDE DEF sl
<1>16. sl \in Stores
  <2>1. kept \cup new \subseteq Ids
    <3>1. kept \subseteq Ids
      BY HeapFacts
    <3>2. new \subseteq Ids
      BY <1>6, <1>11
    <3> QED BY <3>1, <3>2
  <2> QED BY <1>15, <2>1, AllStores
<1>17. m \in 1 .. m
  BY <1>4
<1>18. e \in [Chunks -> Pointers] /\ e = [[h.empty EXCEPT ![k] = h.slot[t].next] EXCEPT ![c] = ids[m]]
  <2>1. ids[m] \in Pointers
    BY <1>6, <1>17 DEF Ids, Pointers
  <2>2. h.slot[t].next \in Pointers
    BY <1>7 DEF Slot, Pointers
  <2>3. e = [[h.empty EXCEPT ![k] = h.slot[t].next] EXCEPT ![c] = ids[m]]
    OBVIOUS
  <2>4. PICK a : a = [h.empty EXCEPT ![k] = h.slot[t].next]
    OBVIOUS
  <2>5. a \in [Chunks -> Pointers]
    BY <2>2, <2>4, HeapFacts
  <2> QED BY <2>1, <2>3, <2>4, <2>5
<1>19. PICK es : es = [h.empty_size EXCEPT ![k] = @ - Size(k)]
  OBVIOUS
<1>20. es \in [Chunks -> Int]
  <2>1. h.empty_size[k] - Size(k) \in Int
    BY HeapFacts, Constants
  <2> QED BY <1>19, <2>1, HeapFacts
<1> HIDE DEF e
<1>21. PICK r : r = Split(h, c, k)
  OBVIOUS
<1>22. r = [h EXCEPT !.slot = sl, !.empty = e, !.empty_size = es]
  BY <1>3, <1>19, <1>21 DEF Heaps
<1>23. /\ r \in Heaps /\ r.used = h.used /\ r.fault = h.fault /\ r.tainted = h.tainted
       /\ r.slot = sl /\ r.empty = e
  BY <1>16, <1>18, <1>20, <1>22 DEF Heaps
<1>24. \A i \in 1 .. m :
         /\ sl[ids[i]].home = h.slot[t].home /\ sl[ids[i]].idx = h.slot[t].idx
         /\ sl[ids[i]].off = h.slot[t].off + (i - 1) * Size(c)
         /\ sl[ids[i]].len = Size(c)
         /\ sl[ids[i]].next = IF i = 1 THEN h.empty[c] ELSE ids[i - 1]
  <2> TAKE i \in 1 .. m
  <2>1. PICK o, x : /\ o = h.slot[t].off + (i - 1) * Size(c)
                    /\ x = IF i = 1 THEN h.empty[c] ELSE ids[i - 1]
    OBVIOUS
  <2>2. sl[ids[i]] = [next |-> x, home |-> h.slot[t].home, idx |-> h.slot[t].idx,
                      off |-> o, len |-> Size(c)]
    BY <1>12, <2>1 DEF piece
  <2> QED BY <2>1, <2>2
<1>25. Splits(h, c, k, m, ids, r)
  BY <1>13, <1>14, <1>18, <1>23, <1>24, Zenon DEF Splits, t, new
<1> QED BY <1>1, <1>5, <1>21, <1>25

(* The pieces are added to the slots.                                      *)
LEMMA SplitCount ==
  ASSUME NEW h \in Heaps, NEW c \in Chunks, NEW k \in Chunks, NEW m \in Nat, NEW ids, NEW r,
         Splits(h, c, k, m, ids, r), Fresh(h, m, ids)
  PROVE  Cardinality(DOMAIN r.slot) <= Cardinality(DOMAIN h.slot) + m
<1>1. PICK A, B, N : /\ A = DOMAIN h.slot /\ B = DOMAIN h.slot \ {h.empty[k]}
                     /\ N = {ids[i] : i \in 1 .. m}
  OBVIOUS
<1>2. IsFiniteSet(A) /\ B \in SUBSET A
  BY <1>1, HeapFacts
<1>3. IsFiniteSet(B) /\ Cardinality(B) <= Cardinality(A)
  BY <1>2, FS_Subset
<1>4. IsFiniteSet(N) /\ Cardinality(N) <= m
  <2>1. ids \in [1 .. m -> N] /\ \A u \in N : \E i \in 1 .. m : ids[i] = u
    BY <1>1 DEF Fresh
  <2>2. ids \in Surjection(1 .. m, N)
    BY <2>1 DEF Surjection
  <2>3. ExistsSurjection(1 .. m, N)
    BY <2>2 DEF ExistsSurjection
  <2> QED BY <2>3, FS_NatSurjection, FS_SurjCardinalityBound
<1>5. DOMAIN r.slot = B \cup N
  BY <1>1 DEF Splits
<1>6. Cardinality(B \cup N) = Cardinality(B) + Cardinality(N) - Cardinality(B \cap N)
  BY <1>3, <1>4, FS_Union
<1>7. /\ Cardinality(A) \in Nat /\ Cardinality(B) \in Nat /\ Cardinality(N) \in Nat
      /\ Cardinality(B \cap N) \in Nat
  <2>1. IsFiniteSet(B \cap N)
    BY <1>3, FS_Intersection
  <2> QED BY <1>2, <1>3, <1>4, <2>1, FS_CardinalityType
<1> QED BY <1>1, <1>3, <1>4, <1>5, <1>6, <1>7

(* There is room for a split.                                              *)
Room(h) == Cardinality(DOMAIN h.slot) + Size(NumChunks) <= MaxSlots
Grows(h, r) == /\ r \in Heaps /\ (h.tainted => r.tainted)
               /\ Cardinality(DOMAIN r.slot) <= Cardinality(DOMAIN h.slot) + Size(NumChunks)

(* Where no slot is added there stays room for a split.                    *)
LEMMA NoGrowth ==
  ASSUME NEW h \in Heaps, NEW r, Shrinks(h, r)
  PROVE  /\ Cardinality(DOMAIN r.slot) <= Cardinality(DOMAIN h.slot)
         /\ Room(h) => Room(r)
         /\ Grows(h, r)
<1>1. r \in Heaps /\ DOMAIN r.slot \in SUBSET DOMAIN h.slot /\ (h.tainted => r.tainted)
  BY DEF Shrinks
<1>2. Cardinality(DOMAIN r.slot) <= Cardinality(DOMAIN h.slot)
  BY <1>1, HeapFacts, FS_Subset
<1>3. /\ Cardinality(DOMAIN r.slot) \in Nat /\ Cardinality(DOMAIN h.slot) \in Nat
      /\ Size(NumChunks) \in Nat /\ MaxSlots \in Nat
  BY <1>1, HeapFacts, FS_CardinalityType, Constants
<1> QED BY <1>1, <1>2, <1>3 DEF Room, Grows

(* The lender is the first that has something.                             *)
LEMMA LenderExists ==
  ASSUME NEW h \in Heaps, NEW c \in Chunks, Lenders(h, c) # {}
  PROVE  \E k \in Lenders(h, c) : Borrow(h, c) = Split(h, c, k)
<1>1. Lenders(h, c) \in SUBSET Nat
  BY Constants DEF Lenders, Chunks
<1>2. \E k \in Lenders(h, c) : \A l \in Lenders(h, c) : k <= l
  BY <1>1, LeastNumber
<1> QED BY <1>2, Zenon DEF Borrow

(* Whatever the lists are.                                                 *)
LEMMA SplitOrFault ==
  ASSUME NEW h \in Heaps, NEW c \in Chunks, NEW k \in c + 1 .. NumChunks, Room(h)
  PROVE  LET r == Split(h, c, k) IN
         \/ h.empty[k] = Null /\ r = Fault(h, "segv")
         \/ h.empty[k] \notin DOMAIN h.slot /\ h.empty[k] # Null /\ r = Fault(h, "wild")
         \/ /\ h.empty[k] \in DOMAIN h.slot
            /\ \E m \in Nat \ {0} : \E ids :
                 /\ Size(k) = m * Size(c) /\ Fresh(h, m, ids) /\ Splits(h, c, k, m, ids, r)
                 /\ m <= Size(NumChunks)
<1>1. k \in Chunks /\ c <= k
  BY Constants DEF Chunks
<1>2. PICK m \in Nat \ {0} : Size(k) = m * Size(c)
  BY <1>1, Multiples
<1>3. m <= Size(NumChunks)
  <2>1. PICK s \in Nat : Size(c) = s + 1
    <3>1. Size(c) - 1 \in Nat /\ Size(c) = (Size(c) - 1) + 1
      BY Constants
    <3> QED BY <3>1
  <2>2. m * s \in Nat /\ (s + 1) * m = s * m + m
    BY Distribution
  <2>3. m <= Size(k)
    BY <1>2, <2>1, <2>2
  <2>4. Size(k) <= Size(NumChunks) /\ Size(k) \in Nat /\ Size(NumChunks) \in Nat
    BY <1>1, LargestSize, Constants
  <2> QED BY <2>3, <2>4
<1>4. CASE h.empty[k] = Null
  BY <1>4 DEF Split
<1>5. CASE h.empty[k] \notin DOMAIN h.slot /\ h.empty[k] # Null
  BY <1>5 DEF Split
<1>6. CASE h.empty[k] \in DOMAIN h.slot
  <2>1. Cardinality(DOMAIN h.slot) + m <= MaxSlots
    <3>1. Cardinality(DOMAIN h.slot) \in Nat
      BY HeapFacts, FS_CardinalityType
    <3> QED BY <1>3, <3>1, Constants DEF Room
  <2>2. PICK ids : Fresh(h, m, ids) /\ Splits(h, c, k, m, ids, Split(h, c, k))
    BY <1>1, <1>2, <1>6, <2>1, Splitting
  <2> QED BY <1>2, <1>3, <1>6, <2>2
<1> QED BY <1>4, <1>5, <1>6

(* The slot that is taken exists.                                          *)
LEMMA Borrowing ==
  ASSUME NEW h \in Heaps, NEW c \in Chunks, Room(h)
  PROVE  LET r == Borrowed(h, c) IN
         Grows(h, r) /\ (Ok(r) /\ r.empty[c] # Null => r.empty[c] \in DOMAIN r.slot)
<1>1. Shrinks(h, h) /\ Shrinks(h, Fault(h, "wild")) /\ Shrinks(h, Fault(h, "segv"))
  BY Faulting DEF Shrinks, Faults
<1>2. Grows(h, h) /\ Grows(h, Fault(h, "wild")) /\ Grows(h, Fault(h, "segv"))
  BY <1>1, NoGrowth
<1>3. ~Ok(Fault(h, "wild")) /\ ~Ok(Fault(h, "segv"))
  BY Faulting DEF Ok, Faults
<1>4. CASE ~Ok(h)
  BY <1>2, <1>4 DEF Borrowed
<1>5. CASE Ok(h) /\ h.empty[c] # Null
  BY <1>2, <1>3, <1>5 DEF Borrowed
<1>6. CASE Ok(h) /\ h.empty[c] = Null /\ Lenders(h, c) = {}
  BY <1>2, <1>6 DEF Borrowed
<1>7. CASE Ok(h) /\ h.empty[c] = Null /\ Lenders(h, c) # {}
  <2>1. PICK k \in Lenders(h, c) : Borrow(h, c) = Split(h, c, k)
    BY <1>7, LenderExists
  <2>2. k \in c + 1 .. NumChunks /\ k \in Chunks /\ k # c
    BY Constants DEF Lenders, Chunks
  <2>3. PICK r : r = Borrowed(h, c)
    OBVIOUS
  <2>4. r = Split(h, c, k)
    BY <1>7, <2>1, <2>3 DEF Borrowed
  <2>5. CASE r = Fault(h, "segv") \/ r = Fault(h, "wild")
    BY <1>2, <1>3, <2>3, <2>5
  <2>6. ASSUME NEW m \in Nat \ {0}, NEW ids, Fresh(h, m, ids), Splits(h, c, k, m, ids, r),
               m <= Size(NumChunks)
        PROVE  Grows(h, r) /\ r.empty[c] \in DOMAIN r.slot
    <3>1. Cardinality(DOMAIN r.slot) <= Cardinality(DOMAIN h.slot) + m
      BY <2>2, <2>6, SplitCount
    <3>2. r \in Heaps /\ (h.tainted => r.tainted)
      BY <2>6 DEF Splits
    <3>3. Cardinality(DOMAIN r.slot) \in Nat /\ Cardinality(DOMAIN h.slot) \in Nat
      BY <3>2, HeapFacts, FS_CardinalityType
    <3>4. Grows(h, r)
      BY <2>6, <3>1, <3>2, <3>3, Constants DEF Grows
    <3>5. r.empty[c] = ids[m]
      <4>1. PICK e : e = [h.empty EXCEPT ![k] = h.slot[h.empty[k]].next]
        OBVIOUS
      <4>2. DOMAIN e = Chunks
        BY <4>1, HeapFacts
      <4>3. r.empty = [e EXCEPT ![c] = ids[m]]
        BY <2>6, <4>1 DEF Splits
      <4> QED BY <4>2, <4>3
    <3>6. ids[m] \in DOMAIN r.slot
      BY <2>6 DEF Splits
    <3> QED BY <3>4, <3>5, <3>6
  <2> QED BY <2>2, <2>3, <2>4, <2>5, <2>6, SplitOrFault
<1> QED BY <1>4, <1>5, <1>6, <1>7

-----------------------------------------------------------------------------
(* An allocation.                                                          *)

(* The slot goes to the used list.                                         *)
LEMMA TakingFirst ==
  ASSUME NEW h \in Heaps, NEW c \in Chunks, h.empty[c] \in DOMAIN h.slot
  PROVE  Relisted(h, Taken(h, c), Relink(h.slot, h.empty[c], h.used[c]),
                  [h.empty EXCEPT ![c] = h.slot[h.empty[c]].next],
                  [h.used EXCEPT ![c] = h.empty[c]])
<1>1. PICK u, own : /\ u = h.empty[c]
                    /\ own = IF h.slot[u].home = c THEN h.slot[u].len ELSE 0
  OBVIOUS
<1>2. h.slot[u] \in Slot
  BY <1>1, HeapFacts
<1>3. own \in Int /\ h.slot[u].next \in Pointers /\ u \in Pointers
  <2>1. u \in Pointers
    BY <1>1, HeapFacts
  <2> QED BY <1>1, <1>2, <2>1 DEF Slot, Pointers
<1>4. PICK sl, e, us, es, ss :
        /\ sl = Relink(h.slot, u, h.used[c])
        /\ e = [h.empty EXCEPT ![c] = h.slot[u].next] /\ us = [h.used EXCEPT ![c] = u]
        /\ es = [h.empty_size EXCEPT ![c] = @ - own]
        /\ ss = [h.used_size EXCEPT ![c] = @ + own]
  OBVIOUS
<1>5. sl \in Stores
  <2>1. h.used[c] \in Pointers
    BY HeapFacts
  <2> QED BY <1>1, <1>4, <2>1, HeapFacts, Relinking
<1>6. e \in [Chunks -> Pointers] /\ us \in [Chunks -> Pointers]
  BY <1>3, <1>4, HeapFacts
<1>7. es \in [Chunks -> Int] /\ ss \in [Chunks -> Int]
  <2>1. h.empty_size[c] - own \in Int /\ h.used_size[c] + own \in Int
    BY <1>3, HeapFacts
  <2> QED BY <1>4, <2>1, HeapFacts
<1>8. PICK r : r = Taken(h, c)
  OBVIOUS
<1>9. r = [h EXCEPT !.slot = sl, !.empty = e, !.used = us, !.empty_size = es, !.used_size = ss]
  <2>1. DOMAIN h = {"slot", "empty", "used", "empty_size", "used_size", "fault", "tainted"}
    BY DEF Heaps
  <2>2. r = [h EXCEPT !.empty_size[c] = @ - own, !.used_size[c] = @ + own,
                      !.empty[c] = h.slot[u].next, !.slot[u].next = h.used[c], !.used[c] = u]
    BY <1>1, <1>8, Zenon DEF Taken
  <2> QED BY <1>4, <2>1, <2>2 DEF Relink
<1>10. Relisted(h, r, sl, e, us)
  BY <1>5, <1>6, <1>7, <1>9 DEF Relisted, Heaps
<1> QED BY <1>1, <1>4, <1>8, <1>10

(* The slot that an allocation takes is one that exists.                   *)
LEMMA TakingGrowth ==
  ASSUME NEW h \in Heaps, NEW c \in Chunks, h.empty[c] \in DOMAIN h.slot
  PROVE  LET r == Taken(h, c) IN r \in Heaps /\ DOMAIN r.slot = DOMAIN h.slot
<1>1. Relisted(h, Taken(h, c), Relink(h.slot, h.empty[c], h.used[c]),
               [h.empty EXCEPT ![c] = h.slot[h.empty[c]].next],
               [h.used EXCEPT ![c] = h.empty[c]])
  BY TakingFirst
<1>2. Stays(h.slot, Relink(h.slot, h.empty[c], h.used[c]))
  BY HeapFacts, Relinking
<1> QED BY <1>1, <1>2 DEF Relisted, Stays

(* What an allocation prepares.                                            *)
LEMMA Preparing ==
  ASSUME NEW h \in Heaps, NEW c \in Chunks, Room(h)
  PROVE  LET r == Borrowed(Merged(Swept(h, c), c), c) IN
         Grows(h, r) /\ (Ok(r) /\ r.empty[c] # Null => r.empty[c] \in DOMAIN r.slot)
<1>1. PICK s, m, r : s = Swept(h, c) /\ m = Merged(s, c) /\ r = Borrowed(m, c)
  OBVIOUS
<1>2. \A x \in Heaps : Shrinks(x, x)
  BY DEF Shrinks
<1>3. Shrinks(h, s)
  BY <1>1, <1>2, Sweeping DEF Swept, Shrinks, Stays
<1>4. Shrinks(s, m)
  <2>1. s \in Heaps
    BY <1>3 DEF Shrinks
  <2> QED BY <1>1, <1>2, <2>1, Merging DEF Merged
<1>5. Shrinks(h, m)
  BY <1>3, <1>4 DEF Shrinks
<1>6. Room(m) /\ Cardinality(DOMAIN m.slot) <= Cardinality(DOMAIN h.slot) /\ m \in Heaps
  BY <1>5, NoGrowth DEF Shrinks
<1>7. Grows(m, r) /\ (Ok(r) /\ r.empty[c] # Null => r.empty[c] \in DOMAIN r.slot)
  BY <1>1, <1>6, Borrowing
<1>8. Grows(h, r)
  <2>1. /\ Cardinality(DOMAIN h.slot) \in Nat /\ Cardinality(DOMAIN m.slot) \in Nat
        /\ Cardinality(DOMAIN r.slot) \in Nat /\ Size(NumChunks) \in Nat
    BY <1>6, <1>7, HeapFacts, FS_CardinalityType, Constants DEF Grows
  <2> QED BY <1>5, <1>6, <1>7, <2>1 DEF Grows, Shrinks
<1> QED BY <1>1, <1>7, <1>8

-----------------------------------------------------------------------------
(* Types.                                                                  *)

(* Each allocation splits at most one slot, so the addresses suffice.      *)
Counts == Cardinality(DOMAIN heap.slot) <= NumChunks * SlotsPerChunk + allocs * Size(NumChunks)
TypeInv == heap \in Heaps /\ allocs \in 0 .. MaxAllocs /\ Counts

(* The invariant implies the types.                                        *)
LEMMA TypeInvEnough == TypeInv => TypeOK
<1> SUFFICES ASSUME TypeInv PROVE TypeOK
  OBVIOUS
<1>1. heap \in Heaps /\ allocs \in 0 .. MaxAllocs
  BY DEF TypeInv
<1>2. /\ DOMAIN heap.slot \subseteq 1 .. MaxSlots
      /\ \A u \in DOMAIN heap.slot : heap.slot[u] \in Slot
      /\ heap.fault \in Faults /\ heap.tainted \in BOOLEAN
  BY <1>1, HeapFacts DEF Ids
<1>3. /\ heap.empty \in [Chunks -> 0 .. MaxSlots] /\ heap.used \in [Chunks -> 0 .. MaxSlots]
      /\ heap.empty_size \in [Chunks -> Int] /\ heap.used_size \in [Chunks -> Int]
  BY <1>1, HeapFacts DEF Pointers
<1> QED BY <1>1, <1>2, <1>3 DEF TypeOK, Faults

(* It holds of the heap of init_jvm_mem.                                   *)
LEMMA TypeInvInit == Init => TypeInv
<1> SUFFICES ASSUME Init PROVE TypeInv
  OBVIOUS
<1>1. heap = InitialHeap /\ allocs = 0
  BY DEF Init
<1>2. PICK n \in Nat : n = NumChunks * SlotsPerChunk
  <2>1. NumChunks * SlotsPerChunk \in Nat
    BY Constants
  <2> QED BY <2>1
<1>3. PICK s \in Nat : s = Size(NumChunks)
  BY Constants
<1>4. n <= MaxSlots /\ MaxAllocs * s \in Nat
  <2>1. MaxAllocs * s \in Nat
    BY Constants, Distribution
  <2> QED BY <1>2, <1>3, <2>1 DEF MaxSlots
<1> DEFINE Of(i) == (i - 1) \div SlotsPerChunk + 1
           At0(i) == (i - 1) % SlotsPerChunk
<1>5. ASSUME NEW i \in 1 .. n
      PROVE  Of(i) \in Chunks /\ At0(i) \in 0 .. SlotsPerChunk - 1 /\ i \in 1 .. MaxSlots
  <2>1. i \in 1 .. MaxSlots
    BY <1>4, Constants
  <2>2. At0(i) \in 0 .. SlotsPerChunk - 1
    BY Constants
  <2>3. PICK q : q = (i - 1) \div SlotsPerChunk
    OBVIOUS
  <2>4. q \in Nat /\ q * SlotsPerChunk <= i - 1
    BY <2>3, Constants
  <2>5. q < NumChunks
    <3> SUFFICES ASSUME NumChunks <= q PROVE FALSE
      BY <2>4, Constants
    <3>1. PICK d \in Nat : q = d + NumChunks
      <4>1. q - NumChunks \in Nat /\ q = (q - NumChunks) + NumChunks
        BY <2>4, Constants
      <4> QED BY <4>1
    <3>2. d * SlotsPerChunk \in Nat
      BY Constants, Distribution
    <3>3. q * SlotsPerChunk = d * SlotsPerChunk + n
      BY <1>2, <3>1, Constants
    <3> QED BY <2>4, <3>2, <3>3
  <2> QED BY <2>1, <2>2, <2>3, <2>4, <2>5, Constants DEF Chunks
<1> HIDE DEF Of, At0
<1> DEFINE sl == [i \in 1 .. n |->
                   [next |-> IF At0(i) = 0 THEN Null ELSE i - 1,
                    home |-> Of(i), idx |-> At0(i), off |-> 0, len |-> Size(Of(i))]]
<1>6. sl \in [1 .. n -> Slot]
  <2> SUFFICES ASSUME NEW i \in 1 .. n
               PROVE  [next |-> IF At0(i) = 0 THEN Null ELSE i - 1,
                       home |-> Of(i), idx |-> At0(i), off |-> 0, len |-> Size(Of(i))] \in Slot
    OBVIOUS
  <2>1. PICK x : x = IF At0(i) = 0 THEN Null ELSE i - 1
    OBVIOUS
  <2>2. x \in 0 .. MaxSlots
    BY <1>5, <2>1, Constants DEF Null
  <2>3. Size(Of(i)) \in Nat \ {0}
    BY <1>5, Constants
  <2> QED BY <1>5, <2>1, <2>2, <2>3 DEF Slot
<1>7. sl = InitialHeap.slot
  BY <1>2 DEF InitialHeap, Of, At0
<1>8. sl \in Stores /\ DOMAIN sl = 1 .. n
  <2>1. 1 .. n \subseteq Ids
    BY <1>4, Constants DEF Ids
  <2> HIDE DEF sl
  <2> QED BY <1>6, <2>1, AllStores
<1>9. /\ InitialHeap.empty = [c \in Chunks |-> FirstSlot(c) + SlotsPerChunk]
      /\ InitialHeap.used = [c \in Chunks |-> Null]
      /\ InitialHeap.empty_size = [c \in Chunks |-> SlotsPerChunk * Size(c)]
      /\ InitialHeap.used_size = [c \in Chunks |-> 0]
      /\ InitialHeap.fault = "none" /\ InitialHeap.tainted = FALSE
  BY DEF InitialHeap
<1>10. \A c \in Chunks : FirstSlot(c) + SlotsPerChunk \in Pointers /\ SlotsPerChunk * Size(c) \in Int
  <2> TAKE c \in Chunks
  <2>1. SlotsPerChunk * Size(c) \in Int
    BY Constants, Distribution
  <2>2. PICK d \in Nat, b \in Nat : NumChunks = c + d /\ b = c - 1
    <3>1. NumChunks - c \in Nat /\ NumChunks = c + (NumChunks - c) /\ c - 1 \in Nat
      BY Constants DEF Chunks
    <3> QED BY <3>1
  <2>3. b * SlotsPerChunk \in Nat /\ d * SlotsPerChunk \in Nat
    BY Constants, Distribution
  <2>4. n = (b * SlotsPerChunk) + SlotsPerChunk + (d * SlotsPerChunk)
    <3>1. NumChunks = (b + 1) + d
      BY <2>2 DEF Chunks
    <3> QED BY <1>2, <3>1, Constants
  <2>5. FirstSlot(c) = b * SlotsPerChunk
    BY <2>2 DEF FirstSlot
  <2>6. FirstSlot(c) + SlotsPerChunk \in Pointers
    BY <1>4, <2>3, <2>4, <2>5, Constants DEF Pointers
  <2> QED BY <2>1, <2>6
<1>11. InitialHeap \in Heaps
  <2>1. InitialHeap.empty \in [Chunks -> Pointers]
    BY <1>9, <1>10
  <2>2. InitialHeap.used \in [Chunks -> Pointers]
    BY <1>9, Constants DEF Pointers, Null
  <2>3. InitialHeap.empty_size \in [Chunks -> Int] /\ InitialHeap.used_size \in [Chunks -> Int]
    BY <1>9, <1>10
  <2>4. InitialHeap.slot \in Stores
    BY <1>7, <1>8
  <2>5. InitialHeap = [slot |-> InitialHeap.slot, empty |-> InitialHeap.empty,
                       used |-> InitialHeap.used, empty_size |-> InitialHeap.empty_size,
                       used_size |-> InitialHeap.used_size, fault |-> "none", tainted |-> FALSE]
    BY DEF InitialHeap
  <2>6. PICK a, b, d, f, g : /\ a = InitialHeap.slot /\ b = InitialHeap.empty
                             /\ d = InitialHeap.used /\ f = InitialHeap.empty_size
                             /\ g = InitialHeap.used_size
    OBVIOUS
  <2>7. [slot |-> a, empty |-> b, used |-> d, empty_size |-> f, used_size |-> g,
         fault |-> "none", tainted |-> FALSE] \in Heaps
    BY <2>1, <2>2, <2>3, <2>4, <2>6 DEF Heaps, Faults
  <2> QED BY <2>5, <2>6, <2>7
<1>12. Cardinality(DOMAIN heap.slot) = n
  BY <1>1, <1>7, <1>8, FS_Interval
<1> QED BY <1>1, <1>2, <1>11, <1>12, Constants DEF TypeInv, Counts

(* Addresses are left for one more split.                                  *)
LEMMA Reserve ==
  ASSUME TypeInv, allocs < MaxAllocs
  PROVE  /\ Room(heap)
         /\ allocs + 1 \in 0 .. MaxAllocs
         /\ NumChunks * SlotsPerChunk + (allocs + 1) * Size(NumChunks)
              = NumChunks * SlotsPerChunk + allocs * Size(NumChunks) + Size(NumChunks)
<1>1. PICK n \in Nat, s \in Nat : n = NumChunks * SlotsPerChunk /\ s = Size(NumChunks)
  <2>1. NumChunks * SlotsPerChunk \in Nat
    BY Constants
  <2> QED BY <2>1, Constants
<1>2. /\ allocs \in Nat /\ allocs + 1 \in 0 .. MaxAllocs /\ heap \in Heaps
      /\ Cardinality(DOMAIN heap.slot) <= n + allocs * s
  BY <1>1, Constants DEF TypeInv, Counts
<1>3. (allocs + 1) * s = allocs * s + s /\ allocs * s \in Nat
  BY <1>2, Distribution
<1>4. PICK d \in Nat : MaxAllocs = (allocs + 1) + d
  <2>1. MaxAllocs - (allocs + 1) \in Nat /\ MaxAllocs = (allocs + 1) + (MaxAllocs - (allocs + 1))
    BY <1>2, Constants
  <2> QED BY <2>1
<1>5. d * s \in Nat /\ MaxAllocs * s = (allocs + 1) * s + d * s
  BY <1>2, <1>4, Distribution
<1>6. MaxSlots = n + MaxAllocs * s
  BY <1>1 DEF MaxSlots
<1>7. Cardinality(DOMAIN heap.slot) \in Nat
  BY <1>2, HeapFacts, FS_CardinalityType
<1>8. Cardinality(DOMAIN heap.slot) + s <= MaxSlots
  BY <1>2, <1>3, <1>5, <1>6, <1>7
<1> QED BY <1>1, <1>2, <1>3, <1>8 DEF Room

(* What an allocation leaves.                                              *)
LEMMA AllocGrowth ==
  ASSUME TypeInv, NEW c \in Chunks, Alloc(c) \/ OutOfMemory(c) \/ AllocFaults(c)
  PROVE  Grows(heap, heap') /\ allocs < MaxAllocs /\ allocs' = allocs + 1
<1>1. allocs < MaxAllocs /\ allocs' = allocs + 1
  BY DEF Alloc, OutOfMemory, AllocFaults, Running
<1>2. PICK r : r = Prepared(c)
  OBVIOUS
<1>3. Grows(heap, r) /\ (Ok(r) /\ r.empty[c] # Null => r.empty[c] \in DOMAIN r.slot)
  BY <1>1, <1>2, Reserve, Preparing DEF Prepared, TypeInv
<1>4. CASE Alloc(c)
  <2>1. Ok(r) /\ r.empty[c] # Null /\ heap' = Taken(r, c)
    BY <1>2, <1>4 DEF Alloc
  <2>2. r \in Heaps /\ r.empty[c] \in DOMAIN r.slot
    BY <1>3, <2>1 DEF Grows
  <2>3. heap' \in Heaps /\ DOMAIN heap'.slot = DOMAIN r.slot /\ heap'.tainted = r.tainted
    BY <2>1, <2>2, TakingFirst, TakingGrowth DEF Relisted
  <2> QED BY <1>1, <1>3, <2>3 DEF Grows
<1>5. CASE OutOfMemory(c) \/ AllocFaults(c)
  <2>1. heap' = r
    BY <1>2, <1>5 DEF OutOfMemory, AllocFaults
  <2> QED BY <1>1, <1>3, <2>1
<1> QED BY <1>4, <1>5

(* It is kept by every allocation and every object's end.                  *)
LEMMA TypeInvStep == TypeInv /\ [Next]_vars => TypeInv'
<1> SUFFICES ASSUME TypeInv, [Next]_vars PROVE TypeInv'
  OBVIOUS
<1>1. ASSUME NEW c \in Chunks, Alloc(c) \/ OutOfMemory(c) \/ AllocFaults(c)
      PROVE  TypeInv'
  <2>1. /\ heap' \in Heaps /\ allocs < MaxAllocs /\ allocs' = allocs + 1
        /\ Cardinality(DOMAIN heap'.slot) <= Cardinality(DOMAIN heap.slot) + Size(NumChunks)
    BY <1>1, AllocGrowth DEF Grows
  <2>2. PICK n, s, a : /\ n = NumChunks * SlotsPerChunk /\ s = Size(NumChunks) /\ a = allocs * s
                     /\ s \in Nat
    BY Constants
  <2>3. n \in Nat /\ a \in Nat
    BY <2>2, Constants, Distribution DEF TypeInv
  <2>4. n + allocs' * s = n + a + s /\ allocs' \in 0 .. MaxAllocs
    BY <2>1, <2>2, Reserve
  <2>5. Cardinality(DOMAIN heap.slot) \in Nat /\ Cardinality(DOMAIN heap.slot) <= n + a
    BY <2>2, HeapFacts, FS_CardinalityType DEF TypeInv, Counts
  <2>6. Cardinality(DOMAIN heap'.slot) \in Nat
    BY <2>1, HeapFacts, FS_CardinalityType
  <2>7. Cardinality(DOMAIN heap'.slot) <= n + allocs' * s
    BY <2>1, <2>2, <2>3, <2>4, <2>5, <2>6
  <2> QED BY <2>1, <2>2, <2>4, <2>7 DEF TypeInv, Counts
<1>2. ASSUME NEW o \in live, Release(o)
      PROVE  TypeInv'
  BY <1>2 DEF Release, TypeInv, Counts
<1>3. CASE UNCHANGED vars
  BY <1>3 DEF vars, TypeInv, Counts
<1> QED BY <1>1, <1>2, <1>3 DEF Next

(* Every reachable heap is one: the slots are slots, no pointer leaves the *)
(* addresses, and splitting always finds unused ones, whatever mem_alloc   *)
(* does to its lists, and after a fault, too.                              *)
THEOREM TypeCorrect == Spec => []TypeOK
<1>1. Spec => []TypeInv
  BY TypeInvInit, TypeInvStep, PTL DEF Spec
<1> QED BY <1>1, TypeInvEnough, PTL

-----------------------------------------------------------------------------
(* Lists.                                                                  *)

(* Chunk c's empty slots are the list at place c, its used ones that at    *)
(* place -c.                                                               *)
Places == UNION {{c, -c} : c \in Chunks}
Class(a) == IF a > 0 THEN a ELSE -a
Starts(e, us) == [a \in Places |-> IF a > 0 THEN e[a] ELSE us[-a]]

(* The places of empty and used lists differ, and belong to their class.   *)
LEMMA PlaceFacts ==
  /\ \A c \in Chunks : /\ c \in Places /\ -c \in Places /\ c > 0 /\ ~(-c > 0) /\ -c # c
                       /\ Class(c) = c /\ Class(-c) = c /\ -(-c) = c
  /\ \A a \in Places : Class(a) \in Chunks /\ (a = Class(a) \/ a = -Class(a))
<1>1. \A c \in Chunks : c \in Int /\ c > 0
  BY Constants DEF Chunks
<1>2. \A c \in Chunks : c \in Places /\ -c \in Places
  BY DEF Places
<1>3. \A a \in Places : \E c \in Chunks : a = c \/ a = -c
  BY DEF Places
<1> QED BY <1>1, <1>2, <1>3 DEF Class

(* The head at a place is that of its list.                                *)
LEMMA StartFacts ==
  ASSUME NEW e \in [Chunks -> Pointers], NEW us \in [Chunks -> Pointers]
  PROVE  /\ Starts(e, us) \in [Places -> Pointers]
         /\ \A c \in Chunks : Starts(e, us)[c] = e[c] /\ Starts(e, us)[-c] = us[c]
<1>1. \A c \in Chunks : Starts(e, us)[c] = e[c] /\ Starts(e, us)[-c] = us[c]
  BY PlaceFacts DEF Starts
<1>2. ASSUME NEW a \in Places
      PROVE  (IF a > 0 THEN e[a] ELSE us[-a]) \in Pointers
  <2>1. PICK c \in Chunks : a = c \/ a = -c
    BY PlaceFacts
  <2> QED BY <2>1, PlaceFacts
<1>3. Starts(e, us) \in [Places -> Pointers]
  BY <1>2 DEF Starts
<1> QED BY <1>1, <1>3

(* Another head of an empty or of a used list.                             *)
Becomes(f, a, x, g) == g = [f EXCEPT ![a] = x]

(* The heads when the one of an empty list changes.                        *)
LEMMA EmptyStart ==
  ASSUME NEW e \in [Chunks -> Pointers], NEW us \in [Chunks -> Pointers],
         NEW f \in [Chunks -> Pointers], NEW c \in Chunks,
         \A b \in Chunks \ {c} : f[b] = e[b]
  PROVE  Becomes(Starts(e, us), c, f[c], Starts(f, us))
<1>1. PICK hd, fd : hd = Starts(e, us) /\ fd = Starts(f, us)
  OBVIOUS
<1>2. /\ hd \in [Places -> Pointers] /\ fd \in [Places -> Pointers]
      /\ \A b \in Chunks : hd[b] = e[b] /\ hd[-b] = us[b] /\ fd[b] = f[b] /\ fd[-b] = us[b]
  BY <1>1, StartFacts
<1>3. ASSUME NEW b \in Places
      PROVE  fd[b] = IF b = c THEN f[c] ELSE hd[b]
  <2>1. PICK d \in Chunks : b = d \/ b = -d
    BY PlaceFacts
  <2>2. d > 0 /\ c > 0 /\ d \in Int /\ c \in Int
    BY PlaceFacts, Constants DEF Chunks
  <2> QED BY <1>2, <2>1, <2>2
<1>4. fd = [hd EXCEPT ![c] = f[c]]
  BY <1>2, <1>3
<1> QED BY <1>1, <1>4 DEF Becomes

(* The heads when the one of a used list changes.                          *)
LEMMA UsedStart ==
  ASSUME NEW e \in [Chunks -> Pointers], NEW us \in [Chunks -> Pointers],
         NEW f \in [Chunks -> Pointers], NEW c \in Chunks,
         \A b \in Chunks \ {c} : f[b] = us[b]
  PROVE  Becomes(Starts(e, us), -c, f[c], Starts(e, f))
<1>1. PICK hd, fd : hd = Starts(e, us) /\ fd = Starts(e, f)
  OBVIOUS
<1>2. /\ hd \in [Places -> Pointers] /\ fd \in [Places -> Pointers]
      /\ \A b \in Chunks : hd[b] = e[b] /\ hd[-b] = us[b] /\ fd[b] = e[b] /\ fd[-b] = f[b]
  BY <1>1, StartFacts
<1>3. ASSUME NEW b \in Places
      PROVE  fd[b] = IF b = -c THEN f[c] ELSE hd[b]
  <2>1. PICK d \in Chunks : b = d \/ b = -d
    BY PlaceFacts
  <2>2. d > 0 /\ c > 0 /\ d \in Int /\ c \in Int
    BY PlaceFacts, Constants DEF Chunks
  <2> QED BY <1>2, <2>1, <2>2
<1>4. fd = [hd EXCEPT ![-c] = f[c]]
  BY <1>2, <1>3
<1> QED BY <1>1, <1>4 DEF Becomes

(* The same of two heaps whose empty heads differ in one place.            *)
LEMMA EmptyHead ==
  ASSUME NEW h \in Heaps, NEW r \in Heaps, NEW c \in Chunks, NEW p,
         r.empty = [h.empty EXCEPT ![c] = p], r.used = h.used
  PROVE  Becomes(Starts(h.empty, h.used), c, p, Starts(r.empty, r.used))
<1>1. PICK e, us, f : e = h.empty /\ us = h.used /\ f = r.empty
  OBVIOUS
<1>2. /\ e \in [Chunks -> Pointers] /\ us \in [Chunks -> Pointers]
      /\ f \in [Chunks -> Pointers]
  BY <1>1, HeapFacts
<1>3. f[c] = p /\ \A b \in Chunks \ {c} : f[b] = e[b]
  BY <1>1, <1>2
<1>4. Becomes(Starts(e, us), c, f[c], Starts(f, us))
  BY <1>2, <1>3, EmptyStart
<1> QED BY <1>1, <1>3, <1>4

(* The same of two heaps whose used heads differ in one place.             *)
LEMMA UsedHead ==
  ASSUME NEW h \in Heaps, NEW r \in Heaps, NEW c \in Chunks, NEW p,
         r.used = [h.used EXCEPT ![c] = p], r.empty = h.empty
  PROVE  Becomes(Starts(h.empty, h.used), -c, p, Starts(r.empty, r.used))
<1>1. PICK e, us, f : e = h.empty /\ us = h.used /\ f = r.used
  OBVIOUS
<1>2. /\ e \in [Chunks -> Pointers] /\ us \in [Chunks -> Pointers]
      /\ f \in [Chunks -> Pointers]
  BY <1>1, HeapFacts
<1>3. f[c] = p /\ \A b \in Chunks \ {c} : f[b] = us[b]
  BY <1>1, <1>2
<1>4. Becomes(Starts(e, us), -c, f[c], Starts(e, f))
  BY <1>2, <1>3, UsedStart
<1> QED BY <1>1, <1>3, <1>4

(* The list that starts at p.                                              *)
On(w, u) == \E i \in 1 .. Len(w) : w[i] = u
At(w, i) == IF i \in 1 .. Len(w) THEN w[i] ELSE Null
Distinct(w) == \A i, k \in 1 .. Len(w) : w[i] = w[k] => i = k
ListAt(sl, s, p, w) ==
  /\ w \in Seq(DOMAIN sl) /\ Distinct(w) /\ p = At(w, 1)
  /\ \A i \in 1 .. Len(w) : sl[w[i]].next = At(w, i + 1) /\ sl[w[i]].len = s

(* Lists of slots of one size each, without a common slot.                 *)
Apart(L) == \A a, b \in Places : \A i \in 1 .. Len(L[a]), k \in 1 .. Len(L[b]) :
              L[a][i] = L[b][k] => a = b
Shape(sl, hd, L) ==
  /\ L \in [Places -> Seq(Ids)] /\ Apart(L)
  /\ \A a \in Places : ListAt(sl, Size(Class(a)), hd[a], L[a])

(* One list is replaced.                                                   *)
LEMMA Replacing ==
  ASSUME NEW sl \in Stores, NEW hd \in [Places -> Pointers], NEW L, Shape(sl, hd, L),
         NEW a \in Places, NEW p \in Pointers, NEW x, NEW r \in Stores,
         ListAt(r, Size(Class(a)), p, x),
         \A b \in Places \ {a} : \A i \in 1 .. Len(L[b]) :
           ~On(x, L[b][i]) /\ L[b][i] \in DOMAIN r /\ r[L[b][i]] = sl[L[b][i]]
  PROVE  Shape(r, [hd EXCEPT ![a] = p], [L EXCEPT ![a] = x])
<1>1. PICK hd2, M : hd2 = [hd EXCEPT ![a] = p] /\ M = [L EXCEPT ![a] = x]
  OBVIOUS
<1>2. /\ hd2[a] = p /\ M[a] = x
      /\ \A b \in Places \ {a} : hd2[b] = hd[b] /\ M[b] = L[b]
  BY <1>1 DEF Shape
<1>3. M \in [Places -> Seq(Ids)]
  <2>1. x \in Seq(Ids)
    <3>1. DOMAIN r \subseteq Ids /\ x \in Seq(DOMAIN r)
      BY StoreFacts DEF ListAt
    <3>2. \A i \in 1 .. Len(x) : x[i] \in Ids
      BY <3>1
    <3> QED BY <3>1, <3>2
  <2> QED BY <1>1, <2>1 DEF Shape
<1>4. ASSUME NEW b \in Places
      PROVE  ListAt(r, Size(Class(b)), hd2[b], M[b])
  <2>1. CASE b = a
    BY <1>2, <2>1
  <2>2. CASE b # a
    <3>1. PICK w : w = L[b]
      OBVIOUS
    <3>2. ListAt(sl, Size(Class(b)), hd[b], w)
      BY <3>1 DEF Shape
    <3>3. \A i \in 1 .. Len(w) : w[i] \in DOMAIN r /\ r[w[i]] = sl[w[i]]
      BY <2>2, <3>1
    <3>4. w \in Seq(DOMAIN r)
      <4>1. PICK D, E : D = DOMAIN sl /\ E = DOMAIN r
        OBVIOUS
      <4>2. w \in Seq(D) /\ \A i \in 1 .. Len(w) : w[i] \in E
        BY <3>2, <3>3, <4>1 DEF ListAt
      <4> QED BY <4>1, <4>2
    <3>5. ListAt(r, Size(Class(b)), hd[b], w)
      BY <3>2, <3>3, <3>4 DEF ListAt
    <3> QED BY <1>2, <2>2, <3>1, <3>5
  <2> QED BY <2>1, <2>2
<1>5. Apart(M)
  <2> SUFFICES ASSUME NEW b \in Places, NEW d \in Places, NEW i \in 1 .. Len(M[b]),
                      NEW k \in 1 .. Len(M[d]), M[b][i] = M[d][k]
               PROVE  b = d
    BY DEF Apart
  <2>1. CASE b # a /\ d # a
    BY <1>2, <2>1 DEF Shape, Apart
  <2>2. CASE b = a /\ d # a
    BY <1>2, <2>2 DEF On
  <2>3. CASE b # a /\ d = a
    BY <1>2, <2>3 DEF On
  <2> QED BY <2>1, <2>2, <2>3
<1> QED BY <1>1, <1>3, <1>4, <1>5 DEF Shape

(* Lists that keep their elements elsewhere.                               *)
LEMMA Revising ==
  ASSUME NEW sl \in Stores, NEW hd, NEW L, Shape(sl, hd, L), NEW r \in Stores,
         \A a \in Places : \A i \in 1 .. Len(L[a]) :
           L[a][i] \in DOMAIN r /\ r[L[a][i]] = sl[L[a][i]]
  PROVE  Shape(r, hd, L)
<1>1. ASSUME NEW a \in Places
      PROVE  ListAt(r, Size(Class(a)), hd[a], L[a])
  <2>1. PICK w : w = L[a]
    OBVIOUS
  <2>2. ListAt(sl, Size(Class(a)), hd[a], w)
    BY <2>1 DEF Shape
  <2>3. \A i \in 1 .. Len(w) : w[i] \in DOMAIN r /\ r[w[i]] = sl[w[i]]
    BY <2>1
  <2>4. w \in Seq(DOMAIN r)
    <3>1. PICK D, E : D = DOMAIN sl /\ E = DOMAIN r
      OBVIOUS
    <3>2. w \in Seq(D) /\ \A i \in 1 .. Len(w) : w[i] \in E
      BY <2>2, <2>3, <3>1 DEF ListAt
    <3> QED BY <3>1, <3>2
  <2>5. ListAt(r, Size(Class(a)), hd[a], w)
    BY <2>2, <2>3, <2>4 DEF ListAt
  <2> QED BY <2>1, <2>5
<1> QED BY <1>1 DEF Shape

(* A list that loses elements.                                             *)
LEMMA Shortening ==
  ASSUME NEW sl \in Stores, NEW hd \in [Places -> Pointers], NEW L, Shape(sl, hd, L),
         NEW a \in Places, NEW p \in Pointers, NEW x, NEW r \in Stores,
         ListAt(r, Size(Class(a)), p, x), \A u : On(x, u) => On(L[a], u),
         \A u \in DOMAIN sl : ~On(L[a], u) => u \in DOMAIN r /\ r[u] = sl[u]
  PROVE  Shape(r, [hd EXCEPT ![a] = p], [L EXCEPT ![a] = x])
<1>1. ASSUME NEW b \in Places \ {a}, NEW i \in 1 .. Len(L[b])
      PROVE  ~On(x, L[b][i]) /\ L[b][i] \in DOMAIN r /\ r[L[b][i]] = sl[L[b][i]]
  <2>1. ~On(L[a], L[b][i])
    BY DEF Shape, Apart, On
  <2>2. L[b][i] \in DOMAIN sl
    <3>1. PICK w : w = L[b]
      OBVIOUS
    <3>2. w \in Seq(DOMAIN sl) /\ i \in 1 .. Len(w)
      BY <3>1 DEF Shape, ListAt
    <3> QED BY <3>1, <3>2
  <2> QED BY <2>1, <2>2
<1> QED BY <1>1, Replacing

(* What is at a place in a list or behind it is an element or NULL.        *)
LEMMA AtFacts ==
  ASSUME NEW S, NEW w \in Seq(S), NEW i
  PROVE  At(w, i) \in S \cup {Null}
  BY DEF At

(* A list without repetition is no longer than there are elements.         *)
LEMMA DistinctLength ==
  ASSUME NEW S, IsFiniteSet(S), NEW w \in Seq(S), Distinct(w)
  PROVE  Len(w) <= Cardinality(S)
<1>1. w \in Injection(1 .. Len(w), S)
  <2>1. w \in [1 .. Len(w) -> S] /\ DOMAIN w = 1 .. Len(w)
    OBVIOUS
  <2>2. \A i, k \in DOMAIN w : w[i] = w[k] => i = k
    BY <2>1 DEF Distinct
  <2>3. IsInjective(w)
    BY <2>2 DEF IsInjective
  <2> QED BY <2>1, <2>3 DEF Injection
<1>2. Cardinality(1 .. Len(w)) = Len(w)
  <2>1. PICK n \in Nat : n = Len(w)
    OBVIOUS
  <2>2. Cardinality(1 .. n) = n
    BY FS_Interval
  <2> QED BY <2>1, <2>2
<1> QED BY <1>1, <1>2, FS_Injection

(* Without its first n elements.                                           *)
Rest(w, n) == [i \in 1 .. Len(w) - n |-> w[i + n]]

IsRest(w, n, x) ==
  /\ Len(x) = Len(w) - n
  /\ \A i \in 1 .. Len(w) - n : x[i] = w[i + n]
  /\ \A i \in Nat \ {0} : At(x, i) = At(w, i + n)
  /\ \A u : On(x, u) => On(w, u)
  /\ Distinct(w) => Distinct(x) /\ \A i \in 1 .. n : ~On(x, w[i])

(* The elements of what is left of a list.                                 *)
LEMMA RestIs ==
  ASSUME NEW S, NEW w \in Seq(S), NEW n \in 0 .. Len(w), NEW x, x = Rest(w, n)
  PROVE  x \in Seq(S) /\ IsRest(w, n, x)
<1>1. x = Rest(w, n)
  OBVIOUS
<1>2. Len(w) \in Nat /\ Len(w) - n \in Nat
  OBVIOUS
<1>3. x \in [1 .. Len(w) - n -> S] /\ \A i \in 1 .. Len(w) - n : x[i] = w[i + n]
  <2>1. \A i \in 1 .. Len(w) - n : i + n \in 1 .. Len(w)
    BY <1>2
  <2> QED BY <1>1, <2>1 DEF Rest
<1>4. x \in Seq(S) /\ Len(x) = Len(w) - n
  BY <1>2, <1>3, IntervalSeq
<1>5. \A i \in Nat \ {0} : At(x, i) = At(w, i + n)
  BY <1>2, <1>3, <1>4 DEF At
<1>6. \A u : On(x, u) => On(w, u)
  BY <1>2, <1>3, <1>4 DEF On
<1>7. ASSUME Distinct(w)
      PROVE  Distinct(x) /\ \A i \in 1 .. n : ~On(x, w[i])
  <2>1. Distinct(x)
    BY <1>2, <1>3, <1>4, <1>7 DEF Distinct
  <2>2. \A i \in 1 .. n : ~On(x, w[i])
    BY <1>2, <1>3, <1>4, <1>7 DEF Distinct, On
  <2> QED BY <2>1, <2>2
<1> QED BY <1>3, <1>4, <1>5, <1>6, <1>7 DEF IsRest

(* A list whose first elements are skipped is one, and those are in it no  *)
(* more.                                                                   *)
LEMMA Skipping ==
  ASSUME NEW sl \in Stores, NEW hd \in [Places -> Pointers], NEW L, Shape(sl, hd, L),
         NEW a \in Places, NEW n \in 0 .. Len(L[a])
  PROVE  /\ At(L[a], n + 1) \in Pointers
         /\ Shape(sl, [hd EXCEPT ![a] = At(L[a], n + 1)], [L EXCEPT ![a] = Rest(L[a], n)])
         /\ \A i \in 1 .. n : ~On(Rest(L[a], n), L[a][i])
<1>1. PICK w, D : w = L[a] /\ D = DOMAIN sl
  OBVIOUS
<1>2. /\ w \in Seq(D) /\ Len(w) \in Nat /\ n \in 0 .. Len(w) /\ Distinct(w)
      /\ \A i \in 1 .. Len(w) : sl[w[i]].next = At(w, i + 1) /\ sl[w[i]].len = Size(Class(a))
  BY <1>1 DEF Shape, ListAt
<1>3. PICK x : x = Rest(w, n)
  OBVIOUS
<1>4. /\ x \in Seq(D) /\ Len(x) = Len(w) - n
      /\ \A i \in 1 .. Len(w) - n : x[i] = w[i + n]
      /\ \A i \in Nat \ {0} : At(x, i) = At(w, i + n)
      /\ \A u : On(x, u) => On(w, u)
      /\ Distinct(x) /\ \A i \in 1 .. n : ~On(x, w[i])
  <2>1. w \in Seq(D) /\ n \in 0 .. Len(w) /\ Distinct(w)
    BY <1>2
  <2>2. x \in Seq(D) /\ IsRest(w, n, x)
    BY <1>3, <2>1, RestIs
  <2> QED BY <2>1, <2>2 DEF IsRest
<1>5. At(w, n + 1) \in Pointers
  <2>1. D \subseteq Pointers /\ Null \in Pointers
    BY <1>1, StoreFacts, Constants DEF Ids, Pointers, Null
  <2>2. At(w, n + 1) \in D \cup {Null}
    BY <1>2, AtFacts
  <2> QED BY <2>1, <2>2
<1>6. \A i \in 1 .. Len(x) : sl[x[i]].next = At(x, i + 1) /\ sl[x[i]].len = Size(Class(a))
  <2> TAKE i \in 1 .. Len(x)
  <2>1. Len(w) \in Nat /\ n \in 0 .. Len(w) /\ Len(x) = Len(w) - n
    BY <1>2, <1>4
  <2>2. PICK k : k = i + n
    OBVIOUS
  <2>3. k \in 1 .. Len(w) /\ i \in 1 .. Len(w) - n /\ i + 1 \in Nat \ {0} /\ (i + 1) + n = k + 1
    BY <2>1, <2>2
  <2>4. x[i] = w[k] /\ At(x, i + 1) = At(w, k + 1)
    BY <1>4, <2>2, <2>3
  <2> QED BY <1>2, <2>3, <2>4
<1>7. At(w, n + 1) = At(x, 1)
  <2>1. At(x, 1) = At(w, 1 + n) /\ 1 + n = n + 1
    BY <1>2, <1>4
  <2> QED BY <2>1
<1>8. ListAt(sl, Size(Class(a)), At(w, n + 1), x)
  BY <1>1, <1>4, <1>6, <1>7 DEF ListAt
<1>9. Shape(sl, [hd EXCEPT ![a] = At(w, n + 1)], [L EXCEPT ![a] = x])
  BY <1>1, <1>4, <1>5, <1>8, Shortening
<1> QED BY <1>1, <1>3, <1>4, <1>5, <1>9

(* Without the m-th element.                                               *)
Without(w, m) == [i \in 1 .. Len(w) - 1 |-> IF i < m THEN w[i] ELSE w[i + 1]]

IsWithout(w, m, x) ==
  /\ Len(x) = Len(w) - 1
  /\ \A i \in 1 .. Len(w) - 1 : x[i] = IF i < m THEN w[i] ELSE w[i + 1]
  /\ \A u : On(x, u) => On(w, u)
  /\ Distinct(w) => Distinct(x) /\ ~On(x, w[m])

(* The elements of a list that has lost one.                               *)
LEMMA WithoutIs ==
  ASSUME NEW S, NEW w \in Seq(S), NEW m \in 1 .. Len(w), NEW x, x = Without(w, m)
  PROVE  x \in Seq(S) /\ IsWithout(w, m, x)
<1>1. x = Without(w, m)
  OBVIOUS
<1>2. Len(w) \in Nat /\ Len(w) - 1 \in Nat
  OBVIOUS
<1>3. /\ x \in [1 .. Len(w) - 1 -> S]
      /\ \A i \in 1 .. Len(w) - 1 : x[i] = IF i < m THEN w[i] ELSE w[i + 1]
  <2>1. \A i \in 1 .. Len(w) - 1 : i \in 1 .. Len(w) /\ i + 1 \in 1 .. Len(w)
    BY <1>2
  <2> QED BY <1>1, <2>1 DEF Without
<1>4. x \in Seq(S) /\ Len(x) = Len(w) - 1
  BY <1>2, <1>3, IntervalSeq
<1>5. \A u : On(x, u) => On(w, u)
  <2>1. ASSUME NEW i \in 1 .. Len(w) - 1
        PROVE  \E k \in 1 .. Len(w) : w[k] = x[i]
    <3>1. i \in 1 .. Len(w) /\ i + 1 \in 1 .. Len(w)
      BY <1>2
    <3> QED BY <1>3, <3>1
  <2> QED BY <1>4, <2>1 DEF On
<1>6. ASSUME Distinct(w)
      PROVE  Distinct(x) /\ ~On(x, w[m])
  <2>1. Distinct(x)
    BY <1>2, <1>3, <1>4, <1>6 DEF Distinct
  <2>2. ~On(x, w[m])
    BY <1>2, <1>3, <1>4, <1>6 DEF Distinct, On
  <2> QED BY <2>1, <2>2
<1> QED BY <1>3, <1>4, <1>5, <1>6 DEF IsWithout

(* A slot that is not the first is taken out by one pointer of its         *)
(* predecessor.                                                            *)
LEMMA Unlinking ==
  ASSUME NEW sl \in Stores, NEW hd \in [Places -> Pointers], NEW L, Shape(sl, hd, L),
         NEW a \in Places, NEW m \in 2 .. Len(L[a])
  PROVE  LET w == L[a]
             r == Relink(sl, w[m - 1], sl[w[m]].next)
         IN /\ w[m - 1] \in DOMAIN sl /\ sl[w[m]].next \in Pointers
            /\ Shape(r, hd, [L EXCEPT ![a] = Without(w, m)])
            /\ ~On(Without(w, m), w[m])
<1>1. PICK w, D : w = L[a] /\ D = DOMAIN sl
  OBVIOUS
<1>2. /\ w \in Seq(D) /\ Len(w) \in Nat /\ m \in 2 .. Len(w) /\ Distinct(w) /\ hd[a] = At(w, 1)
      /\ \A i \in 1 .. Len(w) : /\ w[i] \in D /\ sl[w[i]].next = At(w, i + 1)
                                /\ sl[w[i]].len = Size(Class(a))
  BY <1>1 DEF Shape, ListAt
<1>3. PICK x : x = Without(w, m)
  OBVIOUS
<1>4. /\ x \in Seq(D) /\ Len(x) = Len(w) - 1
      /\ \A i \in 1 .. Len(w) - 1 : x[i] = IF i < m THEN w[i] ELSE w[i + 1]
      /\ \A u : On(x, u) => On(w, u)
      /\ Distinct(x) /\ ~On(x, w[m])
  <2>1. w \in Seq(D) /\ m \in 1 .. Len(w) /\ Distinct(w)
    BY <1>2
  <2>2. x \in Seq(D) /\ IsWithout(w, m, x)
    BY <1>3, <2>1, WithoutIs
  <2> QED BY <2>1, <2>2 DEF IsWithout
<1>5. sl[w[m]].next \in Pointers /\ w[m - 1] \in D
  <2>1. m \in 1 .. Len(w) /\ m - 1 \in 1 .. Len(w)
    BY <1>2
  <2>2. sl[w[m]] \in Slot
    BY <1>1, <1>2, <2>1, StoreFacts
  <2> QED BY <1>2, <2>1, <2>2 DEF Slot, Pointers
<1>6. PICK r : r = Relink(sl, w[m - 1], sl[w[m]].next)
  OBVIOUS
<1>7. /\ r \in Stores /\ DOMAIN r = D /\ r[w[m - 1]].next = At(w, m + 1)
      /\ \A u \in D : r[u].len = sl[u].len /\ (u # w[m - 1] => r[u] = sl[u])
  <2>1. m \in 1 .. Len(w)
    BY <1>2
  <2>2. sl[w[m]].next = At(w, m + 1)
    BY <1>2, <2>1
  <2>3. /\ r \in Stores /\ Stays(sl, r) /\ r[w[m - 1]].next = sl[w[m]].next
        /\ \A v \in DOMAIN sl : v # w[m - 1] => r[v] = sl[v]
    BY <1>1, <1>5, <1>6, Relinking
  <2> QED BY <1>1, <2>2, <2>3 DEF Stays
<1>8. hd[a] = At(x, 1)
  BY <1>2, <1>4 DEF At
<1>9. ASSUME NEW i \in 1 .. Len(x)
      PROVE  r[x[i]].next = At(x, i + 1) /\ r[x[i]].len = Size(Class(a))
  <2>1. PICK k \in 1 .. Len(w) : k = (IF i < m THEN i ELSE i + 1) /\ x[i] = w[k]
    BY <1>2, <1>4
  <2>2. r[x[i]].len = Size(Class(a))
    <3>1. PICK v : v = w[k] /\ v \in D /\ sl[v].len = Size(Class(a))
      BY <1>2, <2>1
    <3> QED BY <1>7, <2>1, <3>1
  <2>3. CASE i = m - 1
    <3>1. x[i] = w[m - 1]
      BY <1>2, <2>1, <2>3
    <3>2. At(x, i + 1) = At(w, m + 1)
      BY <1>2, <1>4, <2>3 DEF At
    <3> QED BY <1>7, <2>2, <3>1, <3>2
  <2>4. CASE i # m - 1
    <3>1. k # m - 1 /\ m - 1 \in 1 .. Len(w)
      BY <1>2, <2>1, <2>4
    <3>2. x[i] # w[m - 1] /\ x[i] \in D
      BY <1>2, <2>1, <3>1 DEF Distinct
    <3>3. r[x[i]].next = At(w, k + 1)
      BY <1>2, <1>7, <2>1, <3>2
    <3>4. At(w, k + 1) = At(x, i + 1)
      BY <1>2, <1>4, <2>1, <2>4 DEF At
    <3> QED BY <2>2, <3>3, <3>4
  <2> QED BY <2>3, <2>4
<1>10. ListAt(r, Size(Class(a)), hd[a], x)
  BY <1>4, <1>7, <1>8, <1>9 DEF ListAt
<1>11. \A u \in D : ~On(w, u) => u \in DOMAIN r /\ r[u] = sl[u]
  <2>1. On(w, w[m - 1])
    BY <1>2 DEF On
  <2> QED BY <1>7, <2>1
<1>12. Shape(r, [hd EXCEPT ![a] = hd[a]], [L EXCEPT ![a] = x])
  BY <1>1, <1>4, <1>7, <1>10, <1>11, Shortening
<1>13. [hd EXCEPT ![a] = hd[a]] = hd
  OBVIOUS
<1> QED BY <1>1, <1>3, <1>4, <1>5, <1>6, <1>12, <1>13

(* A slot that is in no list is put before the first.                      *)
Unlisted(L, u) == \A a \in Places : ~On(L[a], u)
Pushed(u, w) == [i \in 1 .. Len(w) + 1 |-> IF i = 1 THEN u ELSE w[i - 1]]

IsPushed(u, w, x) ==
  /\ Len(x) = Len(w) + 1 /\ x[1] = u
  /\ \A i \in 2 .. Len(w) + 1 : x[i] = w[i - 1]
  /\ \A v : On(x, v) <=> v = u \/ On(w, v)
  /\ Distinct(w) /\ ~On(w, u) => Distinct(x)

(* The elements of a list with one more in front.                          *)
LEMMA PushedIs ==
  ASSUME NEW S, NEW w \in Seq(S), NEW u \in S, NEW x, x = Pushed(u, w)
  PROVE  x \in Seq(S) /\ IsPushed(u, w, x)
<1>1. x = Pushed(u, w)
  OBVIOUS
<1>2. Len(w) \in Nat /\ Len(w) + 1 \in Nat
  OBVIOUS
<1>3. x \in [1 .. Len(w) + 1 -> S] /\ x[1] = u /\ \A i \in 2 .. Len(w) + 1 : x[i] = w[i - 1]
  <2>1. \A i \in 1 .. Len(w) + 1 : i = 1 \/ i - 1 \in 1 .. Len(w)
    BY <1>2
  <2>2. \A i \in 1 .. Len(w) + 1 : (IF i = 1 THEN u ELSE w[i - 1]) \in S
    BY <2>1
  <2> QED BY <1>1, <1>2, <2>2 DEF Pushed
<1>4. x \in Seq(S) /\ Len(x) = Len(w) + 1
  BY <1>2, <1>3, IntervalSeq
<1>5. ASSUME NEW v
      PROVE  On(x, v) <=> v = u \/ On(w, v)
  <2>1. ASSUME NEW i \in 1 .. Len(w)
        PROVE  i + 1 \in 2 .. Len(w) + 1 /\ x[i + 1] = w[i]
    BY <1>2, <1>3
  <2>2. On(w, v) => On(x, v)
    BY <1>2, <1>4, <2>1 DEF On
  <2>3. u = v => On(x, v)
    BY <1>2, <1>3, <1>4 DEF On
  <2>4. ASSUME NEW i \in 1 .. Len(x)
        PROVE  x[i] = u \/ On(w, x[i])
    BY <1>2, <1>3, <1>4 DEF On
  <2> QED BY <2>2, <2>3, <2>4 DEF On
<1>6. ASSUME Distinct(w), ~On(w, u)
      PROVE  Distinct(x)
  <2> SUFFICES ASSUME NEW i \in 1 .. Len(x), NEW k \in 1 .. Len(x), x[i] = x[k]
               PROVE  i = k
    BY DEF Distinct
  <2>1. CASE i = 1 /\ k # 1
    <3>1. k - 1 \in 1 .. Len(w) /\ w[k - 1] = u
      BY <1>2, <1>3, <1>4, <2>1
    <3> QED BY <1>6, <3>1 DEF On
  <2>2. CASE i # 1 /\ k = 1
    <3>1. i - 1 \in 1 .. Len(w) /\ w[i - 1] = u
      BY <1>2, <1>3, <1>4, <2>2
    <3> QED BY <1>6, <3>1 DEF On
  <2>3. CASE i # 1 /\ k # 1
    <3>1. /\ i - 1 \in 1 .. Len(w) /\ k - 1 \in 1 .. Len(w)
          /\ w[i - 1] = w[k - 1]
      BY <1>2, <1>3, <1>4, <2>3
    <3>2. i - 1 = k - 1
      BY <1>6, <3>1 DEF Distinct
    <3> QED BY <1>4, <3>2
  <2> QED BY <2>1, <2>2, <2>3
<1> QED BY <1>3, <1>4, <1>5, <1>6 DEF IsPushed

(* A slot in no list is put in front by its own pointer and the head.      *)
LEMMA Pushing ==
  ASSUME NEW sl \in Stores, NEW hd \in [Places -> Pointers], NEW L, Shape(sl, hd, L),
         NEW a \in Places, NEW u \in DOMAIN sl, Unlisted(L, u), sl[u].len = Size(Class(a))
  PROVE  Shape(Relink(sl, u, hd[a]), [hd EXCEPT ![a] = u], [L EXCEPT ![a] = Pushed(u, L[a])])
<1>1. PICK w, D : w = L[a] /\ D = DOMAIN sl
  OBVIOUS
<1>2. /\ w \in Seq(D) /\ Len(w) \in Nat /\ Distinct(w) /\ hd[a] = At(w, 1)
      /\ \A i \in 1 .. Len(w) : /\ w[i] \in D /\ sl[w[i]].next = At(w, i + 1) /\ w[i] # u
                                /\ sl[w[i]].len = Size(Class(a))
  BY <1>1 DEF Shape, ListAt, Unlisted, On
<1>3. PICK x : x = Pushed(u, w)
  OBVIOUS
<1>4. /\ x \in Seq(D) /\ Len(x) = Len(w) + 1 /\ x[1] = u
      /\ \A i \in 2 .. Len(w) + 1 : x[i] = w[i - 1]
      /\ \A v : On(x, v) <=> v = u \/ On(w, v)
      /\ Distinct(x)
  <2>1. w \in Seq(D) /\ Distinct(w) /\ ~On(w, u) /\ u \in D
    BY <1>1, <1>2 DEF Unlisted
  <2>2. x \in Seq(D) /\ IsPushed(u, w, x)
    BY <1>3, <2>1, PushedIs
  <2> QED BY <2>1, <2>2 DEF IsPushed
<1>5. u \in Pointers
  BY StoreFacts DEF Ids, Pointers
<1>6. PICK r : r = Relink(sl, u, hd[a])
  OBVIOUS
<1>7. /\ r \in Stores /\ DOMAIN r = D /\ r[u].next = At(w, 1) /\ r[u].len = Size(Class(a))
      /\ \A v \in D : v # u => r[v] = sl[v]
  BY <1>1, <1>2, <1>6, Relinking DEF Stays
<1>8. u = At(x, 1)
  BY <1>2, <1>4 DEF At
<1>9. ASSUME NEW i \in 1 .. Len(x)
      PROVE  r[x[i]].next = At(x, i + 1) /\ r[x[i]].len = Size(Class(a))
  <2>1. At(x, i + 1) = At(w, i)
    BY <1>2, <1>4 DEF At
  <2>2. CASE i = 1
    BY <1>4, <1>7, <2>1, <2>2
  <2>3. CASE i # 1
    <3>1. i - 1 \in 1 .. Len(w) /\ x[i] = w[i - 1] /\ (i - 1) + 1 = i
      BY <1>2, <1>4, <2>3
    <3>2. r[x[i]] = sl[w[i - 1]]
      BY <1>2, <1>7, <3>1
    <3> QED BY <1>2, <2>1, <3>1, <3>2
  <2> QED BY <2>2, <2>3
<1>10. ListAt(r, Size(Class(a)), u, x)
  BY <1>4, <1>7, <1>8, <1>9 DEF ListAt
<1>11. ASSUME NEW b \in Places \ {a}, NEW i \in 1 .. Len(L[b])
       PROVE  ~On(x, L[b][i]) /\ L[b][i] \in DOMAIN r /\ r[L[b][i]] = sl[L[b][i]]
  <2>1. L[b][i] # u
    BY DEF Unlisted, On
  <2>2. ~On(w, L[b][i])
    BY <1>1 DEF Shape, Apart, On
  <2>3. ~On(x, L[b][i])
    BY <1>4, <2>1, <2>2
  <2>4. L[b][i] \in D
    <3>1. PICK y : y = L[b]
      OBVIOUS
    <3>2. y \in Seq(D) /\ i \in 1 .. Len(y)
      BY <1>1, <3>1 DEF Shape, ListAt
    <3> QED BY <3>1, <3>2
  <2> QED BY <1>7, <2>1, <2>3, <2>4
<1>12. Shape(r, [hd EXCEPT ![a] = u], [L EXCEPT ![a] = x])
  BY <1>5, <1>7, <1>10, <1>11, Replacing
<1> QED BY <1>1, <1>3, <1>6, <1>12

(* It is put behind the last.                                              *)
LEMMA Appending ==
  ASSUME NEW sl \in Stores, NEW hd \in [Places -> Pointers], NEW L, Shape(sl, hd, L),
         NEW a \in Places, L[a] # << >>, NEW u \in DOMAIN sl, Unlisted(L, u),
         sl[u].len = Size(Class(a)), sl[u].next = Null
  PROVE  /\ Last(L[a]) \in DOMAIN sl
         /\ Shape(Relink(sl, Last(L[a]), u), hd, [L EXCEPT ![a] = Append(L[a], u)])
<1>1. PICK w, D, t : w = L[a] /\ D = DOMAIN sl /\ t = Last(w)
  OBVIOUS
<1>2. /\ w \in Seq(D) /\ w # << >> /\ Distinct(w) /\ hd[a] = At(w, 1)
      /\ \A i \in 1 .. Len(w) : /\ w[i] \in D /\ sl[w[i]].next = At(w, i + 1) /\ w[i] # u
                                /\ sl[w[i]].len = Size(Class(a))
  BY <1>1 DEF Shape, ListAt, Unlisted, On
<1>3. Len(w) \in Nat \ {0} /\ t = w[Len(w)] /\ t \in D
  BY <1>1, <1>2, SeqParts
<1>4. PICK x : x = Append(w, u)
  OBVIOUS
<1>5. /\ x \in Seq(D) /\ Len(x) = Len(w) + 1 /\ x[Len(w) + 1] = u
      /\ \A i \in 1 .. Len(w) : x[i] = w[i]
  BY <1>1, <1>2, <1>4
<1>6. u \in Pointers /\ u # Null
  BY StoreFacts DEF Ids, Pointers, Null
<1>7. PICK r : r = Relink(sl, t, u)
  OBVIOUS
<1>8. /\ r \in Stores /\ DOMAIN r = D /\ r[t].next = u
      /\ \A v \in D : r[v].len = sl[v].len /\ (v # t => r[v] = sl[v])
  <2>1. /\ r \in Stores /\ Stays(sl, r) /\ r[t].next = u
        /\ \A v \in DOMAIN sl : v # t => r[v] = sl[v]
    BY <1>1, <1>3, <1>6, <1>7, Relinking
  <2> QED BY <1>1, <2>1 DEF Stays
<1>9. Distinct(x)
  BY <1>2, <1>3, <1>5 DEF Distinct
<1>10. hd[a] = At(x, 1)
  BY <1>2, <1>3, <1>5 DEF At
<1>11. ASSUME NEW i \in 1 .. Len(x)
       PROVE  r[x[i]].next = At(x, i + 1) /\ r[x[i]].len = Size(Class(a))
  <2>1. CASE i = Len(w) + 1
    <3>1. x[i] = u /\ u # t
      BY <1>2, <1>3, <1>5, <2>1
    <3>2. At(x, i + 1) = Null
      BY <1>3, <1>5, <2>1 DEF At
    <3> QED BY <1>1, <1>8, <3>1, <3>2
  <2>2. CASE i = Len(w)
    <3>1. x[i] = t /\ At(x, i + 1) = u
      BY <1>3, <1>5, <2>2 DEF At
    <3> QED BY <1>2, <1>3, <1>8, <2>2, <3>1
  <2>3. CASE i \in 1 .. Len(w) - 1
    <3>1. x[i] = w[i] /\ At(x, i + 1) = At(w, i + 1)
      BY <1>3, <1>5, <2>3 DEF At
    <3>2. x[i] # t /\ i \in 1 .. Len(w)
      BY <1>2, <1>3, <2>3, <3>1 DEF Distinct
    <3> QED BY <1>2, <1>8, <3>1, <3>2
  <2> QED BY <1>3, <1>5, <2>1, <2>2, <2>3
<1>12. ListAt(r, Size(Class(a)), hd[a], x)
  BY <1>5, <1>8, <1>9, <1>10, <1>11 DEF ListAt
<1>13. ASSUME NEW b \in Places \ {a}, NEW i \in 1 .. Len(L[b])
       PROVE  ~On(x, L[b][i]) /\ L[b][i] \in DOMAIN r /\ r[L[b][i]] = sl[L[b][i]]
  <2>1. L[b][i] # u
    BY DEF Unlisted, On
  <2>2. ~On(w, L[b][i])
    BY <1>1 DEF Shape, Apart, On
  <2>3. ~On(x, L[b][i])
    <3>1. \A k \in 1 .. Len(x) : x[k] = u \/ On(w, x[k])
      BY <1>3, <1>5 DEF On
    <3> QED BY <2>1, <2>2, <3>1 DEF On
  <2>4. L[b][i] \in D
    <3>1. PICK y : y = L[b]
      OBVIOUS
    <3>2. y \in Seq(D) /\ i \in 1 .. Len(y)
      BY <1>1, <3>1 DEF Shape, ListAt
    <3> QED BY <3>1, <3>2
  <2>5. L[b][i] # t
    BY <1>3, <2>2 DEF On
  <2> QED BY <1>8, <2>3, <2>4, <2>5
<1>14. Shape(r, [hd EXCEPT ![a] = hd[a]], [L EXCEPT ![a] = x])
  <2>1. hd[a] \in Pointers
    OBVIOUS
  <2> QED BY <1>8, <1>12, <1>13, <2>1, Replacing
<1>15. [hd EXCEPT ![a] = hd[a]] = hd
  OBVIOUS
<1> QED BY <1>1, <1>3, <1>4, <1>7, <1>14, <1>15

(* It is the first.                                                        *)
LEMMA Founding ==
  ASSUME NEW sl \in Stores, NEW hd \in [Places -> Pointers], NEW L, Shape(sl, hd, L),
         NEW a \in Places, L[a] = << >>, NEW u \in DOMAIN sl, Unlisted(L, u),
         sl[u].len = Size(Class(a)), sl[u].next = Null
  PROVE  Shape(sl, [hd EXCEPT ![a] = u], [L EXCEPT ![a] = <<u>>])
<1>1. PICK x : x = <<u>>
  OBVIOUS
<1>2. Len(x) = 1 /\ x[1] = u /\ x \in Seq(DOMAIN sl)
  BY <1>1
<1>3. At(x, 1) = u /\ At(x, 2) = Null
  BY <1>2 DEF At
<1>4. ListAt(sl, Size(Class(a)), u, x)
  BY <1>2, <1>3 DEF ListAt, Distinct
<1>5. ASSUME NEW b \in Places \ {a}, NEW i \in 1 .. Len(L[b])
      PROVE  ~On(x, L[b][i]) /\ L[b][i] \in DOMAIN sl
  <2>1. ~On(x, L[b][i])
    BY <1>2 DEF Unlisted, On
  <2>2. PICK y : y = L[b]
    OBVIOUS
  <2>3. y \in Seq(DOMAIN sl) /\ i \in 1 .. Len(y)
    BY <2>2 DEF Shape, ListAt
  <2> QED BY <2>1, <2>2, <2>3
<1>6. u \in Pointers
  BY StoreFacts DEF Ids, Pointers
<1>7. Shape(sl, [hd EXCEPT ![a] = u], [L EXCEPT ![a] = x])
  BY <1>4, <1>5, <1>6, Replacing
<1> QED BY <1>1, <1>7

(* A walk along a list ends.                                               *)
LEMMA WalkIs ==
  ASSUME NEW h \in Heaps, NEW s, NEW p \in Pointers, NEW w, ListAt(h.slot, s, p, w)
  PROVE  Walk(h, p) = w /\ End(h, p) = Null /\ Len(w) <= Cardinality(DOMAIN h.slot)
<1>1. PICK D, next : D = DOMAIN h.slot /\ next = Following(h)
  OBVIOUS
<1>2. /\ w \in Seq(D) /\ Distinct(w) /\ p = At(w, 1) /\ Len(w) \in Nat
      /\ \A i \in 1 .. Len(w) : w[i] \in D /\ h.slot[w[i]].next = At(w, i + 1)
  BY <1>1 DEF ListAt
<1>3. IsFiniteSet(D) /\ D \subseteq Pointers /\ Null \in Pointers /\ Null \notin D
  BY <1>1, HeapFacts, Constants DEF Ids, Pointers, Null
<1>4. next \in [D -> Pointers]
  <2>1. \A u \in D : h.slot[u] \in Slot
    BY <1>1, HeapFacts
  <2>2. \A u \in D : h.slot[u].next \in Pointers
    BY <2>1 DEF Slot, Pointers
  <2> QED BY <1>1, <2>2 DEF Following
<1>5. \A u \in D : next[u] = h.slot[u].next
  BY <1>1 DEF Following
<1>6. Len(w) <= Cardinality(D)
  BY <1>2, <1>3, DistinctLength
<1>7. PICK q : q = Append(w, Null)
  OBVIOUS
<1>8. w \in Seq(Pointers)
  BY <1>2, <1>3
<1>9. /\ q \in Seq(Pointers) /\ Len(q) = Len(w) + 1 /\ q[Len(w) + 1] = Null /\ q # << >>
      /\ \A i \in 1 .. Len(w) : q[i] = w[i]
  BY <1>3, <1>7, <1>8
<1>10. \A i \in 1 .. Len(w) + 1 : q[i] = At(w, i)
  BY <1>2, <1>9 DEF At
<1>11. /\ Last(q) = Null /\ Front(q) \in Seq(Pointers) /\ Len(Front(q)) = Len(w)
       /\ \A i \in 1 .. Len(w) : Front(q)[i] = w[i]
  <2>1. /\ Last(q) = q[Len(q)] /\ Front(q) \in Seq(Pointers) /\ Len(Front(q)) = Len(q) - 1
        /\ \A k \in 1 .. Len(q) - 1 : Front(q)[k] = q[k]
    BY <1>9, SeqParts
  <2>2. Len(w) \in Nat /\ Len(q) = Len(w) + 1
    BY <1>2, <1>9
  <2> QED BY <1>9, <2>1, <2>2
<1>12. Leads(D, next, q)
  BY <1>2, <1>5, <1>9, <1>10 DEF Leads
<1>13. Cardinality(D) \in Nat
  BY <1>3, FS_CardinalityType
<1>14. Path(next, q[1]) = q
  <2>1. q \in Seq(Pointers) /\ Last(q) \notin D
    BY <1>3, <1>9, <1>11
  <2>2. Len(q) <= Cardinality(D) + 1
    BY <1>2, <1>6, <1>9, <1>13
  <2> QED BY <1>3, <1>4, <1>12, <2>1, <2>2, PathIs
<1>15. q[1] = p
  BY <1>2, <1>10
<1>16. Front(q) = w
  BY <1>8, <1>11
<1> QED BY <1>1, <1>6, <1>11, <1>14, <1>15, <1>16 DEF Walk, End

-----------------------------------------------------------------------------
(* Sound heaps.                                                            *)

(* The slots are parts of their blocks, and do not overlap.                *)
Fit(sl) ==
  /\ \A u \in DOMAIN sl : InBlock(sl[u])
  /\ \A u, v \in DOMAIN sl : u # v => ~Overlap(sl[u], sl[v])

(* Live objects are in used slots.                                         *)
Kept(sl, objs, L) ==
  \A o \in objs : \E c \in Chunks, u \in DOMAIN sl : On(L[-c], u) /\ Extent(sl[u]) = o

Whole(h, L) == /\ Shape(h.slot, Starts(h.empty, h.used), L)
               /\ Fit(h.slot) /\ Kept(h.slot, live, L)

(* Slots whose memory stays do not come to overlap.                        *)
LEMMA FitStays ==
  ASSUME NEW sl, NEW r, Stays(sl, r), Fit(sl)
  PROVE  Fit(r)
<1>1. ASSUME NEW u \in DOMAIN r
      PROVE  InBlock(r[u])
  BY DEF Stays, Fit, InBlock
<1>2. ASSUME NEW u \in DOMAIN r, NEW v \in DOMAIN r, u # v
      PROVE  ~Overlap(r[u], r[v])
  <2>1. ~Overlap(sl[u], sl[v])
    BY <1>2 DEF Stays, Fit
  <2>2. /\ r[u].home = sl[u].home /\ r[u].idx = sl[u].idx
        /\ r[u].off = sl[u].off /\ r[u].len = sl[u].len
        /\ r[v].home = sl[v].home /\ r[v].idx = sl[v].idx
        /\ r[v].off = sl[v].off /\ r[v].len = sl[v].len
    BY DEF Stays
  <2> QED BY <2>1, <2>2 DEF Overlap
<1> QED BY <1>1, <1>2 DEF Fit

(* Live objects stay in used slots as long as their slots stay in used     *)
(* lists.                                                                  *)
LEMMA KeptStays ==
  ASSUME NEW sl, NEW r, Stays(sl, r), NEW objs, NEW L, Kept(sl, objs, L), NEW M,
         \A c \in Chunks, u \in DOMAIN sl : On(L[-c], u) /\ Extent(sl[u]) \in objs => On(M[-c], u)
  PROVE  Kept(r, objs, M)
<1> SUFFICES ASSUME NEW o \in objs
             PROVE  \E c \in Chunks, u \in DOMAIN r : On(M[-c], u) /\ Extent(r[u]) = o
  BY DEF Kept
<1>1. PICK c \in Chunks, u \in DOMAIN sl : On(L[-c], u) /\ Extent(sl[u]) = o
  BY DEF Kept
<1>2. u \in DOMAIN r /\ Extent(r[u]) = Extent(sl[u])
  BY DEF Stays, Extent
<1> QED BY <1>1, <1>2

(* A dead slot that is taken out of its list.                              *)
InPlace(w, m, u, pre) ==
  m \in 1 .. Len(w) /\ u = w[m] /\ ((m = 1 /\ pre = u) \/ (m > 1 /\ pre = w[m - 1]))

InUse(L, c, w) == w = L[-c]

(* The heap stays whole when a dead slot is taken out, and that one is in  *)
(* no list then.                                                           *)
LEMMA CuttingWhole ==
  ASSUME NEW h \in Heaps, NEW L, Whole(h, L), NEW c \in Chunks,
         NEW w, InUse(L, c, w), NEW m, NEW u, NEW pre, InPlace(w, m, u, pre), Dead(h, u),
         NEW r, Cuts(h, c, u, pre, r), NEW M, Becomes(L, -c, Without(w, m), M)
  PROVE  /\ Whole(r, M) /\ Unlisted(M, u) /\ u \in DOMAIN r.slot
         /\ r.slot[u].next = Null /\ r.slot[u].len = Size(c)
<1>1. PICK sl, hd : /\ w = L[-c] /\ sl = h.slot /\ hd = Starts(h.empty, h.used)
                    /\ M = [L EXCEPT ![-c] = Without(w, m)]
  BY DEF Becomes, InUse
<1>2. /\ sl \in Stores /\ hd \in [Places -> Pointers] /\ Shape(sl, hd, L)
      /\ h.empty \in [Chunks -> Pointers] /\ h.used \in [Chunks -> Pointers]
      /\ -c \in Places /\ Class(-c) = c
  <2>1. h.empty \in [Chunks -> Pointers] /\ h.used \in [Chunks -> Pointers] /\ sl \in Stores
    BY <1>1, HeapFacts
  <2>2. hd \in [Places -> Pointers]
    BY <1>1, <2>1, StartFacts
  <2> QED BY <1>1, <2>1, <2>2, PlaceFacts DEF Whole
<1>3. /\ w \in Seq(DOMAIN sl) /\ Distinct(w) /\ m \in 1 .. Len(w) /\ Len(w) \in Nat
      /\ u = w[m] /\ u \in DOMAIN sl /\ sl[u].next = At(w, m + 1) /\ sl[u].len = Size(c)
  <2>1. ListAt(sl, Size(c), hd[-c], w)
    BY <1>1, <1>2 DEF Shape
  <2>2. w \in Seq(DOMAIN sl) /\ m \in 1 .. Len(w) /\ u = w[m]
    BY <1>1, <2>1 DEF ListAt, InPlace
  <2> QED BY <2>1, <2>2 DEF ListAt
<1>4. PICK sl2, hd2 : /\ hd2 = Starts(r.empty, r.used)
                      /\ sl2 = IF u = pre THEN sl ELSE Relink(sl, pre, sl[u].next)
  OBVIOUS
<1>5. sl2 \in Stores /\ Stays(sl, sl2) /\ Shape(sl2, hd2, M)
  <2>1. CASE m = 1
    <3>1. u = pre
      BY <1>3, <2>1 DEF InPlace
    <3>2. PICK p : p = At(w, 1 + 1)
      OBVIOUS
    <3>3. 1 \in 0 .. Len(L[-c])
      BY <1>1, <1>3
    <3>4. p \in Pointers /\ Shape(sl, [hd EXCEPT ![-c] = p], [L EXCEPT ![-c] = Rest(w, 1)])
      BY <1>1, <1>2, <3>2, <3>3, Skipping
    <3>5. sl[u].next = p
      BY <1>3, <2>1, <3>2
    <3>6. r.empty = h.empty /\ r.used = [h.used EXCEPT ![c] = p]
      <4>1. r.empty = h.empty /\ r.used = [h.used EXCEPT ![c] = h.slot[u].next]
        BY <3>1 DEF Cuts
      <4> QED BY <1>1, <3>5, <4>1
    <3>7. hd2 = [hd EXCEPT ![-c] = p]
      <4>1. r \in Heaps
        BY DEF Cuts
      <4>2. Becomes(Starts(h.empty, h.used), -c, p, Starts(r.empty, r.used))
        BY <3>6, <4>1, UsedHead
      <4> QED BY <1>1, <1>4, <4>2 DEF Becomes
    <3>8. Rest(w, 1) = Without(w, m)
      <4>1. \A i \in 1 .. Len(w) - 1 : ~(i < m)
        BY <2>1
      <4> QED BY <4>1 DEF Rest, Without
    <3>9. sl2 = sl
      BY <1>4, <3>1
    <3>10. Shape(sl2, hd2, M)
      BY <1>1, <3>4, <3>7, <3>8, <3>9
    <3> QED BY <1>2, <3>9, <3>10 DEF Stays
  <2>2. CASE m > 1
    <3>1. m \in 2 .. Len(w) /\ pre = w[m - 1]
      BY <1>1, <1>3, <2>2 DEF InPlace
    <3>2. u # pre
      BY <1>3, <3>1 DEF Distinct
    <3>3. r.empty = h.empty /\ r.used = h.used
      BY <3>2 DEF Cuts
    <3>4. /\ pre \in DOMAIN sl /\ sl[u].next \in Pointers
          /\ Shape(Relink(sl, pre, sl[u].next), hd, M)
      BY <1>1, <1>2, <1>3, <3>1, Unlinking
    <3> QED BY <1>1, <1>2, <1>4, <3>2, <3>3, <3>4, Relinking
  <2> QED BY <1>3, <2>1, <2>2
<1>6. Unlisted(M, u)
  <2>1. M[-c] = Without(w, m) /\ \A a \in Places \ {-c} : M[a] = L[a]
    BY <1>1, <1>2 DEF Shape
  <2>2. ~On(Without(w, m), u)
    <3>1. PICK D : D = DOMAIN sl
      OBVIOUS
    <3>2. IsWithout(w, m, Without(w, m))
      BY <1>3, <3>1, WithoutIs
    <3> QED BY <1>3, <3>2 DEF IsWithout
  <2>3. \A a \in Places \ {-c} : ~On(L[a], u)
    BY <1>1, <1>2, <1>3 DEF Shape, Apart, On
  <2> QED BY <2>1, <2>2, <2>3 DEF Unlisted
<1>7. /\ r.slot = Relink(sl2, u, Null) /\ r.slot \in Stores /\ Stays(sl2, r.slot)
      /\ r.slot[u].next = Null /\ \A v \in DOMAIN sl2 : v # u => r.slot[v] = sl2[v]
  <2>1. r.slot = Relink(sl2, u, Null)
    BY <1>1, <1>4 DEF Cuts
  <2>2. u \in DOMAIN sl2 /\ Null \in Pointers
    BY <1>3, <1>5, Constants DEF Stays, Pointers, Null
  <2> QED BY <1>5, <2>1, <2>2, Relinking
<1>8. Shape(r.slot, hd2, M)
  <2>1. ASSUME NEW a \in Places, NEW i \in 1 .. Len(M[a])
        PROVE  M[a][i] \in DOMAIN r.slot /\ r.slot[M[a][i]] = sl2[M[a][i]]
    <3>1. PICK y : y = M[a]
      OBVIOUS
    <3>2. y \in Seq(DOMAIN sl2) /\ i \in 1 .. Len(y)
      BY <1>5, <3>1 DEF Shape, ListAt
    <3>3. y[i] \in DOMAIN sl2 /\ y[i] # u
      BY <1>6, <3>1, <3>2 DEF Unlisted, On
    <3> QED BY <1>7, <3>1, <3>3 DEF Stays
  <2> QED BY <1>5, <1>7, <2>1, Revising
<1>9. Stays(sl, r.slot)
  BY <1>5, <1>7, StaysTwice
<1>10. Kept(r.slot, live, M)
  <2>1. ASSUME NEW d \in Chunks, NEW v \in DOMAIN sl, On(L[-d], v), Extent(sl[v]) \in live
        PROVE  On(M[-d], v)
    <3>1. v # u
      <4>1. ~Dead(h, v)
        BY <1>1, <2>1 DEF Dead, Extent
      <4> QED BY <4>1
    <3>2. CASE d # c
      <4>1. -d \in Places \ {-c}
        BY <3>2, PlaceFacts, Constants DEF Chunks
      <4> QED BY <1>1, <1>2, <2>1, <4>1 DEF Shape
    <3>3. CASE d = c
      <4>1. PICK i \in 1 .. Len(w) : w[i] = v
        BY <1>1, <2>1, <3>3 DEF On
      <4>2. PICK x : x = Without(w, m)
        OBVIOUS
      <4>3. /\ i # m /\ Len(x) = Len(w) - 1
            /\ \A k \in 1 .. Len(w) - 1 : x[k] = IF k < m THEN w[k] ELSE w[k + 1]
        <5>1. PICK D : D = DOMAIN sl
          OBVIOUS
        <5>2. IsWithout(w, m, x)
          BY <1>3, <4>2, <5>1, WithoutIs
        <5> QED BY <1>3, <3>1, <4>1, <5>2 DEF IsWithout
      <4>4. PICK k \in 1 .. Len(x) : k = IF i < m THEN i ELSE i - 1
        BY <1>3, <4>1, <4>3
      <4>5. x[k] = v
        BY <1>3, <4>1, <4>3, <4>4
      <4>6. M[-c] = x
        BY <1>1, <1>2, <4>2 DEF Shape
      <4> QED BY <3>3, <4>4, <4>5, <4>6 DEF On
    <3> QED BY <3>2, <3>3
  <2>2. Kept(sl, live, L)
    BY <1>1 DEF Whole
  <2> QED BY <1>9, <2>1, <2>2, KeptStays
<1>11. Fit(r.slot)
  BY <1>1, <1>9, FitStays DEF Whole
<1>12. u \in DOMAIN r.slot /\ r.slot[u].len = Size(c)
  BY <1>3, <1>9 DEF Stays
<1> QED BY <1>1, <1>4, <1>6, <1>7, <1>8, <1>10, <1>11, <1>12 DEF Whole

(* What a step that leaves the used lists alone yields.                    *)
Settled(h, L, r, M) ==
  /\ r \in Heaps /\ r.fault = h.fault /\ r.tainted = h.tainted /\ Stays(h.slot, r.slot)
  /\ Whole(r, M) /\ \A d \in Chunks : M[-d] = L[-d]

(* A heap whose used lists and memory stay is whole with the new empty     *)
(* list.                                                                   *)
LEMMA Settling ==
  ASSUME NEW h \in Heaps, NEW L, Whole(h, L), NEW r \in Heaps, r.fault = h.fault,
         r.tainted = h.tainted, Stays(h.slot, r.slot), NEW c \in Chunks, NEW x,
         NEW M, Becomes(L, c, x, M), Shape(r.slot, Starts(r.empty, r.used), M)
  PROVE  Settled(h, L, r, M)
<1>1. M = [L EXCEPT ![c] = x]
  BY DEF Becomes
<1>2. \A d \in Chunks : M[-d] = L[-d]
  BY <1>1, PlaceFacts DEF Whole, Shape
<1>3. Kept(r.slot, live, M)
  <2>1. Kept(h.slot, live, L)
    BY DEF Whole
  <2> QED BY <1>2, <2>1, KeptStays
<1>4. Fit(r.slot)
  BY FitStays DEF Whole
<1>5. Whole(r, M)
  BY <1>3, <1>4 DEF Whole
<1> QED BY <1>2, <1>5 DEF Settled

(* A slot that is put into the empty list of its chunk.                    *)
LEMMA MovedWhole ==
  ASSUME NEW h \in Heaps, NEW L, Whole(h, L), NEW c \in Chunks, NEW u \in DOMAIN h.slot,
         Unlisted(L, u), h.slot[u].next = Null, h.slot[u].len = Size(c), NEW home
  PROVE  \E M : Settled(h, L, Moved(h, c, u, home), M)
<1>1. PICK r, w, sl, hd : /\ r = Moved(h, c, u, home) /\ w = L[c] /\ sl = h.slot
                          /\ hd = Starts(h.empty, h.used)
  OBVIOUS
<1>2. /\ sl \in Stores /\ hd \in [Places -> Pointers] /\ Shape(sl, hd, L)
      /\ c \in Places /\ Class(c) = c /\ hd[c] = h.empty[c] /\ h.empty[c] \in Pointers
  <2>1. h.empty \in [Chunks -> Pointers] /\ h.used \in [Chunks -> Pointers] /\ sl \in Stores
    BY <1>1, HeapFacts
  <2>2. hd \in [Places -> Pointers] /\ hd[c] = h.empty[c]
    BY <1>1, <2>1, StartFacts
  <2> QED BY <1>1, <2>1, <2>2, PlaceFacts DEF Whole
<1>3. Walk(h, h.empty[c]) = w /\ End(h, h.empty[c]) = Null
  <2>1. ListAt(h.slot, Size(c), h.empty[c], w)
    BY <1>1, <1>2 DEF Shape
  <2> QED BY <1>2, <2>1, WalkIs
<1>4. u \in DOMAIN sl /\ sl[u].next = Null /\ sl[u].len = Size(Class(c))
  BY <1>1, <1>2
<1>5. r \in Heaps /\ Stays(h.slot, r.slot)
  BY <1>1, Moving
<1>6. PICK hd2 : hd2 = Starts(r.empty, r.used)
  OBVIOUS
<1>7. r.fault = h.fault /\ r.tainted = h.tainted /\ \E x : Shape(r.slot, hd2, [L EXCEPT ![c] = x])
  <2>1. CASE home = c
    <3>1. Relisted(h, r, Relink(sl, u, hd[c]), [h.empty EXCEPT ![c] = u], h.used)
      BY <1>1, <1>2, <2>1, InsertsBefore DEF Moved
    <3>2. Becomes(hd, c, u, hd2)
      BY <1>1, <1>6, <3>1, EmptyHead DEF Relisted
    <3>3. Shape(Relink(sl, u, hd[c]), [hd EXCEPT ![c] = u], [L EXCEPT ![c] = Pushed(u, w)])
      BY <1>1, <1>2, <1>4, Pushing
    <3> QED BY <3>1, <3>2, <3>3 DEF Relisted, Becomes
  <2>2. CASE home # c /\ w = << >>
    <3>1. Relisted(h, r, sl, [h.empty EXCEPT ![c] = u], h.used)
      BY <1>1, <1>3, <2>2, InsertsAfter DEF Moved
    <3>2. Becomes(hd, c, u, hd2)
      BY <1>1, <1>6, <3>1, EmptyHead DEF Relisted
    <3>3. Shape(sl, [hd EXCEPT ![c] = u], [L EXCEPT ![c] = <<u>>])
      BY <1>1, <1>2, <1>4, <2>2, Founding
    <3> QED BY <3>1, <3>2, <3>3 DEF Relisted, Becomes
  <2>3. CASE home # c /\ w # << >>
    <3>1. Relisted(h, r, Relink(sl, Last(w), u), h.empty, h.used)
      BY <1>1, <1>3, <2>3, InsertsAfter DEF Moved
    <3>2. hd2 = hd
      BY <1>1, <1>6, <3>1 DEF Relisted
    <3>3. Shape(Relink(sl, Last(w), u), hd, [L EXCEPT ![c] = Append(w, u)])
      BY <1>1, <1>2, <1>4, <2>3, Appending
    <3> QED BY <3>1, <3>2, <3>3 DEF Relisted
  <2> QED BY <2>1, <2>2, <2>3
<1>8. PICK x, M : Becomes(L, c, x, M) /\ Shape(r.slot, hd2, M)
  BY <1>7 DEF Becomes
<1>9. Settled(h, L, r, M)
  BY <1>5, <1>6, <1>7, <1>8, Settling
<1> QED BY <1>1, <1>9

(* The loop of the sweep is at the slot behind the n-th of used list w,    *)
(* and comes from that one, or from a dead one it has moved.               *)
Behind(h, w, n, u, pre) == \/ n = 0 /\ pre = u
                           \/ n > 0 /\ pre = w[n]
                           \/ pre # u /\ Dead(h, pre)
Trailing(c, h, u, pre, w, n) ==
  /\ Ok(h) /\ \E L : Whole(h, L) /\ InUse(L, c, w)
  /\ n \in 0 .. Len(w) /\ u = At(w, n + 1)
  /\ u # Null => Behind(h, w, n, u, pre)

(* One turn.                                                               *)
LEMMA DeadTurn ==
  ASSUME NEW h \in Heaps, NEW c \in Chunks, NEW u, NEW pre, NEW w, NEW n,
         Trailing(c, h, u, pre, w, n), u # Null, Dead(h, u),
         (n = 0 /\ pre = u) \/ (n > 0 /\ pre = w[n]), NEW home, NEW len \in Nat,
         NEW g, g = Counted(Moved(Cut(h, c, u, pre), c, u, home), c, len)
  PROVE  \E x : Trailing(c, g, h.slot[u].next, u, x, n) /\ Len(x) = Len(w) - 1
<1>1. PICK L, m : w = L[-c] /\ m = n + 1 /\ Whole(h, L)
  BY DEF Trailing, InUse
<1>2. PICK k, v : k = Cut(h, c, u, pre) /\ v = Moved(k, c, u, home)
  OBVIOUS
<1>3. /\ w \in Seq(DOMAIN h.slot) /\ Distinct(w) /\ n \in Nat /\ m \in 1 .. Len(w)
      /\ u = w[m] /\ u \in DOMAIN h.slot /\ h.slot[u].next = At(w, m + 1)
      /\ Shape(h.slot, Starts(h.empty, h.used), L) /\ -c \in Places
  <2>1. -c \in Places /\ Shape(h.slot, Starts(h.empty, h.used), L)
    BY <1>1, PlaceFacts DEF Whole
  <2>2. /\ w \in Seq(DOMAIN h.slot) /\ Distinct(w)
        /\ \A i \in 1 .. Len(w) : h.slot[w[i]].next = At(w, i + 1)
    BY <1>1, <2>1 DEF Shape, ListAt
  <2>3. n \in 0 .. Len(w) /\ u = At(w, m)
    BY <1>1 DEF Trailing
  <2>4. m \in 1 .. Len(w) /\ u = w[m] /\ n \in Nat
    BY <1>1, <2>3 DEF At
  <2> QED BY <2>1, <2>2, <2>4
<1>4. pre \in DOMAIN h.slot \/ pre = u
  BY <1>1, <1>3
<1>5. (m = 1 /\ pre = u) \/ (m > 1 /\ pre = w[m - 1])
  BY <1>1, <1>3
<1>6. Cuts(h, c, u, pre, k) /\ Stays(h.slot, k.slot)
  BY <1>2, <1>3, <1>4, Cutting, CutStays
<1>7. PICK M : M = [L EXCEPT ![-c] = Without(w, m)]
  OBVIOUS
<1>8. /\ Whole(k, M) /\ Unlisted(M, u) /\ u \in DOMAIN k.slot
      /\ k.slot[u].next = Null /\ k.slot[u].len = Size(c)
  <2>1. InUse(L, c, w) /\ InPlace(w, m, u, pre) /\ Becomes(L, -c, Without(w, m), M)
    BY <1>1, <1>3, <1>5, <1>7 DEF InUse, InPlace, Becomes
  <2> QED BY <1>1, <1>6, <2>1, CuttingWhole
<1>9. k \in Heaps /\ k.fault = h.fault
  BY <1>6 DEF Cuts
<1>10. PICK K : Settled(k, M, v, K)
  BY <1>2, <1>8, <1>9, MovedWhole
<1>11. Relisted(v, g, v.slot, v.empty, v.used)
  BY <1>2, <1>10, Counting DEF Settled
<1>12. Whole(v, K) /\ K[-c] = M[-c]
  BY <1>10 DEF Settled
<1>13. Whole(g, K)
  BY <1>11, <1>12 DEF Relisted, Whole
<1>14. PICK x : x = Without(w, m)
  OBVIOUS
<1>15. K[-c] = x
  BY <1>3, <1>7, <1>12, <1>14 DEF Shape
<1>16. Len(x) = Len(w) - 1 /\ At(x, m) = At(w, m + 1)
  <2>1. PICK D : D = DOMAIN h.slot
    OBVIOUS
  <2>2. IsWithout(w, m, x)
    BY <1>3, <1>14, <2>1, WithoutIs
  <2> QED BY <1>3, <2>2 DEF IsWithout, At
<1>17. Dead(g, u)
  <2>1. Stays(h.slot, g.slot)
    <3>1. Stays(k.slot, v.slot) /\ g.slot = v.slot
      BY <1>10, <1>11 DEF Settled, Relisted
    <3> QED BY <1>6, <3>1, StaysTwice
  <2> QED BY <1>3, <2>1 DEF Dead, Stays
<1>18. u # At(w, m + 1)
  <2>1. u # Null
    OBVIOUS
  <2> QED BY <1>3, <2>1 DEF At, Distinct
<1>19. Ok(g)
  <2>1. g.fault = h.fault
    BY <1>9, <1>10, <1>11 DEF Settled, Relisted
  <2> QED BY <2>1 DEF Trailing, Ok
<1>20. n \in 0 .. Len(x)
  BY <1>1, <1>3, <1>16
<1>21. Trailing(c, g, h.slot[u].next, u, x, n)
  BY <1>1, <1>3, <1>13, <1>15, <1>16, <1>17, <1>18, <1>19, <1>20 DEF Trailing, Behind, InUse
<1> QED BY <1>16, <1>21

(* The loop is inside of its list.                                         *)
LEMMA TrailingLength ==
  ASSUME NEW c \in Chunks, NEW h, NEW u, NEW pre, NEW w, NEW n, Trailing(c, h, u, pre, w, n)
  PROVE  Len(w) - n \in Nat
<1>1. PICK L : Whole(h, L) /\ InUse(L, c, w)
  BY DEF Trailing
<1>2. w \in Seq(DOMAIN h.slot)
  BY <1>1, PlaceFacts DEF Whole, Shape, ListAt, InUse
<1>3. Len(w) \in Nat
  BY <1>2
<1> QED BY <1>3 DEF Trailing

(* A turn taints the heap, or leaves it whole with one slot less to go.    *)
LEMMA TurnWhole ==
  ASSUME NEW s \in Turns, NEW c \in Chunks, s.pre \in DOMAIN s.h.slot \/ s.pre = s.u,
         NEW w, NEW n, Trailing(c, s.h, s.u, s.pre, w, n), s.u # Null,
         NEW r, r = SweepTurn(c, s)
  PROVE  \/ r.h.tainted
         \/ \E x, k : Trailing(c, r.h, r.u, r.pre, x, k) /\ Len(x) - k = Len(w) - n - 1
<1>1. PICK h, u, pre : h = s.h /\ u = s.u /\ pre = s.pre
  OBVIOUS
<1>2. h \in Heaps /\ Trailing(c, h, u, pre, w, n) /\ u # Null
  BY <1>1 DEF Turns
<1>3. PICK L : Whole(h, L) /\ InUse(L, c, w)
  BY <1>2 DEF Trailing
<1>4. /\ w \in Seq(DOMAIN h.slot) /\ n \in 0 .. Len(w) - 1 /\ u = w[n + 1]
      /\ u \in DOMAIN h.slot /\ h.slot[u].next = At(w, (n + 1) + 1) /\ Len(w) \in Nat
  <2>1. ListAt(h.slot, Size(c), Starts(h.empty, h.used)[-c], w)
    BY <1>3, PlaceFacts DEF Whole, Shape, InUse
  <2>2. /\ w \in Seq(DOMAIN h.slot)
        /\ \A i \in 1 .. Len(w) : h.slot[w[i]].next = At(w, i + 1)
    BY <2>1 DEF ListAt
  <2>3. n \in 0 .. Len(w) /\ u = At(w, n + 1) /\ Len(w) \in Nat
    BY <1>2, <2>2 DEF Trailing
  <2>4. n + 1 \in 1 .. Len(w) /\ u = w[n + 1]
    BY <1>2, <2>3 DEF At
  <2> QED BY <2>2, <2>3, <2>4
<1>5. PICK g, home, len : /\ home = h.slot[u].home /\ len = h.slot[u].len
                          /\ g = Counted(Moved(Cut(h, c, u, pre), c, u, home), c, len)
  OBVIOUS
<1>6. len \in Nat
  <2>1. h.slot[u] \in Slot
    BY <1>2, <1>4, HeapFacts
  <2> QED BY <1>5, <2>1 DEF Slot
<1>7. r = [h |-> IF Dead(h, u) THEN g ELSE h, u |-> h.slot[u].next, pre |-> u]
  BY <1>1, <1>4, <1>5, TurnIs
<1>8. CASE ~Dead(h, u)
  <2>1. r.h = h /\ r.u = At(w, (n + 1) + 1) /\ r.pre = u
    BY <1>4, <1>7, <1>8
  <2>2. n + 1 \in 0 .. Len(w) /\ n + 1 > 0
    BY <1>4
  <2>3. Behind(h, w, n + 1, r.u, u)
    BY <1>4, <2>2 DEF Behind
  <2>4. Trailing(c, h, r.u, u, w, n + 1)
    BY <1>2, <1>3, <2>1, <2>2, <2>3 DEF Trailing
  <2>5. Len(w) - (n + 1) = Len(w) - n - 1
    BY <1>4
  <2> QED BY <2>1, <2>4, <2>5
<1>9. CASE Dead(h, u)
  <2>1. r.h = g /\ r.u = h.slot[u].next /\ r.pre = u
    BY <1>7, <1>9
  <2>2. CASE (n = 0 /\ pre = u) \/ (n > 0 /\ pre = w[n])
    <3>1. PICK x : Trailing(c, g, h.slot[u].next, u, x, n) /\ Len(x) = Len(w) - 1
      BY <1>2, <1>5, <1>6, <1>9, <2>2, DeadTurn
    <3>2. Len(x) - n = Len(w) - n - 1
      BY <1>4, <3>1
    <3> QED BY <2>1, <3>1, <3>2
  <2>3. CASE pre # u /\ Dead(h, pre)
    <3>1. PICK k, v : k = Cut(h, c, u, pre) /\ v = Moved(k, c, u, home)
      OBVIOUS
    <3>2. Cuts(h, c, u, pre, k)
      BY <1>1, <1>2, <1>4, <3>1, Cutting
    <3>3. k \in Heaps /\ k.tainted /\ u \in DOMAIN k.slot
      <4>1. Stays(h.slot, k.slot)
        BY <1>1, <1>2, <1>4, <3>2, CutStays
      <4> QED BY <1>4, <2>3, <3>2, <4>1 DEF Cuts, Stays
    <3>4. v \in Heaps /\ v.tainted
      BY <3>1, <3>3, Moving
    <3>5. g.tainted
      BY <1>5, <1>6, <3>1, <3>4, Counting DEF Relisted
    <3> QED BY <2>1, <3>5
  <2>4. Behind(h, w, n, u, pre)
    BY <1>2 DEF Trailing
  <2> QED BY <2>2, <2>3, <2>4 DEF Behind
<1> QED BY <1>8, <1>9

(* The sweep ends before it has taken as many turns as there are slots.    *)
Reached(c, s, i, m) ==
  \E w, k : /\ Trailing(c, s.h, s.u, s.pre, w, k)
            /\ s.u # Null => i + (Len(w) - k) <= m

(* The sweep without a taint.                                              *)
LEMMA SweepWhole ==
  ASSUME NEW h \in Heaps, NEW L, Whole(h, L), Ok(h), NEW c \in Chunks, NEW r, r = Sweep(h, c)
  PROVE  r.tainted \/ (Ok(r) /\ \E M : Whole(r, M))
<1>1. PICK n \in Nat : \E met :
        /\ n > Cardinality(DOMAIN h.slot) /\ Swings(h, c, n, met)
        /\ \A i \in 0 .. n : met[i] \in SweepStates
        /\ Sweep(h, c) = IF met[n].u # Null /\ Ok(met[n].h) THEN Fault(met[n].h, "hang")
                         ELSE met[n].h
  BY SweepIs
<1>2. PICK met : /\ n > Cardinality(DOMAIN h.slot) /\ Swings(h, c, n, met)
                 /\ \A i \in 0 .. n : met[i] \in SweepStates
                 /\ r = IF met[n].u # Null /\ Ok(met[n].h) THEN Fault(met[n].h, "hang")
                        ELSE met[n].h
  BY <1>1
<1> DEFINE Card == Cardinality(DOMAIN h.slot)
           Good(i) == met[i].h.tainted \/ Reached(c, met[i], i, Card)
           T == {i \in 0 .. n : Good(i)}
<1>3. Card \in Nat
  BY HeapFacts, FS_CardinalityType
<1> HIDE DEF Card
<1>4. Good(0)
  <2>1. PICK w : w = L[-c]
    OBVIOUS
  <2>2. ListAt(h.slot, Size(c), h.used[c], w) /\ h.used[c] \in Pointers
    <3>1. /\ h.empty \in [Chunks -> Pointers] /\ h.used \in [Chunks -> Pointers]
      BY HeapFacts
    <3>2. Starts(h.empty, h.used)[-c] = h.used[c]
      BY <3>1, StartFacts
    <3> QED BY <2>1, <3>1, <3>2, PlaceFacts DEF Whole, Shape
  <2>3. Len(w) <= Card /\ Len(w) \in Nat
    <3>1. Len(w) <= Card
      BY <2>2, WalkIs DEF Card
    <3>2. w \in Seq(DOMAIN h.slot)
      BY <2>2 DEF ListAt
    <3> QED BY <3>1, <3>2
  <2>4. Behind(h, w, 0, h.used[c], h.used[c])
    BY DEF Behind
  <2>5. Trailing(c, h, h.used[c], h.used[c], w, 0)
    <3>1. h.used[c] = At(w, 0 + 1)
      BY <2>2 DEF ListAt
    <3> QED BY <2>1, <2>3, <2>4, <3>1 DEF Trailing, InUse
  <2>6. 0 + (Len(w) - 0) <= Card
    BY <1>3, <2>3
  <2>7. met[0].h = h /\ met[0].u = h.used[c] /\ met[0].pre = h.used[c]
    BY <1>2 DEF Swings
  <2>8. Reached(c, met[0], 0, Card)
    BY <2>5, <2>6, <2>7 DEF Reached
  <2> QED BY <2>8
<1>5. ASSUME NEW i \in 1 .. n, Good(i - 1)
      PROVE  Good(i)
  <2>1. PICK x, y : x = met[i - 1] /\ y = met[i]
    OBVIOUS
  <2>2. x \in Turns /\ (x.pre \in DOMAIN x.h.slot \/ x.pre = x.u) /\ y = Turned(c, x)
    BY <1>2, <2>1 DEF SweepStates, Swings
  <2>3. CASE x.h.tainted
    <3>1. y.h.tainted
      BY <2>2, <2>3, Turning DEF Turned
    <3> QED BY <2>1, <3>1
  <2>4. CASE Reached(c, x, i - 1, Card)
    <3>1. PICK w, k : /\ Trailing(c, x.h, x.u, x.pre, w, k)
                      /\ x.u # Null => (i - 1) + (Len(w) - k) <= Card
      BY <2>4 DEF Reached
    <3>2. Ok(x.h)
      BY <3>1 DEF Trailing
    <3>3. CASE x.u = Null
      <4>1. y = x
        BY <2>2, <3>3 DEF Turned
      <4>2. Trailing(c, y.h, y.u, y.pre, w, k) /\ y.u = Null
        BY <3>1, <3>3, <4>1
      <4>3. Reached(c, y, i, Card)
        BY <4>2 DEF Reached
      <4> QED BY <2>1, <4>3
    <3>4. CASE x.u # Null
      <4>1. y = SweepTurn(c, x)
        BY <2>2, <3>2, <3>4 DEF Turned
      <4>2. CASE y.h.tainted
        BY <2>1, <4>2
      <4>3. CASE ~y.h.tainted
        <5>1. PICK v, m : Trailing(c, y.h, y.u, y.pre, v, m) /\ Len(v) - m = Len(w) - k - 1
          BY <2>2, <3>1, <3>4, <4>1, <4>3, TurnWhole
        <5>2. i + (Len(v) - m) <= Card
          <6>1. PICK d : d = Len(w) - k
            OBVIOUS
          <6>2. d \in Nat
            BY <3>1, <6>1, TrailingLength
          <6> QED BY <1>3, <3>1, <3>4, <5>1, <6>1, <6>2
        <5>3. Reached(c, y, i, Card)
          BY <5>1, <5>2 DEF Reached
        <5> QED BY <2>1, <5>3
      <4> QED BY <4>2, <4>3
    <3> QED BY <3>3, <3>4
  <2> QED BY <1>5, <2>1, <2>3, <2>4
<1>6. Good(n)
  <2> HIDE DEF Good
  <2>1. 0 \in T /\ \A i \in 1 .. n : i - 1 \in T => i \in T
    BY <1>4, <1>5
  <2> HIDE DEF T
  <2>2. n \in T
    BY <2>1, Preserved
  <2> QED BY <2>2 DEF T
<1>7. CASE met[n].h.tainted
  <2>1. met[n].h \in Heaps
    BY <1>2 DEF SweepStates, Turns
  <2> QED BY <1>2, <1>7, <2>1, Faulting DEF Faults
<1>8. CASE Reached(c, met[n], n, Card)
  <2>1. PICK w, k : /\ Trailing(c, met[n].h, met[n].u, met[n].pre, w, k)
                    /\ met[n].u # Null => n + (Len(w) - k) <= Card
    BY <1>8 DEF Reached
  <2>2. met[n].u = Null
    <3> SUFFICES ASSUME met[n].u # Null
                 PROVE  FALSE
      OBVIOUS
    <3>1. PICK d : d = Len(w) - k
      OBVIOUS
    <3>2. d \in Nat
      BY <2>1, <3>1, TrailingLength
    <3> QED BY <1>2, <1>3, <2>1, <3>1, <3>2 DEF Card
  <2>3. r = met[n].h
    BY <1>2, <2>2
  <2> QED BY <2>1, <2>3 DEF Trailing
<1> QED BY <1>6, <1>7, <1>8

(* Removing the m-th of list w cuts off the d elements up to it, or all    *)
(* but one of them.                                                        *)
Shifted(w, m, d, v) ==
  /\ d \in 1 .. m /\ Len(v) = Len(w) - d
  /\ \A k \in m + 1 .. Len(w) : v[k - d] = w[k]
  /\ \A u : On(v, u) => On(w, u)
  /\ ~On(v, w[m])

(* The list behind the predecessor of what was removed.                    *)
LEMMA ShiftedIs ==
  ASSUME NEW S, NEW w \in Seq(S), Distinct(w), NEW m \in 2 .. Len(w), NEW x, x = Without(w, m),
         NEW v, v = Rest(x, m - 2)
  PROVE  x \in Seq(S) /\ m - 2 \in 0 .. Len(x) /\ At(x, m - 1) = w[m - 1]
         /\ Shifted(w, m, m - 1, v)
<1>1. Len(w) \in Nat /\ m \in 1 .. Len(w)
  OBVIOUS
<1>2. x \in Seq(S) /\ IsWithout(w, m, x)
  BY <1>1, WithoutIs
<1>3. /\ Len(x) = Len(w) - 1 /\ Distinct(x) /\ ~On(x, w[m])
      /\ \A i \in 1 .. Len(w) - 1 : x[i] = IF i < m THEN w[i] ELSE w[i + 1]
      /\ \A u : On(x, u) => On(w, u)
  BY <1>2 DEF IsWithout
<1>4. m - 2 \in 0 .. Len(x) /\ At(x, m - 1) = w[m - 1]
  BY <1>1, <1>3 DEF At
<1>5. PICK n : n = m - 2
  OBVIOUS
<1>6. IsRest(x, n, v)
  BY <1>2, <1>4, <1>5, RestIs
<1>7. /\ Len(v) = Len(x) - n /\ \A u : On(v, u) => On(x, u)
      /\ \A i \in 1 .. Len(x) - n : v[i] = x[i + n]
  BY <1>6 DEF IsRest
<1>8. ASSUME NEW k \in m + 1 .. Len(w)
      PROVE  v[k - (m - 1)] = w[k]
  <2>1. PICK i : i = k - (m - 1)
    OBVIOUS
  <2>2. i \in 1 .. Len(x) - n /\ i + n = k - 1
    BY <1>1, <1>3, <1>5, <2>1
  <2>3. k - 1 \in 1 .. Len(w) - 1 /\ ~(k - 1 < m) /\ (k - 1) + 1 = k
    BY <1>1
  <2>4. x[k - 1] = w[k]
    BY <1>3, <2>3
  <2> QED BY <1>7, <2>1, <2>2, <2>4
<1>9. Len(v) = Len(w) - (m - 1) /\ m - 1 \in 1 .. m
  BY <1>1, <1>3, <1>5, <1>7
<1> QED BY <1>2, <1>3, <1>4, <1>7, <1>8, <1>9 DEF Shifted

(* The list behind its first element.                                      *)
LEMMA ShiftedFirst ==
  ASSUME NEW S, NEW w \in Seq(S), Distinct(w), 1 \in 1 .. Len(w), NEW v, v = Rest(w, 1)
  PROVE  Shifted(w, 1, 1, v)
<1>1. Len(w) \in Nat /\ 1 \in 0 .. Len(w)
  OBVIOUS
<1>2. IsRest(w, 1, v)
  BY <1>1, RestIs
<1>3. /\ Len(v) = Len(w) - 1 /\ \A u : On(v, u) => On(w, u)
      /\ \A i \in 1 .. Len(w) - 1 : v[i] = w[i + 1]
      /\ ~On(v, w[1])
  BY <1>2 DEF IsRest
<1>4. ASSUME NEW k \in 1 + 1 .. Len(w)
      PROVE  v[k - 1] = w[k]
  <2>1. k - 1 \in 1 .. Len(w) - 1 /\ (k - 1) + 1 = k
    BY <1>1
  <2> QED BY <1>3, <2>1
<1> QED BY <1>3, <1>4 DEF Shifted

(* remove_slot.                                                            *)
LEMMA RemoveWhole ==
  ASSUME NEW h \in Heaps, NEW L, Whole(h, L), NEW j \in Chunks,
         NEW m \in 1 .. Len(L[j]), NEW r, r = RemoveSlot(h, j, L[j][m])
  PROVE  \E M, d, v : Settled(h, L, r, M) /\ Becomes(L, j, v, M) /\ Shifted(L[j], m, d, v)
<1>1. PICK w, sl, hd, u : /\ w = L[j] /\ sl = h.slot /\ hd = Starts(h.empty, h.used)
                          /\ u = w[m]
  OBVIOUS
<1>2. /\ sl \in Stores /\ hd \in [Places -> Pointers] /\ Shape(sl, hd, L)
      /\ j \in Places /\ Class(j) = j /\ hd[j] = h.empty[j] /\ h.empty[j] \in Pointers
  <2>1. h.empty \in [Chunks -> Pointers] /\ h.used \in [Chunks -> Pointers] /\ sl \in Stores
    BY <1>1, HeapFacts
  <2>2. hd \in [Places -> Pointers] /\ hd[j] = h.empty[j]
    BY <1>1, <2>1, StartFacts
  <2> QED BY <1>1, <2>1, <2>2, PlaceFacts DEF Whole
<1>3. ListAt(sl, Size(j), h.empty[j], w)
  BY <1>1, <1>2 DEF Shape
<1>4. PICK S : S = DOMAIN sl
  OBVIOUS
<1>5. /\ w \in Seq(S) /\ Distinct(w) /\ h.empty[j] = At(w, 1)
      /\ \A i \in 1 .. Len(w) : sl[w[i]].next = At(w, i + 1)
  BY <1>3, <1>4 DEF ListAt
<1>6. Len(w) \in Nat /\ m \in 1 .. Len(w) /\ u \in DOMAIN h.slot /\ 1 \in 1 .. Len(w)
  BY <1>1, <1>4, <1>5
<1>7. h.empty[j] = w[1] /\ sl[u].next = At(w, m + 1) /\ u \in Pointers
  <2>1. u \in Pointers
    BY <1>6, HeapFacts DEF Ids, Pointers
  <2> QED BY <1>1, <1>5, <1>6, <2>1 DEF At
<1>8. Walk(h, h.empty[j]) = w
  BY <1>1, <1>2, <1>3, WalkIs
<1>9. r \in Heaps /\ Stays(h.slot, r.slot) /\ r.tainted = h.tainted
  BY <1>1, <1>7, RemovingOne
<1>10. CASE m = 1
  <2>1. PICK p, v, M : p = At(w, 1 + 1) /\ v = Rest(w, 1) /\ M = [L EXCEPT ![j] = v]
    OBVIOUS
  <2>2. h.empty[j] = u /\ h.slot[u].next = p
    BY <1>1, <1>7, <1>10, <2>1
  <2>3. Relisted(h, r, h.slot, [h.empty EXCEPT ![j] = p], h.used)
    BY <1>1, <1>6, <1>7, <2>2, Removing
  <2>4. Becomes(hd, j, p, Starts(r.empty, r.used))
    BY <1>1, <2>3, EmptyHead DEF Relisted
  <2>5. Shape(sl, [hd EXCEPT ![j] = p], M)
    <3>1. 1 \in 0 .. Len(L[j])
      BY <1>1, <1>6
    <3> QED BY <1>1, <1>2, <2>1, <3>1, Skipping
  <2>6. Shape(r.slot, Starts(r.empty, r.used), M)
    BY <1>1, <2>3, <2>4, <2>5 DEF Relisted, Becomes
  <2>7. Becomes(L, j, v, M)
    BY <2>1 DEF Becomes
  <2>8. Settled(h, L, r, M)
    <3>1. r.fault = h.fault
      BY <2>3 DEF Relisted
    <3> QED BY <1>9, <2>6, <2>7, <3>1, Settling
  <2>9. Shifted(w, m, 1, v)
    BY <1>5, <1>6, <1>10, <2>1, ShiftedFirst
  <2> QED BY <1>1, <2>7, <2>8, <2>9
<1>11. CASE m # 1
  <2>1. m \in 2 .. Len(w) /\ m - 1 \in 1 .. Len(w)
    BY <1>6, <1>11
  <2>2. PICK x, v, M, K : /\ x = Without(w, m) /\ v = Rest(x, m - 2)
                          /\ K = [L EXCEPT ![j] = x] /\ M = [L EXCEPT ![j] = v]
    OBVIOUS
  <2>3. /\ x \in Seq(S) /\ m - 2 \in 0 .. Len(x) /\ At(x, m - 1) = w[m - 1]
        /\ Shifted(w, m, m - 1, v)
    BY <1>5, <2>1, <2>2, ShiftedIs
  <2>4. Before(h, w, u) = {m - 1}
    <3>1. DOMAIN w = 1 .. Len(w)
      BY <1>5
    <3>2. ASSUME NEW i \in 1 .. Len(w)
          PROVE  h.slot[w[i]].next = u <=> i = m - 1
      <4>1. h.slot[w[i]].next = At(w, i + 1)
        BY <1>1, <1>5
      <4>2. u # Null
        BY <1>6, HeapFacts DEF Ids, Null
      <4> QED BY <1>1, <1>5, <1>6, <4>1, <4>2 DEF At, Distinct
    <3> QED BY <2>1, <3>1, <3>2 DEF Before
  <2>5. h.empty[j] # u
    BY <1>1, <1>5, <1>6, <1>7, <1>11 DEF Distinct
  <2>6. PICK p : p = w[m - 1]
    OBVIOUS
  <2>7. Relisted(h, r, Relink(h.slot, p, h.slot[u].next), [h.empty EXCEPT ![j] = p], h.used)
    <3>1. (CHOOSE k \in {m - 1} : \A i \in {m - 1} : k <= i) = m - 1
      BY <2>1
    <3> QED BY <1>1, <1>6, <1>7, <1>8, <2>4, <2>5, <2>6, <3>1, Removing
  <2>8. Becomes(hd, j, p, Starts(r.empty, r.used))
    BY <1>1, <2>7, EmptyHead DEF Relisted
  <2>9. Shape(r.slot, hd, K)
    <3>1. Shape(Relink(sl, w[m - 1], sl[w[m]].next), hd, K)
      BY <1>1, <1>2, <2>1, <2>2, Unlinking
    <3> QED BY <1>1, <2>6, <2>7, <3>1 DEF Relisted
  <2>10. K[j] = x
    BY <1>2, <2>2 DEF Shape
  <2>11. (m - 2) + 1 = m - 1
    BY <1>6
  <2>12. Shape(r.slot, [hd EXCEPT ![j] = p], [K EXCEPT ![j] = v])
    <3>1. r.slot \in Stores
      BY <1>9, HeapFacts
    <3>2. PICK n : n = m - 2
      OBVIOUS
    <3>3. n \in 0 .. Len(K[j]) /\ At(K[j], n + 1) = p /\ Rest(K[j], n) = v
      BY <2>2, <2>3, <2>6, <2>10, <2>11, <3>2
    <3> QED BY <1>2, <2>9, <3>1, <3>3, Skipping
  <2>13. [K EXCEPT ![j] = v] = M
    BY <2>2
  <2>14. Shape(r.slot, Starts(r.empty, r.used), M)
    BY <2>8, <2>12, <2>13 DEF Becomes
  <2>15. Becomes(L, j, v, M)
    BY <2>2 DEF Becomes
  <2>16. Settled(h, L, r, M)
    <3>1. r.fault = h.fault
      BY <2>7 DEF Relisted
    <3> QED BY <1>9, <2>14, <2>15, <3>1, Settling
  <2> QED BY <1>1, <2>3, <2>15, <2>16
<1> QED BY <1>10, <1>11

(* The elements of g behind the i-th are elements of w, in their order.    *)
Later(w, i, g) ==
  \E at \in [i + 1 .. Len(g) -> 1 .. Len(w)] :
    /\ \A a, b \in i + 1 .. Len(g) : a < b => at[a] < at[b]
    /\ \A a \in i + 1 .. Len(g) : g[a] = w[at[a]]

(* The next picked slot is still in the list, and those behind it will be  *)
(* when it is removed.                                                     *)
LEMMA LaterNext ==
  ASSUME NEW S, NEW w \in Seq(S), NEW R, NEW g \in Seq(R), NEW i \in 1 .. Len(g),
         Later(w, i - 1, g)
  PROVE  \E m \in 1 .. Len(w) :
           g[i] = w[m] /\ \A v \in Seq(S) : \A d : Shifted(w, m, d, v) => Later(v, i, g)
<1>1. PICK n \in Nat : n = Len(g)
  OBVIOUS
<1>2. PICK at \in [i .. n -> 1 .. Len(w)] :
        /\ \A a, b \in i .. n : a < b => at[a] < at[b]
        /\ \A a \in i .. n : g[a] = w[at[a]]
  <2>1. (i - 1) + 1 = i
    OBVIOUS
  <2> QED BY <1>1, <2>1 DEF Later
<1>3. PICK m \in 1 .. Len(w) : m = at[i]
  BY <1>1, <1>2
<1>4. g[i] = w[m]
  BY <1>1, <1>2, <1>3
<1>5. ASSUME NEW v \in Seq(S), NEW d, Shifted(w, m, d, v)
      PROVE  Later(v, i, g)
  <2>1. Len(w) \in Nat /\ d \in 1 .. m /\ Len(v) = Len(w) - d
    BY <1>5 DEF Shifted
  <2>2. PICK f : f = [a \in i + 1 .. n |-> at[a] - d]
    OBVIOUS
  <2>3. ASSUME NEW a \in i + 1 .. n
        PROVE  at[a] \in m + 1 .. Len(w)
    BY <1>1, <1>2, <1>3
  <2>4. f \in [i + 1 .. n -> 1 .. Len(v)]
    <3>1. \A a \in i + 1 .. n : at[a] - d \in 1 .. Len(v)
      <4> TAKE a \in i + 1 .. n
      <4>1. PICK x : x = at[a] /\ x \in m + 1 .. Len(w)
        BY <2>3
      <4>2. PICK l \in Nat : l = Len(w)
        BY <2>1
      <4>3. d \in 1 .. m /\ m \in 1 .. l /\ x \in m + 1 .. l /\ Len(v) = l - d
        BY <2>1, <4>1, <4>2
      <4>4. x - d \in 1 .. l - d
        BY <4>3
      <4> QED BY <4>1, <4>3, <4>4
    <3> QED BY <2>2, <3>1
  <2>5. \A a, b \in i + 1 .. n : a < b => f[a] < f[b]
    <3> TAKE a, b \in i + 1 .. n
    <3>1. a \in i .. n /\ b \in i .. n
      BY <1>1
    <3>2. PICK x \in Nat, y \in Nat : x = at[a] /\ y = at[b]
      BY <2>1, <2>3
    <3>3. a < b => x < y
      BY <1>2, <3>1, <3>2
    <3>4. f[a] = x - d /\ f[b] = y - d
      BY <2>2, <3>2
    <3> QED BY <2>1, <3>2, <3>3, <3>4
  <2>6. \A a \in i + 1 .. n : g[a] = v[f[a]]
    <3> TAKE a \in i + 1 .. n
    <3>1. a \in i .. n
      BY <1>1
    <3>2. v[at[a] - d] = w[at[a]]
      BY <1>5, <2>3 DEF Shifted
    <3> QED BY <1>2, <2>2, <3>1, <3>2
  <2> QED BY <1>1, <2>4, <2>5, <2>6 DEF Later
<1> QED BY <1>4, <1>5

(* All picked slots are in the list at first.                              *)
LEMMA LaterFirst ==
  ASSUME NEW w, NEW g, Picked(w, Len(w), g)
  PROVE  Later(w, 0, g)
<1>1. PICK at \in [1 .. Len(g) -> 1 .. Len(w)] :
        Increasing(at, Len(g)) /\ \A a \in 1 .. Len(g) : g[a] = w[at[a]]
  BY DEF Picked
<1>2. 0 + 1 = 1
  OBVIOUS
<1> QED BY <1>1, <1>2 DEF Later, Increasing

(* Two settled steps are one.                                              *)
LEMMA SettledTwice ==
  ASSUME NEW h, NEW L, NEW x, NEW M, Settled(h, L, x, M), NEW y, NEW K, Settled(x, M, y, K)
  PROVE  Settled(h, L, y, K)
<1>1. Stays(h.slot, y.slot)
  BY StaysTwice DEF Settled
<1> QED BY <1>1 DEF Settled

(* All of them.                                                            *)
Thinned(h, L, j, g, i, r, M) ==
  /\ Settled(h, L, r, M) /\ \A a \in Places \ {j} : M[a] = L[a]
  /\ Later(M[j], i, g) /\ \A a \in 1 .. i : ~On(M[j], g[a])

(* Removing one more of the picked slots.                                  *)
LEMMA ThinningOn ==
  ASSUME NEW h \in Heaps, NEW L, Ok(h), NEW j \in Chunks, NEW g \in Seq(Pointers),
         NEW i \in 1 .. Len(g), NEW x, NEW M, Thinned(h, L, j, g, i - 1, x, M)
  PROVE  \E K : Thinned(h, L, j, g, i, Dropped(j, x, g[i]), K)
<1>1. PICK w, S : w = M[j] /\ S = DOMAIN x.slot
  OBVIOUS
<1>2. x \in Heaps /\ Whole(x, M) /\ x.fault = h.fault /\ j \in Places
  BY PlaceFacts DEF Thinned, Settled
<1>3. w \in Seq(S)
  BY <1>1, <1>2 DEF Whole, Shape, ListAt
<1>4. PICK m \in 1 .. Len(w) :
        g[i] = w[m] /\ \A v \in Seq(S) : \A d : Shifted(w, m, d, v) => Later(v, i, g)
  <2>1. Later(w, i - 1, g)
    BY <1>1 DEF Thinned
  <2> QED BY <1>3, <2>1, LaterNext
<1>5. PICK r : r = Dropped(j, x, g[i])
  OBVIOUS
<1>6. r = RemoveSlot(x, j, M[j][m])
  BY <1>1, <1>2, <1>4, <1>5 DEF Dropped, Ok
<1>7. m \in 1 .. Len(M[j])
  BY <1>1
<1>8. PICK K, d, v : Settled(x, M, r, K) /\ Becomes(M, j, v, K) /\ Shifted(M[j], m, d, v)
  BY <1>2, <1>6, <1>7, RemoveWhole
<1>9. K[j] = v /\ \A a \in Places \ {j} : K[a] = M[a]
  BY <1>2, <1>8 DEF Becomes, Whole, Shape
<1>10. Settled(h, L, r, K)
  BY <1>8, SettledTwice DEF Thinned
<1>11. \A a \in Places \ {j} : K[a] = L[a]
  BY <1>9 DEF Thinned
<1>12. v \in Seq(S)
  <2>1. Whole(r, K) /\ DOMAIN r.slot = DOMAIN x.slot
    BY <1>8 DEF Settled, Stays
  <2> QED BY <1>1, <1>2, <1>9, <2>1 DEF Whole, Shape, ListAt
<1>13. Later(K[j], i, g)
  BY <1>1, <1>4, <1>8, <1>9, <1>12
<1>14. \A a \in 1 .. i : ~On(K[j], g[a])
  <2> TAKE a \in 1 .. i
  <2>1. CASE a = i
    BY <1>1, <1>4, <1>8, <1>9, <2>1 DEF Shifted
  <2>2. CASE a # i
    <3>1. a \in 1 .. i - 1
      BY <2>2
    <3> QED BY <1>8, <1>9, <3>1 DEF Thinned, Shifted
  <2> QED BY <2>1, <2>2
<1> QED BY <1>5, <1>10, <1>11, <1>13, <1>14 DEF Thinned

(* When all are removed the heap is whole and they are in no list.         *)
LEMMA RemovedWhole ==
  ASSUME NEW h \in Heaps, NEW L, Whole(h, L), Ok(h), NEW j \in Chunks, NEW g \in Seq(Pointers),
         Picked(L[j], Len(L[j]), g)
  PROVE  \E M : /\ Settled(h, L, Removed(h, j, g), M) /\ \A a \in Places \ {j} : M[a] = L[a]
                /\ \A a \in 1 .. Len(g) : Unlisted(M, g[a])
<1>1. PICK met : Drops(h, j, g, met) /\ Removed(h, j, g) = met[Len(g)]
  BY RemovedIs
<1>2. PICK n \in Nat : n = Len(g)
  OBVIOUS
<1> DEFINE Good(i) == \E M : Thinned(h, L, j, g, i, met[i], M)
           T == {i \in 0 .. n : Good(i)}
<1>3. Good(0)
  <2>1. met[0] = h
    BY <1>1 DEF Drops
  <2>2. Settled(h, L, h, L)
    BY DEF Settled, Stays
  <2>3. Later(L[j], 0, g)
    BY LaterFirst
  <2>4. Thinned(h, L, j, g, 0, h, L)
    BY <2>2, <2>3 DEF Thinned
  <2> QED BY <2>1, <2>4
<1>4. ASSUME NEW i \in 1 .. n, Good(i - 1)
      PROVE  Good(i)
  <2>1. PICK x, M : x = met[i - 1] /\ Thinned(h, L, j, g, i - 1, x, M)
    BY <1>4
  <2>2. i \in 1 .. Len(g) /\ met[i] = Dropped(j, x, g[i])
    BY <1>1, <1>2, <2>1 DEF Drops
  <2>3. \E K : Thinned(h, L, j, g, i, Dropped(j, x, g[i]), K)
    BY <2>1, <2>2, ThinningOn
  <2> QED BY <2>2, <2>3
<1>5. Good(n)
  <2> HIDE DEF Good
  <2>1. 0 \in T /\ \A i \in 1 .. n : i - 1 \in T => i \in T
    BY <1>2, <1>3, <1>4
  <2> HIDE DEF T
  <2>2. \A i \in 0 .. n : i \in T
    BY <2>1, Preserved
  <2> QED BY <2>2 DEF T
<1>6. PICK r, M : r = Removed(h, j, g) /\ Thinned(h, L, j, g, n, r, M)
  BY <1>1, <1>2, <1>5
<1>7. ASSUME NEW a \in 1 .. n
      PROVE  Unlisted(M, g[a])
  <2>1. On(L[j], g[a]) /\ j \in Places /\ Shape(h.slot, Starts(h.empty, h.used), L)
    <3>1. PICK at \in [1 .. Len(g) -> 1 .. Len(L[j])] : \A b \in 1 .. Len(g) : g[b] = L[j][at[b]]
      BY DEF Picked
    <3> QED BY <1>2, <3>1, PlaceFacts DEF On, Whole
  <2>2. \A b \in Places \ {j} : ~On(L[b], g[a])
    BY <2>1 DEF Shape, Apart, On
  <2> QED BY <1>6, <2>2 DEF Unlisted, Thinned
<1> QED BY <1>2, <1>6, <1>7 DEF Thinned

(* The slots of g lie side by side, the i-th one first.                    *)
Row(sl, g, i, s) ==
  /\ \A k \in 1 .. Len(g) :
       /\ g[k] \in DOMAIN sl /\ sl[g[k]].home = sl[g[i]].home /\ sl[g[k]].idx = sl[g[i]].idx
       /\ sl[g[k]].len = s
  /\ \A q \in 0 .. Len(g) - 1 : \E k \in 1 .. Len(g) : sl[g[k]].off = sl[g[i]].off + q * s

(* Neighbours of one size, in the order of their addresses, lie side by    *)
(* side.                                                                   *)
LEMMA NeighboursRow ==
  ASSUME NEW h \in Heaps, NEW g \in Seq(DOMAIN h.slot), NEW i \in DOMAIN g,
         Lowest(h, g, i), Neighbours(h, g), NEW s,
         \A k \in 1 .. Len(g) : h.slot[g[k]].len = s /\ h.slot[g[k]].idx = h.slot[g[i]].idx
  PROVE  Row(h.slot, g, i, s)
<1>1. PICK sl, D : sl = h.slot /\ D = DOMAIN h.slot
  OBVIOUS
<1>2. g \in Seq(D) /\ DOMAIN g = 1 .. Len(g) /\ Len(g) \in Nat /\ i \in 1 .. Len(g)
  BY <1>1
<1>3. \A k \in 1 .. Len(g) : g[k] \in D /\ sl[g[k]].off \in Nat /\ sl[g[k]].home \in Nat
  <2> TAKE k \in 1 .. Len(g)
  <2>1. g[k] \in D
    BY <1>2
  <2>2. sl[g[k]] \in Slot /\ Chunks \subseteq Nat
    BY <1>1, <2>1, HeapFacts DEF Chunks
  <2> QED BY <2>1, <2>2 DEF Slot
<1> DEFINE all == {h.slot[g[k]].off : k \in DOMAIN g}
           least == CHOOSE o \in all : \A p \in all : o <= p
<1>4. /\ \A k \in DOMAIN g : h.slot[g[k]].home = h.slot[g[1]].home
      /\ all = {least + (k - 1) * h.slot[g[1]].len : k \in DOMAIN g}
  BY Zenon DEF Neighbours
<1>5. PICK offs, lo : /\ offs = all /\ lo = least
                      /\ offs = {sl[g[k]].off : k \in 1 .. Len(g)}
                      /\ lo = CHOOSE o \in offs : \A p \in offs : o <= p
  BY <1>1, <1>2
<1> HIDE DEF all, least
<1>6. /\ \A k \in 1 .. Len(g) : sl[g[k]].home = sl[g[1]].home
      /\ offs = {lo + (k - 1) * sl[g[1]].len : k \in 1 .. Len(g)}
  <2>1. PICK x : x = h.slot[g[1]]
    OBVIOUS
  <2>2. offs = {lo + (k - 1) * x.len : k \in DOMAIN g}
    BY <1>4, <1>5, <2>1, Zenon
  <2> QED BY <1>1, <1>2, <1>4, <2>1, <2>2
<1>7. lo \in offs /\ \A p \in offs : lo <= p
  <2>1. offs \in SUBSET Nat /\ offs # {}
    BY <1>2, <1>3, <1>5
  <2> QED BY <1>5, <2>1, LeastNumber
<1>8. \A k \in 1 .. Len(g) : sl[g[k]].home = sl[g[i]].home
  BY <1>2, <1>6
<1>9. lo = sl[g[i]].off
  <2>1. PICK k \in 1 .. Len(g) : lo = sl[g[k]].off
    BY <1>5, <1>7
  <2>2. ~Below(sl[g[k]], sl[g[i]])
    BY <1>1, <1>2, <2>1 DEF Lowest
  <2>3. ~(sl[g[k]].off < sl[g[i]].off)
    BY <1>8, <2>1, <2>2 DEF Below
  <2>4. lo <= sl[g[i]].off
    BY <1>2, <1>5, <1>7
  <2> QED BY <1>2, <1>3, <2>1, <2>3, <2>4
<1>10. \A q \in 0 .. Len(g) - 1 : \E k \in 1 .. Len(g) : sl[g[k]].off = sl[g[i]].off + q * s
  <2> TAKE q \in 0 .. Len(g) - 1
  <2>1. q + 1 \in 1 .. Len(g) /\ (q + 1) - 1 = q /\ 1 \in 1 .. Len(g)
    BY <1>2
  <2>2. sl[g[1]].len = s
    BY <1>1, <2>1
  <2>3. lo + q * s \in offs
    BY <1>6, <2>1, <2>2
  <2> QED BY <1>5, <1>9, <2>3
<1>11. \A k \in 1 .. Len(g) :
         /\ g[k] \in DOMAIN sl /\ sl[g[k]].home = sl[g[i]].home
         /\ sl[g[k]].idx = sl[g[i]].idx /\ sl[g[k]].len = s
  BY <1>1, <1>3, <1>8
<1> QED BY <1>1, <1>10, <1>11 DEF Row

(* The first takes the memory of all.                                      *)
Grown(sl, g, i, s, r) ==
  LET u == g[i] IN
  /\ u \in DOMAIN r /\ DOMAIN r \subseteq DOMAIN sl
  /\ \A v \in DOMAIN r : v # u => r[v] = sl[v] /\ \A k \in 1 .. Len(g) : v # g[k]
  /\ r[u].home = sl[u].home /\ r[u].idx = sl[u].idx /\ r[u].off = sl[u].off
  /\ r[u].len = Len(g) * s

(* The slot that takes the memory of all in its row overlaps with no       *)
(* other.                                                                  *)
LEMMA GrownFit ==
  ASSUME NEW sl \in Stores, Fit(sl), NEW g, Len(g) \in Nat \ {0}, NEW i, NEW s \in Nat \ {0},
         i \in 1 .. Len(g), Row(sl, g, i, s), NEW r, Grown(sl, g, i, s, r)
  PROVE  Fit(r)
<1>1. PICK u, n : u = g[i] /\ n = Len(g)
  OBVIOUS
<1>2. /\ u \in DOMAIN r /\ DOMAIN r \subseteq DOMAIN sl /\ n \in Nat \ {0}
      /\ \A v \in DOMAIN r : v # u => r[v] = sl[v] /\ \A k \in 1 .. n : v # g[k]
      /\ r[u].home = sl[u].home /\ r[u].idx = sl[u].idx /\ r[u].off = sl[u].off
      /\ r[u].len = n * s
  BY <1>1 DEF Grown
<1>3. /\ \A k \in 1 .. n :
           /\ g[k] \in DOMAIN sl /\ sl[g[k]].home = sl[u].home /\ sl[g[k]].idx = sl[u].idx
           /\ sl[g[k]].len = s
      /\ \A q \in 0 .. n - 1 : \E k \in 1 .. n : sl[g[k]].off = sl[u].off + q * s
  BY <1>1 DEF Row
<1>4. \A v \in DOMAIN sl : /\ sl[v].off \in Nat /\ sl[v].len \in Nat \ {0}
                           /\ Size(sl[v].home) \in Nat
  <2> TAKE v \in DOMAIN sl
  <2>1. sl[v] \in Slot
    BY StoreFacts
  <2> QED BY <2>1, Constants DEF Slot
<1>5. PICK a, z : a = sl[u].off /\ z = n * s
  OBVIOUS
<1>6. a \in Nat /\ z \in Nat
  BY <1>2, <1>4, <1>5, Distribution
<1>7. InBlock(r[u])
  <2>1. n - 1 \in 0 .. n - 1 /\ n - 1 \in Nat /\ (n - 1) + 1 = n
    BY <1>2
  <2>2. PICK y : y = (n - 1) * s
    OBVIOUS
  <2>3. y \in Nat /\ z = y + s
    BY <1>5, <2>1, <2>2, Distribution
  <2>4. PICK k \in 1 .. n : sl[g[k]].off = a + y
    BY <1>3, <1>5, <2>1, <2>2
  <2>5. (a + y) + s <= Size(sl[u].home)
    BY <1>3, <2>4 DEF Fit, InBlock
  <2>6. a + z <= Size(sl[u].home)
    BY <1>2, <1>4, <1>6, <2>3, <2>5
  <2> QED BY <1>2, <1>5, <2>6 DEF InBlock
<1>8. ASSUME NEW v \in DOMAIN r, v # u, sl[v].home = sl[u].home, sl[v].idx = sl[u].idx,
             a < sl[v].off + sl[v].len, sl[v].off < a + n * s
      PROVE  FALSE
  <2>1. PICK o, l : o = sl[v].off /\ l = sl[v].len
    OBVIOUS
  <2>2. o \in Nat /\ l \in Nat \ {0} /\ a < o + l /\ o < a + n * s
    BY <1>2, <1>4, <1>8, <2>1
  <2>3. PICK q \in 0 .. n - 1 : a + q * s < o + l /\ o < a + q * s + s
    BY <1>2, <1>6, <2>2, PartBetween
  <2>4. PICK k \in 1 .. n : sl[g[k]].off = a + q * s
    BY <1>3, <1>5
  <2>5. Overlap(sl[g[k]], sl[v])
    BY <1>3, <1>8, <2>1, <2>3, <2>4 DEF Overlap
  <2>6. g[k] \in DOMAIN sl /\ v \in DOMAIN sl /\ g[k] # v
    BY <1>2, <1>3, <1>8
  <2> QED BY <2>5, <2>6 DEF Fit
<1>9. ASSUME NEW v \in DOMAIN r, v # u
      PROVE  ~Overlap(r[u], r[v]) /\ ~Overlap(r[v], r[u])
  <2>1. r[v] = sl[v]
    BY <1>2, <1>9
  <2> QED BY <1>2, <1>5, <1>8, <1>9, <2>1 DEF Overlap
<1>10. ASSUME NEW v \in DOMAIN r
       PROVE  InBlock(r[v])
  BY <1>2, <1>7 DEF Fit
<1>11. ASSUME NEW v \in DOMAIN r, NEW w \in DOMAIN r, v # w
       PROVE  ~Overlap(r[v], r[w])
  <2>1. CASE v # u /\ w # u
    BY <1>2, <1>11, <2>1 DEF Fit
  <2>2. CASE v = u
    BY <1>9, <1>11, <2>2
  <2>3. CASE w = u
    BY <1>9, <1>11, <2>3
  <2> QED BY <2>1, <2>2, <2>3
<1> QED BY <1>10, <1>11 DEF Fit

(* Neighbours that are joined.                                             *)
LEMMA JoinedWhole ==
  ASSUME NEW h \in Heaps, NEW L, Whole(h, L), NEW c \in Chunks, L[c] = << >>,
         NEW g \in Seq(DOMAIN h.slot), g # << >>, Distinct(g),
         \A k \in 1 .. Len(g) : Unlisted(L, g[k]), NEW s \in Nat \ {0}, NEW x,
         \A k \in 1 .. Len(g) : h.slot[g[k]].len = s /\ h.slot[g[k]].idx = x,
         Size(c) = Len(g) * s
  PROVE  LET r == Joined(h, c, g)
         IN  r.tainted \/ (r.fault = h.fault /\ \E M : Whole(r, M))
<1>1. PICK r : r = Joined(h, c, g)
  OBVIOUS
<1>2. PICK i \in DOMAIN g : Lowest(h, g, i) /\ Joins(h, c, g, i, r)
  BY <1>1, Joining
<1> SUFFICES ASSUME ~r.tainted
             PROVE  r.fault = h.fault /\ \E M : Whole(r, M)
  BY <1>1
<1>3. PICK sl, D, u, n : sl = h.slot /\ D = DOMAIN h.slot /\ u = g[i] /\ n = Len(g)
  OBVIOUS
<1>4. g \in Seq(D) /\ DOMAIN g = 1 .. n /\ n \in Nat \ {0} /\ i \in 1 .. n /\ u \in D
  BY <1>2, <1>3
<1>5. Neighbours(h, g)
  BY <1>2 DEF Joins
<1>6. Row(sl, g, i, s)
  <2>1. \A k \in 1 .. Len(g) : h.slot[g[k]].len = s /\ h.slot[g[k]].idx = h.slot[g[i]].idx
    BY <1>3, <1>4
  <2> QED BY <1>2, <1>3, <1>5, <2>1, NeighboursRow
<1>7. DOMAIN r.slot = D \ {g[k] : k \in (1 .. n) \ {i}}
  BY <1>2, <1>3, <1>4 DEF Joins
<1>8. u \in DOMAIN r.slot
  <2>1. \A k \in (1 .. n) \ {i} : g[k] # u
    BY <1>3, <1>4 DEF Distinct
  <2> QED BY <1>4, <1>7, <2>1
<1>9. \A v \in DOMAIN r.slot : v # u => r.slot[v] = sl[v] /\ \A k \in 1 .. n : v # g[k]
  <2> SUFFICES ASSUME NEW v \in DOMAIN r.slot, v # u
               PROVE  r.slot[v] = sl[v] /\ \A k \in 1 .. n : v # g[k]
    OBVIOUS
  <2>1. r.slot[v] = sl[v]
    BY <1>2, <1>3 DEF Joins
  <2>2. \A k \in (1 .. n) \ {i} : v # g[k]
    BY <1>7
  <2> QED BY <1>3, <2>1, <2>2
<1>10. /\ r.slot[u].home = sl[u].home /\ r.slot[u].idx = sl[u].idx
       /\ r.slot[u].off = sl[u].off /\ r.slot[u].len = Size(c) /\ r.slot[u].next = h.empty[c]
  BY <1>2, <1>3, <1>8 DEF Joins
<1>11. Grown(sl, g, i, s, r.slot)
  BY <1>3, <1>7, <1>8, <1>9, <1>10 DEF Grown
<1>12. r \in Heaps /\ r.slot \in Stores /\ sl \in Stores
  BY <1>2, <1>3, HeapFacts DEF Joins
<1>13. Fit(r.slot)
  BY <1>3, <1>4, <1>6, <1>11, <1>12, GrownFit DEF Whole
<1>14. PICK hd : hd = Starts(h.empty, h.used)
  OBVIOUS
<1>15. hd \in [Places -> Pointers] /\ Shape(sl, hd, L) /\ c \in Places /\ Class(c) = c
       /\ hd[c] = h.empty[c]
  <2>1. h.empty \in [Chunks -> Pointers] /\ h.used \in [Chunks -> Pointers]
    BY HeapFacts
  <2> QED BY <1>3, <1>14, <2>1, StartFacts, PlaceFacts DEF Whole
<1>16. ASSUME NEW a \in Places, NEW k \in 1 .. Len(L[a])
       PROVE  L[a][k] \in DOMAIN r.slot /\ r.slot[L[a][k]] = sl[L[a][k]]
  <2>1. PICK v, w : v = L[a][k] /\ w = L[a]
    OBVIOUS
  <2>2. v \in D
    <3>1. w \in Seq(D) /\ k \in 1 .. Len(w) /\ v = w[k]
      BY <1>3, <1>15, <2>1 DEF Shape, ListAt
    <3> QED BY <3>1
  <2>3. \A l \in 1 .. n : g[l] # v
    BY <1>3, <2>1 DEF Unlisted, On
  <2>4. v \in DOMAIN r.slot /\ v # u
    BY <1>3, <1>4, <1>7, <2>2, <2>3
  <2> QED BY <1>9, <2>1, <2>4
<1>17. Shape(r.slot, hd, L)
  BY <1>12, <1>15, <1>16, Revising
<1>18. h.empty[c] = Null
  <2>1. ListAt(sl, Size(Class(c)), hd[c], L[c])
    BY <1>15 DEF Shape
  <2>2. Len(L[c]) = 0 /\ hd[c] = At(L[c], 1)
    BY <2>1 DEF ListAt
  <2> QED BY <1>15, <2>2 DEF At
<1>19. Unlisted(L, u)
  BY <1>3, <1>4
<1>20. Shape(r.slot, [hd EXCEPT ![c] = u], [L EXCEPT ![c] = <<u>>])
  BY <1>8, <1>10, <1>12, <1>15, <1>17, <1>18, <1>19, Founding
<1>21. Starts(r.empty, r.used) = [hd EXCEPT ![c] = u]
  <2>1. r.empty = [h.empty EXCEPT ![c] = u] /\ r.used = h.used
    BY <1>2, <1>3 DEF Joins
  <2>2. Becomes(hd, c, u, Starts(r.empty, r.used))
    BY <1>12, <1>14, <2>1, EmptyHead
  <2> QED BY <2>2 DEF Becomes
<1>22. PICK M : M = [L EXCEPT ![c] = <<u>>]
  OBVIOUS
<1>23. Kept(r.slot, live, M)
  <2> SUFFICES ASSUME NEW o \in live
               PROVE  \E d \in Chunks, v \in DOMAIN r.slot :
                        On(M[-d], v) /\ Extent(r.slot[v]) = o
    BY DEF Kept
  <2>1. PICK d \in Chunks, v \in D : On(L[-d], v) /\ Extent(sl[v]) = o
    BY <1>3 DEF Whole, Kept
  <2>2. M[-d] = L[-d]
    BY <1>15, <1>22, PlaceFacts DEF Shape
  <2>3. -d \in Places
    BY PlaceFacts
  <2>4. v \in DOMAIN r.slot /\ r.slot[v] = sl[v]
    BY <1>16, <2>1, <2>3 DEF On
  <2> QED BY <2>1, <2>2, <2>4
<1>24. Whole(r, M)
  BY <1>13, <1>20, <1>21, <1>22, <1>23 DEF Whole
<1>25. r.fault = h.fault
  BY <1>2 DEF Joins
<1> QED BY <1>24, <1>25

-----------------------------------------------------------------------------
(* An allocation keeps the heap sound.                                     *)

(* What a stage of mem_alloc may leave.                                    *)
Sound(r) == \/ r.tainted
            \/ /\ r.fault \notin {"wild", "hang"}
               /\ Ok(r) => \E M : Whole(r, M)

(* An empty list.                                                          *)
LEMMA EmptyList ==
  ASSUME NEW h \in Heaps, NEW L, Whole(h, L), NEW c \in Chunks
  PROVE  /\ ListAt(h.slot, Size(c), h.empty[c], L[c])
         /\ h.empty[c] = Null => L[c] = << >>
         /\ h.empty[c] # Null => Len(L[c]) \in Nat \ {0} /\ h.empty[c] = L[c][1]
<1>1. PICK w, sl, p, D : w = L[c] /\ sl = h.slot /\ p = h.empty[c] /\ D = DOMAIN h.slot
  OBVIOUS
<1>2. ListAt(sl, Size(c), p, w)
  <2>1. h.empty \in [Chunks -> Pointers] /\ h.used \in [Chunks -> Pointers]
    BY HeapFacts
  <2>2. Starts(h.empty, h.used)[c] = p
    BY <1>1, <2>1, StartFacts
  <2> QED BY <1>1, <2>2, PlaceFacts DEF Whole, Shape
<1>3. w \in Seq(D) /\ Len(w) \in Nat /\ p = At(w, 1) /\ Null \notin D
  <2>1. D \subseteq Ids
    BY <1>1, HeapFacts
  <2> QED BY <1>1, <1>2, <2>1 DEF ListAt, Ids, Null
<1>4. CASE w = << >>
  <2>1. p = Null
    BY <1>3, <1>4 DEF At
  <2> QED BY <1>1, <1>2, <1>4, <2>1
<1>5. CASE w # << >>
  <2>1. 1 \in 1 .. Len(w) /\ Len(w) # 0
    BY <1>3, <1>5
  <2>2. p = w[1] /\ w[1] \in D
    BY <1>3, <2>1 DEF At
  <2> QED BY <1>1, <1>2, <1>3, <2>1, <2>2
<1> QED BY <1>4, <1>5

(* What is picked from a list.                                             *)
LEMMA PickedDistinct ==
  ASSUME NEW S, NEW w \in Seq(S), Distinct(w), NEW g \in Seq(S), Picked(w, Len(w), g)
  PROVE  Distinct(g) /\ \A k \in 1 .. Len(g) : On(w, g[k])
<1>1. PICK n \in Nat : n = Len(g)
  OBVIOUS
<1>2. PICK at \in [1 .. n -> 1 .. Len(w)] :
        Increasing(at, n) /\ \A a \in 1 .. n : g[a] = w[at[a]]
  BY <1>1 DEF Picked
<1>3. \A k \in 1 .. n : at[k] \in 1 .. Len(w) /\ at[k] \in Nat
  <2>1. Len(w) \in Nat
    OBVIOUS
  <2> QED BY <1>2, <2>1
<1>4. ASSUME NEW i \in 1 .. n, NEW k \in 1 .. n, g[i] = g[k]
      PROVE  i = k
  <2>1. at[i] = at[k]
    BY <1>2, <1>3, <1>4 DEF Distinct
  <2>2. ~(i < k) /\ ~(k < i)
    BY <1>2, <1>3, <2>1 DEF Increasing
  <2> QED BY <1>1, <2>2
<1>5. \A k \in 1 .. n : On(w, g[k])
  BY <1>2, <1>3 DEF On
<1> QED BY <1>1, <1>4, <1>5 DEF Distinct

(* A merge from one class keeps the heap sound.                            *)
LEMMA MergeFromSound ==
  ASSUME NEW h \in Heaps, NEW L, Whole(h, L), Ok(h), NEW c \in Chunks, h.empty[c] = Null,
         NEW j \in Chunks, j # c
  PROVE  Sound(MergeFrom(h, c, j))
<1>1. PICK t, g, r : t = Group(h, c, j) /\ g = t.temp_slot /\ r = Removed(h, j, g)
  OBVIOUS
<1>2. PICK w, D, s : w = L[j] /\ D = DOMAIN h.slot /\ s = Size(j)
  OBVIOUS
<1>3. /\ w \in Seq(D) /\ Distinct(w) /\ \A k \in 1 .. Len(w) : h.slot[w[k]].len = s
      /\ Walk(h, h.empty[j]) = w /\ End(h, h.empty[j]) = Null
  <2>1. ListAt(h.slot, s, h.empty[j], w)
    BY <1>2, EmptyList
  <2>2. h.empty[j] \in Pointers
    BY HeapFacts
  <2>3. Walk(h, h.empty[j]) = w /\ End(h, h.empty[j]) = Null
    BY <2>1, <2>2, WalkIs
  <2> QED BY <1>2, <2>1, <2>3 DEF ListAt
<1>4. Collected(h, w, Len(w), t)
  BY <1>1, <1>3, Grouping
<1>5. /\ g \in Seq(D) /\ Picked(w, Len(w), g) /\ (g = << >> => t.size = 0)
      /\ \A k \in 1 .. Len(g) : h.slot[g[k]].idx = h.slot[w[1]].idx
      /\ t.size = Len(g) * s
  <2>1. s \in Nat
    BY <1>2, Constants
  <2> QED BY <1>1, <1>2, <1>3, <1>4, <2>1 DEF Collected
<1>6. PICK m, f, o, v : /\ m = MergeFrom(h, c, j) /\ f = Fault(h, "segv")
                        /\ o = Fault(h, "overread") /\ v = Joined(r, c, g)
  OBVIOUS
<1>7. m = f \/ m = h \/ m = o \/ m = r \/ (m = v /\ t.size = Size(c))
  BY <1>1, <1>3, <1>6 DEF MergeFrom
<1>8. Sound(f) /\ Sound(o)
  BY <1>6, Faulting DEF Sound, Ok, Faults
<1>9. Sound(h)
  BY DEF Sound, Ok
<1>10. PICK M : /\ Settled(h, L, r, M) /\ \A a \in Places \ {j} : M[a] = L[a]
                /\ \A k \in 1 .. Len(g) : Unlisted(M, g[k])
  <2>1. g \in Seq(Pointers)
    <3>1. D \subseteq Pointers
      BY <1>2, HeapFacts DEF Ids, Pointers
    <3> QED BY <1>5, <3>1
  <2> QED BY <1>1, <1>2, <1>5, <2>1, RemovedWhole
<1>11. Sound(r)
  BY <1>10 DEF Sound, Settled, Ok
<1>12. ASSUME t.size = Size(c)
       PROVE  Sound(v)
  <2>1. g # << >> /\ Size(c) = Len(g) * s /\ s \in Nat \ {0}
    BY <1>2, <1>5, <1>12, Constants
  <2>2. Distinct(g) /\ \A k \in 1 .. Len(g) : On(w, g[k])
    BY <1>3, <1>5, PickedDistinct
  <2>3. /\ r \in Heaps /\ DOMAIN r.slot = D /\ Whole(r, M) /\ r.fault = h.fault
        /\ \A k \in 1 .. Len(g) : r.slot[g[k]].len = s /\ r.slot[g[k]].idx = h.slot[w[1]].idx
    <3>1. \A k \in 1 .. Len(g) : g[k] \in D /\ h.slot[g[k]].len = s
      BY <1>3, <1>5, <2>2 DEF On
    <3> QED BY <1>2, <1>5, <1>10, <3>1 DEF Settled, Stays
  <2>4. M[c] = << >>
    <3>1. L[c] = << >>
      BY EmptyList
    <3> QED BY <1>10, <3>1, PlaceFacts
  <2>5. v.tainted \/ (v.fault = r.fault /\ \E K : Whole(v, K))
    <3>1. g \in Seq(DOMAIN r.slot)
      BY <1>5, <2>3
    <3> QED BY <1>6, <1>10, <2>1, <2>2, <2>3, <2>4, <3>1, JoinedWhole
  <2> QED BY <2>3, <2>5 DEF Sound, Ok
<1> QED BY <1>6, <1>7, <1>8, <1>9, <1>11, <1>12

(* So does one that tries all smaller classes.                             *)
LEMMA MergeSound ==
  ASSUME NEW h \in Heaps, Sound(h), NEW c \in Chunks
  PROVE  Sound(Merge(h, c))
<1>1. PICK met : /\ Attempts(h, c, met) /\ \A d \in 0 .. c - 1 : met[d] \in Heaps
                 /\ Merge(h, c) = met[c - 1]
  BY MergeIs
<1>2. PICK n \in Nat : n = c - 1
  BY Constants DEF Chunks
<1> DEFINE T == {d \in 0 .. n : Sound(met[d])}
<1>3. 0 \in T
  BY <1>1 DEF Attempts
<1>4. ASSUME NEW d \in 1 .. n, d - 1 \in T
      PROVE  d \in T
  <2>1. PICK x, y, j : x = met[d - 1] /\ y = met[d] /\ j = c - d
    OBVIOUS
  <2>2. x \in Heaps /\ Sound(x)
    BY <1>1, <1>2, <1>4, <2>1
  <2>3. j \in Chunks /\ j # c
    BY <1>2, <2>1, Constants DEF Chunks
  <2>4. y = IF x.empty[c] # Null \/ ~Ok(x) THEN x ELSE MergeFrom(x, c, j)
    <3>1. y = Attempted(c, x, d)
      BY <1>1, <1>2, <2>1 DEF Attempts
    <3> QED BY <2>1, <3>1 DEF Attempted
  <2>5. CASE x.empty[c] # Null \/ ~Ok(x)
    <3>1. y = x
      BY <2>4, <2>5, Zenon
    <3>2. Sound(y)
      BY <2>2, <3>1, Zenon
    <3> QED BY <2>1, <3>2
  <2>6. CASE x.empty[c] = Null /\ Ok(x)
    <3>1. y = MergeFrom(x, c, j)
      BY <2>4, <2>6
    <3>2. CASE x.tainted
      <4>1. y.tainted
        BY <2>2, <2>3, <3>1, <3>2, MergingFrom DEF Shrinks
      <4> QED BY <2>1, <4>1 DEF Sound
    <3>3. CASE ~x.tainted
      <4>1. PICK L : Whole(x, L)
        BY <2>2, <2>6, <3>3 DEF Sound
      <4>2. Sound(y)
        BY <2>2, <2>3, <2>6, <3>1, <4>1, MergeFromSound
      <4> QED BY <2>1, <4>2
    <3> QED BY <3>2, <3>3
  <2> QED BY <2>5, <2>6
<1>5. \A d \in 0 .. n : d \in T
  <2> HIDE DEF T
  <2> QED BY <1>3, <1>4, Preserved
<1>6. n \in T
  BY <1>5
<1> QED BY <1>1, <1>2, <1>6

(* A slot is cut into pieces.                                              *)
Pieces(sl, t, m, s, ids, r) ==
  /\ DOMAIN r = (DOMAIN sl \ {t}) \cup {ids[i] : i \in 1 .. m}
  /\ \A u \in DOMAIN sl \ {t} : r[u] = sl[u]
  /\ \A i \in 1 .. m : /\ r[ids[i]].home = sl[t].home /\ r[ids[i]].idx = sl[t].idx
                       /\ r[ids[i]].off = sl[t].off + (i - 1) * s /\ r[ids[i]].len = s

(* The pieces of a slot overlap neither with one another nor with other    *)
(* slots.                                                                  *)
LEMMA PiecesFit ==
  ASSUME NEW sl \in Stores, Fit(sl), NEW t \in DOMAIN sl, NEW m \in Nat \ {0},
         NEW s \in Nat \ {0}, sl[t].len = m * s, NEW ids, NEW r, Pieces(sl, t, m, s, ids, r)
  PROVE  Fit(r)
<1>1. PICK a, z : a = sl[t].off /\ z = m * s
  OBVIOUS
<1>2. \A v \in DOMAIN sl : /\ sl[v].off \in Nat /\ sl[v].len \in Nat \ {0}
                           /\ Size(sl[v].home) \in Nat
  <2> TAKE v \in DOMAIN sl
  <2>1. sl[v] \in Slot
    BY StoreFacts
  <2> QED BY <2>1, Constants DEF Slot
<1>3. a \in Nat /\ z \in Nat
  BY <1>1, <1>2, Distribution
<1>4. ASSUME NEW i \in 1 .. m
      PROVE  \E y \in Nat : /\ y = (i - 1) * s /\ r[ids[i]].off = a + y /\ y + s <= z
                            /\ y + s = i * s
  <2>1. PICK y : y = (i - 1) * s
    OBVIOUS
  <2>2. i - 1 \in Nat /\ (i - 1) + 1 = i /\ i \in Nat /\ i <= m
    OBVIOUS
  <2>3. y \in Nat /\ i * s = y + s
    BY <2>1, <2>2, Distribution
  <2>4. i * s <= z
    BY <1>1, <2>2, Ordered
  <2> QED BY <1>1, <2>1, <2>3, <2>4 DEF Pieces
<1>5. \A u \in DOMAIN r : u \in DOMAIN sl \ {t} \/ \E i \in 1 .. m : u = ids[i]
  BY DEF Pieces
<1>6. ASSUME NEW i \in 1 .. m
      PROVE  InBlock(r[ids[i]])
  <2>1. PICK y \in Nat : r[ids[i]].off = a + y /\ y + s <= z
    BY <1>4
  <2>2. a + z <= Size(sl[t].home)
    BY <1>1 DEF Fit, InBlock
  <2>3. (a + y) + s <= Size(sl[t].home)
    BY <1>2, <1>3, <2>1, <2>2
  <2> QED BY <2>1, <2>3 DEF InBlock, Pieces
<1>7. ASSUME NEW i \in 1 .. m, NEW v \in DOMAIN sl \ {t}
      PROVE  ~Overlap(r[ids[i]], r[v]) /\ ~Overlap(r[v], r[ids[i]])
  <2>1. PICK y \in Nat : r[ids[i]].off = a + y /\ y + s <= z
    BY <1>4
  <2>2. ~Overlap(sl[t], sl[v])
    BY DEF Fit
  <2>3. PICK x : x = r[ids[i]] /\ x.home = sl[t].home /\ x.idx = sl[t].idx /\ x.len = s
                 /\ x.off = a + y
    BY <2>1 DEF Pieces
  <2>4. r[v] = sl[v]
    BY DEF Pieces
  <2>5. PICK o, l : o = sl[v].off /\ l = sl[v].len /\ o \in Nat /\ l \in Nat
    BY <1>2
  <2>6. ~(sl[t].home = sl[v].home /\ sl[t].idx = sl[v].idx /\ a < o + l /\ o < a + z)
    BY <1>1, <2>2, <2>5 DEF Overlap
  <2>7. a + y < o + l /\ o < (a + y) + s => a < o + l /\ o < a + z
    BY <1>3, <2>1, <2>5
  <2> QED BY <2>3, <2>4, <2>5, <2>6, <2>7 DEF Overlap
<1>8. ASSUME NEW i \in 1 .. m, NEW l \in 1 .. m, i < l
      PROVE  ~Overlap(r[ids[i]], r[ids[l]]) /\ ~Overlap(r[ids[l]], r[ids[i]])
  <2>1. PICK y \in Nat : r[ids[i]].off = a + y /\ y + s = i * s
    BY <1>4
  <2>2. PICK x \in Nat : r[ids[l]].off = a + x /\ x = (l - 1) * s
    BY <1>4
  <2>3. i \in Nat /\ l - 1 \in Nat /\ i <= l - 1
    BY <1>8
  <2>4. y + s <= x
    BY <2>1, <2>2, <2>3, Ordered
  <2>5. ~(a + x < (a + y) + s)
    BY <1>3, <2>4
  <2>6. r[ids[i]].len = s
    BY DEF Pieces
  <2> QED BY <2>1, <2>2, <2>5, <2>6 DEF Overlap
<1>9. ASSUME NEW u \in DOMAIN r
      PROVE  InBlock(r[u])
  <2>1. ASSUME u \in DOMAIN sl \ {t}
        PROVE  InBlock(r[u])
    BY <2>1 DEF Pieces, Fit
  <2> QED BY <1>5, <1>6, <2>1
<1>10. ASSUME NEW u \in DOMAIN r, NEW v \in DOMAIN r, u # v
       PROVE  ~Overlap(r[u], r[v])
  <2>1. CASE u \in DOMAIN sl \ {t} /\ v \in DOMAIN sl \ {t}
    <3>1. r[u] = sl[u] /\ r[v] = sl[v]
      BY <2>1 DEF Pieces
    <3> QED BY <1>10, <2>1, <3>1 DEF Fit
  <2>2. ASSUME NEW i \in 1 .. m, u = ids[i], v \in DOMAIN sl \ {t}
        PROVE  ~Overlap(r[u], r[v])
    BY <1>7, <2>2
  <2>3. ASSUME NEW i \in 1 .. m, v = ids[i], u \in DOMAIN sl \ {t}
        PROVE  ~Overlap(r[u], r[v])
    BY <1>7, <2>3
  <2>4. ASSUME NEW i \in 1 .. m, u = ids[i], NEW l \in 1 .. m, v = ids[l]
        PROVE  ~Overlap(r[u], r[v])
    <3>1. i < l \/ l < i
      BY <1>10, <2>4
    <3> QED BY <1>8, <2>4, <3>1
  <2> QED BY <1>5, <2>1, <2>2, <2>3, <2>4
<1> QED BY <1>9, <1>10 DEF Fit

(* The pieces in the order of the list: the last one first.                *)
Reversed(ids, m) == [i \in 1 .. m |-> ids[m + 1 - i]]

IsReversed(ids, m, x) ==
  /\ Len(x) = m
  /\ \A i \in 1 .. m : x[i] = ids[m + 1 - i]
  /\ \A u : On(x, u) <=> \E i \in 1 .. m : ids[i] = u
  /\ Distinct(x)

(* The elements of the list of pieces.                                     *)
LEMMA ReversedIs ==
  ASSUME NEW S, NEW m \in Nat, NEW ids \in [1 .. m -> S],
         \A i, l \in 1 .. m : ids[i] = ids[l] => i = l, NEW x, x = Reversed(ids, m)
  PROVE  x \in Seq(S) /\ IsReversed(ids, m, x)
<1>1. \A i \in 1 .. m : m + 1 - i \in 1 .. m /\ m + 1 - (m + 1 - i) = i
  OBVIOUS
<1>2. x \in [1 .. m -> S] /\ \A i \in 1 .. m : x[i] = ids[m + 1 - i]
  BY <1>1 DEF Reversed
<1>3. x \in Seq(S) /\ Len(x) = m
  BY <1>2, IntervalSeq
<1>4. ASSUME NEW u
      PROVE  On(x, u) <=> \E i \in 1 .. m : ids[i] = u
  <2>1. On(x, u) => \E i \in 1 .. m : ids[i] = u
    BY <1>1, <1>2, <1>3 DEF On
  <2>2. ASSUME NEW i \in 1 .. m, ids[i] = u
        PROVE  On(x, u)
    <3>1. x[m + 1 - i] = u /\ m + 1 - i \in 1 .. Len(x)
      BY <1>1, <1>2, <1>3, <2>2
    <3> QED BY <3>1 DEF On
  <2> QED BY <2>1, <2>2
<1>5. ASSUME NEW i \in 1 .. m, NEW l \in 1 .. m, x[i] = x[l]
      PROVE  i = l
  <2>1. m + 1 - i = m + 1 - l
    BY <1>1, <1>2, <1>5
  <2> QED BY <2>1
<1>6. Distinct(x)
  BY <1>3, <1>5 DEF Distinct
<1> QED BY <1>2, <1>3, <1>4, <1>6 DEF IsReversed

(* The first slot leaves an empty list.                                    *)
LEMMA Heading ==
  ASSUME NEW h \in Heaps, NEW L, Whole(h, L), NEW c \in Chunks, NEW u, u = h.empty[c],
         u \in DOMAIN h.slot
  PROVE  /\ h.slot[u].next \in Pointers /\ h.slot[u].len = Size(c)
         /\ \E K, hd : /\ Becomes(Starts(h.empty, h.used), c, h.slot[u].next, hd)
                       /\ Shape(h.slot, hd, K) /\ Unlisted(K, u)
                       /\ \A a \in Places \ {c} : K[a] = L[a]
<1>1. PICK sl, D, w, st : /\ sl = h.slot /\ D = DOMAIN h.slot /\ w = L[c]
                          /\ st = Starts(h.empty, h.used)
  OBVIOUS
<1>2. /\ sl \in Stores /\ st \in [Places -> Pointers] /\ Shape(sl, st, L)
      /\ c \in Places /\ Class(c) = c
  <2>1. h.empty \in [Chunks -> Pointers] /\ h.used \in [Chunks -> Pointers]
    BY HeapFacts
  <2> QED BY <1>1, <2>1, StartFacts, PlaceFacts, HeapFacts DEF Whole
<1>3. ListAt(sl, Size(c), u, w) /\ Len(w) \in Nat \ {0} /\ u = w[1] /\ u \in D
  <2>1. u # Null
    BY HeapFacts DEF Ids, Null
  <2> QED BY <1>1, <2>1, EmptyList
<1>4. sl[u].next = At(w, 2) /\ sl[u].len = Size(c)
  <2>1. 1 \in 1 .. Len(w) /\ 1 + 1 = 2
    BY <1>3
  <2> QED BY <1>3, <2>1 DEF ListAt
<1>5. PICK p, hd, K : /\ p = sl[u].next /\ hd = [st EXCEPT ![c] = p]
                      /\ K = [L EXCEPT ![c] = Rest(w, 1)]
  OBVIOUS
<1>6. Shape(sl, hd, K) /\ p \in Pointers /\ ~On(Rest(w, 1), u)
  <2>1. 1 \in 0 .. Len(L[c]) /\ 1 \in 1 .. 1 /\ 1 + 1 = 2
    BY <1>1, <1>3
  <2>2. /\ At(L[c], 2) \in Pointers
        /\ Shape(sl, [st EXCEPT ![c] = At(L[c], 2)], [L EXCEPT ![c] = Rest(L[c], 1)])
        /\ ~On(Rest(L[c], 1), L[c][1])
    BY <1>2, <2>1, Skipping
  <2> QED BY <1>1, <1>3, <1>4, <1>5, <2>2
<1>7. K[c] = Rest(w, 1) /\ \A a \in Places \ {c} : K[a] = L[a]
  BY <1>2, <1>5 DEF Shape
<1>8. Unlisted(K, u)
  <2> SUFFICES ASSUME NEW a \in Places
               PROVE  ~On(K[a], u)
    BY DEF Unlisted
  <2>1. CASE a = c
    BY <1>6, <1>7, <2>1
  <2>2. CASE a # c
    <3>1. K[a] = L[a] /\ 1 \in 1 .. Len(L[c])
      BY <1>1, <1>3, <1>7, <2>2
    <3>2. \A i \in 1 .. Len(L[a]) : L[a][i] # L[c][1]
      BY <1>2, <2>2, <3>1 DEF Shape, Apart
    <3> QED BY <1>1, <1>3, <3>1, <3>2 DEF On
  <2> QED BY <2>1, <2>2
<1>9. Becomes(st, c, p, hd)
  BY <1>5 DEF Becomes
<1> QED BY <1>1, <1>4, <1>5, <1>6, <1>7, <1>8, <1>9

(* A split leaves the heap whole, with its pieces in the empty list that   *)
(* had none.                                                               *)
LEMMA SplitWhole ==
  ASSUME NEW h \in Heaps, NEW L, Whole(h, L), NEW c \in Chunks, h.empty[c] = Null,
         NEW k \in Chunks, k # c, h.empty[k] \in DOMAIN h.slot, NEW m \in Nat \ {0},
         Size(k) = m * Size(c), NEW ids, Fresh(h, m, ids), NEW r, Splits(h, c, k, m, ids, r)
  PROVE  \E M : Whole(r, M)
<1>1. PICK sl, D, t, s, hd : /\ sl = h.slot /\ D = DOMAIN h.slot /\ t = h.empty[k]
                             /\ s = Size(c) /\ hd = Starts(h.empty, h.used)
  OBVIOUS
<1>2. /\ r \in Heaps /\ r.used = h.used
      /\ r.empty = [[h.empty EXCEPT ![k] = sl[t].next] EXCEPT ![c] = ids[m]]
      /\ DOMAIN r.slot = (D \ {t}) \cup {ids[i] : i \in 1 .. m}
      /\ \A u \in D \ {t} : r.slot[u] = sl[u]
      /\ \A i \in 1 .. m :
           /\ r.slot[ids[i]].home = sl[t].home /\ r.slot[ids[i]].idx = sl[t].idx
           /\ r.slot[ids[i]].off = sl[t].off + (i - 1) * s
           /\ r.slot[ids[i]].len = s
           /\ r.slot[ids[i]].next = IF i = 1 THEN h.empty[c] ELSE ids[i - 1]
  BY <1>1 DEF Splits
<1>3. /\ ids \in [1 .. m -> Ids \ D] /\ \A i, l \in 1 .. m : ids[i] = ids[l] => i = l
  BY <1>1 DEF Fresh
<1>4. /\ sl \in Stores /\ r.slot \in Stores /\ hd \in [Places -> Pointers] /\ Shape(sl, hd, L)
      /\ c \in Places /\ k \in Places /\ Class(c) = c /\ Class(k) = k
  <2>1. h.empty \in [Chunks -> Pointers] /\ h.used \in [Chunks -> Pointers]
    BY HeapFacts
  <2> QED BY <1>1, <1>2, <2>1, StartFacts, PlaceFacts, HeapFacts DEF Whole
<1>5. PICK p : p = sl[t].next /\ p \in Pointers /\ sl[t].len = m * s /\ t \in D
  BY <1>1, Heading
<1>6. PICK K, hd1 : /\ Becomes(hd, k, p, hd1) /\ Shape(sl, hd1, K) /\ Unlisted(K, t)
                    /\ \A a \in Places \ {k} : K[a] = L[a]
  BY <1>1, <1>5, Heading
<1>7. hd1 = [hd EXCEPT ![k] = p] /\ hd1 \in [Places -> Pointers]
  BY <1>4, <1>5, <1>6 DEF Becomes
<1>8. \A a \in Places : \A i \in 1 .. Len(K[a]) : K[a][i] \in D \ {t}
  <2> TAKE a \in Places
  <2> TAKE i \in 1 .. Len(K[a])
  <2>1. PICK y : y = K[a]
    OBVIOUS
  <2>2. y \in Seq(D) /\ i \in 1 .. Len(y)
    BY <1>1, <1>6, <2>1 DEF Shape, ListAt
  <2>3. y[i] \in D
    BY <2>2
  <2>4. y[i] # t
    BY <1>6, <2>1, <2>2 DEF Unlisted, On
  <2> QED BY <2>1, <2>3, <2>4
<1>9. PICK x : x = Reversed(ids, m)
  OBVIOUS
<1>10. x \in Seq(Ids) /\ IsReversed(ids, m, x)
  <2>1. ids \in [1 .. m -> Ids] /\ m \in Nat
    BY <1>3
  <2> QED BY <1>3, <1>9, <2>1, ReversedIs
<1>11. /\ Len(x) = m /\ \A i \in 1 .. m : x[i] = ids[m + 1 - i]
       /\ \A u : On(x, u) <=> \E i \in 1 .. m : ids[i] = u
       /\ Distinct(x)
  BY <1>10 DEF IsReversed
<1>12. ListAt(r.slot, s, ids[m], x)
  <2>1. x \in Seq(DOMAIN r.slot)
    <3>1. \A i \in 1 .. Len(x) : x[i] \in DOMAIN r.slot
      BY <1>2, <1>11 DEF On
    <3> QED BY <1>10, <3>1
  <2>2. ids[m] = At(x, 1)
    <3>1. 1 \in 1 .. m /\ m + 1 - 1 = m
      OBVIOUS
    <3> QED BY <1>11, <3>1 DEF At
  <2>3. ASSUME NEW i \in 1 .. Len(x)
        PROVE  r.slot[x[i]].next = At(x, i + 1) /\ r.slot[x[i]].len = s
    <3>1. PICK l : l = m + 1 - i
      OBVIOUS
    <3>2. l \in 1 .. m /\ x[i] = ids[l]
      BY <1>11, <3>1
    <3>3. CASE l = 1
      <4>1. i + 1 \notin 1 .. Len(x)
        BY <1>11, <3>1, <3>3
      <4> QED BY <1>2, <3>2, <3>3, <4>1 DEF At
    <3>4. CASE l # 1
      <4>1. i + 1 \in 1 .. m /\ m + 1 - (i + 1) = l - 1
        BY <1>11, <3>1, <3>2, <3>4
      <4>2. At(x, i + 1) = ids[l - 1]
        BY <1>11, <4>1 DEF At
      <4> QED BY <1>2, <3>2, <3>4, <4>2
    <3> QED BY <3>3, <3>4
  <2> QED BY <1>11, <2>1, <2>2, <2>3 DEF ListAt
<1>13. Shape(r.slot, [hd1 EXCEPT ![c] = ids[m]], [K EXCEPT ![c] = x])
  <2>1. ASSUME NEW b \in Places \ {c}, NEW i \in 1 .. Len(K[b])
        PROVE  ~On(x, K[b][i]) /\ K[b][i] \in DOMAIN r.slot /\ r.slot[K[b][i]] = sl[K[b][i]]
    <3>1. K[b][i] \in D \ {t}
      BY <1>8
    <3>2. ~On(x, K[b][i])
      BY <1>3, <1>11, <3>1
    <3> QED BY <1>2, <3>1, <3>2
  <2>2. ids[m] \in Pointers
    BY <1>3 DEF Ids, Pointers
  <2> QED BY <1>1, <1>4, <1>6, <1>7, <1>12, <2>1, <2>2, Replacing
<1>14. Starts(r.empty, r.used) = [hd1 EXCEPT ![c] = ids[m]]
  <2>1. PICK e, us, e1, f : /\ e = h.empty /\ us = h.used /\ e1 = [e EXCEPT ![k] = p]
                            /\ f = r.empty
    OBVIOUS
  <2>2. e \in [Chunks -> Pointers] /\ us \in [Chunks -> Pointers] /\ f \in [Chunks -> Pointers]
    BY <1>2, <2>1, HeapFacts
  <2>3. e1 \in [Chunks -> Pointers] /\ e1[k] = p /\ \A b \in Chunks \ {k} : e1[b] = e[b]
    BY <1>5, <2>1, <2>2
  <2>4. Becomes(Starts(e, us), k, e1[k], Starts(e1, us))
    BY <2>2, <2>3, EmptyStart
  <2>5. Starts(e1, us) = hd1
    BY <1>1, <1>7, <2>1, <2>3, <2>4 DEF Becomes
  <2>6. f = [e1 EXCEPT ![c] = ids[m]]
    BY <1>1, <1>2, <1>5, <2>1
  <2>7. f[c] = ids[m] /\ \A b \in Chunks \ {c} : f[b] = e1[b]
    BY <2>3, <2>6
  <2>8. Becomes(Starts(e1, us), c, f[c], Starts(f, us))
    BY <2>2, <2>3, <2>7, EmptyStart
  <2> QED BY <1>2, <2>1, <2>5, <2>7, <2>8 DEF Becomes
<1>15. PICK M : M = [K EXCEPT ![c] = x]
  OBVIOUS
<1>16. \A d \in Chunks : M[-d] = L[-d] /\ -d \in Places
  <2>1. \A d \in Chunks : -d \in Places /\ -d # k /\ -d # c
    <3>1. k > 0 /\ c > 0 /\ \A d \in Chunks : -d \in Places /\ ~(-d > 0)
      BY PlaceFacts
    <3> QED BY <3>1
  <2> QED BY <1>4, <1>6, <1>15, <2>1 DEF Shape
<1>17. Fit(r.slot)
  <2>1. Pieces(sl, t, m, s, ids, r.slot)
    BY <1>1, <1>2 DEF Pieces
  <2> QED BY <1>1, <1>4, <1>5, <2>1, Constants, PiecesFit DEF Whole
<1>18. Kept(r.slot, live, M)
  <2> SUFFICES ASSUME NEW o \in live
               PROVE  \E d \in Chunks, v \in DOMAIN r.slot :
                        On(M[-d], v) /\ Extent(r.slot[v]) = o
    BY DEF Kept
  <2>1. PICK d \in Chunks, v \in D : On(L[-d], v) /\ Extent(sl[v]) = o
    BY <1>1 DEF Whole, Kept
  <2>2. v # t
    <3>1. -d \in Places /\ -d # k
      <4>1. ~(-d > 0) /\ k > 0 /\ -d \in Places
        BY PlaceFacts
      <4> QED BY <4>1
    <3>2. On(K[-d], v)
      BY <1>6, <2>1, <3>1
    <3> QED BY <1>6, <3>1, <3>2 DEF Unlisted
  <2>3. v \in DOMAIN r.slot /\ r.slot[v] = sl[v]
    BY <1>2, <2>2
  <2> QED BY <1>16, <2>1, <2>3
<1>19. Whole(r, M)
  BY <1>13, <1>14, <1>15, <1>17, <1>18 DEF Whole
<1> QED BY <1>19

(* An empty list starts with a slot, or does not.                          *)
LEMMA HeadKnown ==
  ASSUME NEW h \in Heaps, NEW L, Whole(h, L), NEW c \in Chunks, h.empty[c] # Null
  PROVE  h.empty[c] \in DOMAIN h.slot
<1>1. PICK w, D : w = L[c] /\ D = DOMAIN h.slot
  OBVIOUS
<1>2. w \in Seq(D) /\ Len(w) \in Nat \ {0} /\ h.empty[c] = w[1]
  BY <1>1, EmptyList DEF ListAt
<1>3. w[1] \in D
  BY <1>2
<1> QED BY <1>1, <1>2, <1>3

(* A heap with a fault is sound if it is tainted, or the fault is no wild  *)
(* access and no hang.                                                     *)
LEMMA FaultSound ==
  ASSUME NEW h \in Heaps, NEW f \in Faults \ {"none"}, h.tainted \/ f \notin {"wild", "hang"}
  PROVE  Sound(Fault(h, f))
<1>1. PICK r : r = Fault(h, f)
  OBVIOUS
<1>2. r.fault = f /\ r.tainted = h.tainted
  BY <1>1, Faulting
<1> QED BY <1>1, <1>2 DEF Sound, Ok

(* A split keeps the heap sound.                                           *)
LEMMA SplitSound ==
  ASSUME NEW h \in Heaps, Sound(h), Ok(h), NEW c \in Chunks, h.empty[c] = Null,
         NEW k \in c + 1 .. NumChunks, Room(h)
  PROVE  Sound(Split(h, c, k))
<1>1. PICK r : r = Split(h, c, k)
  OBVIOUS
<1>2. k \in Chunks /\ k # c
  BY Constants DEF Chunks
<1>3. CASE h.empty[k] = Null /\ r = Fault(h, "segv")
  BY <1>1, <1>3, FaultSound DEF Faults
<1>4. CASE h.empty[k] \notin DOMAIN h.slot /\ h.empty[k] # Null /\ r = Fault(h, "wild")
  <2>1. h.tainted
    <3> SUFFICES ASSUME ~h.tainted
                 PROVE  FALSE
      OBVIOUS
    <3>1. PICK L : Whole(h, L)
      BY DEF Sound
    <3> QED BY <1>2, <1>4, <3>1, HeadKnown
  <2> QED BY <1>1, <1>4, <2>1, FaultSound DEF Faults
<1>5. ASSUME h.empty[k] \in DOMAIN h.slot, NEW m \in Nat \ {0}, NEW ids, Size(k) = m * Size(c),
             Fresh(h, m, ids), Splits(h, c, k, m, ids, r)
      PROVE  Sound(r)
  <2>1. r.fault = h.fault /\ r.tainted = h.tainted
    BY <1>5 DEF Splits
  <2>2. CASE h.tainted
    BY <2>1, <2>2 DEF Sound
  <2>3. CASE ~h.tainted
    <3>1. PICK L : Whole(h, L)
      BY <2>3 DEF Sound
    <3>2. \E M : Whole(r, M)
      BY <1>2, <1>5, <3>1, SplitWhole
    <3>3. r.fault = "none"
      BY <2>1 DEF Ok
    <3> QED BY <3>2, <3>3 DEF Sound
  <2> QED BY <2>2, <2>3
<1> QED BY <1>1, <1>3, <1>4, <1>5, SplitOrFault

(* So does whatever mem_alloc borrows from other classes.                  *)
LEMMA BorrowedSound ==
  ASSUME NEW h \in Heaps, Sound(h), NEW c \in Chunks, Room(h)
  PROVE  Sound(Borrowed(h, c))
<1>1. PICK r : r = Borrowed(h, c)
  OBVIOUS
<1>2. CASE ~Ok(h)
  <2>1. r = h
    BY <1>1, <1>2 DEF Borrowed
  <2> QED BY <1>1, <2>1
<1>3. CASE Ok(h) /\ h.empty[c] # Null
  <2>1. CASE h.empty[c] \in DOMAIN h.slot
    <3>1. r = h
      BY <1>1, <1>3, <2>1 DEF Borrowed
    <3> QED BY <1>1, <3>1
  <2>2. CASE h.empty[c] \notin DOMAIN h.slot
    <3>1. r = Fault(h, "wild")
      BY <1>1, <1>3, <2>2 DEF Borrowed
    <3>2. h.tainted
      <4> SUFFICES ASSUME ~h.tainted
                   PROVE  FALSE
        OBVIOUS
      <4>1. PICK L : Whole(h, L)
        BY <1>3 DEF Sound
      <4> QED BY <1>3, <2>2, <4>1, HeadKnown
    <3>3. Sound(Fault(h, "wild"))
      BY <3>2, FaultSound DEF Faults
    <3> QED BY <1>1, <3>1, <3>3
  <2> QED BY <2>1, <2>2
<1>4. CASE Ok(h) /\ h.empty[c] = Null /\ Lenders(h, c) = {}
  <2>1. r = h
    BY <1>1, <1>4 DEF Borrowed
  <2> QED BY <1>1, <2>1
<1>5. CASE Ok(h) /\ h.empty[c] = Null /\ Lenders(h, c) # {}
  <2>1. PICK k \in Lenders(h, c) : Borrow(h, c) = Split(h, c, k)
    BY <1>5, LenderExists
  <2>2. k \in c + 1 .. NumChunks
    BY DEF Lenders
  <2>3. r = Split(h, c, k)
    BY <1>1, <1>5, <2>1 DEF Borrowed
  <2>4. Sound(Split(h, c, k))
    BY <1>5, <2>2, SplitSound
  <2> QED BY <1>1, <2>3, <2>4
<1> QED BY <1>2, <1>3, <1>4, <1>5

(* What an allocation prepares is sound.                                   *)
LEMMA PreparedSound ==
  ASSUME NEW h \in Heaps, Sound(h), Ok(h), NEW c \in Chunks, Room(h)
  PROVE  Sound(Borrowed(Merged(Swept(h, c), c), c))
<1>1. PICK s, m : s = Swept(h, c) /\ m = Merged(s, c)
  OBVIOUS
<1>2. Shrinks(h, s) /\ Sound(s)
  <2>1. CASE ~NeedsSweep(h, c)
    <3>1. s = h
      BY <1>1, <2>1 DEF Swept
    <3> QED BY <3>1 DEF Shrinks
  <2>2. CASE NeedsSweep(h, c)
    <3>1. s = Sweep(h, c)
      BY <1>1, <2>2 DEF Swept
    <3>2. Shrinks(h, s)
      BY <3>1, Sweeping DEF Shrinks, Stays
    <3>3. CASE h.tainted
      BY <3>2, <3>3 DEF Shrinks, Sound
    <3>4. CASE ~h.tainted
      <4>1. PICK L : Whole(h, L)
        BY <3>4 DEF Sound
      <4>2. s.tainted \/ (Ok(s) /\ \E M : Whole(s, M))
        BY <3>1, <4>1, SweepWhole
      <4>3. Sound(s)
        BY <4>2 DEF Sound, Ok
      <4> QED BY <3>2, <4>3
    <3> QED BY <3>2, <3>3, <3>4
  <2> QED BY <2>1, <2>2
<1>3. s \in Heaps
  BY <1>2 DEF Shrinks
<1>4. Shrinks(s, m) /\ Sound(m)
  <2>1. CASE s.empty[c] = Null /\ Ok(s)
    <3>1. m = Merge(s, c)
      BY <1>1, <2>1 DEF Merged
    <3>2. Shrinks(s, Merge(s, c)) /\ Sound(Merge(s, c))
      BY <1>2, <1>3, Merging, MergeSound
    <3> QED BY <3>1, <3>2
  <2>2. CASE ~(s.empty[c] = Null /\ Ok(s))
    <3>1. m = s
      BY <1>1, <2>2 DEF Merged
    <3> QED BY <1>2, <1>3, <3>1 DEF Shrinks
  <2> QED BY <2>1, <2>2
<1>5. m \in Heaps /\ Room(m)
  <2>1. Shrinks(h, m)
    BY <1>2, <1>4 DEF Shrinks
  <2> QED BY <2>1, NoGrowth DEF Shrinks
<1>6. Sound(Borrowed(m, c))
  BY <1>4, <1>5, BorrowedSound
<1> QED BY <1>1, <1>6

(* The slot that is taken keeps its memory for the object.                 *)
LEMMA TakenWhole ==
  ASSUME NEW h \in Heaps, NEW L, Whole(h, L), NEW c \in Chunks, NEW u, u = h.empty[c],
         u \in DOMAIN h.slot, NEW r, r = Taken(h, c)
  PROVE  /\ r.fault = h.fault /\ r.tainted = h.tainted /\ Fit(r.slot)
         /\ \E M : /\ Shape(r.slot, Starts(r.empty, r.used), M)
                   /\ Kept(r.slot, live \cup {Extent(h.slot[u])}, M)
<1>1. PICK sl, D, st : sl = h.slot /\ D = DOMAIN h.slot /\ st = Starts(h.empty, h.used)
  OBVIOUS
<1>2. PICK p, q : p = sl[u].next /\ q = h.used[c] /\ p \in Pointers /\ q \in Pointers
                  /\ u \in Pointers /\ sl[u].len = Size(c)
  BY <1>1, Heading, HeapFacts DEF Ids, Pointers
<1>3. PICK K, hd : /\ Becomes(st, c, p, hd) /\ Shape(sl, hd, K) /\ Unlisted(K, u)
                   /\ \A a \in Places \ {c} : K[a] = L[a]
  BY <1>1, <1>2, Heading
<1>4. Relisted(h, r, Relink(sl, u, q), [h.empty EXCEPT ![c] = p], [h.used EXCEPT ![c] = u])
  BY <1>1, <1>2, TakingFirst
<1>5. PICK e, us, e1, us1 : /\ e = h.empty /\ us = h.used /\ e1 = r.empty /\ us1 = r.used
  OBVIOUS
<1>6. /\ e \in [Chunks -> Pointers] /\ us \in [Chunks -> Pointers]
      /\ e1 \in [Chunks -> Pointers] /\ us1 \in [Chunks -> Pointers]
      /\ e1[c] = p /\ us1[c] = u
      /\ \A b \in Chunks \ {c} : e1[b] = e[b] /\ us1[b] = us[b]
  BY <1>2, <1>4, <1>5, HeapFacts DEF Relisted
<1>7. hd = Starts(e1, us) /\ hd \in [Places -> Pointers] /\ hd[-c] = q
  <2>1. Becomes(st, c, e1[c], Starts(e1, us))
    BY <1>1, <1>5, <1>6, EmptyStart
  <2>2. hd = Starts(e1, us)
    BY <1>3, <1>6, <2>1 DEF Becomes
  <2> QED BY <1>2, <1>5, <1>6, <2>2, StartFacts
<1>8. PICK a : a = -c /\ a \in Places /\ Class(a) = c /\ a # c
  BY PlaceFacts
<1>9. PICK hd2, M : hd2 = [hd EXCEPT ![a] = u] /\ M = [K EXCEPT ![a] = Pushed(u, K[a])]
  OBVIOUS
<1>10. Shape(Relink(sl, u, q), hd2, M)
  <2>1. Shape(Relink(sl, u, hd[a]), [hd EXCEPT ![a] = u], [K EXCEPT ![a] = Pushed(u, K[a])])
    BY <1>1, <1>2, <1>3, <1>7, <1>8, HeapFacts, Pushing
  <2> QED BY <1>7, <1>8, <1>9, <2>1
<1>11. Starts(r.empty, r.used) = hd2
  <2>1. Becomes(Starts(e1, us), -c, us1[c], Starts(e1, us1))
    BY <1>6, UsedStart
  <2> QED BY <1>5, <1>6, <1>7, <1>8, <1>9, <2>1 DEF Becomes
<1>12. Stays(sl, r.slot) /\ r.slot = Relink(sl, u, q)
  BY <1>1, <1>2, <1>4, HeapFacts, Relinking DEF Relisted
<1>13. Fit(r.slot)
  BY <1>1, <1>12, FitStays DEF Whole
<1>14. /\ \A d \in Chunks \ {c} : M[-d] = L[-d]
       /\ \A v : On(M[a], v) <=> v = u \/ On(L[a], v)
  <2>1. DOMAIN K = Places /\ M[a] = Pushed(u, L[a])
    BY <1>3, <1>8, <1>9 DEF Shape
  <2>2. ASSUME NEW d \in Chunks \ {c}
        PROVE  M[-d] = L[-d]
    <3>1. -d \in Places /\ -d # a /\ -d # c
      <4>1. -(-d) = d /\ -(-c) = c /\ ~(-d > 0) /\ c > 0 /\ -d \in Places
        BY PlaceFacts
      <4> QED BY <1>8, <4>1
    <3> QED BY <1>3, <1>9, <2>1, <3>1
  <2>3. \A v : On(M[a], v) <=> v = u \/ On(L[a], v)
    <3>1. PICK y, x : y = L[a] /\ x = Pushed(u, y)
      OBVIOUS
    <3>2. y \in Seq(D) /\ u \in D
      BY <1>1, <1>8, <3>1 DEF Whole, Shape, ListAt
    <3>3. IsPushed(u, y, x)
      BY <3>1, <3>2, PushedIs
    <3> QED BY <2>1, <3>1, <3>3 DEF IsPushed
  <2> QED BY <2>2, <2>3
<1>15. ASSUME NEW o \in live \cup {Extent(sl[u])}
       PROVE  \E d \in Chunks, v \in DOMAIN r.slot : On(M[-d], v) /\ Extent(r.slot[v]) = o
  <2>1. \A v \in D : v \in DOMAIN r.slot /\ Extent(r.slot[v]) = Extent(sl[v])
    BY <1>1, <1>12 DEF Stays, Extent
  <2>2. CASE o = Extent(sl[u])
    <3>1. On(M[-c], u)
      BY <1>8, <1>14
    <3> QED BY <1>1, <2>1, <2>2, <3>1
  <2>3. CASE o \in live
    <3>1. PICK d \in Chunks, v \in D : On(L[-d], v) /\ Extent(sl[v]) = o
      BY <1>1, <2>3 DEF Whole, Kept
    <3>2. On(M[-d], v)
      BY <1>8, <1>14, <3>1
    <3> QED BY <2>1, <3>1, <3>2
  <2> QED BY <2>2, <2>3
<1>16. Kept(r.slot, live \cup {Extent(sl[u])}, M)
  BY <1>15 DEF Kept
<1>17. r.fault = h.fault /\ r.tainted = h.tainted
  BY <1>4 DEF Relisted
<1> QED BY <1>1, <1>10, <1>11, <1>12, <1>13, <1>16, <1>17

-----------------------------------------------------------------------------
(* The heap of init_jvm_mem is sound.                                      *)

(* The slot (c, j).                                                        *)
Nth(c, j) == FirstSlot(c) + j + 1

(* The slots of init_jvm_mem, chunk by chunk.                              *)
LEMMA InitialSlots ==
  LET sl == InitialHeap.slot IN
  /\ \A c \in Chunks, j \in 0 .. SlotsPerChunk - 1 :
       /\ Nth(c, j) \in DOMAIN sl
       /\ sl[Nth(c, j)].next = IF j = 0 THEN Null ELSE Nth(c, j - 1)
       /\ sl[Nth(c, j)].home = c /\ sl[Nth(c, j)].idx = j
       /\ sl[Nth(c, j)].off = 0 /\ sl[Nth(c, j)].len = Size(c)
  /\ \A u \in DOMAIN sl : \E c \in Chunks, j \in 0 .. SlotsPerChunk - 1 : u = Nth(c, j)
<1>1. PICK N, S, sl : N = NumChunks /\ S = SlotsPerChunk /\ sl = InitialHeap.slot
  OBVIOUS
<1>2. N \in Nat \ {0} /\ S \in Nat \ {0} /\ Chunks = 1 .. N
  BY <1>1, Constants DEF Chunks
<1>3. sl = [i \in 1 .. N * S |->
              LET c == (i - 1) \div S + 1
                  j == (i - 1) % S
              IN [next |-> IF j = 0 THEN Null ELSE i - 1,
                  home |-> c, idx |-> j, off |-> 0, len |-> Size(c)]]
  BY <1>1 DEF InitialHeap
<1>4. ASSUME NEW c \in Chunks, NEW j \in 0 .. S - 1
      PROVE  /\ Nth(c, j) \in 1 .. N * S
             /\ (Nth(c, j) - 1) \div S + 1 = c /\ (Nth(c, j) - 1) % S = j
             /\ j # 0 => Nth(c, j - 1) = Nth(c, j) - 1
  <2>1. PICK b, y, i : b = c - 1 /\ y = b * S /\ i = Nth(c, j)
    OBVIOUS
  <2>2. b \in Nat /\ b + 1 <= N /\ b + 1 \in Nat
    BY <1>2, <2>1
  <2>3. y \in Nat /\ (b + 1) * S = y + S
    BY <1>2, <2>1, <2>2, Distribution
  <2>4. y + S <= N * S
    BY <1>2, <2>2, <2>3, Ordered
  <2>5. i = y + j + 1 /\ i - 1 = y + j
    BY <1>1, <1>2, <2>1, <2>3 DEF Nth, FirstSlot
  <2>6. i \in 1 .. N * S
    <3>1. N * S \in Nat
      BY <1>2, Distribution
    <3> QED BY <1>2, <2>3, <2>4, <2>5, <3>1
  <2>7. (i - 1) \div S = b /\ (i - 1) % S = j
    BY <1>2, <2>1, <2>2, <2>5, Division
  <2>8. j # 0 => Nth(c, j - 1) = i - 1
    BY <1>1, <1>2, <2>1, <2>3, <2>5 DEF Nth, FirstSlot
  <2>9. (i - 1) \div S + 1 = c
    <3>1. b + 1 = c
      BY <1>2, <2>1
    <3> QED BY <2>7, <3>1
  <2> QED BY <2>1, <2>6, <2>7, <2>8, <2>9
<1>5. ASSUME NEW c \in Chunks, NEW j \in 0 .. S - 1
      PROVE  /\ Nth(c, j) \in DOMAIN sl
             /\ sl[Nth(c, j)].next = IF j = 0 THEN Null ELSE Nth(c, j - 1)
             /\ sl[Nth(c, j)].home = c /\ sl[Nth(c, j)].idx = j
             /\ sl[Nth(c, j)].off = 0 /\ sl[Nth(c, j)].len = Size(c)
  <2>1. PICK i : i = Nth(c, j)
    OBVIOUS
  <2>2. /\ i \in 1 .. N * S /\ (i - 1) \div S + 1 = c /\ (i - 1) % S = j
        /\ j # 0 => Nth(c, j - 1) = i - 1
    BY <1>4, <2>1
  <2>3. sl[i] = [next |-> IF j = 0 THEN Null ELSE i - 1,
                 home |-> c, idx |-> j, off |-> 0, len |-> Size(c)]
    BY <1>3, <2>2
  <2> QED BY <1>3, <2>1, <2>2, <2>3
<1>6. ASSUME NEW u \in DOMAIN sl
      PROVE  \E c \in Chunks, j \in 0 .. S - 1 : u = Nth(c, j)
  <2>1. PICK x : x = u - 1
    OBVIOUS
  <2>2. u \in 1 .. N * S /\ N * S \in Nat
    BY <1>2, <1>3, Distribution
  <2>3. x \in Nat /\ x < N * S /\ u = x + 1
    BY <2>1, <2>2
  <2>4. PICK q \in Nat : q * S <= x /\ x < q * S + S
    BY <1>2, <2>3, Floor
  <2>5. PICK y : y = q * S /\ y \in Nat
    BY <1>2, Distribution
  <2>6. q + 1 \in Chunks
    <3>1. N <= q => N * S <= y
      BY <1>2, <2>5, Ordered
    <3>2. q < N
      BY <1>2, <2>2, <2>3, <2>4, <2>5, <3>1
    <3> QED BY <1>2, <3>2
  <2>7. x - y \in 0 .. S - 1
    BY <1>2, <2>3, <2>4, <2>5
  <2>8. u = Nth(q + 1, x - y)
    <3>1. (q + 1) - 1 = q
      OBVIOUS
    <3>2. FirstSlot(q + 1) = y
      BY <1>1, <2>5, <3>1 DEF FirstSlot
    <3> QED BY <2>3, <2>5, <3>2 DEF Nth
  <2> QED BY <2>6, <2>7, <2>8
<1> QED BY <1>1, <1>5, <1>6

(* An empty list is its chunk, the last slot first.                        *)
FirstList(c) == [i \in 1 .. SlotsPerChunk |-> Nth(c, SlotsPerChunk - i)]

(* Each chunk's slots are its empty list.                                  *)
LEMMA InitialList ==
  ASSUME NEW c \in Chunks, NEW w, w = FirstList(c)
  PROVE  /\ ListAt(InitialHeap.slot, Size(c), InitialHeap.empty[c], w)
         /\ \A i \in 1 .. Len(w) : InitialHeap.slot[w[i]].home = c
<1>1. PICK S, sl : S = SlotsPerChunk /\ sl = InitialHeap.slot
  OBVIOUS
<1>2. S \in Nat \ {0} /\ w = [i \in 1 .. S |-> Nth(c, S - i)]
  BY <1>1, Constants DEF FirstList
<1>3. \A j \in 0 .. S - 1 :
        /\ Nth(c, j) \in DOMAIN sl
        /\ sl[Nth(c, j)].next = IF j = 0 THEN Null ELSE Nth(c, j - 1)
        /\ sl[Nth(c, j)].home = c /\ sl[Nth(c, j)].idx = j /\ sl[Nth(c, j)].len = Size(c)
  BY <1>1, InitialSlots
<1>4. ASSUME NEW i \in 1 .. S
      PROVE  \E j \in 0 .. S - 1 : j = S - i /\ w[i] = Nth(c, j)
  <2>1. S - i \in 0 .. S - 1
    BY <1>2
  <2> QED BY <1>2, <2>1
<1>5. w \in Seq(DOMAIN sl) /\ Len(w) = S
  <2>1. \A i \in 1 .. S : w[i] \in DOMAIN sl
    BY <1>3, <1>4
  <2>2. w \in [1 .. S -> DOMAIN sl]
    BY <1>2, <2>1
  <2> QED BY <1>2, <2>2, IntervalSeq
<1>6. Distinct(w)
  <2> SUFFICES ASSUME NEW i \in 1 .. S, NEW k \in 1 .. S, w[i] = w[k]
               PROVE  i = k
    BY <1>5 DEF Distinct
  <2>1. sl[w[i]].idx = S - i /\ sl[w[k]].idx = S - k
    BY <1>3, <1>4
  <2>2. S - i = S - k
    BY <2>1
  <2> QED BY <1>2, <2>2
<1>7. InitialHeap.empty[c] = At(w, 1)
  <2>1. InitialHeap.empty[c] = FirstSlot(c) + S
    BY <1>1 DEF InitialHeap
  <2>2. Nth(c, S - 1) = FirstSlot(c) + S
    <3>1. FirstSlot(c) \in Int
      BY <1>1, <1>2, Constants DEF FirstSlot, Chunks
    <3> QED BY <1>2, <3>1 DEF Nth
  <2>3. 1 \in 1 .. Len(w) /\ w[1] = Nth(c, S - 1)
    BY <1>2, <1>5
  <2> QED BY <2>1, <2>2, <2>3 DEF At
<1>8. ASSUME NEW i \in 1 .. S
      PROVE  /\ sl[w[i]].next = At(w, i + 1) /\ sl[w[i]].len = Size(c)
             /\ sl[w[i]].home = c
  <2>1. PICK j \in 0 .. S - 1 : j = S - i /\ w[i] = Nth(c, j)
    BY <1>4
  <2>2. CASE j = 0
    <3>1. i + 1 \notin 1 .. Len(w)
      BY <1>2, <1>5, <2>1, <2>2
    <3> QED BY <1>3, <2>1, <2>2, <3>1 DEF At
  <2>3. CASE j # 0
    <3>1. i + 1 \in 1 .. S /\ S - (i + 1) = j - 1
      BY <1>2, <2>1, <2>3
    <3>2. At(w, i + 1) = Nth(c, j - 1)
      BY <1>2, <1>5, <3>1 DEF At
    <3> QED BY <1>3, <2>1, <2>3, <3>2
  <2> QED BY <2>2, <2>3
<1>9. ListAt(sl, Size(c), InitialHeap.empty[c], w)
  BY <1>5, <1>6, <1>7, <1>8 DEF ListAt
<1> QED BY <1>1, <1>5, <1>8, <1>9

(* The heap of init_jvm_mem is whole.                                      *)
LEMMA InitialWhole ==
  ASSUME InitialHeap \in Heaps, live = {}
  PROVE  \E L : Whole(InitialHeap, L)
<1>1. PICK h, sl, D : h = InitialHeap /\ sl = h.slot /\ D = DOMAIN sl
  OBVIOUS
<1>2. PICK L : L = [a \in Places |-> IF a > 0 THEN FirstList(a) ELSE << >>]
  OBVIOUS
<1>3. /\ \A c \in Chunks : L[c] = FirstList(c) /\ L[-c] = << >>
      /\ DOMAIN L = Places
  BY <1>2, PlaceFacts
<1>4. PICK hd : hd = Starts(h.empty, h.used)
  OBVIOUS
<1>5. \A c \in Chunks : hd[c] = h.empty[c] /\ hd[-c] = Null
  <2>1. h.empty \in [Chunks -> Pointers] /\ h.used \in [Chunks -> Pointers]
    BY <1>1, HeapFacts
  <2>2. \A c \in Chunks : h.used[c] = Null
    BY <1>1 DEF InitialHeap
  <2> QED BY <1>4, <2>1, <2>2, StartFacts
<1>6. \A c \in Chunks : /\ ListAt(sl, Size(c), hd[c], L[c])
                        /\ \A i \in 1 .. Len(L[c]) : sl[L[c][i]].home = c
  BY <1>1, <1>3, <1>5, InitialList
<1>7. \A c \in Chunks : ListAt(sl, Size(c), hd[-c], L[-c]) /\ Len(L[-c]) = 0
  <2> TAKE c \in Chunks
  <2>1. PICK w : w = << >>
    OBVIOUS
  <2>2. w \in Seq(D) /\ Len(w) = 0 /\ At(w, 1) = Null
    BY <2>1 DEF At
  <2>3. ListAt(sl, Size(c), Null, w)
    BY <1>1, <2>2 DEF ListAt, Distinct
  <2> QED BY <1>3, <1>5, <2>1, <2>2, <2>3
<1>8. \A a \in Places : ListAt(sl, Size(Class(a)), hd[a], L[a])
  <2> TAKE a \in Places
  <2>1. PICK c \in Chunks : c = Class(a) /\ (a = c \/ a = -c)
    BY PlaceFacts
  <2> QED BY <1>6, <1>7, <2>1
<1>9. L \in [Places -> Seq(Ids)]
  <2> SUFFICES ASSUME NEW a \in Places
               PROVE  L[a] \in Seq(Ids)
    BY <1>2, <1>3
  <2>1. PICK w : w = L[a]
    OBVIOUS
  <2>2. w \in Seq(D) /\ D \subseteq Ids
    BY <1>1, <1>8, <2>1, HeapFacts DEF ListAt
  <2>3. w \in Seq(Ids)
    BY <2>2
  <2> QED BY <2>1, <2>3
<1>10. Apart(L)
  <2> SUFFICES ASSUME NEW a \in Places, NEW b \in Places, NEW i \in 1 .. Len(L[a]),
                      NEW k \in 1 .. Len(L[b]), L[a][i] = L[b][k]
               PROVE  a = b
    BY DEF Apart
  <2>1. PICK c \in Chunks, d \in Chunks : (a = c \/ a = -c) /\ (b = d \/ b = -d)
    BY PlaceFacts
  <2>2. a = c /\ b = d
    BY <1>7, <2>1
  <2>3. sl[L[a][i]].home = c /\ sl[L[b][k]].home = d
    BY <1>6, <2>2
  <2> QED BY <2>2, <2>3
<1>11. Shape(sl, hd, L)
  BY <1>8, <1>9, <1>10 DEF Shape
<1>12. \A u \in D : \E c \in Chunks, j \in 0 .. SlotsPerChunk - 1 :
         /\ u = Nth(c, j) /\ sl[u].home = c /\ sl[u].idx = j
         /\ sl[u].off = 0 /\ sl[u].len = Size(c)
  <2>1. \A u \in D : \E c \in Chunks, j \in 0 .. SlotsPerChunk - 1 : u = Nth(c, j)
    BY <1>1, InitialSlots
  <2>2. \A c \in Chunks, j \in 0 .. SlotsPerChunk - 1 :
          /\ sl[Nth(c, j)].home = c /\ sl[Nth(c, j)].idx = j
          /\ sl[Nth(c, j)].off = 0 /\ sl[Nth(c, j)].len = Size(c)
    <3> TAKE c \in Chunks, j \in 0 .. SlotsPerChunk - 1
    <3>1. PICK i : i = Nth(c, j)
      OBVIOUS
    <3>2. /\ InitialHeap.slot[i].home = c /\ InitialHeap.slot[i].idx = j
          /\ InitialHeap.slot[i].off = 0 /\ InitialHeap.slot[i].len = Size(c)
      BY <3>1, InitialSlots
    <3> QED BY <1>1, <3>1, <3>2
  <2> QED BY <2>1, <2>2
<1>13. Fit(sl)
  <2>1. ASSUME NEW u \in D
        PROVE  InBlock(sl[u])
    <3>1. PICK c \in Chunks : sl[u].home = c /\ sl[u].off = 0 /\ sl[u].len = Size(c)
      BY <1>12
    <3> QED BY <3>1, Constants DEF InBlock
  <2>2. ASSUME NEW u \in D, NEW v \in D, u # v
        PROVE  ~Overlap(sl[u], sl[v])
    BY <1>12, <2>2 DEF Overlap
  <2> QED BY <1>1, <2>1, <2>2 DEF Fit
<1>14. Kept(sl, live, L)
  BY DEF Kept
<1>15. Whole(h, L)
  BY <1>1, <1>4, <1>11, <1>13, <1>14 DEF Whole
<1> QED BY <1>1, <1>15

-----------------------------------------------------------------------------
(* Every reachable heap is sound.                                          *)
HeapSound == Sound(heap)
SoundInv  == TypeInv /\ HeapSound

(* So it is sound.                                                         *)
LEMMA SoundInit == Init => SoundInv
<1> SUFFICES ASSUME Init PROVE SoundInv
  OBVIOUS
<1>1. heap = InitialHeap /\ live = {} /\ TypeInv
  BY TypeInvInit DEF Init
<1>2. InitialHeap \in Heaps
  BY <1>1 DEF TypeInv
<1>3. PICK h : h = InitialHeap
  OBVIOUS
<1>4. h.fault = "none" /\ \E L : Whole(h, L)
  <2>1. h.fault = "none"
    BY <1>3 DEF InitialHeap
  <2> QED BY <1>1, <1>2, <1>3, <2>1, InitialWhole
<1>5. Sound(h)
  BY <1>4 DEF Sound
<1> QED BY <1>1, <1>3, <1>5 DEF SoundInv, HeapSound

(* Every allocation and every object's end keeps it sound.                 *)
LEMMA SoundStep == SoundInv /\ [Next]_vars => SoundInv'
<1> SUFFICES ASSUME SoundInv, [Next]_vars PROVE SoundInv'
  OBVIOUS
<1>1. TypeInv' /\ TypeInv /\ Sound(heap) /\ heap \in Heaps
  BY TypeInvStep DEF SoundInv, HeapSound, TypeInv
<1>2. ASSUME NEW c \in Chunks, Running
      PROVE  /\ Prepared(c) \in Heaps /\ Sound(Prepared(c))
             /\ LET r == Prepared(c)
                IN  Ok(r) /\ r.empty[c] # Null => r.empty[c] \in DOMAIN r.slot
  <2>1. Ok(heap) /\ Room(heap)
    BY <1>1, <1>2, Reserve DEF Running
  <2>2. Sound(Prepared(c))
    BY <1>1, <2>1, PreparedSound DEF Prepared
  <2> QED BY <1>1, <2>1, <2>2, Preparing DEF Prepared, Grows
<1>3. ASSUME NEW c \in Chunks, Alloc(c)
      PROVE  HeapSound'
  <2>1. PICK r, u : r = Prepared(c) /\ u = r.empty[c]
    OBVIOUS
  <2>2. /\ Running /\ Ok(r) /\ u # Null /\ heap' = Taken(r, c)
        /\ live' = live \cup {Extent(r.slot[u])}
    BY <1>3, <2>1 DEF Alloc
  <2>3. r \in Heaps /\ Sound(r) /\ u \in DOMAIN r.slot
    BY <1>2, <2>1, <2>2
  <2>4. CASE r.tainted
    <3>1. heap'.tainted
      BY <2>1, <2>2, <2>3, <2>4, TakingFirst DEF Relisted
    <3> QED BY <3>1 DEF HeapSound, Sound
  <2>5. CASE ~r.tainted
    <3>1. PICK L : Whole(r, L)
      BY <2>2, <2>3, <2>5 DEF Sound
    <3>2. PICK x : x = Taken(r, c)
      OBVIOUS
    <3>3. /\ x.fault = r.fault /\ Fit(x.slot)
          /\ \E M : /\ Shape(x.slot, Starts(x.empty, x.used), M)
                    /\ Kept(x.slot, live \cup {Extent(r.slot[u])}, M)
      BY <2>1, <2>3, <3>1, <3>2, TakenWhole
    <3>4. heap' = x /\ live' = live \cup {Extent(r.slot[u])} /\ x.fault = "none"
      BY <2>2, <3>2, <3>3 DEF Ok
    <3>5. \E M : Whole(heap, M)'
      BY <3>3, <3>4 DEF Whole
    <3> QED BY <3>4, <3>5 DEF HeapSound, Sound
  <2> QED BY <2>4, <2>5
<1>4. ASSUME NEW c \in Chunks, OutOfMemory(c) \/ AllocFaults(c)
      PROVE  HeapSound'
  <2>1. PICK r : r = Prepared(c)
    OBVIOUS
  <2>2. Running /\ heap' = r /\ live' = live
    BY <1>4, <2>1 DEF OutOfMemory, AllocFaults
  <2>3. Sound(r)
    BY <1>2, <2>1, <2>2
  <2>4. \A M : Whole(r, M) => Whole(heap, M)'
    BY <2>2 DEF Whole
  <2> QED BY <2>2, <2>3, <2>4 DEF HeapSound, Sound, Ok
<1>5. ASSUME NEW o \in live, Release(o)
      PROVE  HeapSound'
  <2>1. heap' = heap /\ live' = live \ {o}
    BY <1>5 DEF Release
  <2>2. \A M : Kept(heap.slot, live, M) => Kept(heap.slot, live \ {o}, M)
    BY DEF Kept
  <2>3. \A M : Whole(heap, M) => Whole(heap, M)'
    BY <2>1, <2>2 DEF Whole
  <2> QED BY <1>1, <2>1, <2>3 DEF HeapSound, Sound, Ok
<1>6. ASSUME UNCHANGED vars
      PROVE  HeapSound'
  <2>1. heap' = heap /\ live' = live
    BY <1>6 DEF vars
  <2>2. \A M : Whole(heap, M) => Whole(heap, M)'
    BY <2>1 DEF Whole
  <2> QED BY <1>1, <2>1, <2>2 DEF HeapSound, Sound, Ok
<1>7. HeapSound'
  BY <1>3, <1>4, <1>5, <1>6 DEF Next
<1> QED BY <1>1, <1>7 DEF SoundInv

(* The invariant of the second part.                                       *)
LEMMA SoundAlways == Spec => []SoundInv
  BY SoundInit, SoundStep, PTL DEF Spec

(* The walk from a head meets the slots of its list.                       *)
LEMMA Elements ==
  ASSUME NEW h \in Heaps, NEW L, Whole(h, L), NEW a \in Places,
         NEW p, p = Starts(h.empty, h.used)[a]
  PROVE  End(h, p) = Null /\ \A u : u \in ToSet(Walk(h, p)) <=> On(L[a], u)
<1>1. h.empty \in [Chunks -> Pointers] /\ h.used \in [Chunks -> Pointers]
  BY HeapFacts
<1>2. p \in Pointers
  BY <1>1, StartFacts
<1>3. PICK w : w = L[a] /\ ListAt(h.slot, Size(Class(a)), p, w)
  BY DEF Whole, Shape
<1>4. Walk(h, p) = w /\ End(h, p) = Null
  BY <1>2, <1>3, WalkIs
<1>5. DOMAIN w = 1 .. Len(w)
  BY <1>3 DEF ListAt
<1>6. \A u : u \in ToSet(w) <=> On(w, u)
  BY <1>5 DEF ToSet, On
<1> QED BY <1>3, <1>4, <1>6

(* Until the first fault of the sweep or of a merge, every list mem_alloc  *)
(* and its sweep walk ends, and no slot is in two of them, nor twice in    *)
(* one.                                                                    *)
THEOREM ListsApart == Spec => []ListsDisjoint
<1>1. ASSUME SoundInv
      PROVE  ListsDisjoint
  <2> SUFFICES ASSUME Untainted
               PROVE  /\ \A p \in Heads : End(heap, p) = Null
                      /\ \A c, d \in Chunks :
                           /\ ElementsOf(heap.empty[c]) \cap ElementsOf(heap.used[d]) = {}
                           /\ c # d =>
                                /\ ElementsOf(heap.empty[c]) \cap ElementsOf(heap.empty[d]) = {}
                                /\ ElementsOf(heap.used[c]) \cap ElementsOf(heap.used[d]) = {}
    BY DEF ListsDisjoint
  <2>1. heap \in Heaps
    BY <1>1 DEF SoundInv, TypeInv
  <2>2. PICK L : Whole(heap, L)
    BY <1>1 DEF SoundInv, HeapSound, Sound, Untainted
  <2>3. \A c \in Chunks : /\ Starts(heap.empty, heap.used)[c] = heap.empty[c]
                          /\ Starts(heap.empty, heap.used)[-c] = heap.used[c]
                          /\ c \in Places /\ -c \in Places
    <3>1. heap.empty \in [Chunks -> Pointers] /\ heap.used \in [Chunks -> Pointers]
      BY <2>1, HeapFacts
    <3> QED BY <3>1, StartFacts, PlaceFacts
  <2>4. ASSUME NEW c \in Chunks
        PROVE  /\ End(heap, heap.empty[c]) = Null /\ End(heap, heap.used[c]) = Null
               /\ \A u : u \in ElementsOf(heap.empty[c]) <=> On(L[c], u)
               /\ \A u : u \in ElementsOf(heap.used[c]) <=> On(L[-c], u)
    BY <2>1, <2>2, <2>3, Elements DEF ElementsOf
  <2>5. \A a, b \in Places : a # b => \A u : ~(On(L[a], u) /\ On(L[b], u))
    BY <2>2 DEF Whole, Shape, Apart, On
  <2>6. \A p \in Heads : End(heap, p) = Null
    BY <2>4 DEF Heads
  <2>7. ASSUME NEW c \in Chunks, NEW d \in Chunks
        PROVE  c # -d /\ (c # d => -c # -d) /\ c \in Places /\ d \in Places
               /\ -c \in Places /\ -d \in Places
    <3>1. /\ c > 0 /\ ~(-d > 0) /\ -(-c) = c /\ -(-d) = d /\ c \in Places /\ d \in Places
          /\ -c \in Places /\ -d \in Places
      BY PlaceFacts
    <3> QED BY <3>1
  <2> QED BY <2>4, <2>5, <2>6, <2>7
<1> QED BY <1>1, SoundAlways, PTL

(* Until such a fault no two slots share a byte and none reaches beyond    *)
(* the block init_jvm_mem gave it, whatever was split and merged.          *)
THEOREM MemoryHandedOutOnce == Spec => []SlotsDisjoint
<1>1. ASSUME SoundInv
      PROVE  SlotsDisjoint
  BY <1>1 DEF SoundInv, HeapSound, Sound, SlotsDisjoint, Untainted, Whole, Fit
<1> QED BY <1>1, SoundAlways, PTL

(* Until such a fault an object that has a reference is in a used list,    *)
(* with the memory it was given.                                           *)
THEOREM LiveObjectsKept == Spec => []LiveStaysUsed
<1>1. ASSUME SoundInv
      PROVE  LiveStaysUsed
  <2> SUFFICES ASSUME Untainted, NEW o \in live
               PROVE  \E c \in Chunks : \E u \in ElementsOf(heap.used[c]) :
                        Extent(heap.slot[u]) = o
    BY DEF LiveStaysUsed
  <2>1. heap \in Heaps
    BY <1>1 DEF SoundInv, TypeInv
  <2>2. PICK L : Whole(heap, L)
    BY <1>1 DEF SoundInv, HeapSound, Sound, Untainted
  <2>3. PICK c \in Chunks, u \in DOMAIN heap.slot : On(L[-c], u) /\ Extent(heap.slot[u]) = o
    BY <2>2 DEF Whole, Kept
  <2>4. Starts(heap.empty, heap.used)[-c] = heap.used[c] /\ -c \in Places
    <3>1. heap.empty \in [Chunks -> Pointers] /\ heap.used \in [Chunks -> Pointers]
      BY <2>1, HeapFacts
    <3> QED BY <3>1, StartFacts, PlaceFacts
  <2>5. u \in ElementsOf(heap.used[c])
    BY <2>1, <2>2, <2>3, <2>4, Elements DEF ElementsOf
  <2> QED BY <2>3, <2>5
<1> QED BY <1>1, SoundAlways, PTL

(* mem_alloc uses no freed slot and never hangs before such a fault.       *)
THEOREM FaultsExplained == Spec => []FaultsFollowTaint
<1>1. ASSUME SoundInv
      PROVE  FaultsFollowTaint
  BY <1>1 DEF SoundInv, HeapSound, Sound, FaultsFollowTaint
<1> QED BY <1>1, SoundAlways, PTL
=============================================================================
