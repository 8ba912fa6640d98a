----------------------------- MODULE HeapProofs -----------------------------
(***************************************************************************)
(* Proofs about the object lists and the reference counts of Heap.         *)
(***************************************************************************)
EXTENDS Heap, Foundations

-----------------------------------------------------------------------------
(* Memories.                                                               *)

ListEntry == [obj : Slots, next : {NULL} \cup Nodes]
Faults    == {"none", "null", "wild", "freed"}
Heads     == {WILD, NULL} \cup Nodes
NodeMaps  == UNION {[D -> ListEntry] : D \in {E \in SUBSET Nodes : IsFiniteSet(E)}}
Memories  == [obj : [Slots -> Object], node : NodeMaps, list : Heads,
              fault : Faults, slips : SUBSET Slips]

(* Entries of the lists.                                                   *)
LEMMA NodeFacts ==
  ASSUME NEW nd \in NodeMaps
  PROVE  /\ DOMAIN nd \subseteq Nodes /\ IsFiniteSet(DOMAIN nd)
         /\ nd \in [DOMAIN nd -> ListEntry]
  BY DEF NodeMaps

(* Any finite number of them.                                              *)
LEMMA AllNodeMaps ==
  ASSUME NEW D \in SUBSET Nodes, IsFiniteSet(D), NEW nd \in [D -> ListEntry]
  PROVE  nd \in NodeMaps
  BY DEF NodeMaps

(* Replacing one part of a memory.                                         *)
LEMMA With ==
  ASSUME NEW m \in Memories
  PROVE  /\ \A f \in [Slots -> Object] :
              LET u == [m EXCEPT !.obj = f] IN
              /\ u \in Memories /\ u.obj = f /\ u.node = m.node /\ u.list = m.list
              /\ u.fault = m.fault /\ u.slips = m.slips
         /\ \A nd \in NodeMaps :
              LET u == [m EXCEPT !.node = nd] IN
              /\ u \in Memories /\ u.obj = m.obj /\ u.node = nd /\ u.list = m.list
              /\ u.fault = m.fault /\ u.slips = m.slips
         /\ \A p \in Heads :
              LET u == [m EXCEPT !.list = p] IN
              /\ u \in Memories /\ u.obj = m.obj /\ u.node = m.node /\ u.list = p
              /\ u.fault = m.fault /\ u.slips = m.slips
<1>1. \A f \in [Slots -> Object] : LET u == [m EXCEPT !.obj = f] IN
        /\ u \in Memories /\ u.obj = f /\ u.node = m.node /\ u.list = m.list
        /\ u.fault = m.fault /\ u.slips = m.slips
  BY DEF Memories
<1>2. \A nd \in NodeMaps : LET u == [m EXCEPT !.node = nd] IN
        /\ u \in Memories /\ u.obj = m.obj /\ u.node = nd /\ u.list = m.list
        /\ u.fault = m.fault /\ u.slips = m.slips
  BY DEF Memories
<1>3. \A p \in Heads : LET u == [m EXCEPT !.list = p] IN
        /\ u \in Memories /\ u.obj = m.obj /\ u.node = m.node /\ u.list = p
        /\ u.fault = m.fault /\ u.slips = m.slips
  BY DEF Memories
<1> QED BY <1>1, <1>2, <1>3

(* A slip.                                                                 *)
LEMMA Slipping ==
  ASSUME NEW m \in Memories, NEW cond \in BOOLEAN, NEW what \in Slips
  PROVE  LET u == Slip(m, cond, what) IN
         /\ u \in Memories /\ u.obj = m.obj /\ u.node = m.node /\ u.list = m.list
         /\ u.fault = m.fault /\ m.slips \subseteq u.slips /\ (u.slips = {} => ~cond)
         /\ ~cond => u = m
<1>1. PICK sl : sl = m.slips \cup {what}
  OBVIOUS
<1>2. sl \in SUBSET Slips
  BY <1>1 DEF Memories
<1>3. PICK v : v = [m EXCEPT !.slips = sl]
  OBVIOUS
<1>4. /\ v \in Memories /\ v.obj = m.obj /\ v.node = m.node /\ v.list = m.list
      /\ v.fault = m.fault /\ v.slips = sl
  BY <1>2, <1>3 DEF Memories
<1>5. Slip(m, cond, what) = IF cond THEN v ELSE m
  BY <1>1, <1>3 DEF Slip
<1> QED BY <1>1, <1>4, <1>5

(* A fault.                                                                *)
LEMMA Dying ==
  ASSUME NEW m \in Memories, NEW how \in Faults
  PROVE  LET u == Dies(m, how) IN
         /\ u \in Memories /\ u.obj = m.obj /\ u.node = m.node /\ u.list = m.list
         /\ u.fault = how /\ u.slips = m.slips
  BY DEF Memories, Dies

(* The parts of a memory.                                                  *)
LEMMA MemoryFacts ==
  ASSUME NEW m \in Memories
  PROVE  /\ m.obj \in [Slots -> Object] /\ m.node \in NodeMaps /\ m.list \in Heads
         /\ m.fault \in Faults /\ m.slips \in SUBSET Slips
         /\ DOMAIN m.node \subseteq Nodes /\ IsFiniteSet(DOMAIN m.node)
         /\ m.node \in [DOMAIN m.node -> ListEntry]
         /\ \A n \in DOMAIN m.node : m.node[n].obj \in Slots /\ m.node[n].next \in {NULL} \cup Nodes
<1>1. m.node \in NodeMaps
  BY DEF Memories
<1> QED BY <1>1, NodeFacts DEF Memories, ListEntry

(* The same but for the count.                                             *)
Alike(a, b) == /\ a.kind = b.kind /\ a.isArray = b.isArray
               /\ a.value = b.value /\ a.fields = b.fields

(* An object's count is replaced.                                          *)
LEMMA Recounted ==
  ASSUME NEW o \in Object, NEW c \in Int
  PROVE  [o EXCEPT !.count = c] \in Object /\ [o EXCEPT !.count = c].count = c
         /\ Alike([o EXCEPT !.count = c], o)
  BY DEF Object, Alike

(* The parts of an object.                                                 *)
LEMMA ObjectFacts ==
  ASSUME NEW o \in Object
  PROVE  /\ o.kind \in Kinds /\ o.count \in Int /\ o.isArray \in BOOLEAN /\ o.value \in Pointers
         /\ o.fields \in Seq([name : Fields, val : {NULL} \cup Slots])
  BY DEF Object

(* How often an element occurs.                                            *)
LEMMA TimesFacts ==
  ASSUME NEW V, NEW w \in Seq(V)
  PROVE  /\ \A s : Times(w, s) \in Nat
         /\ \A s : Times(w, s) = 0 <=> s \notin ToSet(w)
<1> SUFFICES ASSUME NEW s
             PROVE  Times(w, s) \in Nat /\ (Times(w, s) = 0 <=> s \notin ToSet(w))
  OBVIOUS
<1>1. PICK I : I = {i \in DOMAIN w : w[i] = s}
  OBVIOUS
<1>2. DOMAIN w = 1 .. Len(w) /\ Len(w) \in Nat
  OBVIOUS
<1>3. IsFiniteSet(I)
  <2>1. IsFiniteSet(1 .. Len(w))
    BY <1>2, FS_Interval
  <2> QED BY <1>1, <1>2, <2>1, FS_Subset
<1>4. I = {} <=> s \notin ToSet(w)
  BY <1>1 DEF ToSet
<1> QED BY <1>1, <1>3, <1>4, FS_CardinalityType, FS_EmptySet DEF Times

(* Uncount changes counts only.                                            *)
LEMMA UncountFacts ==
  ASSUME NEW m \in Memories, NEW V, NEW w \in Seq(V)
  PROVE  LET u == Uncount(m, w) IN
         /\ u \in Memories /\ u.node = m.node /\ u.list = m.list
         /\ u.fault = m.fault /\ u.slips = m.slips
         /\ \A s \in Slots : /\ Alike(u.obj[s], m.obj[s])
                             /\ u.obj[s].count = Less(m.obj[s].count, Times(w, s))
<1>1. PICK f : f = [s \in Slots |-> [m.obj[s] EXCEPT !.count = Less(m.obj[s].count, Times(w, s))]]
  OBVIOUS
<1>2. \A s \in Slots : m.obj[s] \in Object /\ m.obj[s].count \in Int
  BY MemoryFacts, ObjectFacts
<1>3. \A s \in Slots : Less(m.obj[s].count, Times(w, s)) \in Int
  BY <1>2, TimesFacts DEF Less
<1>4. \A s \in Slots : /\ f[s] \in Object /\ Alike(f[s], m.obj[s])
                       /\ f[s].count = Less(m.obj[s].count, Times(w, s))
  <2> TAKE s \in Slots
  <2>1. f[s] = [m.obj[s] EXCEPT !.count = Less(m.obj[s].count, Times(w, s))]
    BY <1>1
  <2> QED BY <1>2, <1>3, <2>1, Recounted
<1>5. f \in [Slots -> Object]
  BY <1>1, <1>4
<1>6. Uncount(m, w) = [m EXCEPT !.obj = f]
  BY <1>1 DEF Uncount
<1>7. PICK u : u = [m EXCEPT !.obj = f]
  OBVIOUS
<1>8. /\ u \in Memories /\ u.obj = f /\ u.node = m.node /\ u.list = m.list
      /\ u.fault = m.fault /\ u.slips = m.slips
  BY <1>5, <1>7, With
<1>9. Uncount(m, w) = u
  BY <1>6, <1>7
<1> QED BY <1>4, <1>8, <1>9

-----------------------------------------------------------------------------
(* Lists.                                                                  *)

(* The entries found on the way, and what follows the last.                *)
LEMMA WalkFacts ==
  ASSUME NEW m \in Memories
  PROVE  LET w == Entries(m, m.list)
             e == End(m, m.list)
         IN /\ w \in Seq(DOMAIN m.node) /\ Len(w) \in Nat /\ DOMAIN w = 1 .. Len(w)
            /\ e \in Heads
            /\ \A k \in 1 .. Len(w) : w[k] \in DOMAIN m.node
<1>1. PICK D : D = DOMAIN m.node
  OBVIOUS
<1>2. PICK next : next = Following(m)
  OBVIOUS
<1>3. next \in [D -> Heads] /\ IsFiniteSet(D) /\ m.list \in Heads
  BY <1>1, <1>2, MemoryFacts DEF Following, Heads
<1>4. PICK q : q = Path(next, m.list)
  OBVIOUS
<1>5. q \in Seq(Heads) /\ Leads(D, next, q)
  BY <1>3, <1>4, PathFacts
<1>6. /\ Len(q) \in Nat \ {0} /\ Last(q) \in Heads
      /\ Front(q) \in Seq(Heads) /\ Len(Front(q)) = Len(q) - 1
      /\ \A k \in 1 .. Len(q) - 1 : Front(q)[k] = q[k]
  BY <1>5, SeqParts DEF Leads
<1>7. PICK w : w = Front(q)
  OBVIOUS
<1>8. \A k \in 1 .. Len(w) : w[k] \in D
  BY <1>5, <1>6, <1>7 DEF Leads
<1>9. w \in Seq(D) /\ DOMAIN w = 1 .. Len(w) /\ Len(w) \in Nat
  BY <1>6, <1>7, <1>8
<1>10. Entries(m, m.list) = w /\ End(m, m.list) = Last(q)
  BY <1>2, <1>4, <1>7 DEF Entries, End
<1> QED BY <1>1, <1>6, <1>8, <1>9, <1>10

(* A list that ends, none of whose entries is met twice.                   *)
ListOf(nd, p, w) ==
  /\ w \in Seq(DOMAIN nd)
  /\ \A i, j \in 1 .. Len(w) : w[i] = w[j] => i = j
  /\ p = IF Len(w) = 0 THEN NULL ELSE w[1]
  /\ \A k \in 1 .. Len(w) : nd[w[k]].next = IF k = Len(w) THEN NULL ELSE w[k + 1]

(* A walk over it meets its entries and ends.                              *)
LEMMA ListIs ==
  ASSUME NEW m \in Memories, NEW w, ListOf(m.node, m.list, w)
  PROVE  Entries(m, m.list) = w /\ End(m, m.list) = NULL
<1>1. PICK D : D = DOMAIN m.node
  OBVIOUS
<1>2. PICK next : next = Following(m)
  OBVIOUS
<1>3. /\ next \in [D -> Heads] /\ IsFiniteSet(D) /\ NULL \notin D /\ D \subseteq Heads
      /\ \A n \in D : next[n] = m.node[n].next
  BY <1>1, <1>2, MemoryFacts DEF Following, Heads, Nodes
<1>4. PICK q : q = Append(w, NULL)
  OBVIOUS
<1>5. w \in Seq(D) /\ Len(w) \in Nat
  BY <1>1 DEF ListOf
<1>6. /\ q \in Seq(Heads) /\ Len(q) = Len(w) + 1 /\ q[Len(w) + 1] = NULL
      /\ \A k \in 1 .. Len(w) : q[k] = w[k]
  <2>1. w \in Seq(Heads) /\ NULL \in Heads
    BY <1>3, <1>5 DEF Heads
  <2> QED BY <1>4, <1>5, <2>1
<1>7. q # << >>
  BY <1>5, <1>6
<1>8. /\ Last(q) = q[Len(q)] /\ Front(q) \in Seq(Heads) /\ Len(Front(q)) = Len(q) - 1
      /\ \A k \in 1 .. Len(q) - 1 : Front(q)[k] = q[k]
  BY <1>6, <1>7, SeqParts
<1>9. Last(q) = NULL
  BY <1>6, <1>8
<1>10. Front(q) = w
  BY <1>5, <1>6, <1>8
<1>11. q[1] = m.list
  <2>1. CASE Len(w) = 0
    BY <1>6, <2>1 DEF ListOf
  <2>2. CASE Len(w) # 0
    <3>1. 1 \in 1 .. Len(w)
      BY <1>5, <2>2
    <3> QED BY <1>6, <2>2, <3>1 DEF ListOf
  <2> QED BY <2>1, <2>2
<1>12. Leads(D, next, q)
  <2>1. ASSUME NEW k \in 1 .. Len(q) - 1
        PROVE  q[k] \in D /\ q[k + 1] = next[q[k]]
    <3>1. k \in 1 .. Len(w) /\ q[k] = w[k] /\ w[k] \in D
      BY <1>5, <1>6
    <3>2. q[k + 1] = IF k = Len(w) THEN NULL ELSE w[k + 1]
      BY <1>5, <1>6, <3>1
    <3> QED BY <1>3, <3>1, <3>2 DEF ListOf
  <2> QED BY <1>7, <2>1 DEF Leads
<1>13. Len(q) <= Cardinality(D) + 1
  <2>1. w \in Injection(1 .. Len(w), D)
    BY <1>5 DEF ListOf, Injection, IsInjective
  <2>2. Cardinality(1 .. Len(w)) = Len(w)
    <3>1. 1 \in Int /\ Len(w) \in Nat
      BY <1>5
    <3>2. Cardinality(1 .. Len(w)) = IF 1 > Len(w) THEN 0 ELSE Len(w) - 1 + 1
      BY <3>1, FS_Interval
    <3> QED BY ONLY <3>1, <3>2
  <2>3. Cardinality(1 .. Len(w)) <= Cardinality(D)
    BY <1>3, <2>1, FS_Injection
  <2> QED BY <1>3, <1>5, <1>6, <2>2, <2>3, FS_CardinalityType
<1>14. Path(next, m.list) = q
  BY <1>3, <1>6, <1>9, <1>11, <1>12, <1>13, PathIs
<1> QED BY <1>2, <1>9, <1>10, <1>14 DEF Entries, End

(* A walk that ends with NULL has met a list.                              *)
LEMMA EndedIs ==
  ASSUME NEW m \in Memories, End(m, m.list) = NULL
  PROVE  ListOf(m.node, m.list, Entries(m, m.list))
<1>1. PICK D : D = DOMAIN m.node
  OBVIOUS
<1>2. PICK next : next = Following(m)
  OBVIOUS
<1>3. /\ next \in [D -> Heads] /\ IsFiniteSet(D) /\ m.list \in Heads /\ NULL \notin D
      /\ \A n \in D : next[n] = m.node[n].next
  BY <1>1, <1>2, MemoryFacts DEF Following, Heads, Nodes
<1>4. PICK q : q = Path(next, m.list)
  OBVIOUS
<1>5. q \in Seq(Heads) /\ Leads(D, next, q) /\ q[1] = m.list
  BY <1>3, <1>4, PathFacts
<1>6. /\ Len(q) \in Nat \ {0} /\ Last(q) = q[Len(q)]
      /\ Front(q) \in Seq(Heads) /\ Len(Front(q)) = Len(q) - 1
      /\ \A k \in 1 .. Len(q) - 1 : Front(q)[k] = q[k]
  BY <1>5, SeqParts DEF Leads
<1>7. PICK w : w = Front(q)
  OBVIOUS
<1>8. Entries(m, m.list) = w /\ q[Len(q)] = NULL
  BY <1>2, <1>4, <1>6, <1>7 DEF Entries, End
<1>9. Len(w) = Len(q) - 1 /\ \A k \in 1 .. Len(w) : w[k] = q[k] /\ w[k] \in D
  BY <1>5, <1>6, <1>7 DEF Leads
<1>10. w \in Seq(D)
  BY <1>6, <1>7, <1>9
<1>11. ASSUME NEW i \in 1 .. Len(w), NEW j \in 1 .. Len(w), w[i] = w[j], i < j
       PROVE  FALSE
  <2> DEFINE T == {k \in Nat : j + k <= Len(q) => q[i + k] = q[j + k]}
  <2>1. ASSUME NEW k \in Nat, \A l \in 0 .. k - 1 : l \in T, j + k <= Len(q)
        PROVE  q[i + k] = q[j + k]
    <3>1. CASE k = 0
      BY <1>9, <1>11, <3>1
    <3>2. CASE k # 0
      <4>1. k - 1 \in 0 .. k - 1 /\ j + (k - 1) <= Len(q)
        BY <1>6, <2>1, <3>2
      <4>2. q[i + (k - 1)] = q[j + (k - 1)]
        BY <2>1, <4>1
      <4>3. i + (k - 1) \in 1 .. Len(q) - 1 /\ j + (k - 1) \in 1 .. Len(q) - 1
        BY <1>6, <1>9, <1>11, <2>1, <3>2
      <4>4. (i + (k - 1)) + 1 = i + k /\ (j + (k - 1)) + 1 = j + k
        OBVIOUS
      <4>5. q[i + k] = next[q[i + (k - 1)]] /\ q[j + k] = next[q[j + (k - 1)]]
        BY <1>5, <4>3, <4>4 DEF Leads
      <4> QED BY <4>2, <4>5
    <3> QED BY <3>1, <3>2
  <2>2. \A k \in Nat : (\A l \in 0 .. k - 1 : l \in T) => k \in T
    BY <2>1
  <2> HIDE DEF T
  <2>3. \A k \in Nat : k \in T
    BY <2>2, Induction
  <2>4. Len(q) - j \in Nat /\ j + (Len(q) - j) = Len(q) /\ i + (Len(q) - j) \in 1 .. Len(w)
    BY <1>6, <1>9, <1>11
  <2>5. q[i + (Len(q) - j)] = NULL
    BY <1>6, <1>8, <2>3, <2>4 DEF T
  <2> QED BY <1>3, <1>9, <2>4, <2>5
<1>12. \A i, j \in 1 .. Len(w) : w[i] = w[j] => i = j
  BY <1>6, <1>9, <1>11
<1>13. m.list = IF Len(w) = 0 THEN NULL ELSE w[1]
  BY <1>5, <1>6, <1>8, <1>9
<1>14. ASSUME NEW k \in 1 .. Len(w)
       PROVE  m.node[w[k]].next = IF k = Len(w) THEN NULL ELSE w[k + 1]
  <2>1. k \in 1 .. Len(q) - 1
    BY <1>9
  <2>2. q[k + 1] = next[q[k]]
    BY <1>5, <2>1 DEF Leads
  <2>3. k # Len(w) => k + 1 \in 1 .. Len(w)
    BY <1>6, <1>9
  <2>4. k = Len(w) => k + 1 = Len(q)
    BY <1>6, <1>9
  <2> QED BY <1>3, <1>8, <1>9, <2>2, <2>3, <2>4
<1> QED BY <1>1, <1>8, <1>10, <1>12, <1>13, <1>14 DEF ListOf

(* There is an entry that is not in use.                                   *)
LEMMA Fresh ==
  ASSUME NEW D \in SUBSET Nodes, IsFiniteSet(D)
  PROVE  \E i \in 1 .. Cardinality(D) + 1 :
           i \in Nodes \ D /\ \A k \in 1 .. i - 1 : ~(k \in Nodes \ D)
<1> DEFINE c == Cardinality(D)
           T == {i \in 1 .. c + 1 : i \notin D}
<1>1. c \in Nat
  BY FS_CardinalityType
<1>2. T # {}
  <2> SUFFICES ASSUME T = {}
               PROVE  FALSE
    OBVIOUS
  <2>1. 1 .. c + 1 \in SUBSET D
    OBVIOUS
  <2>2. Cardinality(1 .. c + 1) <= Cardinality(D)
    BY <2>1, FS_Subset
  <2>3. Cardinality(1 .. c + 1) = c + 1
    BY <1>1, FS_Interval
  <2> QED BY <1>1, <2>2, <2>3
<1>3. T \in SUBSET Nat
  BY <1>1
<1>4. PICK i \in T : \A k \in T : i <= k
  BY <1>2, <1>3, LeastNumber
<1>5. i \in 1 .. c + 1 /\ i \in Nodes \ D
  BY <1>1, <1>4 DEF Nodes, NULL
<1>6. \A k \in 1 .. i - 1 : k \in D
  BY <1>1, <1>4, <1>5
<1> QED BY <1>5, <1>6

(* A list that does not end has no handler that lives.                     *)
LEMMA LostFacts ==
  ASSUME NEW m \in Memories
  PROVE  /\ Lost(m) \in Memories /\ Lost(m).obj = m.obj /\ Lost(m).node = m.node
         /\ Lost(m).slips = m.slips /\ Lost(m).fault \in {"wild", "freed"}
  BY Dying DEF Lost, Faults

(* The object is counted, and recorded at the end of the list.             *)
Recorded(m, o, n, w) ==
  [obj |-> [m.obj EXCEPT ![o] = [m.obj[o] EXCEPT !.count = @ + 1]],
   node |-> [k \in DOMAIN m.node \cup {n} |->
               IF k = n THEN [obj |-> o, next |-> NULL]
               ELSE IF w # << >> /\ k = Last(w) THEN [m.node[k] EXCEPT !.next = n]
               ELSE m.node[k]],
   list |-> IF w = << >> THEN n ELSE m.list,
   fault |-> m.fault, slips |-> m.slips]

(* What Record does, with the number of the new entry.                     *)
LEMMA RecordIs ==
  ASSUME NEW m \in Memories, NEW o \in Slots
  PROVE  \E n \in Nodes \ DOMAIN m.node :
           /\ Recorded(m, o, n, Entries(m, m.list)) \in Memories
           /\ Record(m, o) = IF End(m, m.list) # NULL THEN Lost(m)
                             ELSE Recorded(m, o, n, Entries(m, m.list))
<1> DEFINE D == DOMAIN m.node
           Unused(i) == i \in Nodes \ D
           n == CHOOSE i \in 1 .. Cardinality(D) + 1 : Unused(i) /\ \A k \in 1 .. i - 1 : ~Unused(k)
           w == Entries(m, m.list)
           entries == [k \in D \cup {n} |->
                         IF k = n THEN [obj |-> o, next |-> NULL]
                         ELSE IF w # << >> /\ k = Last(w) THEN [m.node[k] EXCEPT !.next = n]
                         ELSE m.node[k]]
           f == [m.obj EXCEPT ![o] = [m.obj[o] EXCEPT !.count = @ + 1]]
           p == IF w = << >> THEN n ELSE m.list
           r == [obj |-> f, node |-> entries, list |-> p, fault |-> m.fault, slips |-> m.slips]
<1>1. n \in 1 .. Cardinality(D) + 1 /\ Unused(n)
  <2>1. \E i \in 1 .. Cardinality(D) + 1 : Unused(i) /\ \A k \in 1 .. i - 1 : ~Unused(k)
    BY MemoryFacts, Fresh
  <2> HIDE DEF Unused, D
  <2> QED BY <2>1
<1>2. n \in Nodes \ D
  BY <1>1
<1>3. Record(m, o) = IF End(m, m.list) # NULL THEN Lost(m)
                     ELSE [obj |-> [m.obj EXCEPT ![o].count = @ + 1], node |-> entries,
                           list |-> p, fault |-> m.fault, slips |-> m.slips]
  BY Zenon DEF Record
<1> HIDE DEF n
<1>4. entries \in NodeMaps
  <2>1. \A k \in D : m.node[k] \in ListEntry /\ [m.node[k] EXCEPT !.next = n] \in ListEntry
    BY <1>2, MemoryFacts DEF ListEntry
  <2>2. [obj |-> o, next |-> NULL] \in ListEntry
    BY DEF ListEntry
  <2>3. \A k \in D \cup {n} : entries[k] \in ListEntry
    BY <2>1, <2>2
  <2>4. entries \in [D \cup {n} -> ListEntry]
    BY <2>3
  <2>5. D \cup {n} \in SUBSET Nodes /\ IsFiniteSet(D \cup {n})
    BY <1>2, MemoryFacts, FS_AddElement
  <2> HIDE DEF entries, D
  <2> QED BY <2>4, <2>5, AllNodeMaps
<1>5. f \in [Slots -> Object]
  <2>1. m.obj[o] \in Object /\ m.obj[o].count + 1 \in Int
    BY MemoryFacts, ObjectFacts
  <2>2. [m.obj[o] EXCEPT !.count = m.obj[o].count + 1] \in Object
    BY <2>1, Recounted
  <2> QED BY <2>2, MemoryFacts
<1>6. p \in Heads
  BY <1>2, MemoryFacts DEF Heads
<1> HIDE DEF entries, p
<1>7. r \in Memories
  <2> HIDE DEF f
  <2> QED BY <1>4, <1>5, <1>6, MemoryFacts DEF Memories
<1>8. [m.obj EXCEPT ![o].count = @ + 1] = f
  OBVIOUS
<1>9. r = Recorded(m, o, n, w)
  BY Zenon DEF Recorded, entries, p
<1> QED BY <1>2, <1>3, <1>7, <1>8, <1>9

(* A list whose last entry links to a new one is a list with that entry.   *)
LEMMA RecordFacts ==
  ASSUME NEW m \in Memories, NEW o \in Slots, NEW w, ListOf(m.node, m.list, w)
  PROVE  \E n \in Nodes \ DOMAIN m.node :
           LET r == Record(m, o) IN
           /\ r \in Memories /\ r.fault = m.fault /\ r.slips = m.slips
           /\ r.obj = [m.obj EXCEPT ![o] = [m.obj[o] EXCEPT !.count = @ + 1]]
           /\ DOMAIN r.node = DOMAIN m.node \cup {n} /\ r.node[n].obj = o
           /\ \A k \in DOMAIN m.node : /\ r.node[k].obj = m.node[k].obj
                                       /\ k \notin ToSet(w) => r.node[k] = m.node[k]
           /\ ListOf(r.node, r.list, Append(w, n))
<1>1. Entries(m, m.list) = w /\ End(m, m.list) = NULL
  BY ListIs
<1>2. PICK n \in Nodes \ DOMAIN m.node : Record(m, o) = Recorded(m, o, n, w) /\ Recorded(m, o, n, w) \in Memories
  BY <1>1, RecordIs
<1>3. PICK r : r = Record(m, o)
  OBVIOUS
<1>4. PICK D : D = DOMAIN m.node
  OBVIOUS
<1>5. /\ r \in Memories /\ r.fault = m.fault /\ r.slips = m.slips
      /\ r.obj = [m.obj EXCEPT ![o] = [m.obj[o] EXCEPT !.count = @ + 1]]
      /\ r.list = IF w = << >> THEN n ELSE m.list
      /\ DOMAIN r.node = D \cup {n}
      /\ \A k \in D \cup {n} :
           r.node[k] = IF k = n THEN [obj |-> o, next |-> NULL]
                       ELSE IF w # << >> /\ k = Last(w) THEN [m.node[k] EXCEPT !.next = n]
                       ELSE m.node[k]
  BY <1>2, <1>3, <1>4 DEF Recorded
<1>6. w \in Seq(D) /\ Len(w) \in Nat /\ n \notin D /\ \A k \in 1 .. Len(w) : w[k] \in D
  BY <1>2, <1>4 DEF ListOf
<1>7. w # << >> => Last(w) = w[Len(w)] /\ Len(w) \in 1 .. Len(w)
  <2> SUFFICES ASSUME w # << >>
               PROVE  Last(w) = w[Len(w)] /\ Len(w) \in 1 .. Len(w)
    OBVIOUS
  <2>1. Len(w) \in Nat \ {0} /\ Last(w) = w[Len(w)]
    BY <1>6, SeqParts
  <2> QED BY <2>1
<1>8. w = << >> <=> Len(w) = 0
  BY <1>6
<1>9. \A k \in D : m.node[k] \in ListEntry
  BY <1>4, MemoryFacts
<1>10. r.node[n] = [obj |-> o, next |-> NULL]
  BY <1>5
<1>11. \A k \in D : /\ r.node[k].obj = m.node[k].obj
                    /\ r.node[k].next = IF w # << >> /\ k = Last(w) THEN n ELSE m.node[k].next
  BY <1>5, <1>6, <1>9 DEF ListEntry
<1>12. ASSUME NEW k \in D, k \notin ToSet(w)
       PROVE  r.node[k] = m.node[k]
  <2>1. w # << >> => Last(w) \in ToSet(w)
    BY <1>6, <1>7, SeqElements
  <2> QED BY <1>5, <1>6, <1>12, <2>1
<1>13. PICK v : v = Append(w, n)
  OBVIOUS
<1>14. /\ v \in Seq(D \cup {n}) /\ Len(v) = Len(w) + 1 /\ v[Len(w) + 1] = n
       /\ \A k \in 1 .. Len(w) : v[k] = w[k]
  <2>1. w \in Seq(D \cup {n})
    BY <1>6
  <2> QED BY <1>13, <2>1
<1>15. ListOf(r.node, r.list, v)
  <2>1. \A i, j \in 1 .. Len(v) : v[i] = v[j] => i = j
    <3> TAKE i, j \in 1 .. Len(v)
    <3> HAVE v[i] = v[j]
    <3>1. CASE i = Len(w) + 1 \/ j = Len(w) + 1
      BY <1>6, <1>14, <3>1
    <3>2. CASE ~(i = Len(w) + 1 \/ j = Len(w) + 1)
      <4>1. i \in 1 .. Len(w) /\ j \in 1 .. Len(w)
        BY <1>6, <1>14, <3>2
      <4> QED BY <1>14, <4>1 DEF ListOf
    <3> QED BY <3>1, <3>2
  <2>2. r.list = v[1]
    <3>1. CASE Len(w) = 0
      BY <1>5, <1>8, <1>14, <3>1
    <3>2. CASE Len(w) # 0
      <4>1. 1 \in 1 .. Len(w)
        BY <1>6, <3>2
      <4> QED BY <1>5, <1>8, <1>14, <3>2, <4>1 DEF ListOf
    <3> QED BY <3>1, <3>2
  <2>3. ASSUME NEW k \in 1 .. Len(v)
        PROVE  r.node[v[k]].next = IF k = Len(v) THEN NULL ELSE v[k + 1]
    <3>1. CASE k = Len(w) + 1
      BY <1>10, <1>14, <3>1
    <3>2. CASE k = Len(w)
      <4>1. k \in 1 .. Len(w) /\ w # << >>
        BY <1>6, <1>8, <2>3, <3>2
      <4> QED BY <1>6, <1>7, <1>11, <1>14, <3>2, <4>1
    <3>3. CASE k \in 1 .. Len(w) - 1
      <4>1. k \in 1 .. Len(w) /\ k + 1 \in 1 .. Len(w) /\ k # Len(w)
        BY <1>6, <3>3
      <4>2. m.node[w[k]].next = w[k + 1]
        BY <4>1 DEF ListOf
      <4>3. w # << >> => w[k] # Last(w)
        BY <1>7, <4>1 DEF ListOf
      <4>4. k # Len(v)
        BY <1>6, <1>14, <3>3
      <4> QED BY <1>6, <1>11, <1>14, <4>1, <4>2, <4>3, <4>4
    <3> QED BY <1>6, <1>14, <2>3, <3>1, <3>2, <3>3
  <2>4. Len(v) # 0
    BY <1>6, <1>14
  <2> QED BY <1>5, <1>14, <2>1, <2>2, <2>3, <2>4 DEF ListOf
<1> QED BY <1>3, <1>4, <1>5, <1>10, <1>11, <1>12, <1>13, <1>15

(* An entry is freed.                                                      *)
LEMMA FreedFacts ==
  ASSUME NEW m \in Memories, NEW n
  PROVE  LET r == Freed(m, n) IN
         /\ r \in Memories /\ r.obj = m.obj /\ r.list = m.list
         /\ r.fault = m.fault /\ r.slips = m.slips
         /\ DOMAIN r.node = DOMAIN m.node \ {n}
         /\ \A k \in DOMAIN m.node \ {n} : r.node[k] = m.node[k]
<1>1. PICK nd : nd = [k \in DOMAIN m.node \ {n} |-> m.node[k]]
  OBVIOUS
<1>2. nd \in NodeMaps
  <2>1. DOMAIN m.node \ {n} \in SUBSET Nodes /\ IsFiniteSet(DOMAIN m.node \ {n})
    BY MemoryFacts, FS_RemoveElement
  <2>2. nd \in [DOMAIN m.node \ {n} -> ListEntry]
    BY <1>1, MemoryFacts
  <2> QED BY <2>1, <2>2, AllNodeMaps
<1>3. Freed(m, n) = [m EXCEPT !.node = nd]
  BY <1>1 DEF Freed
<1>4. PICK r : r = [m EXCEPT !.node = nd]
  OBVIOUS
<1>5. /\ r \in Memories /\ r.obj = m.obj /\ r.node = nd /\ r.list = m.list
      /\ r.fault = m.fault /\ r.slips = m.slips
  BY <1>2, <1>4, With
<1> QED BY <1>1, <1>3, <1>4, <1>5

(* What unlinking an entry does to the links.                              *)
LEMMA Relinked ==
  ASSUME NEW m \in Memories, NEW p \in DOMAIN m.node, NEW x \in {NULL} \cup Nodes
  PROVE  LET r == Relink(m, p, x) IN
         /\ r \in Memories /\ r.obj = m.obj /\ r.list = m.list
         /\ r.fault = m.fault /\ r.slips = m.slips
         /\ DOMAIN r.node = DOMAIN m.node
         /\ r.node[p].obj = m.node[p].obj /\ r.node[p].next = x
         /\ \A k \in DOMAIN m.node : k # p => r.node[k] = m.node[k]
<1>1. PICK nd : nd = [m.node EXCEPT ![p] = [m.node[p] EXCEPT !.next = x]]
  OBVIOUS
<1>2. /\ DOMAIN nd = DOMAIN m.node /\ nd[p] = [m.node[p] EXCEPT !.next = x]
      /\ \A k \in DOMAIN m.node : k # p => nd[k] = m.node[k]
  BY <1>1, MemoryFacts
<1>3. m.node[p] \in ListEntry
  BY MemoryFacts
<1>4. nd[p] \in ListEntry /\ nd[p].obj = m.node[p].obj /\ nd[p].next = x
  BY <1>2, <1>3 DEF ListEntry
<1>5. nd \in NodeMaps
  <2>1. nd \in [DOMAIN m.node -> ListEntry]
    BY <1>1, <1>2, <1>4, MemoryFacts
  <2> QED BY <2>1, MemoryFacts, AllNodeMaps
<1>6. Relink(m, p, x) = [m EXCEPT !.node = nd]
  BY <1>1 DEF Relink
<1>7. PICK r : r = [m EXCEPT !.node = nd]
  OBVIOUS
<1>8. /\ r \in Memories /\ r.obj = m.obj /\ r.node = nd /\ r.list = m.list
      /\ r.fault = m.fault /\ r.slips = m.slips
  BY <1>5, <1>7, With
<1>9. Relink(m, p, x) = r
  BY <1>6, <1>7
<1> QED BY <1>2, <1>4, <1>8, <1>9

(* The list without its i-th entry, whose predecessor links past it.       *)
Bypassed(m, w, i) ==
  IF i = 1 THEN [m EXCEPT !.list = m.node[w[i]].next]
  ELSE Relink(m, w[i - 1], m.node[w[i]].next)

(* What Unlinked does, with the position of the entry.                     *)
LEMMA UnlinkedIs ==
  ASSUME NEW m \in Memories, NEW o \in Slots
  PROVE  LET w == Entries(m, m.list) IN
         IF \A i \in 1 .. Len(w) : m.node[w[i]].obj # o
         THEN Unlinked(m, o) = IF End(m, m.list) = NULL THEN m ELSE Lost(m)
         ELSE \E i \in 1 .. Len(w) :
                /\ m.node[w[i]].obj = o
                /\ Unlinked(m, o) = Freed(Uncount(Bypassed(m, w, i), <<o>>), w[i])
<1> DEFINE w == Entries(m, m.list)
           at == {i \in DOMAIN w : m.node[w[i]].obj = o}
           i == CHOOSE j \in at : \A k \in at : j <= k
<1>1. DOMAIN w = 1 .. Len(w) /\ Len(w) \in Nat
  BY WalkFacts
<1>2. Unlinked(m, o) =
        IF at = {} THEN IF End(m, m.list) = NULL THEN m ELSE Lost(m)
        ELSE Freed(Uncount(Bypassed(m, w, i), <<o>>), w[i])
  BY Zenon DEF Unlinked, Bypassed
<1> HIDE DEF w
<1>3. ASSUME at # {}
      PROVE  i \in at
  <2>1. at \in SUBSET Nat
    BY <1>1
  <2>2. \E j \in at : \A k \in at : j <= k
    BY <1>3, <2>1, LeastNumber
  <2> HIDE DEF at
  <2> QED BY <2>2
<1>4. at = {} <=> \A j \in 1 .. Len(w) : m.node[w[j]].obj # o
  BY <1>1
<1>5. ASSUME at # {}
      PROVE  i \in 1 .. Len(w) /\ m.node[w[i]].obj = o
  BY <1>1, <1>3, <1>5
<1> HIDE DEF i, at
<1> QED BY <1>2, <1>4, <1>5 DEF w

(* Unlinked yields a memory, and slips nowhere.                            *)
LEMMA UnlinkedType ==
  ASSUME NEW m \in Memories, NEW o \in Slots
  PROVE  /\ Unlinked(m, o) \in Memories /\ Unlinked(m, o).slips = m.slips
         /\ Unlinked(m, o).fault \in {m.fault, "wild", "freed"}
<1>1. PICK w : w = Entries(m, m.list)
  OBVIOUS
<1>2. Len(w) \in Nat /\ \A k \in 1 .. Len(w) : w[k] \in DOMAIN m.node
  BY <1>1, WalkFacts
<1>3. CASE \A i \in 1 .. Len(w) : m.node[w[i]].obj # o
  <2>1. Unlinked(m, o) = IF End(m, m.list) = NULL THEN m ELSE Lost(m)
    BY <1>1, <1>3, UnlinkedIs, Zenon
  <2> QED BY <2>1, LostFacts
<1>4. CASE ~\A i \in 1 .. Len(w) : m.node[w[i]].obj # o
  <2>1. PICK i \in 1 .. Len(w) : Unlinked(m, o) = Freed(Uncount(Bypassed(m, w, i), <<o>>), w[i])
    BY <1>1, <1>4, UnlinkedIs, Zenon
  <2>2. PICK b : b = Bypassed(m, w, i)
    OBVIOUS
  <2>3. m.node[w[i]].next \in {NULL} \cup Nodes
    BY <1>2, MemoryFacts
  <2>4. b \in Memories /\ b.fault = m.fault /\ b.slips = m.slips
    <3>1. CASE i = 1
      <4>1. m.node[w[i]].next \in Heads
        BY <2>3 DEF Heads
      <4>2. b = [m EXCEPT !.list = m.node[w[i]].next]
        BY <2>2, <3>1 DEF Bypassed
      <4> QED BY <4>1, <4>2, With
    <3>2. CASE i # 1
      <4>1. w[i - 1] \in DOMAIN m.node
        BY <1>2, <3>2
      <4>2. b = Relink(m, w[i - 1], m.node[w[i]].next)
        BY <2>2, <3>2 DEF Bypassed
      <4> QED BY <2>3, <4>1, <4>2, Relinked
    <3> QED BY <3>1, <3>2
  <2>5. PICK u : u = Uncount(b, <<o>>)
    OBVIOUS
  <2>6. <<o>> \in Seq(Slots)
    OBVIOUS
  <2>7. u \in Memories /\ u.fault = m.fault /\ u.slips = m.slips
    BY <2>4, <2>5, <2>6, UncountFacts
  <2>8. PICK r : r = Freed(u, w[i])
    OBVIOUS
  <2>9. r \in Memories /\ r.fault = m.fault /\ r.slips = m.slips
    BY <2>7, <2>8, FreedFacts
  <2> QED BY <2>1, <2>2, <2>5, <2>8, <2>9
<1> QED BY <1>3, <1>4

(* The list w without its entry n for an object is v.                      *)
Without(m, o, w, r, n, v) ==
  /\ r \in Memories /\ r.fault = m.fault /\ r.slips = m.slips
  /\ n \in ToSet(w) /\ m.node[n].obj = o /\ r.obj = Uncount(m, <<o>>).obj
  /\ DOMAIN r.node = DOMAIN m.node \ {n}
  /\ \A k \in DOMAIN m.node \ {n} : /\ r.node[k].obj = m.node[k].obj
                                    /\ k \notin ToSet(w) => r.node[k] = m.node[k]
  /\ ListOf(r.node, r.list, v) /\ ToSet(v) \subseteq ToSet(w)

(* The first entry of an object is taken off a list that ends.             *)
LEMMA UnlinkedFacts ==
  ASSUME NEW m \in Memories, NEW o \in Slots, NEW w, ListOf(m.node, m.list, w),
         NEW r, r = Unlinked(m, o)
  PROVE  r = m \/ \E n, v : Without(m, o, w, r, n, v)
<1>1. Entries(m, m.list) = w /\ End(m, m.list) = NULL
  BY ListIs
<1>2. CASE \A i \in 1 .. Len(w) : m.node[w[i]].obj # o
  <2>1. Unlinked(m, o) = m
    BY <1>1, <1>2, UnlinkedIs, Zenon
  <2> QED BY <2>1
<1>3. CASE ~\A i \in 1 .. Len(w) : m.node[w[i]].obj # o
  <2>1. PICK i \in 1 .. Len(w) : /\ m.node[w[i]].obj = o
                                 /\ Unlinked(m, o) = Freed(Uncount(Bypassed(m, w, i), <<o>>), w[i])
    BY <1>1, <1>3, UnlinkedIs, Zenon
  <2>2. PICK D : D = DOMAIN m.node
    OBVIOUS
  <2>3. PICK n : n = w[i]
    OBVIOUS
  <2>4. PICK next : next = m.node[n].next
    OBVIOUS
  <2>5. /\ w \in Seq(D) /\ Len(w) \in Nat /\ n \in D /\ \A k \in 1 .. Len(w) : w[k] \in D
        /\ next = IF i = Len(w) THEN NULL ELSE w[i + 1]
        /\ next \in {NULL} \cup Nodes
    BY <2>1, <2>2, <2>3, <2>4, MemoryFacts DEF ListOf
  <2>6. ToSet(w) = {w[k] : k \in 1 .. Len(w)}
    BY <2>5, SeqElements
  <2>7. PICK b : b = Bypassed(m, w, i)
    OBVIOUS
  <2>8. /\ b \in Memories /\ b.fault = m.fault /\ b.slips = m.slips /\ b.obj = m.obj
        /\ DOMAIN b.node = D
        /\ b.list = IF i = 1 THEN next ELSE m.list
        /\ \A k \in D : b.node[k].obj = m.node[k].obj
        /\ i # 1 => b.node[w[i - 1]].next = next
        /\ \A k \in D : i = 1 \/ k # w[i - 1] => b.node[k] = m.node[k]
    <3>1. CASE i = 1
      <4>1. next \in Heads
        BY <2>5 DEF Heads
      <4>2. b = [m EXCEPT !.list = next]
        BY <2>3, <2>4, <2>7, <3>1 DEF Bypassed
      <4> QED BY <2>2, <3>1, <4>1, <4>2, With
    <3>2. CASE i # 1
      <4>1. w[i - 1] \in DOMAIN m.node
        BY <2>2, <2>5, <3>2
      <4>2. b = Relink(m, w[i - 1], next)
        BY <2>3, <2>4, <2>7, <3>2 DEF Bypassed
      <4> QED BY <2>2, <2>5, <3>2, <4>1, <4>2, Relinked
    <3> QED BY <3>1, <3>2
  <2>9. PICK u : u = Uncount(b, <<o>>)
    OBVIOUS
  <2>10. /\ u \in Memories /\ u.fault = m.fault /\ u.slips = m.slips
         /\ u.node = b.node /\ u.list = b.list /\ u.obj = Uncount(m, <<o>>).obj
    <3>1. <<o>> \in Seq(Slots)
      OBVIOUS
    <3>2. /\ u \in Memories /\ u.fault = m.fault /\ u.slips = m.slips
          /\ u.node = b.node /\ u.list = b.list
      BY <2>8, <2>9, <3>1, UncountFacts
    <3>3. u.obj = Uncount(m, <<o>>).obj
      <4>1. PICK f : f = [s \in Slots |-> [m.obj[s] EXCEPT !.count = Less(@, Times(<<o>>, s))]]
        OBVIOUS
      <4>2. Uncount(b, <<o>>) = [b EXCEPT !.obj = f] /\ Uncount(m, <<o>>) = [m EXCEPT !.obj = f]
        BY <2>8, <4>1 DEF Uncount
      <4>3. [b EXCEPT !.obj = f].obj = f /\ [m EXCEPT !.obj = f].obj = f
        BY <2>8 DEF Memories
      <4> QED BY <2>9, <4>2, <4>3
    <3> QED BY <3>2, <3>3
  <2>11. PICK x : x = Freed(u, n)
    OBVIOUS
  <2>12. /\ x \in Memories /\ x.fault = m.fault /\ x.slips = m.slips
         /\ x.obj = Uncount(m, <<o>>).obj /\ x.list = b.list
         /\ DOMAIN x.node = D \ {n}
         /\ \A k \in D \ {n} : x.node[k] = b.node[k]
    BY <2>8, <2>10, <2>11, FreedFacts
  <2>13. PICK v : v = [k \in 1 .. Len(w) - 1 |-> IF k < i THEN w[k] ELSE w[k + 1]]
    OBVIOUS
  <2> DEFINE at(k) == IF k < i THEN k ELSE k + 1
  <2>14. /\ DOMAIN v = 1 .. Len(w) - 1 /\ Len(w) - 1 \in Nat
         /\ \A k \in 1 .. Len(w) - 1 : v[k] = w[at(k)] /\ at(k) \in 1 .. Len(w) /\ at(k) # i
    BY <2>1, <2>5, <2>13
  <2>15. \A j, k \in 1 .. Len(w) : w[j] = w[k] => j = k
    BY DEF ListOf
  <2>16. \A k \in 1 .. Len(w) - 1 : v[k] \in D \ {n} /\ v[k] \in ToSet(w)
    <3> TAKE k \in 1 .. Len(w) - 1
    <3>1. v[k] = w[at(k)] /\ at(k) \in 1 .. Len(w) /\ at(k) # i
      BY <2>14
    <3> HIDE DEF at
    <3> QED BY <2>1, <2>3, <2>5, <2>6, <2>15, <3>1
  <2>17. v \in Seq(D \ {n}) /\ Len(v) = Len(w) - 1
    BY <2>13, <2>14, <2>16
  <2>18. ToSet(v) \subseteq ToSet(w) /\ v \in Seq(D)
    <3>1. ToSet(v) = {v[k] : k \in 1 .. Len(v)}
      BY <2>17, SeqElements
    <3> QED BY <2>16, <2>17, <3>1
  <2>19. ListOf(x.node, x.list, v)
    <3>1. \A j, k \in 1 .. Len(v) : v[j] = v[k] => j = k
      <4> TAKE j, k \in 1 .. Len(v)
      <4> HAVE v[j] = v[k]
      <4>1. /\ v[j] = w[at(j)] /\ at(j) \in 1 .. Len(w)
            /\ v[k] = w[at(k)] /\ at(k) \in 1 .. Len(w)
        BY <2>14, <2>17
      <4>2. at(j) = at(k)
        <5> HIDE DEF at
        <5> QED BY <2>15, <4>1
      <4> QED BY <2>1, <2>5, <2>17, <4>2
    <3>2. x.list = IF Len(v) = 0 THEN NULL ELSE v[1]
      <4>1. m.list = w[1]
        BY <2>1, <2>5 DEF ListOf
      <4>2. CASE i = 1
        <5>1. Len(v) # 0 => v[1] = w[2]
          BY <2>5, <2>13, <2>17, <4>2
        <5> QED BY <2>5, <2>8, <2>12, <2>17, <4>2, <5>1
      <4>3. CASE i # 1
        <5>1. Len(v) # 0 /\ v[1] = w[1]
          BY <2>1, <2>5, <2>13, <2>17, <4>3
        <5> QED BY <2>8, <2>12, <4>1, <4>3, <5>1
      <4> QED BY <4>2, <4>3
    <3>3. ASSUME NEW k \in 1 .. Len(v)
          PROVE  x.node[v[k]].next = IF k = Len(v) THEN NULL ELSE v[k + 1]
      <4>1. v[k] \in D \ {n} /\ x.node[v[k]] = b.node[v[k]]
        BY <2>12, <2>16, <2>17
      <4>2. CASE k = i - 1
        <5>1. v[k] = w[i - 1] /\ i # 1
          BY <2>1, <2>5, <2>13, <2>17, <4>2
        <5>2. x.node[v[k]].next = next
          BY <2>8, <4>1, <5>1
        <5>3. k # Len(v) => v[k + 1] = w[i + 1]
          BY <2>1, <2>5, <2>13, <2>17, <4>2
        <5>4. k = Len(v) <=> i = Len(w)
          BY <2>1, <2>5, <2>17, <4>2
        <5> QED BY <2>5, <5>2, <5>3, <5>4
      <4>3. CASE k # i - 1
        <5>1. v[k] = w[at(k)] /\ at(k) \in 1 .. Len(w) /\ at(k) # i - 1 /\ at(k) # i
          BY <2>1, <2>5, <2>14, <2>17, <4>3
        <5>2. (at(k) = Len(w) <=> k = Len(v)) /\ (k # Len(v) => v[k + 1] = w[at(k) + 1])
          BY <2>1, <2>5, <2>13, <2>17, <4>3
        <5>3. i = 1 \/ v[k] # w[i - 1]
          <6>1. i # 1 => i - 1 \in 1 .. Len(w)
            BY <2>1, <2>5
          <6> HIDE DEF at
          <6> QED BY <2>15, <5>1, <6>1
        <5>4. x.node[v[k]] = m.node[v[k]]
          BY <2>8, <4>1, <5>3
        <5>5. m.node[w[at(k)]].next = IF at(k) = Len(w) THEN NULL ELSE w[at(k) + 1]
          <6> HIDE DEF at
          <6> QED BY <5>1 DEF ListOf
        <5> HIDE DEF at
        <5> QED BY <5>1, <5>2, <5>4, <5>5
      <4> QED BY <4>2, <4>3
    <3> QED BY <2>12, <2>17, <3>1, <3>2, <3>3 DEF ListOf
  <2>20. n \in ToSet(w) /\ m.node[n].obj = o
    BY <2>1, <2>3, <2>6
  <2>21. \A k \in D \ {n} : /\ x.node[k].obj = m.node[k].obj
                            /\ k \notin ToSet(w) => x.node[k] = m.node[k]
    <3> TAKE k \in D \ {n}
    <3>1. i # 1 => w[i - 1] \in ToSet(w)
      BY <2>1, <2>5, <2>6
    <3> QED BY <2>8, <2>12, <3>1
  <2>22. x = r
    BY <2>1, <2>3, <2>7, <2>9, <2>11
  <2>23. Without(m, o, w, r, n, v)
    BY <2>2, <2>12, <2>18, <2>19, <2>20, <2>21, <2>22 DEF Without
  <2> QED BY <2>23
<1> QED BY <1>2, <1>3

-----------------------------------------------------------------------------
(* What the handlers yield, whatever has gone wrong before.                *)

(* The values of an object's fields, first stored first.                   *)
Values(o) == [i \in DOMAIN o.fields |-> o.fields[i].val]

(* There are as many as fields.                                             *)
LEMMA ValuesFacts ==
  ASSUME NEW o \in Object
  PROVE  /\ Values(o) \in Seq({NULL} \cup Slots)
         /\ o.fields = << >> <=> Values(o) = << >>
<1>1. o.fields \in Seq([name : Fields, val : {NULL} \cup Slots])
  BY ObjectFacts
<1>2. PICK F, R : F = o.fields /\ R = [name : Fields, val : {NULL} \cup Slots]
  OBVIOUS
<1>3. /\ Len(F) \in Nat /\ DOMAIN F = 1 .. Len(F)
      /\ \A i \in 1 .. Len(F) : F[i].val \in {NULL} \cup Slots
  <2>1. Len(F) \in Nat /\ DOMAIN F = 1 .. Len(F)
    BY <1>1, <1>2
  <2>2. F \in Seq(R)
    BY <1>1, <1>2
  <2>3. \A i \in 1 .. Len(F) : F[i] \in R
    BY <2>2
  <2> QED BY <1>2, <2>1, <2>3
<1>4. PICK w : w = [i \in 1 .. Len(F) |-> F[i].val]
  OBVIOUS
<1>5. w \in Seq({NULL} \cup Slots) /\ Len(w) = Len(F)
  BY <1>3, <1>4
<1>6. Values(o) = w
  BY <1>2, <1>3, <1>4 DEF Values
<1>7. F = << >> <=> Len(F) = 0
  BY <1>1, <1>2
<1>8. w = << >> <=> Len(w) = 0
  BY <1>5
<1> QED BY <1>2, <1>5, <1>6, <1>7, <1>8

(* A handler leaves another memory, with all the slips of the first.       *)
Leaves(m, r) == r \in Memories /\ m.slips \subseteq r.slips

(* It changes counts at most.                                              *)
Recounts(m, r) ==
  /\ Leaves(m, r) /\ r.node = m.node /\ r.list = m.list
  /\ \A s \in Slots : Alike(r.obj[s], m.obj[s])

(* Uncounting objects, and noting a slip.                                   *)
LEMMA RecountsUncount ==
  ASSUME NEW m \in Memories, NEW V, NEW w \in Seq(V), NEW cond \in BOOLEAN, NEW what \in Slips
  PROVE  LET r == Slip(Uncount(m, w), cond, what) IN
         /\ Recounts(m, r) /\ r.fault = m.fault /\ r.obj = Uncount(m, w).obj
         /\ r.slips = {} => ~cond
<1>1. PICK u : u = Uncount(m, w)
  OBVIOUS
<1>2. /\ u \in Memories /\ u.node = m.node /\ u.list = m.list
      /\ u.fault = m.fault /\ u.slips = m.slips
      /\ \A s \in Slots : Alike(u.obj[s], m.obj[s])
  BY <1>1, UncountFacts
<1>3. PICK r : r = Slip(u, cond, what)
  OBVIOUS
<1>4. /\ r \in Memories /\ r.obj = u.obj /\ r.node = u.node /\ r.list = u.list
      /\ r.fault = u.fault /\ u.slips \subseteq r.slips /\ (r.slips = {} => ~cond)
  BY <1>2, <1>3, Slipping
<1> QED BY <1>1, <1>2, <1>3, <1>4 DEF Recounts, Leaves

(* The objects in the fields of one object are uncounted.                  *)
LEMMA UncountFieldsFacts ==
  ASSUME NEW m \in Memories, NEW o \in Slots
  PROVE  LET r == UncountFields(m, o)
             w == Values(m.obj[o])
         IN /\ Recounts(m, r)
            /\ NULL \in ToSet(w) => r.fault = "null"
            /\ NULL \notin ToSet(w) => /\ r.fault = m.fault /\ r.obj = Uncount(m, w).obj
                                       /\ r.slips = {} => ~Strands(m, w)
<1>1. PICK w : w = Values(m.obj[o])
  OBVIOUS
<1>2. w \in Seq({NULL} \cup Slots)
  BY <1>1, MemoryFacts, ValuesFacts
<1>3. UncountFields(m, o) = IF NULL \in ToSet(w) THEN Dies(m, "null")
                            ELSE Slip(Uncount(m, w), Strands(m, w), "children")
  BY <1>1 DEF UncountFields, Values
<1>4. CASE NULL \in ToSet(w)
  <2>1. "null" \in Faults
    BY DEF Faults
  <2>2. PICK r : r = Dies(m, "null")
    OBVIOUS
  <2>3. /\ r \in Memories /\ r.obj = m.obj /\ r.node = m.node /\ r.list = m.list
        /\ r.fault = "null" /\ r.slips = m.slips
    BY <2>1, <2>2, Dying
  <2> QED BY <1>1, <1>3, <1>4, <2>2, <2>3 DEF Recounts, Leaves, Alike
<1>5. CASE NULL \notin ToSet(w)
  <2>1. PICK c \in BOOLEAN : c = Strands(m, w)
    BY DEF Strands
  <2>2. PICK r : r = Slip(Uncount(m, w), c, "children")
    OBVIOUS
  <2>3. "children" \in Slips
    BY DEF Slips
  <2>4. /\ Recounts(m, r) /\ r.fault = m.fault /\ r.obj = Uncount(m, w).obj
        /\ r.slips = {} => ~c
    BY <1>2, <2>2, <2>3, RecountsUncount
  <2>5. UncountFields(m, o) = r
    BY <1>3, <1>5, <2>1, <2>2
  <2> QED BY <1>1, <1>5, <2>1, <2>4, <2>5
<1> QED BY <1>4, <1>5

(* Record yields a memory.                                                 *)
LEMMA RecordType ==
  ASSUME NEW m \in Memories, NEW o \in Slots
  PROVE  Leaves(m, Record(m, o)) /\ Record(m, o).fault \in {m.fault, "wild", "freed"}
<1>1. PICK w : w = Entries(m, m.list)
  OBVIOUS
<1>2. PICK n : /\ Recorded(m, o, n, w) \in Memories
               /\ Record(m, o) = IF End(m, m.list) # NULL THEN Lost(m) ELSE Recorded(m, o, n, w)
  BY <1>1, RecordIs
<1>3. Recorded(m, o, n, w).fault = m.fault /\ Recorded(m, o, n, w).slips = m.slips
  BY DEF Recorded
<1> QED BY <1>2, <1>3, LostFacts DEF Leaves

(* TakeOff is UncountFields and then Unlinked, unless it faults.           *)
LEMMA TakeOffIs ==
  ASSUME NEW m \in Memories, NEW o \in Slots
  PROVE  LET b == UncountFields(m, o)
             r == TakeOff(m, o)
         IN \/ r = b /\ ~Ok(b)
            \/ /\ Ok(b)
               /\ \E c \in Memories :
                    /\ c.obj = b.obj /\ c.node = b.node /\ c.list = b.list /\ c.fault = b.fault
                    /\ b.slips \subseteq c.slips /\ (c.slips = {} => m.obj[o].fields = << >>)
                    /\ (m.obj[o].fields = << >> => c = b)
                    /\ r = Unlinked(c, o)
<1>1. PICK b : b = UncountFields(m, o)
  OBVIOUS
<1>2. b \in Memories
  BY <1>1, UncountFieldsFacts DEF Recounts, Leaves
<1>3. PICK cond \in BOOLEAN : cond = (m.obj[o].fields # << >>)
  OBVIOUS
<1>4. PICK c : c = Slip(b, cond, "children")
  OBVIOUS
<1>5. "children" \in Slips
  BY DEF Slips
<1>6. /\ c \in Memories /\ c.obj = b.obj /\ c.node = b.node /\ c.list = b.list
      /\ c.fault = b.fault /\ b.slips \subseteq c.slips /\ (c.slips = {} => ~cond)
      /\ ~cond => c = b
  BY <1>2, <1>4, <1>5, Slipping
<1>7. TakeOff(m, o) = IF Ok(b) THEN Unlinked(c, o) ELSE b
  BY <1>1, <1>3, <1>4 DEF TakeOff
<1> QED BY <1>1, <1>3, <1>6, <1>7

(* Whatever happens, it yields a memory.                                    *)
LEMMA TakeOffType ==
  ASSUME NEW m \in Memories, NEW o \in Slots
  PROVE  Leaves(m, TakeOff(m, o))
<1>1. PICK b : b = UncountFields(m, o)
  OBVIOUS
<1>2. Leaves(m, b)
  BY <1>1, UncountFieldsFacts DEF Recounts
<1>3. CASE TakeOff(m, o) = b
  BY <1>2, <1>3
<1>4. CASE \E c \in Memories : b.slips \subseteq c.slips /\ TakeOff(m, o) = Unlinked(c, o)
  BY <1>2, <1>4, UnlinkedType DEF Leaves
<1> QED
  <2>1. \/ TakeOff(m, o) = b
        \/ \E c \in Memories : b.slips \subseteq c.slips /\ TakeOff(m, o) = Unlinked(c, o)
    BY <1>1, TakeOffIs
  <2> QED BY <1>3, <1>4, <2>1

(* An entry that is dropped is freed, if the process is alive.             *)
LEMMA DropType ==
  ASSUME NEW m \in Memories, NEW n \in DOMAIN m.node
  PROVE  /\ Leaves(m, Drop(m, n))
         /\ Drop(m, n).fault \in {m.fault, "null"} /\ Drop(m, n).list = m.list
         /\ ~Ok(m) => Drop(m, n) = m
         /\ Ok(m) => /\ DOMAIN Drop(m, n).node = DOMAIN m.node \ {n}
                     /\ \A k \in DOMAIN m.node \ {n} : Drop(m, n).node[k] = m.node[k]
         /\ \A s \in Slots : Alike(Drop(m, n).obj[s], m.obj[s])
<1>1. PICK o \in Slots : o = m.node[n].obj
  BY MemoryFacts
<1>2. CASE ~Ok(m)
  <2>1. Drop(m, n) = m
    BY <1>2 DEF Drop
  <2> QED BY <1>2, <2>1 DEF Leaves, Alike
<1>3. CASE Ok(m) /\ m.obj[o].count > 0
  <2>1. PICK c \in BOOLEAN : c = (m.obj[o].count > 1 /\ m.obj[o].fields # << >>)
    OBVIOUS
  <2>2. <<o>> \in Seq(Slots) /\ "children" \in Slips
    BY DEF Slips
  <2>3. PICK a : a = Slip(Uncount(m, <<o>>), c, "children")
    OBVIOUS
  <2>4. Recounts(m, a) /\ a.fault = m.fault
    BY <2>2, <2>3, RecountsUncount
  <2>5. PICK b : b = Freed(a, n)
    OBVIOUS
  <2>6. /\ b \in Memories /\ b.obj = a.obj /\ b.list = a.list
        /\ b.fault = a.fault /\ b.slips = a.slips
        /\ DOMAIN b.node = DOMAIN a.node \ {n}
        /\ \A k \in DOMAIN a.node \ {n} : b.node[k] = a.node[k]
    BY <2>4, <2>5, FreedFacts DEF Recounts, Leaves
  <2>7. PICK r : r = UncountFields(b, o)
    OBVIOUS
  <2>8. Recounts(b, r) /\ r.fault \in {b.fault, "null"}
    BY <2>6, <2>7, UncountFieldsFacts
  <2>9. Drop(m, n) = r
    BY <1>1, <1>3, <2>1, <2>3, <2>5, <2>7 DEF Drop
  <2> QED BY <1>3, <2>4, <2>6, <2>8, <2>9 DEF Recounts, Leaves, Alike
<1>4. CASE Ok(m) /\ ~(m.obj[o].count > 0)
  <2>1. Drop(m, n) = Freed(m, n)
    BY <1>1, <1>4 DEF Drop
  <2> QED BY <1>4, <2>1, FreedFacts DEF Leaves, Alike
<1> QED BY <1>2, <1>3, <1>4

(* What is left after the first i entries of the list have been dropped.   *)
Left(m, w, i, r) ==
  /\ Leaves(m, r) /\ r.fault \in {m.fault, "null"}
  /\ \A s \in Slots : Alike(r.obj[s], m.obj[s])
  /\ Ok(r) => /\ DOMAIN r.node = DOMAIN m.node \ {w[j] : j \in 1 .. i}
              /\ \A k \in DOMAIN r.node : r.node[k] = m.node[k]
NextLeft(m, w, left, i) == IF i = 0 THEN m ELSE Drop(left[i - 1], w[i])

(* Dropping entry after entry leaves that; the recursion of DropList is     *)
(* well defined.                                                            *)
LEMMA LeftFacts ==
  ASSUME NEW m \in Memories, NEW w, ListOf(m.node, m.list, w), NEW left,
         \A i \in 0 .. Len(w) : NextLeft(m, w, left, i) \in Memories
                                => left[i] = NextLeft(m, w, left, i)
  PROVE  \A i \in 0 .. Len(w) : left[i] = NextLeft(m, w, left, i) /\ Left(m, w, i, left[i])
<1>1. Len(w) \in Nat /\ \A k \in 1 .. Len(w) : w[k] \in DOMAIN m.node
  BY DEF ListOf
<1> DEFINE T == {i \in Nat : i <= Len(w) =>
                   left[i] = NextLeft(m, w, left, i) /\ Left(m, w, i, left[i])}
<1>2. ASSUME NEW i \in Nat, \A k \in 0 .. i - 1 : k \in T, i <= Len(w)
      PROVE  left[i] = NextLeft(m, w, left, i) /\ Left(m, w, i, left[i])
  <2>1. i \in 0 .. Len(w)
    BY <1>1, <1>2
  <2>2. CASE i = 0
    <3>1. NextLeft(m, w, left, i) = m
      BY <2>2 DEF NextLeft
    <3>2. left[i] = m
      BY <2>1, <3>1
    <3>3. {w[j] : j \in 1 .. i} = {}
      BY <2>2
    <3> QED BY <3>1, <3>2, <3>3 DEF Left, Leaves, Alike
  <2>3. CASE i # 0
    <3>1. PICK a : a = left[i - 1]
      OBVIOUS
    <3>2. Left(m, w, i - 1, a)
      <4>1. i - 1 \in 0 .. i - 1 /\ i - 1 <= Len(w)
        BY <1>1, <1>2, <2>3
      <4> HIDE DEF Left
      <4> QED BY <1>2, <3>1, <4>1
    <3>3. i \in 1 .. Len(w) /\ w[i] \in DOMAIN m.node
      BY <1>1, <1>2, <2>3
    <3>4. PICK r : r = Drop(a, w[i])
      OBVIOUS
    <3>5. NextLeft(m, w, left, i) = r
      BY <2>3, <3>1, <3>4 DEF NextLeft
    <3>6. Left(m, w, i, r)
      <4>1. CASE ~Ok(a)
        <5>1. r = a
          BY <3>4, <4>1 DEF Drop
        <5> QED BY <3>2, <4>1, <5>1 DEF Left
      <4>2. CASE Ok(a)
        <5>1. \A j \in 1 .. i - 1 : w[j] # w[i]
          <6> TAKE j \in 1 .. i - 1
          <6>1. j \in 1 .. Len(w) /\ j # i
            BY <3>3
          <6> QED BY <3>3, <6>1 DEF ListOf
        <5>2. /\ a \in Memories /\ m.slips \subseteq a.slips
              /\ DOMAIN a.node = DOMAIN m.node \ {w[j] : j \in 1 .. i - 1}
              /\ \A k \in DOMAIN a.node : a.node[k] = m.node[k]
              /\ a.fault \in {m.fault, "null"}
              /\ \A s \in Slots : Alike(a.obj[s], m.obj[s])
          BY <3>2, <4>2 DEF Left, Leaves
        <5>3. w[i] \in DOMAIN a.node
          BY <3>3, <5>1, <5>2
        <5>4. /\ r \in Memories /\ a.slips \subseteq r.slips
              /\ r.fault \in {a.fault, "null"}
              /\ DOMAIN r.node = DOMAIN a.node \ {w[i]}
              /\ \A k \in DOMAIN a.node \ {w[i]} : r.node[k] = a.node[k]
              /\ \A s \in Slots : Alike(r.obj[s], a.obj[s])
          BY <3>4, <4>2, <5>2, <5>3, DropType DEF Leaves
        <5>5. {w[j] : j \in 1 .. i} = {w[j] : j \in 1 .. i - 1} \cup {w[i]}
          <6>1. 1 .. i = (1 .. i - 1) \cup {i}
            BY <3>3
          <6> QED BY <6>1
        <5>6. DOMAIN r.node = DOMAIN m.node \ {w[j] : j \in 1 .. i}
          BY <5>2, <5>4, <5>5
        <5>7. \A s \in Slots : Alike(r.obj[s], m.obj[s])
          BY <5>2, <5>4 DEF Alike
        <5> QED BY <5>2, <5>4, <5>6, <5>7 DEF Left, Leaves
      <4> QED BY <4>1, <4>2
    <3>7. left[i] = r
      BY <2>1, <3>5, <3>6 DEF Left, Leaves
    <3> QED BY <3>5, <3>6, <3>7
  <2> QED BY <2>2, <2>3
<1>3. \A i \in Nat : (\A k \in 0 .. i - 1 : k \in T) => i \in T
  <2> HIDE DEF Left, NextLeft
  <2> QED BY <1>2
<1> HIDE DEF T
<1>4. \A i \in Nat : i \in T
  BY <1>3, Induction
<1> QED BY <1>1, <1>4 DEF T

(* DropList drops the entries of its list one by one.                      *)
LEMMA DropListIs ==
  ASSUME NEW m \in Memories, NEW w, ListOf(m.node, m.list, w)
  PROVE  \E left : /\ DropList(m) = [left[Len(w)] EXCEPT !.list = NULL]
                   /\ \A i \in 0 .. Len(w) : /\ left[i] = NextLeft(m, w, left, i)
                                             /\ Left(m, w, i, left[i])
<1>1. Entries(m, m.list) = w /\ End(m, m.list) = NULL
  BY ListIs
<1>2. PICK N \in Nat : N = Len(w)
  BY DEF ListOf
<1> DEFINE Into(x) == IF x \in Memories THEN x ELSE m
           step == [q \in (0 .. N) \X [0 .. N -> Memories] |-> Into(NextLeft(m, w, q[2], q[1]))]
<1>3. \A i \in 0 .. N : \A g \in [0 .. N -> Memories] :
        step[<<i, g>>] = Into(NextLeft(m, w, g, i))
  <2> HIDE DEF Into
  <2> QED OBVIOUS
<1>4. step \in Steps(N, Memories)
  <2>1. \A x : Into(x) \in Memories
    OBVIOUS
  <2> HIDE DEF Into
  <2> QED BY <2>1 DEF Steps
<1> HIDE DEF step
<1>5. Causal(N, Memories, step)
  <2> SUFFICES ASSUME NEW i \in 0 .. N, NEW g \in [0 .. N -> Memories], NEW h \in [0 .. N -> Memories],
                      \A j \in 0 .. i - 1 : g[j] = h[j]
               PROVE  step[<<i, g>>] = step[<<i, h>>]
    BY Zenon DEF Causal
  <2>1. i # 0 => g[i - 1] = h[i - 1]
    BY <1>2
  <2>2. NextLeft(m, w, g, i) = NextLeft(m, w, h, i)
    BY <2>1 DEF NextLeft
  <2> HIDE DEF Into
  <2> QED BY <1>3, <2>2
<1>6. Memories # {}
  OBVIOUS
<1>7. PICK f : Recursive(N, Memories, step, f)
  BY <1>2, <1>4, <1>5, <1>6, Recursion
<1>8. f \in [0 .. N -> Memories] /\ \A i \in 0 .. N : f[i] = Into(NextLeft(m, w, f, i))
  <2>1. f \in [0 .. N -> Memories] /\ f = [i \in 0 .. N |-> step[<<i, f>>]]
    BY <1>7 DEF Recursive
  <2>2. \A i \in 0 .. N : f[i] = step[<<i, f>>]
    BY <2>1
  <2> HIDE DEF Into
  <2> QED BY <1>3, <2>1, <2>2
<1>9. \A i \in 0 .. N : f[i] = NextLeft(m, w, f, i)
  <2>1. \A i \in 0 .. Len(w) : NextLeft(m, w, f, i) \in Memories => f[i] = NextLeft(m, w, f, i)
    BY <1>2, <1>8
  <2> QED BY <1>2, <2>1, LeftFacts
<1> DEFINE e == Entries(m, m.list)
           left == CHOOSE g : g = [i \in 0 .. Len(e) |-> IF i = 0 THEN m ELSE Drop(g[i - 1], e[i])]
<1>10. left = [i \in 0 .. Len(e) |-> IF i = 0 THEN m ELSE Drop(left[i - 1], e[i])]
  <2>1. f = [i \in 0 .. N |-> NextLeft(m, w, f, i)]
    BY <1>8, <1>9
  <2> HIDE DEF e
  <2>2. e = w
    BY <1>1 DEF e
  <2>3. f = [i \in 0 .. Len(e) |-> IF i = 0 THEN m ELSE Drop(f[i - 1], e[i])]
    BY <1>2, <2>1, <2>2 DEF NextLeft
  <2>4. \E g : g = [i \in 0 .. Len(e) |-> IF i = 0 THEN m ELSE Drop(g[i - 1], e[i])]
    BY <2>3
  <2> QED BY <2>4, Zenon
<1>11. DropList(m) = IF End(m, m.list) # NULL THEN Lost(m) ELSE [left[Len(e)] EXCEPT !.list = NULL]
  BY Zenon DEF DropList
<1> HIDE DEF left
<1>12. \A i \in 0 .. Len(w) : left[i] = NextLeft(m, w, left, i)
  BY <1>1, <1>2, <1>10 DEF NextLeft
<1>13. \A i \in 0 .. Len(w) : Left(m, w, i, left[i])
  BY <1>12, LeftFacts
<1> QED BY <1>1, <1>11, <1>12, <1>13

(* DropList yields a memory.                                               *)
LEMMA DropListType ==
  ASSUME NEW m \in Memories
  PROVE  Leaves(m, DropList(m))
<1>1. CASE End(m, m.list) # NULL
  <2>1. DropList(m) = Lost(m)
    BY <1>1, Zenon DEF DropList
  <2> QED BY <2>1, LostFacts DEF Leaves
<1>2. CASE End(m, m.list) = NULL
  <2>1. PICK w : ListOf(m.node, m.list, w)
    BY <1>2, EndedIs
  <2>2. PICK left : /\ DropList(m) = [left[Len(w)] EXCEPT !.list = NULL]
                    /\ \A i \in 0 .. Len(w) : Left(m, w, i, left[i])
    BY <2>1, DropListIs
  <2>3. Len(w) \in 0 .. Len(w)
    BY <2>1 DEF ListOf
  <2>4. PICK a : a = left[Len(w)]
    OBVIOUS
  <2>5. a \in Memories /\ m.slips \subseteq a.slips
    BY <2>2, <2>3, <2>4 DEF Left, Leaves
  <2>6. NULL \in Heads
    BY DEF Heads
  <2>7. PICK r : r = [a EXCEPT !.list = NULL]
    OBVIOUS
  <2>8. r \in Memories /\ r.slips = a.slips
    BY <2>5, <2>6, <2>7, With
  <2> QED BY <2>2, <2>4, <2>5, <2>7, <2>8 DEF Leaves
<1> QED BY <1>1, <1>2

(* What putstatic takes for the rest of an array.                          *)
Trail(m, o) == Path([s \in Slots |-> m.obj[s].value], o)
Astray(m, o) == \E s \in ToSet(Trail(m, o)) \cap Slots : ~m.obj[s].isArray /\ m.obj[s].value # NULL

(* It starts with the object and follows value until that is no object, or  *)
(* it is cut off.                                                           *)
LEMMA TrailFacts ==
  ASSUME NEW m \in Memories, NEW o \in Slots
  PROVE  /\ Trail(m, o) \in Seq(Pointers)
         /\ Leads(Slots, [s \in Slots |-> m.obj[s].value], Trail(m, o))
         /\ Trail(m, o)[1] = o
         /\ Len(Trail(m, o)) = Cardinality(Slots) + 1 \/ Last(Trail(m, o)) \notin Slots
<1>1. PICK next : next = [s \in Slots |-> m.obj[s].value]
  OBVIOUS
<1>2. next \in [Slots -> Pointers]
  BY <1>1, MemoryFacts, ObjectFacts
<1>3. o \in Pointers
  BY DEF Pointers
<1>4. /\ Path(next, o) \in Seq(Pointers) /\ Leads(Slots, next, Path(next, o))
      /\ Path(next, o)[1] = o
      /\ Len(Path(next, o)) = Cardinality(Slots) + 1 \/ Last(Path(next, o)) \notin Slots
  <2>1. PICK D, V : D = Slots /\ V = Pointers
    OBVIOUS
  <2>2. IsFiniteSet(D) /\ next \in [D -> V] /\ o \in V
    BY <1>2, <1>3, <2>1, SlotAssumption
  <2>3. /\ Path(next, o) \in Seq(V) /\ Leads(D, next, Path(next, o))
        /\ Path(next, o)[1] = o
        /\ Len(Path(next, o)) = Cardinality(D) + 1 \/ Last(Path(next, o)) \notin D
    BY <2>2, PathFacts
  <2> QED BY <2>1, <2>3
<1>5. Trail(m, o) = Path(next, o)
  BY <1>1 DEF Trail
<1> QED BY <1>1, <1>4, <1>5

(* What is released is uncounted; a char* on the way is fatal.              *)
LEMMA ReleasedFacts ==
  ASSUME NEW m \in Memories, NEW o \in Slots
  PROVE  LET r == Released(m, o)
             w == Trail(m, o)
         IN /\ Recounts(m, r) /\ r.obj = Uncount(m, w).obj
            /\ r.fault = IF WILD \in ToSet(w) THEN "wild" ELSE m.fault
            /\ r.slips = {} => ~Strands(m, w) /\ ~Astray(m, o)
<1>1. PICK w : w = Trail(m, o)
  OBVIOUS
<1>2. w \in Seq(Pointers)
  BY <1>1, TrailFacts
<1>3. PICK c \in BOOLEAN, d \in BOOLEAN : c = Strands(m, w) /\ d = Astray(m, o)
  BY DEF Strands, Astray
<1>4. PICK less : less = Slip(Uncount(m, w), c, "children")
  OBVIOUS
<1>5. "children" \in Slips /\ "value" \in Slips /\ "wild" \in Faults
  BY DEF Slips, Faults
<1>6. /\ Recounts(m, less) /\ less.fault = m.fault /\ less.obj = Uncount(m, w).obj
      /\ less.slips = {} => ~c
  BY <1>2, <1>4, <1>5, RecountsUncount
<1>7. PICK b : b = IF WILD \in ToSet(w) THEN Dies(less, "wild") ELSE less
  OBVIOUS
<1>8. /\ b \in Memories /\ b.obj = less.obj /\ b.node = less.node /\ b.list = less.list
      /\ b.fault = (IF WILD \in ToSet(w) THEN "wild" ELSE m.fault) /\ b.slips = less.slips
  BY <1>5, <1>6, <1>7, Dying DEF Recounts, Leaves
<1>9. PICK r : r = Slip(b, d, "value")
  OBVIOUS
<1>10. /\ r \in Memories /\ r.obj = b.obj /\ r.node = b.node /\ r.list = b.list
       /\ r.fault = b.fault /\ b.slips \subseteq r.slips /\ (r.slips = {} => ~d)
  BY <1>5, <1>8, <1>9, Slipping
<1>11. Released(m, o) = r
  BY <1>1, <1>3, <1>4, <1>7, <1>9, Zenon DEF Released, Trail, Astray
<1> QED BY <1>1, <1>3, <1>6, <1>8, <1>10, <1>11 DEF Recounts, Leaves

(* Kept takes the parts off the list and counts the static field.          *)
Taken(m, o) ==
  LET w == Parts(m, o)
      head == TakeOff(m, o)
  IN IF ~Ok(head) \/ Len(w) = 1 THEN head
     ELSE IF w[2] \in Slots THEN TakeOff(head, w[2]) ELSE Dies(head, "wild")
Counted(m, w) == [s \in Slots |-> [m.obj[s] EXCEPT !.count = @ + Times(w, s)]]

(* Counting the parts changes counts only.                                  *)
LEMMA CountedFacts ==
  ASSUME NEW m \in Memories, NEW V, NEW w \in Seq(V)
  PROVE  /\ Counted(m, w) \in [Slots -> Object]
         /\ \A s \in Slots : /\ Alike(Counted(m, w)[s], m.obj[s])
                             /\ Counted(m, w)[s].count = m.obj[s].count + Times(w, s)
<1>1. PICK f : f = Counted(m, w)
  OBVIOUS
<1>2. f = [s \in Slots |-> [m.obj[s] EXCEPT !.count = m.obj[s].count + Times(w, s)]]
  BY <1>1 DEF Counted
<1>3. \A s \in Slots : m.obj[s] \in Object /\ m.obj[s].count + Times(w, s) \in Int
  BY MemoryFacts, ObjectFacts, TimesFacts
<1>4. \A s \in Slots : /\ f[s] \in Object /\ Alike(f[s], m.obj[s])
                       /\ f[s].count = m.obj[s].count + Times(w, s)
  <2> TAKE s \in Slots
  <2>1. f[s] = [m.obj[s] EXCEPT !.count = m.obj[s].count + Times(w, s)]
    BY <1>2
  <2> QED BY <1>3, <2>1, Recounted
<1>5. f \in [Slots -> Object]
  BY <1>2, <1>4
<1> QED BY <1>1, <1>4, <1>5

(* An object, and the elements of an array.                                 *)
LEMMA PartsFacts ==
  ASSUME NEW m \in Memories, NEW o \in Slots
  PROVE  /\ Parts(m, o) \in Seq(Pointers) /\ Len(Parts(m, o)) \in {1, 2}
         /\ Len(Parts(m, o)) = 2 <=> m.obj[o].isArray /\ m.obj[o].value # NULL
         /\ Parts(m, o)[1] = o
         /\ Len(Parts(m, o)) = 2 => Parts(m, o)[2] = m.obj[o].value
<1>1. PICK v \in Pointers : v = m.obj[o].value
  BY MemoryFacts, ObjectFacts
<1>2. o \in Pointers
  BY DEF Pointers
<1>3. PICK a : a = <<o>>
  OBVIOUS
<1>4. PICK b : b = <<o, v>>
  OBVIOUS
<1>5. a \in Seq(Pointers) /\ Len(a) = 1 /\ a[1] = o
  BY <1>2, <1>3
<1>6. b \in Seq(Pointers) /\ Len(b) = 2 /\ b[1] = o /\ b[2] = v
  BY <1>2, <1>4
<1>7. Parts(m, o) = IF m.obj[o].isArray /\ m.obj[o].value # NULL THEN b ELSE a
  BY <1>1, <1>3, <1>4 DEF Parts
<1> QED BY <1>1, <1>5, <1>6, <1>7

(* Taking them off the list yields a memory.                                *)
LEMMA TakenType ==
  ASSUME NEW m \in Memories, NEW o \in Slots
  PROVE  Leaves(m, Taken(m, o))
<1>1. PICK w : w = Parts(m, o)
  OBVIOUS
<1>2. PICK head : head = TakeOff(m, o)
  OBVIOUS
<1>3. Leaves(m, head)
  BY <1>2, TakeOffType
<1>4. Taken(m, o) = IF ~Ok(head) \/ Len(w) = 1 THEN head
                    ELSE IF w[2] \in Slots THEN TakeOff(head, w[2]) ELSE Dies(head, "wild")
  BY <1>1, <1>2 DEF Taken
<1>5. w[2] \in Slots => Leaves(head, TakeOff(head, w[2]))
  BY <1>3, TakeOffType DEF Leaves
<1>6. Leaves(head, Dies(head, "wild"))
  <2>1. "wild" \in Faults
    BY DEF Faults
  <2> QED BY <1>3, <2>1, Dying DEF Leaves
<1> QED BY <1>3, <1>4, <1>5, <1>6 DEF Leaves

(* Kept counts the parts once they are taken, unless that was fatal.        *)
LEMMA KeptIs ==
  ASSUME NEW m \in Memories, NEW o \in Slots
  PROVE  LET t == Taken(m, o)
             r == Kept(m, o)
         IN IF Ok(t)
            THEN /\ r \in Memories /\ r.obj = Counted(t, Parts(m, o)) /\ r.node = t.node
                 /\ r.list = t.list /\ r.fault = t.fault /\ r.slips = t.slips
            ELSE r = t
<1>1. PICK w : w = Parts(m, o)
  OBVIOUS
<1>2. PICK t : t = Taken(m, o)
  OBVIOUS
<1>3. PICK f : f = Counted(t, w)
  OBVIOUS
<1>4. Kept(m, o) = IF Ok(t) THEN [t EXCEPT !.obj = f] ELSE t
  BY <1>1, <1>2, <1>3, Zenon DEF Kept, Taken, Counted
<1>5. t \in Memories
  BY <1>2, TakenType DEF Leaves
<1>6. f \in [Slots -> Object]
  BY <1>1, <1>3, <1>5, CountedFacts, PartsFacts
<1>7. PICK r : r = [t EXCEPT !.obj = f]
  OBVIOUS
<1>8. /\ r \in Memories /\ r.obj = f /\ r.node = t.node
      /\ r.list = t.list /\ r.fault = t.fault /\ r.slips = t.slips
  BY <1>5, <1>6, <1>7, With
<1> QED BY <1>1, <1>2, <1>3, <1>4, <1>7, <1>8

(* It yields a memory.                                                      *)
LEMMA KeptType ==
  ASSUME NEW m \in Memories, NEW o \in Slots
  PROVE  Leaves(m, Kept(m, o))
  BY TakenType, KeptIs DEF Leaves

-----------------------------------------------------------------------------
(* Counting.                                                               *)

Is(a, b) == IF a = b THEN 1 ELSE 0

(* How many of G's arguments it maps to s.                                 *)
Refs(G, s) == Cardinality({z \in DOMAIN G : G[z] = s})

(* One argument's share.                                                   *)
LEMMA RefsSplit ==
  ASSUME NEW D, IsFiniteSet(D), NEW G, DOMAIN G = D, NEW z \in D, NEW s
  PROVE  /\ Refs(G, s) \in Nat /\ Cardinality({y \in D \ {z} : G[y] = s}) \in Nat
         /\ Refs(G, s) = Cardinality({y \in D \ {z} : G[y] = s}) + Is(G[z], s)
<1>1. PICK A : A = {y \in D \ {z} : G[y] = s}
  OBVIOUS
<1>2. PICK B : B = {y \in D : G[y] = s}
  OBVIOUS
<1>3. IsFiniteSet(A) /\ IsFiniteSet(B) /\ Refs(G, s) = Cardinality(B)
  <2>1. A \in SUBSET D /\ B \in SUBSET D
    BY <1>1, <1>2
  <2> QED BY <1>2, <2>1, FS_Subset DEF Refs
<1>4. CASE G[z] = s
  <2>1. B = A \cup {z} /\ z \notin A
    BY <1>1, <1>2, <1>4
  <2>2. Cardinality(B) = Cardinality(A) + 1
    BY <1>3, <2>1, FS_AddElement
  <2> QED BY <1>1, <1>3, <1>4, <2>2, FS_CardinalityType DEF Is
<1>5. CASE G[z] # s
  <2>1. B = A
    BY <1>1, <1>2, <1>5
  <2> QED BY <1>1, <1>3, <1>5, <2>1, FS_CardinalityType DEF Is
<1> QED BY <1>4, <1>5

(* There are finitely many.                                                 *)
LEMMA RefsType ==
  ASSUME NEW G, IsFiniteSet(DOMAIN G), NEW s
  PROVE  Refs(G, s) \in Nat
<1>1. IsFiniteSet({z \in DOMAIN G : G[z] = s})
  BY FS_Subset
<1> QED BY <1>1, FS_CardinalityType DEF Refs

(* The value at one argument changes.                                      *)
LEMMA RefsChange ==
  ASSUME NEW D, IsFiniteSet(D), NEW G, NEW H, DOMAIN G = D, DOMAIN H = D, NEW z \in D,
         \A y \in D : y # z => H[y] = G[y], NEW s
  PROVE  /\ Refs(G, s) \in Nat /\ Refs(H, s) \in Nat /\ Refs(G, s) >= Is(G[z], s)
         /\ Refs(H, s) = Refs(G, s) - Is(G[z], s) + Is(H[z], s)
<1>1. {y \in D \ {z} : H[y] = s} = {y \in D \ {z} : G[y] = s}
  OBVIOUS
<1>2. PICK c : c = Cardinality({y \in D \ {z} : G[y] = s})
  OBVIOUS
<1>3. Refs(G, s) = c + Is(G[z], s) /\ c \in Nat /\ Refs(G, s) \in Nat
  BY <1>2, RefsSplit
<1>4. Refs(H, s) = c + Is(H[z], s) /\ Refs(H, s) \in Nat
  BY <1>1, <1>2, RefsSplit
<1> QED BY <1>3, <1>4 DEF Is

(* An argument more.                                                       *)
LEMMA RefsMore ==
  ASSUME NEW D, IsFiniteSet(D), NEW G, DOMAIN G = D, NEW z, z \notin D,
         NEW H, DOMAIN H = D \cup {z}, \A y \in D : H[y] = G[y], NEW s
  PROVE  /\ Refs(G, s) \in Nat /\ Refs(H, s) \in Nat
         /\ Refs(H, s) = Refs(G, s) + Is(H[z], s)
<1>1. PICK E : E = D \cup {z}
  OBVIOUS
<1>2. IsFiniteSet(E) /\ E \ {z} = D /\ z \in E /\ DOMAIN H = E
  BY <1>1, FS_AddElement
<1>3. {y \in E \ {z} : H[y] = s} = {y \in DOMAIN G : G[y] = s}
  BY <1>2
<1>4. /\ Refs(H, s) \in Nat /\ Cardinality({y \in E \ {z} : H[y] = s}) \in Nat
      /\ Refs(H, s) = Cardinality({y \in E \ {z} : H[y] = s}) + Is(H[z], s)
  BY <1>2, RefsSplit
<1> QED BY <1>3, <1>4 DEF Refs

(* An argument less.                                                       *)
Loses(D, G, z, H) == /\ DOMAIN G = D /\ z \in D /\ DOMAIN H = D \ {z}
                     /\ \A y \in D \ {z} : H[y] = G[y]

(* The others keep what they refer to.                                      *)
LEMMA RefsLess ==
  ASSUME NEW D, IsFiniteSet(D), NEW G, NEW z, NEW H, Loses(D, G, z, H), NEW s
  PROVE  /\ Refs(G, s) \in Nat /\ Refs(H, s) \in Nat /\ Refs(G, s) >= Is(G[z], s)
         /\ Refs(H, s) = Refs(G, s) - Is(G[z], s)
<1>1. {y \in D \ {z} : G[y] = s} = {y \in DOMAIN H : H[y] = s}
  BY DEF Loses
<1>2. /\ Refs(G, s) \in Nat /\ Cardinality({y \in D \ {z} : G[y] = s}) \in Nat
      /\ Refs(G, s) = Cardinality({y \in D \ {z} : G[y] = s}) + Is(G[z], s)
  <2>1. DOMAIN G = D
    BY DEF Loses
  <2>2. PICK x \in D : x = z
    BY DEF Loses
  <2>3. /\ Refs(G, s) \in Nat /\ Cardinality({y \in D \ {x} : G[y] = s}) \in Nat
        /\ Refs(G, s) = Cardinality({y \in D \ {x} : G[y] = s}) + Is(G[x], s)
    BY <2>1, RefsSplit
  <2> QED BY <2>2, <2>3
<1>3. Refs(H, s) = Cardinality({y \in D \ {z} : G[y] = s})
  BY <1>1 DEF Refs
<1> QED BY <1>2, <1>3 DEF Is

(* Someone refers to s, so there is a reference.                           *)
LEMMA RefsSome ==
  ASSUME NEW D, IsFiniteSet(D), NEW G, DOMAIN G = D, NEW z \in D, NEW s, G[z] = s
  PROVE  Refs(G, s) \in Nat \ {0}
<1>1. PICK c : c = Cardinality({y \in D \ {z} : G[y] = s})
  OBVIOUS
<1>2. c \in Nat /\ Refs(G, s) = c + Is(G[z], s)
  BY <1>1, RefsSplit
<1> QED BY <1>2 DEF Is

(* Nobody does, so there is none.                                          *)
LEMMA RefsNone ==
  ASSUME NEW G, NEW s, \A z \in DOMAIN G : G[z] # s
  PROVE  Refs(G, s) = 0
<1>1. {z \in DOMAIN G : G[z] = s} = {}
  OBVIOUS
<1> QED BY <1>1, FS_EmptySet DEF Refs

-----------------------------------------------------------------------------
(* Exact counts.                                                           *)

(* The object in the first field: until a slip, the others hold null.      *)
First(o) == IF o.fields = << >> THEN NULL ELSE o.fields[1].val
Bare(o) == o.fields = << >>
(* The elements of an array, held with it.                                 *)
PartOf(ob, p) == IF p \in Slots /\ ob[p].isArray THEN ob[p].value ELSE NULL

(* Who refers to what: list entries, static fields, the same for the       *)
(* elements of arrays, and live objects.                                   *)
Recording(nd) == [n \in DOMAIN nd |-> nd[n].obj]
ElementsIn(ob, st) == [f \in Statics |-> PartOf(ob, st[f])]
Owned(ob) == [x \in Slots |-> IF ob[x].count > 0 THEN First(ob[x]) ELSE NULL]

Total(ob, nd, st, s) ==
  Refs(Recording(nd), s) + Refs(st, s) + Refs(ElementsIn(ob, st), s) + Refs(Owned(ob), s)
Exact(ob, nd, st) == \A s \in Slots : ob[s].count = Total(ob, nd, st, s)

Objects == [Slots -> Object]
Stores  == [Statics -> {NULL} \cup Slots]

(* The four counts are numbers.                                            *)
LEMMA TotalType ==
  ASSUME NEW ob, NEW nd \in NodeMaps, NEW st \in Stores, NEW s
  PROVE  /\ Refs(Recording(nd), s) \in Nat /\ Refs(st, s) \in Nat
         /\ Refs(ElementsIn(ob, st), s) \in Nat /\ Refs(Owned(ob), s) \in Nat
         /\ Total(ob, nd, st, s) \in Nat
<1>1. DOMAIN Recording(nd) = DOMAIN nd /\ IsFiniteSet(DOMAIN nd)
  BY NodeFacts DEF Recording
<1>2. DOMAIN st = Statics /\ DOMAIN ElementsIn(ob, st) = Statics /\ DOMAIN Owned(ob) = Slots
  BY DEF Stores, ElementsIn, Owned
<1>3. IsFiniteSet(Slots) /\ IsFiniteSet(Statics)
  BY SlotAssumption, FieldAssumption
<1>4. /\ Refs(Recording(nd), s) \in Nat /\ Refs(st, s) \in Nat
      /\ Refs(ElementsIn(ob, st), s) \in Nat /\ Refs(Owned(ob), s) \in Nat
  BY <1>1, <1>2, <1>3, RefsType
<1> QED BY <1>4 DEF Total

(* An entry less.                                                          *)
LEMMA RecordingLess ==
  ASSUME NEW nd \in NodeMaps, NEW nd2 \in NodeMaps, NEW n, n \in DOMAIN nd,
         DOMAIN nd2 = DOMAIN nd \ {n},
         \A k \in DOMAIN nd \ {n} : nd2[k].obj = nd[k].obj, NEW s
  PROVE  Refs(Recording(nd2), s) = Refs(Recording(nd), s) - Is(nd[n].obj, s)
<1>1. PICK G, H, D : G = Recording(nd) /\ H = Recording(nd2) /\ D = DOMAIN nd
  OBVIOUS
<1>2. /\ DOMAIN G = D /\ DOMAIN H = D \ {n} /\ G[n] = nd[n].obj /\ n \in D
      /\ \A k \in D \ {n} : H[k] = G[k]
  BY <1>1 DEF Recording
<1>3. IsFiniteSet(D)
  BY <1>1, NodeFacts
<1>4. Loses(D, G, n, H)
  BY <1>2 DEF Loses
<1>5. Refs(H, s) = Refs(G, s) - Is(G[n], s)
  BY <1>3, <1>4, RefsLess
<1> QED BY <1>1, <1>2, <1>5

(* Whatever is referred to is alive.                                       *)
LEMMA Referred ==
  ASSUME NEW ob, NEW nd \in NodeMaps, NEW st \in Stores, Exact(ob, nd, st), NEW s \in Slots
  PROVE  /\ ob[s].count \in Nat
         /\ \A n \in DOMAIN nd : nd[n].obj = s => ob[s].count > 0
         /\ \A f \in Statics : st[f] = s => ob[s].count > 0
         /\ \A f \in Statics : PartOf(ob, st[f]) = s => ob[s].count > 0
         /\ \A x \in Slots : ob[x].count > 0 /\ First(ob[x]) = s => ob[s].count > 0
<1>1. PICK N, S, E, W : /\ N = Recording(nd) /\ S = st
                        /\ E = ElementsIn(ob, st) /\ W = Owned(ob)
  OBVIOUS
<1>2. PICK D : D = DOMAIN nd
  OBVIOUS
<1>3. DOMAIN N = D /\ DOMAIN S = Statics /\ DOMAIN E = Statics /\ DOMAIN W = Slots
  BY <1>1, <1>2 DEF Recording, ElementsIn, Owned, Stores
<1>4. IsFiniteSet(D) /\ IsFiniteSet(Slots) /\ IsFiniteSet(Statics)
  BY <1>2, NodeFacts, SlotAssumption, FieldAssumption
<1>5. Refs(N, s) \in Nat /\ Refs(S, s) \in Nat /\ Refs(E, s) \in Nat /\ Refs(W, s) \in Nat
  BY <1>1, TotalType
<1>6. ob[s].count = Refs(N, s) + Refs(S, s) + Refs(E, s) + Refs(W, s)
  BY <1>1 DEF Exact, Total
<1>7. \A n \in D : nd[n].obj = s => Refs(N, s) \in Nat \ {0}
  <2> TAKE n \in D
  <2> HAVE nd[n].obj = s
  <2>1. N[n] = s
    BY <1>1, <1>2 DEF Recording
  <2> QED BY <1>3, <1>4, <2>1, RefsSome
<1>8. \A f \in Statics : st[f] = s => Refs(S, s) \in Nat \ {0}
  BY <1>1, <1>3, <1>4, RefsSome
<1>9. \A f \in Statics : PartOf(ob, st[f]) = s => Refs(E, s) \in Nat \ {0}
  <2> TAKE f \in Statics
  <2> HAVE PartOf(ob, st[f]) = s
  <2>1. E[f] = s
    BY <1>1 DEF ElementsIn
  <2> QED BY <1>3, <1>4, <2>1, RefsSome
<1>10. \A x \in Slots : ob[x].count > 0 /\ First(ob[x]) = s => Refs(W, s) \in Nat \ {0}
  <2> TAKE x \in Slots
  <2> HAVE ob[x].count > 0 /\ First(ob[x]) = s
  <2>1. W[x] = s
    BY <1>1 DEF Owned
  <2> QED BY <1>3, <1>4, <2>1, RefsSome
<1> QED BY <1>2, <1>5, <1>6, <1>7, <1>8, <1>9, <1>10

(* Counts depend on live objects only, on their first fields and on what   *)
(* putstatic takes for their parts.                                        *)
SeenAlike(a, b) ==
  /\ First(a) = First(b) /\ a.isArray = b.isArray
  /\ a.isArray => a.value = b.value

(* Exact counts stay exact when nothing of that changes.                    *)
LEMMA ExactLike ==
  ASSUME NEW ob, NEW ob2, NEW nd \in NodeMaps, NEW st \in Stores, Exact(ob, nd, st),
         \A s \in Slots : /\ ob2[s].count = ob[s].count
                          /\ ob[s].count > 0 => SeenAlike(ob2[s], ob[s])
  PROVE  Exact(ob2, nd, st)
<1>1. Owned(ob2) = Owned(ob)
  BY DEF Owned, SeenAlike
<1>2. \A f \in Statics : PartOf(ob2, st[f]) = PartOf(ob, st[f])
  <2> TAKE f \in Statics
  <2>1. st[f] \in Slots => ob[st[f]].count > 0
    BY Referred
  <2> QED BY <2>1 DEF PartOf, SeenAlike
<1>3. ElementsIn(ob2, st) = ElementsIn(ob, st)
  BY <1>2 DEF ElementsIn
<1> QED BY <1>1, <1>3 DEF Exact, Total

(* The list w of one memory has become v in another; entries of other      *)
(* lists stay, and v has none of them.                                     *)
Tame(nd, w, r, v) ==
  /\ ListOf(r.node, r.list, v)
  /\ ToSet(v) \subseteq ToSet(w) \cup (Nodes \ DOMAIN nd)
  /\ \A k \in DOMAIN nd \ ToSet(w) : k \in DOMAIN r.node /\ r.node[k] = nd[k]

(* One handler after another.                                               *)
LEMMA TameTwice ==
  ASSUME NEW nd \in NodeMaps, NEW w, NEW a, NEW v, Tame(nd, w, a, v),
         NEW b, NEW u, Tame(a.node, v, b, u)
  PROVE  Tame(nd, w, b, u)
<1>1. \A k \in DOMAIN nd \ ToSet(w) : k \in DOMAIN a.node \ ToSet(v) /\ a.node[k] = nd[k]
  BY DEF Tame
<1>2. \A k \in DOMAIN nd \ ToSet(w) : k \in DOMAIN b.node /\ b.node[k] = nd[k]
  BY <1>1 DEF Tame
<1>3. ToSet(u) \subseteq ToSet(w) \cup (Nodes \ DOMAIN nd)
  <2> SUFFICES ASSUME NEW k \in ToSet(u), k \notin ToSet(w)
               PROVE  k \in Nodes \ DOMAIN nd
    OBVIOUS
  <2>1. CASE k \in ToSet(v)
    BY <2>1 DEF Tame
  <2>2. CASE k \in Nodes \ DOMAIN a.node
    BY <1>1, <2>2
  <2> QED BY <2>1, <2>2 DEF Tame
<1> QED BY <1>2, <1>3 DEF Tame

(* A list that nobody touches.                                              *)
LEMMA TameSame ==
  ASSUME NEW m, NEW w, ListOf(m.node, m.list, w)
  PROVE  Tame(m.node, w, m, w)
  BY DEF Tame

(* Recording an object counts it.                                          *)
LEMMA RecordExact ==
  ASSUME NEW m \in Memories, NEW st \in Stores, Exact(m.obj, m.node, st),
         NEW o \in Slots, First(m.obj[o]) = NULL,
         NEW w, ListOf(m.node, m.list, w)
  PROVE  LET r == Record(m, o) IN
         /\ r \in Memories /\ r.fault = m.fault /\ r.slips = m.slips
         /\ Exact(r.obj, r.node, st)
         /\ \A s \in Slots : /\ Alike(r.obj[s], m.obj[s])
                             /\ r.obj[s].count = m.obj[s].count + Is(o, s)
         /\ \E v : Tame(m.node, w, r, v)
<1>1. PICK r : r = Record(m, o)
  OBVIOUS
<1>2. PICK D : D = DOMAIN m.node
  OBVIOUS
<1>3. PICK n \in Nodes \ D :
        /\ r \in Memories /\ r.fault = m.fault /\ r.slips = m.slips
        /\ r.obj = [m.obj EXCEPT ![o] = [m.obj[o] EXCEPT !.count = @ + 1]]
        /\ DOMAIN r.node = D \cup {n} /\ r.node[n].obj = o
        /\ \A k \in D : /\ r.node[k].obj = m.node[k].obj
                        /\ k \notin ToSet(w) => r.node[k] = m.node[k]
        /\ ListOf(r.node, r.list, Append(w, n))
  <2>1. \E n \in Nodes \ DOMAIN m.node :
          /\ Record(m, o) \in Memories /\ Record(m, o).fault = m.fault
          /\ Record(m, o).slips = m.slips
          /\ Record(m, o).obj = [m.obj EXCEPT ![o] = [m.obj[o] EXCEPT !.count = @ + 1]]
          /\ DOMAIN Record(m, o).node = DOMAIN m.node \cup {n} /\ Record(m, o).node[n].obj = o
          /\ \A k \in DOMAIN m.node : /\ Record(m, o).node[k].obj = m.node[k].obj
                                      /\ k \notin ToSet(w) => Record(m, o).node[k] = m.node[k]
          /\ ListOf(Record(m, o).node, Record(m, o).list, Append(w, n))
    BY RecordFacts, Zenon
  <2> QED BY ONLY <1>1, <1>2, <2>1, Zenon
<1>4. m.obj \in Objects /\ m.node \in NodeMaps /\ r.node \in NodeMaps /\ IsFiniteSet(D)
  BY <1>2, <1>3, MemoryFacts DEF Objects
<1>5. \A s \in Slots : m.obj[s].count \in Int
  BY <1>4, ObjectFacts DEF Objects
<1>6. \A s \in Slots : /\ Alike(r.obj[s], m.obj[s])
                       /\ r.obj[s].count = m.obj[s].count + Is(o, s)
  <2> TAKE s \in Slots
  <2>1. CASE s = o
    <3>1. r.obj[s] = [m.obj[s] EXCEPT !.count = m.obj[s].count + 1]
      BY <1>3, <1>4, <2>1 DEF Objects
    <3>2. m.obj[s] \in Object
      BY <1>4 DEF Objects
    <3> QED BY <1>5, <2>1, <3>1, <3>2, Recounted DEF Is
  <2>2. CASE s # o
    <3>1. r.obj[s] = m.obj[s]
      BY <1>3, <1>4, <2>2 DEF Objects
    <3> QED BY <1>5, <2>2, <3>1 DEF Is, Alike
  <2> QED BY <2>1, <2>2
<1>7. Owned(r.obj) = Owned(m.obj)
  <2>1. \A s \in Slots : First(r.obj[s]) = First(m.obj[s])
    BY <1>6 DEF First, Alike
  <2>2. \A s \in Slots : s # o => r.obj[s].count = m.obj[s].count
    BY <1>5, <1>6 DEF Is
  <2> QED BY <2>1, <2>2 DEF Owned
<1>8. ElementsIn(r.obj, st) = ElementsIn(m.obj, st)
  <2>1. \A p : PartOf(r.obj, p) = PartOf(m.obj, p)
    BY <1>6 DEF PartOf, Alike
  <2> QED BY <2>1 DEF ElementsIn
<1>9. PICK G, H : G = Recording(m.node) /\ H = Recording(r.node)
  OBVIOUS
<1>10. /\ DOMAIN G = D /\ DOMAIN H = D \cup {n} /\ H[n] = o
       /\ \A k \in D : H[k] = G[k]
  BY <1>2, <1>3, <1>9 DEF Recording
<1>11. Exact(r.obj, r.node, st)
  <2> SUFFICES ASSUME NEW s \in Slots
               PROVE  r.obj[s].count = Total(r.obj, r.node, st, s)
    BY DEF Exact
  <2>1. n \notin D
    OBVIOUS
  <2>2. Refs(H, s) = Refs(G, s) + Is(o, s)
    BY <1>4, <1>10, <2>1, RefsMore
  <2>3. m.obj[s].count = Total(m.obj, m.node, st, s)
    BY DEF Exact
  <2>4. /\ Refs(G, s) \in Nat /\ Refs(st, s) \in Nat
        /\ Refs(ElementsIn(m.obj, st), s) \in Nat /\ Refs(Owned(m.obj), s) \in Nat
    BY <1>4, <1>9, TotalType
  <2> QED BY <1>6, <1>7, <1>8, <1>9, <2>2, <2>3, <2>4 DEF Total, Is
<1>12. Tame(m.node, w, r, Append(w, n))
  <2>1. ToSet(Append(w, n)) \subseteq ToSet(w) \cup {n}
    <3>1. w \in Seq(Nodes) /\ n \in Nodes
      BY <1>2, <1>4, NodeFacts DEF ListOf
    <3>2. PICK v : v = Append(w, n)
      OBVIOUS
    <3>3. v \in Seq(Nodes) /\ Len(v) = Len(w) + 1 /\ v[Len(w) + 1] = n /\ Len(w) \in Nat
          /\ \A k \in 1 .. Len(w) : v[k] = w[k]
      BY <3>1, <3>2
    <3>4. ToSet(v) = {v[k] : k \in 1 .. Len(v)} /\ ToSet(w) = {w[k] : k \in 1 .. Len(w)}
      BY <3>1, <3>3, SeqElements
    <3>5. \A k \in 1 .. Len(v) : k = Len(w) + 1 \/ k \in 1 .. Len(w)
      BY <3>3
    <3> QED BY <3>2, <3>3, <3>4, <3>5
  <2> QED BY <1>2, <1>3, <2>1 DEF Tame
<1> QED BY <1>1, <1>3, <1>6, <1>11, <1>12

(* What one decrement does to a count that is positive.                    *)
LEMMA UncountOne ==
  ASSUME NEW m \in Memories, NEW o \in Slots \cup {NULL}, o # NULL => m.obj[o].count > 0,
         NEW w \in Seq({NULL} \cup Slots), \A s \in Slots : Times(w, s) = Is(o, s)
  PROVE  \A s \in Slots : /\ Alike(Uncount(m, w).obj[s], m.obj[s])
                          /\ Uncount(m, w).obj[s].count = m.obj[s].count - Is(o, s)
<1> TAKE s \in Slots
<1>1. /\ Alike(Uncount(m, w).obj[s], m.obj[s])
      /\ Uncount(m, w).obj[s].count = Less(m.obj[s].count, Is(o, s))
  BY UncountFacts
<1>2. m.obj[s].count \in Int
  BY MemoryFacts, ObjectFacts
<1>3. Less(m.obj[s].count, Is(o, s)) = m.obj[s].count - Is(o, s)
  BY <1>2, SlotAssumption DEF Less, Is, NULL
<1> QED BY <1>1, <1>3

(* One element.                                                            *)
LEMMA TimesOne ==
  ASSUME NEW o \in {NULL} \cup Slots
  PROVE  <<o>> \in Seq({NULL} \cup Slots) /\ \A s \in Slots : Times(<<o>>, s) = Is(o, s)
<1>1. PICK w : w = <<o>>
  OBVIOUS
<1>2. w \in Seq({NULL} \cup Slots) /\ DOMAIN w = {1} /\ w[1] = o
  BY <1>1
<1>3. \A s : {i \in DOMAIN w : w[i] = s} = IF o = s THEN {1} ELSE {}
  BY <1>2
<1>4. \A s \in Slots : Times(w, s) = Is(o, s)
  BY <1>3, FS_Singleton, FS_EmptySet DEF Times, Is
<1> QED BY <1>1, <1>2, <1>4

(* No element.                                                             *)
LEMMA TimesNone ==
  << >> \in Seq({NULL} \cup Slots) /\ \A s \in Slots : Times(<< >>, s) = 0
<1>1. \A s : {i \in DOMAIN << >> : << >>[i] = s} = {}
  OBVIOUS
<1> QED BY <1>1, FS_EmptySet DEF Times

(* A decrement that leaves every object with fields alive leaves the       *)
(* fields' references.                                                     *)
LEMMA OwnedSame ==
  ASSUME NEW ob, NEW ob2, \A s \in Slots : Alike(ob2[s], ob[s]),
         \A s \in Slots : ob[s].fields # << >> => (ob2[s].count > 0 <=> ob[s].count > 0)
  PROVE  Owned(ob2) = Owned(ob)
  BY DEF Owned, First, Alike

(* Changing counts does not change what elements arrays have.               *)
LEMMA ElementsSame ==
  ASSUME NEW ob, NEW ob2, \A s \in Slots : Alike(ob2[s], ob[s]), NEW st
  PROVE  ElementsIn(ob2, st) = ElementsIn(ob, st)
<1>1. \A p : PartOf(ob2, p) = PartOf(ob, p)
  BY DEF PartOf, Alike
<1> QED BY <1>1 DEF ElementsIn

(* Taking an object off the list uncounts it.                              *)
LEMMA UnlinkedExact ==
  ASSUME NEW m \in Memories, NEW st \in Stores, Exact(m.obj, m.node, st),
         NEW o \in Slots, Bare(m.obj[o]),
         NEW w, ListOf(m.node, m.list, w)
  PROVE  LET r == Unlinked(m, o) IN
         /\ r \in Memories /\ r.fault = m.fault /\ r.slips = m.slips
         /\ Exact(r.obj, r.node, st)
         /\ \A s \in Slots : Alike(r.obj[s], m.obj[s]) /\ r.obj[s].count <= m.obj[s].count
         /\ \E v : Tame(m.node, w, r, v)
<1>1. \A s \in Slots : m.obj[s].count \in Int
  BY MemoryFacts, ObjectFacts
<1>2. CASE Unlinked(m, o) = m
  <2>1. Tame(m.node, w, m, w)
    BY TameSame
  <2> QED BY <1>1, <1>2, <2>1 DEF Alike
<1>3. CASE Unlinked(m, o) # m
  <2>1. PICK D : D = DOMAIN m.node
    OBVIOUS
  <2>2. PICK r : r = Unlinked(m, o)
    OBVIOUS
  <2>3. PICK n, v : Without(m, o, w, r, n, v)
    BY <1>3, <2>2, UnlinkedFacts
  <2>31. /\ r \in Memories /\ r.fault = m.fault /\ r.slips = m.slips
         /\ n \in ToSet(w) /\ m.node[n].obj = o /\ r.obj = Uncount(m, <<o>>).obj
         /\ DOMAIN r.node = D \ {n}
         /\ \A k \in D \ {n} : /\ r.node[k].obj = m.node[k].obj
                               /\ k \notin ToSet(w) => r.node[k] = m.node[k]
         /\ ListOf(r.node, r.list, v) /\ ToSet(v) \subseteq ToSet(w)
    BY <2>1, <2>3 DEF Without
  <2>4. n \in D
    BY <2>1, <2>31, SeqElements DEF ListOf
  <2>5. m.node \in NodeMaps /\ r.node \in NodeMaps /\ IsFiniteSet(D)
    BY <2>1, <2>31, MemoryFacts
  <2>6. m.obj[o].count > 0
    BY <2>1, <2>31, <2>4, <2>5, Referred
  <2>7. \A s \in Slots : /\ Alike(r.obj[s], m.obj[s])
                         /\ r.obj[s].count = m.obj[s].count - Is(o, s)
    <3>1. PICK x : x = <<o>>
      OBVIOUS
    <3>2. x \in Seq({NULL} \cup Slots) /\ \A s \in Slots : Times(x, s) = Is(o, s)
      BY <3>1, TimesOne
    <3>3. \A s \in Slots : /\ Alike(Uncount(m, x).obj[s], m.obj[s])
                           /\ Uncount(m, x).obj[s].count = m.obj[s].count - Is(o, s)
      BY <2>6, <3>2, UncountOne
    <3> QED BY <2>31, <3>1, <3>3
  <2>8. Owned(r.obj) = Owned(m.obj)
    <3>1. \A s \in Slots : s # o => r.obj[s].count = m.obj[s].count
      BY <1>1, <2>7 DEF Is
    <3> QED BY <2>7, <3>1, OwnedSame DEF Bare
  <2>9. ElementsIn(r.obj, st) = ElementsIn(m.obj, st)
    BY <2>7, ElementsSame
  <2>12. Exact(r.obj, r.node, st)
    <3> SUFFICES ASSUME NEW s \in Slots
                 PROVE  r.obj[s].count = Total(r.obj, r.node, st, s)
      BY DEF Exact
    <3>1. PICK G, H : G = Recording(m.node) /\ H = Recording(r.node)
      OBVIOUS
    <3>2. Refs(H, s) = Refs(G, s) - Is(o, s)
      BY <2>1, <2>31, <2>4, <2>5, <3>1, RecordingLess
    <3>3. m.obj[s].count = Total(m.obj, m.node, st, s)
      BY DEF Exact
    <3>4. /\ Refs(G, s) \in Nat /\ Refs(st, s) \in Nat
          /\ Refs(ElementsIn(m.obj, st), s) \in Nat /\ Refs(Owned(m.obj), s) \in Nat
      BY <2>5, <3>1, TotalType
    <3> QED BY <2>7, <2>8, <2>9, <3>1, <3>2, <3>3, <3>4 DEF Total, Is
  <2>13. Tame(m.node, w, r, v)
    <3>1. \A k \in D \ ToSet(w) : k \in D \ {n}
      BY <2>31
    <3> QED BY <2>1, <2>31, <3>1 DEF Tame
  <2>14. \A s \in Slots : r.obj[s].count <= m.obj[s].count
    BY <1>1, <2>7 DEF Is
  <2> QED BY <2>2, <2>31, <2>7, <2>12, <2>13, <2>14
<1> QED BY <1>2, <1>3

(* What a live object looks like until a slip.                             *)
ShapeOf(ob, s) ==
  /\ IF ob[s].isArray
     THEN /\ ob[s].kind \in {"numbers", "references"} /\ ob[s].value \in Slots
          /\ ~ob[ob[s].value].isArray
     ELSE ob[s].kind \notin {"numbers", "references"} /\ ob[s].value \in {NULL, WILD}
  /\ \A i \in DOMAIN ob[s].fields : ob[s].fields[i].val # NULL => i = 1
Shaped(ob) == \A s \in Slots : ob[s].count > 0 => ShapeOf(ob, s)

(* An object's part is another object.                                     *)
LEMMA PartFacts ==
  ASSUME NEW ob, NEW o \in Slots, ShapeOf(ob, o)
  PROVE  /\ PartOf(ob, o) \in {NULL} \cup Slots /\ PartOf(ob, o) # o /\ PartOf(ob, NULL) = NULL
         /\ ob[o].isArray => /\ PartOf(ob, o) = ob[o].value /\ ob[o].value \in Slots
                             /\ ob[o].value # NULL
         /\ ~ob[o].isArray => PartOf(ob, o) = NULL /\ ob[o].value \in {NULL, WILD}
<1>1. NULL \notin Slots
  BY SlotAssumption DEF NULL
<1> QED BY <1>1 DEF ShapeOf, PartOf

(* Two elements, and a null.                                               *)
LEMMA TimesPair ==
  ASSUME NEW V, NEW q \in Seq(V), Len(q) \in {2, 3}, NEW o, NEW e, q[1] = o, q[2] = e, o # e,
         Len(q) = 3 => q[3] = NULL
  PROVE  \A s \in Slots : Times(q, s) = Is(o, s) + Is(e, s)
<1> TAKE s \in Slots
<1>1. s # NULL
  BY SlotAssumption DEF NULL
<1>2. DOMAIN q = 1 .. Len(q)
  OBVIOUS
<1>3. PICK I : I = {i \in DOMAIN q : q[i] = s}
  OBVIOUS
<1>4. I = IF o = s THEN {1} ELSE IF e = s THEN {2} ELSE {}
  BY <1>1, <1>2, <1>3
<1>5. Cardinality(I) = IF o = s \/ e = s THEN 1 ELSE 0
  BY <1>4, FS_Singleton, FS_EmptySet
<1> QED BY <1>3, <1>5 DEF Times, Is

(* The trail of an object that has its shape, when putstatic stays on it.  *)
LEMMA TrailIs ==
  ASSUME NEW m \in Memories, NEW o \in Slots, ShapeOf(m.obj, o), ~Astray(m, o)
  PROVE  /\ Trail(m, o) \in Seq(Pointers) /\ WILD \notin ToSet(Trail(m, o))
         /\ \A s \in Slots : Times(Trail(m, o), s) = Is(o, s) + Is(PartOf(m.obj, o), s)
<1>1. PICK e : e = PartOf(m.obj, o)
  OBVIOUS
<1>2. /\ e \in {NULL} \cup Slots /\ e # o
      /\ m.obj[o].isArray => e = m.obj[o].value /\ e \in Slots
      /\ ~m.obj[o].isArray => e = NULL /\ m.obj[o].value \in {NULL, WILD}
  BY <1>1, PartFacts
<1>3. PICK next : next = [s \in Slots |-> m.obj[s].value]
  OBVIOUS
<1>4. next \in [Slots -> Pointers] /\ next[o] = m.obj[o].value
  BY <1>3, MemoryFacts, ObjectFacts
<1>5. PICK w : w = Trail(m, o)
  OBVIOUS
<1>6. /\ w \in Seq(Pointers) /\ Leads(Slots, next, w) /\ w[1] = o
      /\ Len(w) = Cardinality(Slots) + 1 \/ Last(w) \notin Slots
  BY <1>3, <1>5, TrailFacts
<1>7. Len(w) \in Nat \ {0} /\ Last(w) = w[Len(w)]
  BY <1>6, SeqParts DEF Leads
<1>8. Cardinality(Slots) \in Nat \ {0} /\ IsFiniteSet(Slots)
  BY SlotAssumption, FS_CardinalityType, FS_EmptySet
<1>9. Len(w) \in Nat /\ Len(w) >= 2
  <2>1. Len(w) # 1
    BY <1>6, <1>7, <1>8
  <2>2. PICK n \in Nat : n = Len(w) /\ n # 0 /\ n # 1
    BY <1>7, <2>1
  <2>3. n >= 2
    BY <2>2
  <2> QED BY <2>2, <2>3
<1>10. w[2] = m.obj[o].value
  <2>1. 1 \in 1 .. Len(w) - 1 /\ 1 + 1 = 2
    BY <1>9
  <2>2. w[1 + 1] = next[w[1]]
    BY <1>6, <2>1 DEF Leads
  <2> QED BY <1>4, <1>6, <2>1, <2>2
<1>11. o \in ToSet(w) /\ m.obj[o].value \in ToSet(w)
  <2>1. 1 \in 1 .. Len(w) /\ 2 \in 1 .. Len(w)
    BY <1>9
  <2> QED BY <1>6, <1>10, <2>1, SeqElements
<1>12. \A s \in Slots : s \in ToSet(w) => m.obj[s].isArray \/ m.obj[s].value = NULL
  BY <1>5 DEF Astray
<1>13. /\ NULL \notin Slots /\ NULL # WILD /\ NULL \in Pointers /\ o \in Pointers /\ e \in Pointers
       /\ WILD \notin Slots
  BY <1>2, SlotAssumption DEF NULL, WILD, Pointers
<1>14. \E q : /\ q \in Seq(Pointers) /\ q = w /\ Len(q) \in {2, 3} /\ q[1] = o /\ q[2] = e
              /\ Len(q) = 3 => q[3] = NULL
  <2>1. CASE m.obj[o].isArray
    <3>1. m.obj[e].value = NULL
      <4>1. ~m.obj[e].isArray
        BY <1>1, <1>2, <2>1 DEF ShapeOf
      <4> QED BY <1>2, <1>11, <1>12, <2>1, <4>1
    <3>2. PICK q : q = <<o, e, NULL>>
      OBVIOUS
    <3>3. q \in Seq(Pointers) /\ Len(q) = 3 /\ q[1] = o /\ q[2] = e /\ q[3] = NULL
      BY <1>13, <3>2
    <3>4. Leads(Slots, next, q) /\ Last(q) \notin Slots
      <4>1. q # << >>
        BY <3>2
      <4>2. Last(q) = q[3]
        BY <3>3, <4>1, SeqParts
      <4>3. next[o] = e /\ next[e] = NULL
        BY <1>2, <1>3, <1>4, <2>1, <3>1
      <4>4. \A k \in 1 .. Len(q) - 1 : k = 1 \/ k = 2
        BY <3>3
      <4>5. \A k \in 1 .. Len(q) - 1 : q[k] \in Slots /\ q[k + 1] = next[q[k]]
        BY <1>2, <2>1, <3>3, <4>3, <4>4
      <4> QED BY <1>13, <3>3, <4>1, <4>2, <4>5 DEF Leads
    <3>5. Len(q) <= Cardinality(Slots) + 1
      <4>1. {o, e} \in SUBSET Slots
        BY <1>2, <2>1
      <4>2. Cardinality({o, e}) = 2
        <5>1. {o, e} = {o} \cup {e} /\ e \notin {o}
          BY <1>2
        <5>2. PICK T : T = {o}
          OBVIOUS
        <5>3. IsFiniteSet(T) /\ Cardinality(T) = 1
          BY <5>2, FS_Singleton
        <5>4. Cardinality(T \cup {e}) = Cardinality(T) + 1
          <6>1. e \notin T
            BY <5>1, <5>2
          <6> QED BY ONLY <5>3, <6>1, FS_AddElement
        <5>5. T \cup {e} = {o, e}
          BY <5>2
        <5> QED BY <5>3, <5>4, <5>5
      <4> QED BY <1>8, <3>3, <4>1, <4>2, FS_Subset
    <3>6. Path(next, q[1]) = q
      <4>1. PICK D, V : D = Slots /\ V = Pointers
        OBVIOUS
      <4>2. /\ IsFiniteSet(D) /\ next \in [D -> V] /\ q \in Seq(V) /\ Leads(D, next, q)
            /\ Last(q) \notin D /\ Len(q) <= Cardinality(D) + 1
        BY <1>4, <1>8, <3>3, <3>4, <3>5, <4>1
      <4> QED BY <4>2, PathIs
    <3>7. q = w
      BY <1>3, <1>5, <3>3, <3>6 DEF Trail
    <3> QED BY <3>3, <3>7
  <2>2. CASE ~m.obj[o].isArray
    <3>1. m.obj[o].value = NULL
      BY <1>11, <1>12, <2>2
    <3>2. PICK q : q = <<o, NULL>>
      OBVIOUS
    <3>3. q \in Seq(Pointers) /\ Len(q) = 2 /\ q[1] = o /\ q[2] = NULL
      BY <1>13, <3>2
    <3>4. Leads(Slots, next, q) /\ Last(q) \notin Slots
      <4>1. q # << >>
        BY <3>2
      <4>2. Last(q) = q[2]
        BY <3>3, <4>1, SeqParts
      <4>3. \A k \in 1 .. Len(q) - 1 : k = 1
        BY <3>3
      <4>4. \A k \in 1 .. Len(q) - 1 : q[k] \in Slots /\ q[k + 1] = next[q[k]]
        BY <1>4, <3>1, <3>3, <4>3
      <4> QED BY <1>13, <3>3, <4>1, <4>2, <4>4 DEF Leads
    <3>5. Len(q) <= Cardinality(Slots) + 1
      BY <1>8, <3>3
    <3>6. Path(next, q[1]) = q
      <4>1. PICK D, V : D = Slots /\ V = Pointers
        OBVIOUS
      <4>2. /\ IsFiniteSet(D) /\ next \in [D -> V] /\ q \in Seq(V) /\ Leads(D, next, q)
            /\ Last(q) \notin D /\ Len(q) <= Cardinality(D) + 1
        BY <1>4, <1>8, <3>3, <3>4, <3>5, <4>1
      <4> QED BY <4>2, PathIs
    <3>7. q = w
      BY <1>3, <1>5, <3>3, <3>6 DEF Trail
    <3> QED BY <1>2, <2>2, <3>3, <3>7
  <2> QED BY <2>1, <2>2
<1>15. \A s \in Slots : Times(w, s) = Is(o, s) + Is(e, s)
  BY <1>2, <1>14, TimesPair
<1>16. WILD \notin ToSet(w)
  <2>1. ToSet(w) = {w[k] : k \in 1 .. Len(w)}
    BY <1>6, SeqElements
  <2>2. \A k \in 1 .. Len(w) : w[k] \in {o, e, NULL}
    BY <1>14
  <2> QED BY <1>2, <1>13, <2>1, <2>2
<1> QED BY <1>1, <1>5, <1>6, <1>15, <1>16

(* A static field is assigned.                                             *)
Stored(st, f, v, st2) == st2 = [st EXCEPT ![f] = v]

(* Its references, and those to its elements, move with it.                *)
LEMMA StoreTo ==
  ASSUME NEW ob, NEW st \in Stores, NEW f \in Statics, NEW v \in {NULL} \cup Slots, NEW s,
         NEW st2, Stored(st, f, v, st2)
  PROVE  /\ st2 \in Stores
         /\ Refs(st, s) \in Nat /\ Refs(st2, s) \in Nat /\ Refs(st, s) >= Is(st[f], s)
         /\ Refs(st2, s) = Refs(st, s) - Is(st[f], s) + Is(v, s)
         /\ Refs(ElementsIn(ob, st), s) \in Nat /\ Refs(ElementsIn(ob, st2), s) \in Nat
         /\ Refs(ElementsIn(ob, st), s) >= Is(PartOf(ob, st[f]), s)
         /\ Refs(ElementsIn(ob, st2), s)
              = Refs(ElementsIn(ob, st), s) - Is(PartOf(ob, st[f]), s) + Is(PartOf(ob, v), s)
<1>1. /\ st2 \in Stores /\ DOMAIN st = Statics /\ DOMAIN st2 = Statics
      /\ st2[f] = v /\ \A y \in Statics : y # f => st2[y] = st[y]
  BY DEF Stores, Stored
<1>2. PICK G, H : G = ElementsIn(ob, st) /\ H = ElementsIn(ob, st2)
  OBVIOUS
<1>3. /\ DOMAIN G = Statics /\ DOMAIN H = Statics
      /\ G[f] = PartOf(ob, st[f]) /\ H[f] = PartOf(ob, v)
      /\ \A y \in Statics : y # f => H[y] = G[y]
  BY <1>1, <1>2 DEF ElementsIn
<1>4. IsFiniteSet(Statics)
  BY FieldAssumption
<1>5. /\ Refs(st, s) \in Nat /\ Refs(st2, s) \in Nat /\ Refs(st, s) >= Is(st[f], s)
      /\ Refs(st2, s) = Refs(st, s) - Is(st[f], s) + Is(st2[f], s)
  BY <1>1, <1>4, RefsChange
<1>6. /\ Refs(G, s) \in Nat /\ Refs(H, s) \in Nat /\ Refs(G, s) >= Is(G[f], s)
      /\ Refs(H, s) = Refs(G, s) - Is(G[f], s) + Is(H[f], s)
  BY <1>3, <1>4, RefsChange
<1> QED BY <1>1, <1>2, <1>3, <1>5, <1>6

(* Decrements that strand nothing keep the references of live objects.     *)
LEMMA Unstranded ==
  ASSUME NEW m \in Memories, NEW V, NEW w \in Seq(V), ~Strands(m, w)
  PROVE  Owned(Uncount(m, w).obj) = Owned(m.obj)
<1>1. PICK ob : ob = Uncount(m, w).obj
  OBVIOUS
<1>2. \A s \in Slots : /\ Alike(ob[s], m.obj[s])
                       /\ ob[s].count = Less(m.obj[s].count, Times(w, s))
  BY <1>1, UncountFacts
<1>3. ASSUME NEW s \in Slots, m.obj[s].fields # << >>
      PROVE  ob[s].count > 0 <=> m.obj[s].count > 0
  <2>1. PICK c, t : c = m.obj[s].count /\ t = Times(w, s)
    OBVIOUS
  <2>2. c \in Int /\ t \in Nat
    BY <2>1, MemoryFacts, ObjectFacts, TimesFacts
  <2>3. c \notin 1 .. t
    BY <1>3, <2>1 DEF Strands
  <2>4. Less(c, t) > 0 <=> c > 0
    BY <2>2, <2>3 DEF Less
  <2> QED BY <1>2, <2>1, <2>4
<1> QED BY <1>1, <1>2, <1>3, OwnedSame

(* What putstatic releases is uncounted as the field lets go of it.        *)
LEMMA ReleasedExact ==
  ASSUME NEW m \in Memories, NEW st \in Stores, Exact(m.obj, m.node, st), Shaped(m.obj),
         NEW f \in Statics, NEW o \in Slots, st[f] = o,
         NEW r, r = Released(m, o), r.slips = {},
         NEW st2, Stored(st, f, NULL, st2)
  PROVE  /\ Recounts(m, r) /\ r.fault = m.fault
         /\ Exact(r.obj, r.node, st2)
         /\ \A s \in Slots : r.obj[s].count <= m.obj[s].count
<1>1. ShapeOf(m.obj, o)
  BY MemoryFacts, Referred DEF Shaped
<1>2. PICK w : w = Trail(m, o)
  OBVIOUS
<1>3. /\ Recounts(m, r) /\ r.obj = Uncount(m, w).obj
      /\ r.fault = IF WILD \in ToSet(w) THEN "wild" ELSE m.fault
      /\ ~Strands(m, w) /\ ~Astray(m, o)
  BY <1>2, ReleasedFacts
<1>4. PICK e : e = PartOf(m.obj, o)
  OBVIOUS
<1>5. /\ w \in Seq(Pointers) /\ WILD \notin ToSet(w)
      /\ \A s \in Slots : Times(w, s) = Is(o, s) + Is(e, s)
  BY <1>1, <1>2, <1>3, <1>4, TrailIs
<1>6. ASSUME NEW s \in Slots
      PROVE  /\ r.obj[s].count = m.obj[s].count - Is(o, s) - Is(e, s)
             /\ r.obj[s].count = Total(r.obj, r.node, st2, s)
  <2>1. m.obj[s].count = Total(m.obj, m.node, st, s)
    BY DEF Exact
  <2>2. PICK N, S, E, W : /\ N = Refs(Recording(m.node), s) /\ S = Refs(st, s)
                          /\ E = Refs(ElementsIn(m.obj, st), s) /\ W = Refs(Owned(m.obj), s)
    OBVIOUS
  <2>3. N \in Nat /\ S \in Nat /\ E \in Nat /\ W \in Nat
    BY <2>2, MemoryFacts, TotalType
  <2>4. PICK S2, E2 : S2 = Refs(st2, s) /\ E2 = Refs(ElementsIn(m.obj, st2), s)
    OBVIOUS
  <2>5. PartOf(m.obj, NULL) = NULL /\ s # NULL
    BY SlotAssumption DEF PartOf, NULL
  <2>6. /\ S >= Is(o, s) /\ E >= Is(e, s)
        /\ S2 = S - Is(o, s) + Is(NULL, s) /\ E2 = E - Is(e, s) + Is(NULL, s)
    <3>1. PICK z : z = NULL
      OBVIOUS
    <3>2. z \in {NULL} \cup Slots /\ Stored(st, f, z, st2)
      BY <3>1
    <3>3. /\ S >= Is(st[f], s) /\ S2 = S - Is(st[f], s) + Is(z, s)
          /\ E >= Is(PartOf(m.obj, st[f]), s)
          /\ E2 = E - Is(PartOf(m.obj, st[f]), s) + Is(PartOf(m.obj, z), s)
      BY <2>2, <2>4, <3>2, StoreTo
    <3> QED BY <1>4, <2>5, <3>1, <3>3
  <2>7. Is(NULL, s) = 0 /\ Is(o, s) \in {0, 1} /\ Is(e, s) \in {0, 1}
    BY <2>5 DEF Is
  <2>8. Owned(r.obj) = Owned(m.obj)
    BY <1>3, <1>5, Unstranded
  <2>9. ElementsIn(r.obj, st2) = ElementsIn(m.obj, st2)
    BY <1>3, ElementsSame DEF Recounts
  <2>10. r.node = m.node
    BY <1>3 DEF Recounts
  <2>11. Total(r.obj, r.node, st2, s) = N + S2 + E2 + W
    BY <2>2, <2>4, <2>8, <2>9, <2>10 DEF Total
  <2>12. m.obj[s].count = N + S + E + W
    BY <2>1, <2>2 DEF Total
  <2>13. r.obj[s].count = Less(m.obj[s].count, Is(o, s) + Is(e, s))
    BY <1>3, <1>5, UncountFacts
  <2>14. r.obj[s].count = m.obj[s].count - Is(o, s) - Is(e, s)
    <3>1. PICK a, b, c : a = Is(o, s) /\ b = Is(e, s) /\ c = m.obj[s].count
      OBVIOUS
    <3>2. a \in {0, 1} /\ b \in {0, 1} /\ c \in Nat /\ c >= a + b
      BY <2>3, <2>6, <2>7, <2>12, <3>1
    <3>3. Less(c, a + b) = c - a - b
      BY <3>2 DEF Less
    <3> QED BY <2>13, <3>1, <3>3
  <2> QED BY <2>3, <2>6, <2>7, <2>11, <2>12, <2>14
<1>7. \A s \in Slots : r.obj[s].count <= m.obj[s].count
  <2> TAKE s \in Slots
  <2>1. m.obj[s].count \in Int /\ Is(o, s) \in {0, 1} /\ Is(e, s) \in {0, 1}
    BY MemoryFacts, ObjectFacts DEF Is
  <2> QED BY <1>6, <2>1
<1> QED BY <1>3, <1>5, <1>6, <1>7 DEF Exact

(* What a handler leaves: exact counts that have not grown, and a list.    *)
Settles(m, w, st, r) ==
  /\ Exact(r.obj, r.node, st)
  /\ \A s \in Slots : Alike(r.obj[s], m.obj[s]) /\ r.obj[s].count <= m.obj[s].count
  /\ \E v : Tame(m.node, w, r, v)

(* An object without fields is taken off the list, or the process dies.    *)
LEMMA TakeOffExact ==
  ASSUME NEW m \in Memories, Ok(m), NEW st \in Stores, Exact(m.obj, m.node, st),
         NEW o \in Slots, NEW w, ListOf(m.node, m.list, w),
         NEW r, r = TakeOff(m, o), r.slips = {}
  PROVE  /\ r \in Memories /\ r.fault \in {"none", "null"}
         /\ Ok(r) => Bare(m.obj[o]) /\ Settles(m, w, st, r)
<1>1. PICK b : b = UncountFields(m, o)
  OBVIOUS
<1>2. PICK q : q = Values(m.obj[o])
  OBVIOUS
<1>3. /\ b \in Memories /\ b.node = m.node /\ b.list = m.list
      /\ \A s \in Slots : Alike(b.obj[s], m.obj[s])
      /\ b.fault \in {m.fault, "null"}
      /\ NULL \notin ToSet(q) => b.fault = m.fault /\ b.obj = Uncount(m, q).obj
  BY <1>1, <1>2, UncountFieldsFacts DEF Recounts, Leaves
<1>4. r \in Memories
  BY TakeOffType DEF Leaves
<1>5. CASE r = b /\ ~Ok(b)
  BY <1>3, <1>4, <1>5 DEF Ok
<1>6. CASE Ok(b) /\ \E c \in Memories :
             /\ c.obj = b.obj /\ c.node = b.node /\ c.list = b.list /\ c.fault = b.fault
             /\ b.slips \subseteq c.slips /\ (c.slips = {} => m.obj[o].fields = << >>)
             /\ (m.obj[o].fields = << >> => c = b)
             /\ r = Unlinked(c, o)
  <2>1. PICK c \in Memories :
             /\ (c.slips = {} => m.obj[o].fields = << >>)
             /\ (m.obj[o].fields = << >> => c = b)
             /\ r = Unlinked(c, o)
    BY <1>6
  <2>2. m.obj[o].fields = << >> /\ c = b
    BY <2>1, UnlinkedType
  <2>3. m.obj[o] \in Object
    BY MemoryFacts
  <2>4. q = << >>
    BY <1>2, <2>2, <2>3, ValuesFacts
  <2>5. \A s \in Slots : b.obj[s].count = m.obj[s].count
    <3> TAKE s \in Slots
    <3>1. q \in Seq({NULL} \cup Slots) /\ Times(q, s) = 0
      BY <2>4, TimesNone
    <3>2. NULL \notin ToSet(q)
      BY <2>4 DEF ToSet
    <3>3. b.obj[s].count = Less(m.obj[s].count, 0)
      BY <1>3, <3>1, <3>2, UncountFacts
    <3>4. m.obj[s].count \in Int
      BY MemoryFacts, ObjectFacts
    <3> QED BY <3>3, <3>4 DEF Less
  <2>6. Exact(b.obj, b.node, st)
    <3>1. \A s \in Slots : SeenAlike(b.obj[s], m.obj[s])
      BY <1>3 DEF SeenAlike, Alike, First
    <3>2. m.node \in NodeMaps
      BY MemoryFacts
    <3>3. Exact(b.obj, m.node, st)
      BY <2>5, <3>1, <3>2, ExactLike
    <3> QED BY <1>3, <3>3
  <2>7. Bare(m.obj[o]) /\ Bare(b.obj[o])
    BY <1>3, <2>2 DEF Bare, Alike
  <2>8. ListOf(b.node, b.list, w)
    BY <1>3
  <2>9. /\ r.fault = b.fault /\ Exact(r.obj, r.node, st)
        /\ \A s \in Slots : Alike(r.obj[s], b.obj[s]) /\ r.obj[s].count <= b.obj[s].count
        /\ \E v : Tame(b.node, w, r, v)
    BY <1>3, <2>1, <2>2, <2>6, <2>7, <2>8, UnlinkedExact
  <2>10. Settles(m, w, st, r)
    BY <1>3, <2>5, <2>9 DEF Settles, Alike
  <2> QED BY <1>3, <1>4, <2>7, <2>9, <2>10 DEF Ok
<1> QED
  <2>1. \/ r = b /\ ~Ok(b)
        \/ /\ Ok(b)
           /\ \E c \in Memories :
             /\ c.obj = b.obj /\ c.node = b.node /\ c.list = b.list /\ c.fault = b.fault
             /\ b.slips \subseteq c.slips /\ (c.slips = {} => m.obj[o].fields = << >>)
             /\ (m.obj[o].fields = << >> => c = b)
             /\ r = Unlinked(c, o)
    BY <1>1, TakeOffIs
  <2> QED BY <1>5, <1>6, <2>1

(* The parts of an object that has its shape.                              *)
LEMMA PartsIs ==
  ASSUME NEW m \in Memories, NEW o \in Slots, ShapeOf(m.obj, o), NEW e, e = PartOf(m.obj, o)
  PROVE  /\ e \in {NULL} \cup Slots
         /\ e = NULL <=> Len(Parts(m, o)) = 1
         /\ e # NULL => Len(Parts(m, o)) = 2 /\ Parts(m, o)[2] = e
         /\ \A s \in Slots : Times(Parts(m, o), s) = Is(o, s) + Is(e, s)
<1>1. /\ e \in {NULL} \cup Slots /\ e # o
      /\ m.obj[o].isArray => e = m.obj[o].value /\ m.obj[o].value # NULL
      /\ ~m.obj[o].isArray => e = NULL
  BY PartFacts
<1>2. PICK q : q = Parts(m, o)
  OBVIOUS
<1>3. /\ q \in Seq(Pointers) /\ Len(q) \in {1, 2} /\ q[1] = o
      /\ Len(q) = 2 <=> m.obj[o].isArray /\ m.obj[o].value # NULL
      /\ Len(q) = 2 => q[2] = m.obj[o].value
  BY <1>2, PartsFacts
<1>4. NULL \notin Slots
  BY SlotAssumption DEF NULL
<1>5. CASE m.obj[o].isArray
  <2>1. Len(q) = 2 /\ q[2] = e /\ e # NULL
    BY <1>1, <1>3, <1>5
  <2>2. \A s \in Slots : Times(q, s) = Is(o, s) + Is(e, s)
    BY <1>1, <1>3, <2>1, TimesPair
  <2> QED BY <1>1, <1>2, <2>1, <2>2
<1>6. CASE ~m.obj[o].isArray
  <2>1. q = <<o>> /\ e = NULL /\ Len(q) = 1
    BY <1>1, <1>2, <1>3, <1>6 DEF Parts
  <2>2. \A s \in Slots : Is(e, s) = 0 /\ Is(o, s) \in {0, 1}
    BY <1>4, <2>1 DEF Is
  <2>3. \A s \in Slots : Times(q, s) = Is(o, s)
    BY <2>1, TimesOne
  <2>4. \A s \in Slots : Times(q, s) = Is(o, s) + Is(e, s)
    BY <2>2, <2>3
  <2> QED BY <1>1, <1>2, <2>1, <2>4
<1> QED BY <1>5, <1>6

(* The parts are taken off the list, or the process dies.                  *)
LEMMA TakenExact ==
  ASSUME NEW m \in Memories, Ok(m), NEW st \in Stores, Exact(m.obj, m.node, st),
         NEW o \in Slots, ShapeOf(m.obj, o), NEW e, e = PartOf(m.obj, o),
         NEW w, ListOf(m.node, m.list, w),
         NEW r, r = Taken(m, o), r.slips = {}
  PROVE  /\ r \in Memories /\ r.fault \in {"none", "null"}
         /\ Ok(r) => /\ Bare(m.obj[o]) /\ (e # NULL => Bare(m.obj[e]))
                     /\ Settles(m, w, st, r)
<1>1. PICK h : h = TakeOff(m, o)
  OBVIOUS
<1>2. PICK q : q = Parts(m, o)
  OBVIOUS
<1>3. /\ e \in {NULL} \cup Slots
      /\ e = NULL <=> Len(q) = 1
      /\ e # NULL => q[2] = e
  BY <1>2, PartsIs
<1>4. Taken(m, o) = IF ~Ok(h) \/ Len(q) = 1 THEN h
                    ELSE IF q[2] \in Slots THEN TakeOff(h, q[2]) ELSE Dies(h, "wild")
  BY <1>1, <1>2 DEF Taken
<1>5. r = IF ~Ok(h) \/ e = NULL THEN h ELSE TakeOff(h, e)
  BY <1>3, <1>4
<1>6. h \in Memories
  BY <1>1, TakeOffType DEF Leaves
<1>7. h.slips = {}
  <2>1. CASE r = h
    BY <2>1
  <2>2. CASE r # h
    <3>1. r = TakeOff(h, e) /\ e \in Slots
      BY <1>3, <1>5, <2>2
    <3>2. h.slips \subseteq r.slips
      BY <1>6, <3>1, TakeOffType DEF Leaves
    <3> QED BY <3>2
  <2> QED BY <2>1, <2>2
<1>8. /\ h.fault \in {"none", "null"}
      /\ Ok(h) => Bare(m.obj[o]) /\ Settles(m, w, st, h)
  BY <1>1, <1>7, TakeOffExact
<1>9. CASE ~Ok(h) \/ e = NULL
  BY <1>5, <1>6, <1>8, <1>9
<1>10. CASE Ok(h) /\ e # NULL
  <2>1. r = TakeOff(h, e) /\ e \in Slots
    BY <1>3, <1>5, <1>10
  <2>2. PICK v : Tame(m.node, w, h, v)
    BY <1>8, <1>10 DEF Settles
  <2>3. /\ Exact(h.obj, h.node, st) /\ ListOf(h.node, h.list, v)
        /\ \A s \in Slots : Alike(h.obj[s], m.obj[s]) /\ h.obj[s].count <= m.obj[s].count
    BY <1>8, <1>10, <2>2 DEF Settles, Tame
  <2>4. /\ r \in Memories /\ r.fault \in {"none", "null"}
        /\ Ok(r) => Bare(h.obj[e]) /\ Settles(h, v, st, r)
    BY <1>6, <1>10, <2>1, <2>3, TakeOffExact
  <2>5. ASSUME Ok(r)
        PROVE  Bare(m.obj[e]) /\ Settles(m, w, st, r)
    <3>1. Bare(m.obj[e])
      BY <2>1, <2>3, <2>4, <2>5 DEF Bare, Alike
    <3>2. PICK u : Tame(h.node, v, r, u)
      BY <2>4, <2>5 DEF Settles
    <3>3. Tame(m.node, w, r, u)
      BY <2>2, <3>2, MemoryFacts, TameTwice
    <3>4. /\ Exact(r.obj, r.node, st)
          /\ \A s \in Slots : Alike(r.obj[s], h.obj[s]) /\ r.obj[s].count <= h.obj[s].count
      BY <2>4, <2>5 DEF Settles
    <3>5. \A s \in Slots : /\ m.obj[s].count \in Int /\ h.obj[s].count \in Int
                           /\ r.obj[s].count \in Int
      BY <1>6, <2>4, MemoryFacts, ObjectFacts
    <3>6. \A s \in Slots : Alike(r.obj[s], m.obj[s]) /\ r.obj[s].count <= m.obj[s].count
      <4> TAKE s \in Slots
      <4>1. Alike(r.obj[s], m.obj[s])
        BY <2>3, <3>4 DEF Alike
      <4>2. r.obj[s].count <= m.obj[s].count
        BY <2>3, <3>4, <3>5
      <4> QED BY <4>1, <4>2
    <3> QED BY <3>1, <3>3, <3>4, <3>6 DEF Settles
  <2> QED BY <1>8, <1>10, <2>4, <2>5
<1> QED BY <1>9, <1>10

(* What a static field that held null keeps is counted for it.             *)
LEMMA KeptExact ==
  ASSUME NEW m \in Memories, Ok(m), NEW st \in Stores, Exact(m.obj, m.node, st),
         NEW f \in Statics, st[f] = NULL,
         NEW o \in Slots, ShapeOf(m.obj, o), NEW e, e = PartOf(m.obj, o),
         NEW w, ListOf(m.node, m.list, w),
         NEW r, r = Kept(m, o), r.slips = {},
         NEW st2, Stored(st, f, o, st2)
  PROVE  /\ r \in Memories /\ r.fault \in {"none", "null"}
         /\ Ok(r) => /\ Exact(r.obj, r.node, st2)
                     /\ \A s \in Slots : /\ Alike(r.obj[s], m.obj[s])
                                         /\ s \notin {o, e} => r.obj[s].count <= m.obj[s].count
                     /\ \E v : Tame(m.node, w, r, v)
<1>1. PICK t : t = Taken(m, o)
  OBVIOUS
<1>2. PICK q : q = Parts(m, o)
  OBVIOUS
<1>3. r \in Memories /\ t \in Memories
  BY <1>1, KeptType, TakenType DEF Leaves
<1>4. /\ ~Ok(t) => r = t
      /\ Ok(t) => /\ r.obj = Counted(t, q) /\ r.node = t.node
                  /\ r.list = t.list /\ r.fault = t.fault /\ r.slips = t.slips
  BY <1>1, <1>2, KeptIs
<1>5. t.slips = {}
  BY <1>4
<1>6. /\ t.fault \in {"none", "null"}
      /\ Ok(t) => /\ Bare(m.obj[o]) /\ (e # NULL => Bare(m.obj[e]))
                  /\ Settles(m, w, st, t)
  BY <1>1, <1>5, TakenExact
<1>7. CASE ~Ok(t)
  BY <1>3, <1>4, <1>6, <1>7 DEF Ok
<1>8. CASE Ok(t)
  <2>1. PICK v : Tame(m.node, w, t, v)
    BY <1>6, <1>8 DEF Settles
  <2>2. /\ Exact(t.obj, t.node, st)
        /\ \A s \in Slots : Alike(t.obj[s], m.obj[s]) /\ t.obj[s].count <= m.obj[s].count
    BY <1>6, <1>8 DEF Settles
  <2>3. /\ q \in Seq(Pointers) /\ \A s \in Slots : Times(q, s) = Is(o, s) + Is(e, s)
    BY <1>2, PartsFacts, PartsIs
  <2>4. \A s \in Slots : /\ Alike(r.obj[s], t.obj[s])
                         /\ r.obj[s].count = t.obj[s].count + (Is(o, s) + Is(e, s))
    BY <1>3, <1>4, <1>8, <2>3, CountedFacts
  <2>5. \A s \in Slots : t.obj[s].count \in Int /\ m.obj[s].count \in Int
    BY <1>3, MemoryFacts, ObjectFacts
  <2>6. \A s \in Slots : s \notin {o, e} => r.obj[s].count = t.obj[s].count
    BY <2>4, <2>5 DEF Is
  <2>7. Owned(r.obj) = Owned(t.obj)
    <3>1. \A s \in Slots : t.obj[s].fields # << >> => s \notin {o, e}
      <4>1. e \in Slots => e # NULL
        BY SlotAssumption DEF NULL
      <4> QED BY <1>6, <1>8, <2>2, <4>1 DEF Bare, Alike
    <3>2. \A s \in Slots : t.obj[s].fields # << >> => (r.obj[s].count > 0 <=> t.obj[s].count > 0)
      BY <2>6, <3>1
    <3> QED BY <2>4, <3>2, OwnedSame
  <2>8. PartOf(t.obj, o) = e /\ PartOf(t.obj, NULL) = NULL
    <3>1. NULL \notin Slots
      BY SlotAssumption DEF NULL
    <3> QED BY <2>2, <3>1 DEF PartOf, Alike
  <2>9. ASSUME NEW s \in Slots
        PROVE  r.obj[s].count = Total(r.obj, r.node, st2, s)
    <3>1. PICK N, S, E, W : /\ N = Refs(Recording(t.node), s) /\ S = Refs(st, s)
                            /\ E = Refs(ElementsIn(t.obj, st), s) /\ W = Refs(Owned(t.obj), s)
      OBVIOUS
    <3>2. N \in Nat /\ S \in Nat /\ E \in Nat /\ W \in Nat
      BY <1>3, <3>1, MemoryFacts, TotalType
    <3>3. PICK S2, E2 : S2 = Refs(st2, s) /\ E2 = Refs(ElementsIn(t.obj, st2), s)
      OBVIOUS
    <3>4. /\ S2 = S - Is(NULL, s) + Is(o, s) /\ E2 = E - Is(NULL, s) + Is(e, s)
      <4>1. PICK z, ob : z = o /\ ob = t.obj
        OBVIOUS
      <4>2. z \in {NULL} \cup Slots /\ Stored(st, f, z, st2)
        BY <4>1
      <4>3. /\ Refs(st2, s) = Refs(st, s) - Is(st[f], s) + Is(z, s)
            /\ Refs(ElementsIn(ob, st2), s)
                 = Refs(ElementsIn(ob, st), s) - Is(PartOf(ob, st[f]), s) + Is(PartOf(ob, z), s)
        BY <4>2, StoreTo
      <4>4. E2 = E - Is(PartOf(ob, st[f]), s) + Is(PartOf(ob, z), s)
        BY <3>1, <3>3, <4>1, <4>3
      <4>5. PartOf(ob, st[f]) = NULL /\ PartOf(ob, z) = e
        BY <2>8, <4>1
      <4>6. S2 = S - Is(NULL, s) + Is(o, s)
        BY <3>1, <3>3, <4>1, <4>3
      <4> QED BY <4>4, <4>5, <4>6
    <3>5. Is(NULL, s) = 0 /\ Is(o, s) \in {0, 1} /\ Is(e, s) \in {0, 1}
      BY SlotAssumption DEF Is, NULL
    <3>6. ElementsIn(r.obj, st2) = ElementsIn(t.obj, st2)
      BY <2>4, ElementsSame
    <3>7. Total(r.obj, r.node, st2, s) = N + S2 + E2 + W
      BY <1>4, <1>8, <2>7, <3>1, <3>3, <3>6 DEF Total
    <3>8. t.obj[s].count = N + S + E + W
      BY <2>2, <3>1 DEF Exact, Total
    <3>9. r.obj[s].count = t.obj[s].count + (Is(o, s) + Is(e, s))
      BY <2>4
    <3>10. PICK a, b : a = Is(o, s) /\ b = Is(e, s)
      OBVIOUS
    <3>11. a \in Int /\ b \in Int
      BY <3>5, <3>10
    <3>12. S2 + E2 = S + E + (a + b)
      BY ONLY <3>2, <3>4, <3>5, <3>10, <3>11
    <3>13. r.obj[s].count = N + S + E + W + (a + b)
      BY ONLY <3>8, <3>9, <3>10
    <3>14. S2 \in Int /\ E2 \in Int
      BY ONLY <3>2, <3>4, <3>5, <3>10, <3>11
    <3> QED BY ONLY <3>2, <3>7, <3>11, <3>12, <3>13, <3>14
  <2>10. \A s \in Slots : /\ Alike(r.obj[s], m.obj[s])
                          /\ s \notin {o, e} => r.obj[s].count <= m.obj[s].count
    BY <2>2, <2>4, <2>6 DEF Alike
  <2>11. Tame(m.node, w, r, v)
    BY <1>4, <1>8, <2>1 DEF Tame
  <2> QED BY <1>3, <1>4, <1>6, <1>8, <2>9, <2>10, <2>11 DEF Exact
<1> QED BY <1>7, <1>8

(* One object's reference changes.                                         *)
LEMMA OwnedChange ==
  ASSUME NEW ob, NEW ob2, NEW x \in Slots,
         \A y \in Slots : y # x => Owned(ob2)[y] = Owned(ob)[y], NEW s
  PROVE  /\ Refs(Owned(ob), s) \in Nat /\ Refs(Owned(ob2), s) \in Nat
         /\ Refs(Owned(ob), s) >= Is(Owned(ob)[x], s)
         /\ Refs(Owned(ob2), s) = Refs(Owned(ob), s) - Is(Owned(ob)[x], s) + Is(Owned(ob2)[x], s)
<1>1. PICK G, H : G = Owned(ob) /\ H = Owned(ob2)
  OBVIOUS
<1>2. DOMAIN G = Slots /\ DOMAIN H = Slots /\ \A y \in Slots : y # x => H[y] = G[y]
  BY <1>1 DEF Owned
<1>3. IsFiniteSet(Slots)
  BY SlotAssumption
<1>4. /\ Refs(G, s) \in Nat /\ Refs(H, s) \in Nat /\ Refs(G, s) >= Is(G[x], s)
      /\ Refs(H, s) = Refs(G, s) - Is(G[x], s) + Is(H[x], s)
  BY <1>2, <1>3, RefsChange
<1> QED BY <1>1, <1>4

(* Objects whose fields all hold something have one at most.               *)
LEMMA ValuesIs ==
  ASSUME NEW ob \in Objects, NEW o \in Slots, ShapeOf(ob, o), ~Bare(ob[o]),
         NULL \notin ToSet(Values(ob[o]))
  PROVE  /\ First(ob[o]) \in Slots
         /\ \A s \in Slots : Times(Values(ob[o]), s) = Is(First(ob[o]), s)
<1>1. PICK F, R : F = ob[o].fields /\ R = [name : Fields, val : {NULL} \cup Slots]
  OBVIOUS
<1>2. F \in Seq(R)
  BY <1>1, ObjectFacts DEF Objects
<1>3. Len(F) \in Nat /\ DOMAIN F = 1 .. Len(F) /\ Len(F) # 0
  BY <1>1, <1>2 DEF Bare
<1>4. PICK q : q = Values(ob[o])
  OBVIOUS
<1>5. DOMAIN q = 1 .. Len(F) /\ \A i \in 1 .. Len(F) : q[i] = F[i].val
  BY <1>1, <1>3, <1>4 DEF Values
<1>6. \A i \in 1 .. Len(F) : F[i].val # NULL
  BY <1>4, <1>5 DEF ToSet
<1>7. \A i \in 1 .. Len(F) : i = 1
  BY <1>1, <1>3, <1>6 DEF ShapeOf
<1>8. Len(F) = 1
  BY <1>3, <1>7
<1>9. PICK v : v = F[1].val
  OBVIOUS
<1>10. v \in Slots
  <2>1. F[1] \in R
    BY <1>2, <1>8
  <2> QED BY <1>1, <1>6, <1>8, <1>9, <2>1
<1>11. First(ob[o]) = v
  BY <1>1, <1>9 DEF First, Bare
<1>12. \A s \in Slots : Times(q, s) = Is(v, s)
  <2> TAKE s \in Slots
  <2>1. {i \in DOMAIN q : q[i] = s} = IF v = s THEN {1} ELSE {}
    BY <1>5, <1>8, <1>9
  <2> QED BY <2>1, FS_Singleton, FS_EmptySet DEF Times, Is
<1> QED BY <1>4, <1>10, <1>11, <1>12

(* Dropping an entry uncounts its object, and what that leaves.            *)
LEMMA DropExact ==
  ASSUME NEW m \in Memories, Ok(m), NEW st \in Stores, Exact(m.obj, m.node, st),
         Shaped(m.obj), NEW n, n \in DOMAIN m.node, NEW r, r = Drop(m, n), r.slips = {}
  PROVE  /\ r.fault \in {"none", "null"}
         /\ Ok(r) => /\ Exact(r.obj, r.node, st)
                     /\ \A s \in Slots : r.obj[s].count <= m.obj[s].count
<1>1. PICK o \in Slots : o = m.node[n].obj
  BY MemoryFacts
<1>2. m.node \in NodeMaps /\ m.obj \in Objects /\ \A s \in Slots : m.obj[s].count \in Int
  BY MemoryFacts, ObjectFacts DEF Objects
<1>3. m.obj[o].count > 0
  BY <1>1, <1>2, Referred
<1>4. PICK c \in BOOLEAN : c = (m.obj[o].count > 1 /\ m.obj[o].fields # << >>)
  OBVIOUS
<1>5. PICK one : one = <<o>>
  OBVIOUS
<1>6. /\ one \in Seq({NULL} \cup Slots) /\ \A s \in Slots : Times(one, s) = Is(o, s)
      /\ "children" \in Slips
  BY <1>5, TimesOne DEF Slips
<1>7. PICK a : a = Slip(Uncount(m, one), c, "children")
  OBVIOUS
<1>8. /\ Recounts(m, a) /\ a.fault = m.fault /\ a.obj = Uncount(m, one).obj
      /\ a.slips = {} => ~c
  BY <1>6, <1>7, RecountsUncount
<1>9. \A s \in Slots : /\ Alike(a.obj[s], m.obj[s])
                       /\ a.obj[s].count = m.obj[s].count - Is(o, s)
  BY <1>3, <1>6, <1>8, UncountOne
<1>10. PICK b : b = Freed(a, n)
  OBVIOUS
<1>11. /\ b \in Memories /\ b.obj = a.obj /\ b.fault = a.fault /\ b.slips = a.slips
       /\ DOMAIN b.node = DOMAIN m.node \ {n}
       /\ \A k \in DOMAIN m.node \ {n} : b.node[k] = m.node[k]
  BY <1>8, <1>10, FreedFacts DEF Recounts, Leaves
<1>12. r = UncountFields(b, o)
  BY <1>1, <1>3, <1>4, <1>5, <1>7, <1>10 DEF Drop
<1>13. PICK q : q = Values(b.obj[o])
  OBVIOUS
<1>14. /\ Recounts(b, r)
       /\ NULL \in ToSet(q) => r.fault = "null"
       /\ NULL \notin ToSet(q) => /\ r.fault = b.fault /\ r.obj = Uncount(b, q).obj
                                  /\ r.slips = {} => ~Strands(b, q)
  BY <1>11, <1>12, <1>13, UncountFieldsFacts
<1>15. r.slips = {} /\ ~c /\ r.node = b.node
  BY <1>8, <1>11, <1>14 DEF Recounts, Leaves
<1>16. q = Values(m.obj[o]) /\ q \in Seq({NULL} \cup Slots) /\ (q = << >> <=> Bare(m.obj[o]))
  <2>1. b.obj[o].fields = m.obj[o].fields
    BY <1>9, <1>11 DEF Alike
  <2>2. q = Values(m.obj[o])
    BY <1>13, <2>1 DEF Values
  <2>3. m.obj[o] \in Object
    BY MemoryFacts
  <2> QED BY <2>2, <2>3, ValuesFacts DEF Bare
<1>17. CASE NULL \in ToSet(q)
  BY <1>14, <1>17 DEF Ok
<1>18. CASE NULL \notin ToSet(q)
  <2>1. r.fault = "none" /\ r.obj = Uncount(b, q).obj /\ ~Strands(b, q)
    BY <1>8, <1>11, <1>14, <1>15, <1>18 DEF Ok
  <2>2. \A s \in Slots : /\ Alike(r.obj[s], m.obj[s])
                         /\ r.obj[s].count = Less(m.obj[s].count - Is(o, s), Times(q, s))
    BY <1>9, <1>11, <1>16, <2>1, UncountFacts DEF Alike
  <2>3. ElementsIn(r.obj, st) = ElementsIn(m.obj, st)
    BY <2>2, ElementsSame
  <2>4. \A s \in Slots : Is(o, s) \in {0, 1}
    BY DEF Is
  <2>5. ASSUME NEW s \in Slots
        PROVE  /\ Refs(Recording(r.node), s) = Refs(Recording(m.node), s) - Is(o, s)
               /\ Refs(Recording(m.node), s) \in Nat /\ Refs(st, s) \in Nat
               /\ Refs(ElementsIn(m.obj, st), s) \in Nat /\ Refs(Owned(m.obj), s) \in Nat
               /\ Refs(Recording(r.node), s) \in Nat
               /\ m.obj[s].count = Total(m.obj, m.node, st, s)
    <3>1. r.node \in NodeMaps
      BY <1>14 DEF Recounts, Leaves, Memories
    <3>2. \A k \in DOMAIN m.node \ {n} : r.node[k].obj = m.node[k].obj
      BY <1>11, <1>15
    <3>3. DOMAIN r.node = DOMAIN m.node \ {n}
      BY <1>11, <1>15
    <3>4. Refs(Recording(r.node), s) = Refs(Recording(m.node), s) - Is(m.node[n].obj, s)
      BY <1>2, <3>1, <3>2, <3>3, RecordingLess
    <3> QED BY <1>1, <1>2, <3>1, <3>4, TotalType DEF Exact
  <2>6. CASE Bare(m.obj[o])
    <3>1. \A s \in Slots : r.obj[s].count = m.obj[s].count - Is(o, s)
      <4> TAKE s \in Slots
      <4>1. Times(q, s) = 0
        BY <1>16, <2>6, TimesNone
      <4>2. m.obj[s].count - Is(o, s) \in Int
        BY <1>2, <2>4
      <4> QED BY <2>2, <4>1, <4>2 DEF Less
    <3>2. Owned(r.obj) = Owned(m.obj)
      <4>1. \A s \in Slots : s # o => r.obj[s].count = m.obj[s].count
        BY <1>2, <3>1 DEF Is
      <4> QED BY <2>2, <2>6, <4>1, OwnedSame DEF Bare
    <3>3. Exact(r.obj, r.node, st)
      <4> SUFFICES ASSUME NEW s \in Slots
                   PROVE  r.obj[s].count = Total(r.obj, r.node, st, s)
        BY DEF Exact
      <4> QED BY <2>3, <2>4, <2>5, <3>1, <3>2 DEF Total
    <3>4. \A s \in Slots : r.obj[s].count <= m.obj[s].count
      BY <1>2, <2>4, <3>1
    <3> QED BY <2>1, <3>3, <3>4
  <2>7. CASE ~Bare(m.obj[o])
    <3>1. m.obj[o].count = 1
      <4>1. m.obj[o].fields # << >>
        BY <2>7 DEF Bare
      <4>2. ~(m.obj[o].count > 1)
        BY <1>4, <1>15, <4>1
      <4>3. m.obj[o].count \in Int
        BY <1>2
      <4> QED BY <1>3, <4>2, <4>3
    <3>2. PICK v : v = First(m.obj[o])
      OBVIOUS
    <3>3. v \in Slots /\ \A s \in Slots : Times(q, s) = Is(v, s)
      <4>1. ShapeOf(m.obj, o)
        BY <1>3 DEF Shaped
      <4> QED BY <1>2, <1>16, <1>18, <2>7, <3>2, <4>1, ValuesIs
    <3>4. Owned(m.obj)[o] = v
      BY <1>3, <3>2 DEF Owned
    <3>5. \A s \in Slots : Is(v, s) \in {0, 1} /\ Refs(Owned(m.obj), s) >= Is(v, s)
      <4> TAKE s \in Slots
      <4>1. Refs(Owned(m.obj), s) >= Is(Owned(m.obj)[o], s)
        BY OwnedChange
      <4> QED BY <3>4, <4>1 DEF Is
    <3>6. \A s \in Slots : m.obj[s].count >= Is(o, s) + Is(v, s)
      <4> TAKE s \in Slots
      <4>1. Refs(Recording(m.node), s) >= Is(o, s)
        BY <2>4, <2>5
      <4> QED BY <2>4, <2>5, <3>5, <4>1 DEF Total
    <3>7. v # o
      <4> SUFFICES ASSUME v = o
                   PROVE  FALSE
        OBVIOUS
      <4>1. Is(o, o) = 1 /\ Is(v, o) = 1
        BY DEF Is
      <4> QED BY <3>1, <3>6, <4>1
    <3>8. \A s \in Slots : r.obj[s].count = m.obj[s].count - Is(o, s) - Is(v, s)
      <4> TAKE s \in Slots
      <4>1. PICK i, j, k : i = Is(o, s) /\ j = Is(v, s) /\ k = m.obj[s].count
        OBVIOUS
      <4>2. i \in {0, 1} /\ j \in {0, 1} /\ k \in Int /\ k >= i + j
        BY <1>2, <2>4, <3>5, <3>6, <4>1
      <4>3. Less(k - i, j) = k - i - j
        BY <4>2 DEF Less
      <4> QED BY <2>2, <3>3, <4>1, <4>3
    <3>9. \A y \in Slots : y # o => Owned(r.obj)[y] = Owned(m.obj)[y]
      <4> TAKE y \in Slots
      <4> HAVE y # o
      <4>1. Is(o, y) = 0
        BY DEF Is
      <4>2. First(r.obj[y]) = First(m.obj[y])
        BY <2>2 DEF First, Alike
      <4>3. CASE y # v
        <5>1. Is(v, y) = 0
          BY <4>3 DEF Is
        <5>2. r.obj[y].count = m.obj[y].count
          BY <1>2, <3>8, <4>1, <5>1
        <5> QED BY <4>2, <5>2 DEF Owned
      <4>4. CASE y = v /\ Bare(m.obj[y])
        <5>1. First(r.obj[y]) = NULL
          BY <4>2, <4>4 DEF First, Bare
        <5> QED BY <4>2, <5>1 DEF Owned
      <4>5. CASE y = v /\ ~Bare(m.obj[y])
        <5>1. b.obj[y].fields # << >> /\ b.obj[y].count = m.obj[y].count
          BY <1>2, <1>9, <1>11, <4>1, <4>5 DEF Bare, Alike
        <5>2. Is(v, y) = 1 /\ Times(q, y) = 1
          BY <3>3, <4>5 DEF Is
        <5>3. m.obj[y].count \notin 1 .. 1
          BY <2>1, <5>1, <5>2 DEF Strands
        <5>4. m.obj[y].count > 0 /\ r.obj[y].count > 0
          BY <1>2, <3>6, <3>8, <4>1, <5>2, <5>3
        <5> QED BY <4>2, <5>4 DEF Owned
      <4> QED BY <4>3, <4>4, <4>5
    <3>10. Owned(r.obj)[o] = NULL
      <4>1. Is(o, o) = 1 /\ Is(v, o) = 0
        BY <3>7 DEF Is
      <4>2. r.obj[o].count = 0
        BY <3>1, <3>8, <4>1
      <4> QED BY <4>2 DEF Owned
    <3>11. Exact(r.obj, r.node, st)
      <4> SUFFICES ASSUME NEW s \in Slots
                   PROVE  r.obj[s].count = Total(r.obj, r.node, st, s)
        BY DEF Exact
      <4>1. Is(NULL, s) = 0
        BY SlotAssumption DEF Is, NULL
      <4>2. /\ Refs(Owned(m.obj), s) \in Nat /\ Refs(Owned(r.obj), s) \in Nat
            /\ Refs(Owned(r.obj), s)
                 = Refs(Owned(m.obj), s) - Is(Owned(m.obj)[o], s) + Is(Owned(r.obj)[o], s)
        BY <3>9, OwnedChange
      <4>3. Refs(Owned(r.obj), s) = Refs(Owned(m.obj), s) - Is(v, s)
        BY <3>4, <3>5, <3>10, <4>1, <4>2
      <4> QED BY <2>3, <2>4, <2>5, <3>5, <3>8, <4>2, <4>3 DEF Total
    <3>12. \A s \in Slots : r.obj[s].count <= m.obj[s].count
      BY <1>2, <2>4, <3>5, <3>8
    <3> QED BY <2>1, <3>11, <3>12
  <2> QED BY <2>6, <2>7
<1> QED BY <1>17, <1>18

(* Objects that have their shape keep it while counts fall.                *)
LEMMA StillShaped ==
  ASSUME NEW ob \in Objects, Shaped(ob), NEW ob2 \in Objects,
         \A s \in Slots : Alike(ob2[s], ob[s]),
         \A s \in Slots : ob2[s].count > 0 => ob[s].count > 0
  PROVE  Shaped(ob2)
<1>1. ASSUME NEW s \in Slots, ob2[s].count > 0
      PROVE  ShapeOf(ob2, s)
  <2>1. ShapeOf(ob, s)
    BY <1>1 DEF Shaped
  <2>2. Alike(ob2[s], ob[s])
    OBVIOUS
  <2>3. ob[s].value \in Slots => Alike(ob2[ob[s].value], ob[ob[s].value])
    OBVIOUS
  <2> QED BY <2>1, <2>2, <2>3 DEF ShapeOf, Alike
<1> QED BY <1>1 DEF Shaped

(* Some entries have been dropped.                                         *)
Dropped(m, st, r) ==
  r.slips = {} => /\ r.fault \in {"none", "null"}
                  /\ Ok(r) => /\ Exact(r.obj, r.node, st)
                              /\ \A s \in Slots : r.obj[s].count <= m.obj[s].count

(* The method's whole list is dropped.                                     *)
LEMMA DropListExact ==
  ASSUME NEW m \in Memories, Ok(m), NEW st \in Stores, Exact(m.obj, m.node, st),
         Shaped(m.obj), NEW w, ListOf(m.node, m.list, w), NEW r, r = DropList(m), r.slips = {}
  PROVE  /\ r \in Memories /\ r.fault \in {"none", "null"}
         /\ Ok(r) => Settles(m, w, st, r)
<1>1. PICK left : /\ r = [left[Len(w)] EXCEPT !.list = NULL]
                  /\ \A i \in 0 .. Len(w) : /\ left[i] = NextLeft(m, w, left, i)
                                            /\ Left(m, w, i, left[i])
  BY DropListIs
<1>2. PICK N \in Nat : N = Len(w)
  BY DEF ListOf
<1>3. /\ \A k \in 1 .. N : w[k] \in DOMAIN m.node
      /\ \A j, k \in 1 .. N : w[j] = w[k] => j = k
      /\ ToSet(w) = {w[j] : j \in 1 .. N}
  BY <1>2, SeqElements DEF ListOf
<1>4. \A s \in Slots : m.obj[s].count \in Int
  BY MemoryFacts, ObjectFacts
<1> DEFINE T == {i \in Nat : i <= N => Dropped(m, st, left[i])}
<1>5. ASSUME NEW i \in Nat, \A k \in 0 .. i - 1 : k \in T, i <= N
      PROVE  Dropped(m, st, left[i])
  <2>1. i \in 0 .. N
    BY <1>2, <1>5
  <2>2. CASE i = 0
    <3>1. left[i] = m
      BY <1>1, <1>2, <2>1, <2>2 DEF NextLeft
    <3> QED BY <1>4, <3>1 DEF Dropped, Ok
  <2>3. CASE i # 0
    <3>1. PICK a : a = left[i - 1]
      OBVIOUS
    <3>2. i - 1 \in 0 .. N /\ i - 1 \in 0 .. i - 1 /\ i \in 1 .. N
      BY <2>1, <2>3
    <3>3. Dropped(m, st, a) /\ Left(m, w, i - 1, a)
      BY <1>1, <1>2, <1>5, <3>1, <3>2
    <3>4. PICK n, b : n = w[i] /\ b = left[i]
      OBVIOUS
    <3>5. b = Drop(a, n)
      BY <1>1, <1>2, <2>1, <2>3, <3>1, <3>4 DEF NextLeft
    <3>6. CASE ~Ok(a)
      <4>1. b = a
        BY <3>5, <3>6 DEF Drop
      <4> QED BY <3>3, <3>4, <4>1
    <3>7. CASE Ok(a)
      <4>1. /\ a \in Memories
            /\ DOMAIN a.node = DOMAIN m.node \ {w[j] : j \in 1 .. i - 1}
            /\ \A s \in Slots : Alike(a.obj[s], m.obj[s])
        BY <3>3, <3>7 DEF Left, Leaves
      <4>2. n \in DOMAIN a.node
        <5>1. \A j \in 1 .. i - 1 : w[j] # w[i]
          BY <1>3, <3>2
        <5> QED BY <1>3, <3>2, <3>4, <4>1, <5>1
      <4> SUFFICES ASSUME b.slips = {}
                   PROVE  /\ b.fault \in {"none", "null"}
                          /\ Ok(b) => /\ Exact(b.obj, b.node, st)
                                      /\ \A s \in Slots : b.obj[s].count <= m.obj[s].count
        BY <3>4 DEF Dropped
      <4>3. a.slips = {} /\ b \in Memories
        BY <3>5, <4>1, <4>2, DropType DEF Leaves
      <4>4. Exact(a.obj, a.node, st) /\ \A s \in Slots : a.obj[s].count <= m.obj[s].count
        BY <3>3, <3>7, <4>3 DEF Dropped
      <4>5. \A s \in Slots : a.obj[s].count \in Int /\ b.obj[s].count \in Int
        BY <4>1, <4>3, MemoryFacts, ObjectFacts
      <4>6. Shaped(a.obj)
        <5>1. a.obj \in Objects /\ m.obj \in Objects
          BY <4>1, MemoryFacts DEF Objects
        <5>2. \A s \in Slots : a.obj[s].count > 0 => m.obj[s].count > 0
          BY <1>4, <4>4, <4>5
        <5> QED BY <4>1, <5>1, <5>2, StillShaped
      <4>7. /\ b.fault \in {"none", "null"}
            /\ Ok(b) => /\ Exact(b.obj, b.node, st)
                        /\ \A s \in Slots : b.obj[s].count <= a.obj[s].count
        BY <3>5, <3>7, <4>1, <4>2, <4>4, <4>6, DropExact
      <4>8. ASSUME Ok(b), NEW s \in Slots
            PROVE  b.obj[s].count <= m.obj[s].count
        BY <1>4, <4>4, <4>5, <4>7, <4>8
      <4> QED BY <4>7, <4>8
    <3> QED BY <3>6, <3>7
  <2> QED BY <2>2, <2>3
<1>6. \A i \in Nat : (\A k \in 0 .. i - 1 : k \in T) => i \in T
  BY <1>5
<1> HIDE DEF T
<1>7. \A i \in Nat : i \in T
  BY <1>6, Induction
<1>8. Dropped(m, st, left[N])
  BY <1>2, <1>7 DEF T
<1>9. PICK a : a = left[N]
  OBVIOUS
<1>10. Left(m, w, N, a)
  BY <1>1, <1>2, <1>9
<1>11. /\ r \in Memories /\ r.obj = a.obj /\ r.node = a.node /\ r.list = NULL
       /\ r.fault = a.fault /\ r.slips = a.slips
  <2>1. a \in Memories /\ NULL \in Heads
    BY <1>10 DEF Left, Leaves, Heads
  <2>2. r = [a EXCEPT !.list = NULL]
    BY <1>1, <1>2, <1>9
  <2> QED BY <2>1, <2>2, With
<1>12. ASSUME Ok(r)
       PROVE  Settles(m, w, st, r)
  <2>1. /\ Exact(r.obj, r.node, st)
        /\ \A s \in Slots : r.obj[s].count <= m.obj[s].count
    BY <1>8, <1>9, <1>11, <1>12 DEF Dropped, Ok
  <2>2. /\ \A s \in Slots : Alike(r.obj[s], m.obj[s])
        /\ DOMAIN r.node = DOMAIN m.node \ ToSet(w)
        /\ \A k \in DOMAIN r.node : r.node[k] = m.node[k]
    BY <1>3, <1>10, <1>11, <1>12 DEF Left, Ok
  <2>3. PICK v : v = << >>
    OBVIOUS
  <2>4. ListOf(r.node, r.list, v) /\ ToSet(v) = {}
    BY <1>11, <2>3 DEF ListOf, ToSet
  <2>5. Tame(m.node, w, r, v)
    BY <2>2, <2>4 DEF Tame
  <2> QED BY <2>1, <2>2, <2>5 DEF Settles
<1>13. r.fault \in {"none", "null"}
  BY <1>8, <1>9, <1>11 DEF Dropped
<1> QED BY <1>11, <1>12, <1>13

-----------------------------------------------------------------------------
(* The invariant.                                                          *)

TypeInv == TypeOK /\ node \in NodeMaps

(* A live array's elements are alive.                                      *)
KeepsElements(ob) ==
  \A s \in Slots : ob[s].isArray /\ ob[s].count > 0 /\ ob[s].value \in Slots
                   => ob[ob[s].value].count # 0
HeldAlive(ob, ch) == \A i \in DOMAIN ch : \A o \in ch[i].held : ob[o].count > 0

(* Each active method has a list of its own.                               *)
Lists(nd, ch, L) ==
  /\ \A i \in DOMAIN ch : ListOf(nd, ch[i].list, L[i])
  /\ \A i, j \in DOMAIN ch : i # j => ToSet(L[i]) \cap ToSet(L[j]) = {}

Clean ==
  /\ Exact(obj, node, statics) /\ Shaped(obj) /\ KeepsElements(obj) /\ HeldAlive(obj, chain)
  /\ \A s \in Slots \ used : obj[s].count = 0
  /\ \E L : Lists(node, chain, L)

HeapInv ==
  /\ TypeInv
  /\ slips = {} => fault \in {"none", "null"}
  /\ Active /\ slips = {} /\ fault = "none" => Clean

(* What a handler starts from: the memory of a running process.            *)
LEMMA MemoryType ==
  ASSUME TypeInv, Active
  PROVE  /\ Memory \in Memories /\ Ok(Memory) /\ Len(chain) \in Nat \ {0}
         /\ Memory.obj = obj /\ Memory.node = node /\ Memory.list = chain[Len(chain)].list
         /\ Memory.slips = slips /\ obj \in Objects /\ statics \in Stores
         /\ Top = chain[Len(chain)] /\ Top \in Activation
         /\ Held = chain[Len(chain)].held /\ Held \in SUBSET Slots
<1>1. chain \in Seq(Activation) /\ chain # << >>
  BY DEF TypeInv, TypeOK, Active
<1>2. Len(chain) \in Nat \ {0} /\ Last(chain) = chain[Len(chain)] /\ Last(chain) \in Activation
  BY <1>1, SeqParts
<1>3. Top = chain[Len(chain)] /\ Top \in Activation
  BY <1>2 DEF Top
<1>4. Top.list \in Heads /\ Top.held \in SUBSET Slots
  BY <1>3 DEF Activation, Heads
<1>5. /\ Memory.obj = obj /\ Memory.node = node /\ Memory.list = Top.list
      /\ Memory.fault = "none" /\ Memory.slips = slips
  BY DEF Memory
<1>6. /\ obj \in [Slots -> Object] /\ node \in NodeMaps /\ slips \in SUBSET Slips
      /\ statics \in Stores
  BY DEF TypeInv, TypeOK, Stores
<1>7. Memory \in Memories
  BY <1>4, <1>6 DEF Memory, Memories, Faults
<1> QED BY <1>2, <1>3, <1>4, <1>5, <1>6, <1>7 DEF Ok, Held, Objects

(* The frame of the method that runs gets the list and what it holds.      *)
LEMMA CommitChain ==
  ASSUME TypeInv, Active, NEW m \in Memories, NEW held \in SUBSET Slots, Commit(m, held)
  PROVE  /\ chain' \in Seq(Activation) /\ DOMAIN chain' = DOMAIN chain /\ chain' # << >>
         /\ Len(chain') = Len(chain)
         /\ \A i \in DOMAIN chain : i # Len(chain) => chain'[i] = chain[i]
         /\ chain'[Len(chain)].list = m.list /\ chain'[Len(chain)].held = held
<1>1. PICK c, n : c = chain /\ n = Len(c)
  OBVIOUS
<1>2. c \in Seq(Activation) /\ n \in Nat \ {0} /\ DOMAIN c = 1 .. n /\ n \in DOMAIN c
  BY <1>1, MemoryType DEF TypeInv, TypeOK
<1>3. PICK a : a = [meth |-> c[n].meth, copy |-> c[n].copy, list |-> m.list, held |-> held]
  OBVIOUS
<1>4. m.list \in Heads
  BY MemoryFacts
<1>5. c[n] \in Activation
  BY <1>2
<1>6. a \in Activation
  BY <1>3, <1>4, <1>5 DEF Activation, Heads
<1>7. PICK d : d = [c EXCEPT ![n] = a]
  OBVIOUS
<1>8. d \in Seq(Activation) /\ Len(d) = n /\ DOMAIN d = DOMAIN c /\ d[n] = a /\ d # << >>
      /\ \A i \in DOMAIN c : i # n => d[i] = c[i]
  BY <1>2, <1>6, <1>7
<1>9. chain' = d
  <2>1. chain' = [c EXCEPT ![n].list = m.list, ![n].held = held]
    BY <1>1 DEF Commit
  <2>2. PICK x : x = [c EXCEPT ![n] = [c[n] EXCEPT !.list = m.list]]
    OBVIOUS
  <2>3. [c EXCEPT ![n].list = m.list, ![n].held = held] = [x EXCEPT ![n] = [x[n] EXCEPT !.held = held]]
    BY <2>2
  <2>4. x[n] = [c[n] EXCEPT !.list = m.list]
    BY <1>2, <2>2
  <2>5. [x[n] EXCEPT !.held = held] = a
    <3>1. PICK y, z : y = c[n] /\ z = [y EXCEPT !.list = m.list]
      OBVIOUS
    <3>2. z = [meth |-> y.meth, copy |-> y.copy, list |-> m.list, held |-> y.held]
      BY <1>5, <3>1 DEF Activation
    <3>3. [z EXCEPT !.held = held] = [meth |-> y.meth, copy |-> y.copy, list |-> m.list, held |-> held]
      BY <3>2
    <3> QED BY <1>3, <2>4, <3>1, <3>3
  <2>6. [x EXCEPT ![n] = a] = d
    BY <1>2, <1>7, <2>2
  <2> QED BY <2>1, <2>3, <2>5, <2>6
<1> QED BY <1>1, <1>3, <1>8, <1>9

(* The slips found once a handler is done.                                 *)
LEMMA SlippedIs ==
  ASSUME NEW m \in Memories, NEW ch \in Seq(Activation)
  PROVE  /\ Slipped(m, ch) \subseteq Slips /\ m.slips \subseteq Slipped(m, ch)
         /\ Slipped(m, ch) = {} =>
              /\ m.slips = {} /\ KeepsElements(m.obj)
              /\ \A i \in DOMAIN ch : \A o \in ch[i].held : m.obj[o].count # 0
<1>1. PICK A, B : /\ A = (IF \E a \in ToSet(ch) : \E o \in a.held : m.obj[o].count = 0
                          THEN {"local"} ELSE {})
                  /\ B = (IF \E s \in Slots : LosesElements(m, s) THEN {"elements"} ELSE {})
  OBVIOUS
<1>2. Slipped(m, ch) = m.slips \cup A \cup B
  BY <1>1 DEF Slipped
<1>3. A \subseteq Slips /\ B \subseteq Slips /\ m.slips \subseteq Slips
  BY <1>1, MemoryFacts DEF Slips
<1>4. ASSUME B = {}
      PROVE  KeepsElements(m.obj)
  BY <1>1, <1>4 DEF KeepsElements, LosesElements
<1>5. ASSUME A = {}, NEW i \in DOMAIN ch, NEW o \in ch[i].held
      PROVE  m.obj[o].count # 0
  <2>1. ch[i] \in ToSet(ch)
    BY <1>5 DEF ToSet
  <2> QED BY <1>1, <1>5, <2>1
<1> QED BY <1>2, <1>3, <1>4, <1>5

(* A handler that is done, and what it leaves the other variables at.      *)
Sound(m, held) ==
  /\ Commit(m, held) /\ Leaves(Memory, m) /\ held \in SUBSET Slots
  /\ statics' \in Stores /\ used' \in SUBSET Slots

(* It leaves a state that has its types.                                    *)
LEMMA SoundType ==
  ASSUME TypeInv, Active, NEW m, NEW held, Sound(m, held)
  PROVE  /\ TypeInv' /\ Active' /\ slips' = Slipped(m, chain')
         /\ obj' = m.obj /\ node' = m.node /\ fault' = m.fault
<1>1. m \in Memories /\ held \in SUBSET Slots /\ Commit(m, held)
  BY DEF Sound, Leaves
<1>2. chain' \in Seq(Activation) /\ chain' # << >>
  BY <1>1, CommitChain
<1>3. /\ obj' = m.obj /\ node' = m.node /\ fault' = m.fault
      /\ entry' = (IF Top.copy THEN entry ELSE [entry EXCEPT ![Top.meth] = m.list])
      /\ slips' = Slipped(m, chain') /\ ops' = ops + 1
  BY <1>1 DEF Commit
<1>4. slips' \subseteq Slips
  BY <1>1, <1>2, <1>3, SlippedIs
<1>5. entry' \in [Methods -> {WILD, NULL} \cup Nodes]
  <2>1. m.list \in {WILD, NULL} \cup Nodes
    BY <1>1, MemoryFacts DEF Heads
  <2> QED BY <1>3, <2>1 DEF TypeInv, TypeOK
<1>6. ops' \in Nat
  BY <1>3 DEF TypeInv, TypeOK
<1>7. /\ m.obj \in [Slots -> Object] /\ m.node \in NodeMaps /\ DOMAIN m.node \subseteq Nodes
      /\ m.fault \in {"none", "null", "wild", "freed"}
      /\ \A n \in DOMAIN m.node : m.node[n] \in [obj : Slots, next : {NULL} \cup Nodes]
  <2>1. m.node \in [DOMAIN m.node -> ListEntry]
    BY <1>1, MemoryFacts
  <2> QED BY <1>1, <2>1, MemoryFacts DEF Faults, ListEntry
<1>8. statics' \in [Statics -> {NULL} \cup Slots] /\ used' \subseteq Slots
  BY DEF Sound, Stores
<1> QED BY <1>2, <1>3, <1>4, <1>5, <1>6, <1>7, <1>8 DEF TypeInv, TypeOK, Active

(* A list whose entries stay.                                              *)
LEMMA ListStays ==
  ASSUME NEW nd, NEW p, NEW w, ListOf(nd, p, w), NEW nd2,
         \A k \in ToSet(w) : k \in DOMAIN nd2 /\ nd2[k] = nd[k]
  PROVE  ListOf(nd2, p, w)
<1>1. PICK D, E : D = DOMAIN nd /\ E = DOMAIN nd2
  OBVIOUS
<1>2. w \in Seq(D) /\ Len(w) \in Nat
  BY <1>1 DEF ListOf
<1>3. \A k \in 1 .. Len(w) : w[k] \in ToSet(w)
  BY <1>2, SeqElements
<1>4. \A k \in 1 .. Len(w) : w[k] \in E /\ nd2[w[k]] = nd[w[k]]
  BY <1>1, <1>3
<1>5. w \in Seq(E)
  BY <1>2, <1>4
<1>6. \A k \in 1 .. Len(w) : nd2[w[k]].next = IF k = Len(w) THEN NULL ELSE w[k + 1]
  <2> TAKE k \in 1 .. Len(w)
  <2>1. nd[w[k]].next = IF k = Len(w) THEN NULL ELSE w[k + 1]
    BY DEF ListOf
  <2> QED BY <1>4, <2>1
<1> QED BY <1>1, <1>5, <1>6 DEF ListOf

(* The list of the method that runs becomes another.                       *)
LEMMA ListsMove ==
  ASSUME NEW nd \in NodeMaps, NEW ch, NEW L, Lists(nd, ch, L), NEW n \in DOMAIN ch,
         NEW r, NEW v, Tame(nd, L[n], r, v),
         NEW ch2, DOMAIN ch2 = DOMAIN ch, ch2[n].list = r.list,
         \A i \in DOMAIN ch : i # n => ch2[i] = ch[i]
  PROVE  \E L2 : Lists(r.node, ch2, L2)
<1>1. PICK L2 : L2 = [i \in DOMAIN ch |-> IF i = n THEN v ELSE L[i]]
  OBVIOUS
<1>2. L2[n] = v /\ \A i \in DOMAIN ch : i # n => L2[i] = L[i]
  BY <1>1
<1>3. ASSUME NEW i \in DOMAIN ch, i # n
      PROVE  /\ ListOf(nd, ch[i].list, L[i]) /\ ToSet(L[i]) \cap ToSet(L[n]) = {}
             /\ ToSet(L[i]) \subseteq DOMAIN nd
  <2>1. ListOf(nd, ch[i].list, L[i]) /\ ToSet(L[i]) \cap ToSet(L[n]) = {}
    BY <1>3 DEF Lists
  <2>2. L[i] \in Seq(DOMAIN nd)
    BY <2>1 DEF ListOf
  <2> QED BY <2>1, <2>2, SeqElements
<1>4. ASSUME NEW i \in DOMAIN ch
      PROVE  ListOf(r.node, ch2[i].list, L2[i])
  <2>1. CASE i = n
    BY <1>2, <2>1 DEF Tame
  <2>2. CASE i # n
    <3>1. \A k \in ToSet(L[i]) : k \in DOMAIN r.node /\ r.node[k] = nd[k]
      BY <1>3, <2>2 DEF Tame
    <3>2. ListOf(r.node, ch[i].list, L[i])
      BY <1>3, <2>2, <3>1, ListStays
    <3> QED BY <1>2, <2>2, <3>2
  <2> QED BY <2>1, <2>2
<1>5. \A i \in DOMAIN ch : i # n => ToSet(v) \cap ToSet(L[i]) = {}
  BY <1>3 DEF Tame
<1>6. ASSUME NEW i \in DOMAIN ch, NEW j \in DOMAIN ch, i # j
      PROVE  ToSet(L2[i]) \cap ToSet(L2[j]) = {}
  <2>1. CASE i = n
    BY <1>2, <1>5, <1>6, <2>1
  <2>2. CASE j = n
    BY <1>2, <1>5, <1>6, <2>2
  <2>3. CASE i # n /\ j # n
    BY <1>2, <1>6, <2>3 DEF Lists
  <2> QED BY <2>1, <2>2, <2>3
<1>7. Lists(r.node, ch2, L2)
  BY <1>4, <1>6 DEF Lists
<1> QED BY <1>7

(* What a handler must leave so that the counts stay exact.                *)
Tidy(m, w, st, us) ==
  m.slips = {} =>
    /\ m.fault \in {"none", "null"}
    /\ Ok(m) => /\ Exact(m.obj, m.node, st) /\ Shaped(m.obj)
                /\ \A s \in Slots \ us : m.obj[s].count = 0
                /\ \E v : Tame(node, w, m, v)

(* If it is tidy, the counts stay exact.                                    *)
LEMMA SoundClean ==
  ASSUME TypeInv, Active, Clean, NEW m, NEW held, Sound(m, held),
         \A w : ListOf(node, Top.list, w) => Tidy(m, w, statics', used')
  PROVE  /\ slips' = {} => fault' \in {"none", "null"}
         /\ slips' = {} /\ fault' = "none" => Clean'
<1>1. m \in Memories /\ held \in SUBSET Slots /\ Commit(m, held)
  BY DEF Sound, Leaves
<1>2. /\ slips' = Slipped(m, chain') /\ chain' \in Seq(Activation)
      /\ obj' = m.obj /\ node' = m.node /\ fault' = m.fault
  BY <1>1, SoundType DEF TypeInv, TypeOK
<1> SUFFICES ASSUME slips' = {}
             PROVE  fault' \in {"none", "null"} /\ (fault' = "none" => Clean')
  OBVIOUS
<1>3. /\ m.slips = {} /\ KeepsElements(m.obj)
      /\ \A i \in DOMAIN chain' : \A o \in chain'[i].held : m.obj[o].count # 0
  BY <1>1, <1>2, SlippedIs
<1>4. PICK L : Lists(node, chain, L)
  BY DEF Clean
<1>5. PICK n : n = Len(chain)
  OBVIOUS
<1>6. n \in DOMAIN chain /\ Top.list = chain[n].list /\ node \in NodeMaps
  BY <1>5, MemoryType DEF TypeInv, TypeOK
<1>7. Tidy(m, L[n], statics', used')
  BY <1>4, <1>6 DEF Lists
<1>8. m.fault \in {"none", "null"}
  BY <1>3, <1>7 DEF Tidy
<1>9. ASSUME m.fault = "none"
      PROVE  Clean'
  <2>1. /\ Exact(m.obj, m.node, statics') /\ Shaped(m.obj)
        /\ \A s \in Slots \ used' : m.obj[s].count = 0
        /\ \E v : Tame(node, L[n], m, v)
    BY <1>3, <1>7, <1>9 DEF Tidy, Ok
  <2>2. PICK v : Tame(node, L[n], m, v)
    BY <2>1
  <2>3. /\ DOMAIN chain' = DOMAIN chain
        /\ \A i \in DOMAIN chain : i # n => chain'[i] = chain[i]
        /\ chain'[n].list = m.list
    BY <1>1, <1>5, CommitChain
  <2>4. PICK ch : ch = chain'
    OBVIOUS
  <2>5. \E L2 : Lists(m.node, ch, L2)
    BY <1>4, <1>6, <2>2, <2>3, <2>4, ListsMove
  <2>6. HeldAlive(m.obj, ch)
    <3> SUFFICES ASSUME NEW i \in DOMAIN ch, NEW o \in ch[i].held
                 PROVE  m.obj[o].count > 0
      BY DEF HeldAlive
    <3>1. m.obj[o].count # 0
      BY <1>3, <2>4
    <3>2. o \in Slots
      <4>1. ch \in Seq(Activation)
        BY <1>2, <2>4
      <4>2. ch[i] \in Activation
        BY <4>1
      <4> QED BY <4>2 DEF Activation
    <3>3. m.obj[o].count \in Nat
      <4>1. m.node \in NodeMaps
        BY <1>1, MemoryFacts
      <4>2. statics' \in Stores
        BY DEF Sound
      <4> QED BY <2>1, <3>2, <4>1, <4>2, Referred
    <3> QED BY <3>1, <3>3
  <2> QED BY <1>2, <1>3, <2>1, <2>4, <2>5, <2>6 DEF Clean
<1> QED BY <1>2, <1>8, <1>9

-----------------------------------------------------------------------------
(* The instructions.                                                       *)

(* A step is a handler that is sound, and tidy while the counts are.       *)
Handled ==
  \E m, held : /\ Sound(m, held)
               /\ Clean => \A w : ListOf(node, Top.list, w) => Tidy(m, w, statics', used')

(* A step that is handled keeps the invariant.                             *)
LEMMA HandledInv ==
  ASSUME HeapInv, Active, Running, Handled
  PROVE  HeapInv'
<1>1. PICK m, held : /\ Sound(m, held)
                     /\ Clean => \A w : ListOf(node, Top.list, w) => Tidy(m, w, statics', used')
  BY DEF Handled
<1>2. TypeInv
  BY DEF HeapInv
<1>3. TypeInv' /\ slips' = Slipped(m, chain')
  BY <1>1, <1>2, SoundType
<1>4. ASSUME slips' = {}
      PROVE  slips = {}
  <2>1. m \in Memories /\ Memory.slips \subseteq m.slips
    BY <1>1 DEF Sound, Leaves
  <2>2. chain' \in Seq(Activation)
    BY <1>3 DEF TypeInv, TypeOK
  <2>3. m.slips \subseteq Slipped(m, chain')
    BY <2>1, <2>2, SlippedIs
  <2> QED BY <1>2, <1>3, <1>4, <2>1, <2>3, MemoryType
<1>5. fault = "none"
  BY DEF Running
<1>6. ASSUME slips' = {}
      PROVE  fault' \in {"none", "null"} /\ (fault' = "none" => Clean')
  <2>1. Clean
    BY <1>4, <1>5, <1>6 DEF HeapInv
  <2> QED BY <1>1, <1>2, <1>6, <2>1, SoundClean
<1> QED BY <1>3, <1>6 DEF HeapInv

(* An instruction that changes no memory.                                  *)
LEMMA Looks ==
  ASSUME TypeInv, Active, NEW held \in SUBSET Slots, Commit(Memory, held),
         UNCHANGED <<statics, used>>
  PROVE  Handled
<1>1. Memory \in Memories /\ statics \in Stores /\ used \in SUBSET Slots
  BY MemoryType DEF TypeInv, TypeOK
<1>2. Sound(Memory, held)
  BY <1>1 DEF Sound, Leaves
<1>3. ASSUME Clean, NEW w, ListOf(node, Top.list, w)
      PROVE  Tidy(Memory, w, statics', used')
  <2>1. /\ Memory.obj = obj /\ Memory.node = node /\ Memory.fault = "none"
        /\ Memory.list = Top.list
    BY DEF Memory
  <2>2. Tame(node, w, Memory, w)
    BY <1>3, <2>1, TameSame
  <2> QED BY <1>3, <2>1, <2>2 DEF Tidy, Clean
<1> QED BY <1>2, <1>3 DEF Handled

(* An instruction on which the process dies.                               *)
LEMMA Faulting ==
  ASSUME TypeInv, Active, NEW m, Leaves(Memory, m), NEW held \in SUBSET Slots, Commit(m, held),
         statics' \in Stores, UNCHANGED used, ~Ok(m), m.slips = {} => m.fault = "null"
  PROVE  Handled
<1>1. used \in SUBSET Slots
  BY DEF TypeInv, TypeOK
<1>2. Sound(m, held)
  BY <1>1 DEF Sound
<1> QED BY <1>2 DEF Handled, Tidy

(* An instruction that changes objects, but not what is counted of them.   *)
LEMMA Writes ==
  ASSUME TypeInv, Active, NEW m, Leaves(Memory, m), NEW held \in SUBSET Slots, Commit(m, held),
         UNCHANGED <<statics, used>>,
         m.node = node, m.list = Top.list, Ok(m),
         \A s \in Slots : m.obj[s].count = obj[s].count,
         Clean /\ m.slips = {} =>
           /\ Shaped(m.obj)
           /\ \A s \in Slots : obj[s].count > 0 => SeenAlike(m.obj[s], obj[s])
  PROVE  Handled
<1>1. statics \in Stores /\ used \in SUBSET Slots /\ node \in NodeMaps
  BY MemoryType DEF TypeInv, TypeOK
<1>2. Sound(m, held)
  BY <1>1 DEF Sound
<1>3. ASSUME Clean, NEW w, ListOf(node, Top.list, w), m.slips = {}
      PROVE  /\ m.fault \in {"none", "null"}
             /\ Exact(m.obj, m.node, statics') /\ Shaped(m.obj)
             /\ \A s \in Slots \ used' : m.obj[s].count = 0
             /\ \E v : Tame(node, w, m, v)
  <2>1. Exact(m.obj, m.node, statics)
    <3>1. Exact(obj, node, statics)
      BY <1>3 DEF Clean
    <3> QED BY <1>1, <1>3, <3>1, ExactLike
  <2>2. Tame(node, w, m, w)
    BY <1>3 DEF Tame
  <2> QED BY <1>3, <2>1, <2>2 DEF Ok, Clean
<1> QED BY <1>2, <1>3 DEF Handled, Tidy

(* One object is replaced.                                                 *)
Sets(s, o, m) == m = [Memory EXCEPT !.obj[s] = o]

(* Nothing else changes.                                                   *)
LEMMA Replaced ==
  ASSUME TypeInv, Active, NEW s \in Slots, NEW o \in Object, NEW m, Sets(s, o, m)
  PROVE  /\ m \in Memories /\ m.node = node
         /\ m.list = Top.list /\ m.fault = "none" /\ m.slips = slips
         /\ m.obj \in Objects /\ m.obj[s] = o /\ \A t \in Slots : t # s => m.obj[t] = obj[t]
<1>1. /\ Memory \in Memories /\ Memory.obj = obj /\ Memory.node = node
      /\ Memory.list = Top.list /\ Memory.fault = "none" /\ Memory.slips = slips
      /\ obj \in Objects
  BY MemoryType DEF Memory
<1>2. PICK f : f = [obj EXCEPT ![s] = o]
  OBVIOUS
<1>3. f \in Objects /\ f[s] = o /\ \A t \in Slots : t # s => f[t] = obj[t]
  BY <1>1, <1>2 DEF Objects
<1>4. m = [Memory EXCEPT !.obj = f]
  BY <1>1, <1>2 DEF Sets
<1>5. PICK x : x = [Memory EXCEPT !.obj = f]
  OBVIOUS
<1>6. /\ x \in Memories /\ x.obj = f /\ x.node = Memory.node /\ x.list = Memory.list
      /\ x.fault = Memory.fault /\ x.slips = Memory.slips
  BY <1>1, <1>3, <1>5, With DEF Objects
<1> QED BY <1>1, <1>2, <1>3, <1>4, <1>5, <1>6

(* aaload, getstatic, getfield: references become available.               *)
LEMMA LoadReferenceHandled ==
  ASSUME TypeInv, Active, NEW a \in Slots, LoadReference(a)
  PROVE  Handled
<1>1. obj[a].value \in Slots /\ Held \in SUBSET Slots
  BY MemoryType DEF LoadReference, HasElements
<1> QED BY <1>1, Looks DEF LoadReference

(* getstatic reads the field.                                               *)
LEMMA GetStaticHandled ==
  ASSUME TypeInv, Active, NEW f \in Statics, GetStatic(f)
  PROVE  Handled
<1>1. statics[f] \in Slots /\ Held \in SUBSET Slots
  BY MemoryType DEF GetStatic, TypeInv, TypeOK
<1> QED BY <1>1, Looks DEF GetStatic

(* A field of an object that can be stored to.                             *)
LEMMA ReceiverFacts ==
  ASSUME TypeInv, Active, NEW x \in Slots, Receiver(x)
  PROVE  /\ x \in Held /\ obj[x] \in Object
         /\ obj[x].fields \in Seq([name : Fields, val : {NULL} \cup Slots])
         /\ \A n \in Fields : Position(x, n) # 0 =>
              Position(x, n) \in DOMAIN obj[x].fields
              /\ obj[x].fields[Position(x, n)].val \in {NULL} \cup Slots
<1>1. obj[x] \in Object
  BY MemoryType DEF Objects
<1>2. PICK F, R : F = obj[x].fields /\ R = [name : Fields, val : {NULL} \cup Slots]
  OBVIOUS
<1>3. F \in Seq(R)
  BY <1>1, <1>2, ObjectFacts
<1>4. ASSUME NEW n \in Fields, Position(x, n) # 0
      PROVE  Position(x, n) \in DOMAIN F
  <2>1. Position(x, n) = IF \E i \in DOMAIN F : F[i].name = n
                         THEN CHOOSE i \in DOMAIN F : F[i].name = n ELSE 0
    BY <1>2, Zenon DEF Position
  <2>2. \E i \in DOMAIN F : F[i].name = n
    BY <1>4, <2>1
  <2> QED BY <2>1, <2>2
<1>5. \A i \in DOMAIN F : F[i].val \in {NULL} \cup Slots
  <2> TAKE i \in DOMAIN F
  <2>1. F[i] \in R
    BY <1>3
  <2> QED BY <1>2, <2>1
<1> QED BY <1>1, <1>2, <1>3, <1>4, <1>5 DEF Receiver

(* getfield reads the field, or runs off the list of fields.                *)
LEMMA GetFieldHandled ==
  ASSUME TypeInv, Active, NEW x \in Slots, NEW n \in Fields, GetField(x, n)
  PROVE  Handled
<1>1. Held \in SUBSET Slots /\ Receiver(x) /\ statics \in Stores /\ UNCHANGED <<statics, used>>
      /\ Memory \in Memories
  BY MemoryType DEF GetField
<1>2. CASE Position(x, n) = 0
  <2>1. PICK m : m = Dies(Memory, "null")
    OBVIOUS
  <2>2. m \in Memories /\ m.fault = "null" /\ m.slips = Memory.slips
    BY <1>1, <2>1, Dying DEF Faults
  <2>3. Commit(m, Held)
    BY <1>2, <2>1 DEF GetField
  <2> QED BY <1>1, <2>2, <2>3, Faulting DEF Leaves, Ok
<1>3. CASE Position(x, n) # 0
  <2>1. PICK v : v = obj[x].fields[Position(x, n)].val
    OBVIOUS
  <2>2. v \in {NULL} \cup Slots
    BY <1>1, <1>3, <2>1, ReceiverFacts
  <2>3. Commit(Memory, Held \cup ({v} \ {NULL}))
    BY <1>3, <2>1 DEF GetField
  <2>4. Held \cup ({v} \ {NULL}) \in SUBSET Slots
    BY <1>1, <2>2
  <2> QED BY <1>1, <2>3, <2>4, Looks
<1> QED BY <1>2, <1>3

(* putfield of null as the first field, and of a short.                    *)
LEMMA NullFieldHandled ==
  ASSUME TypeInv, Active, NEW x \in Slots, NullField(x)
  PROVE  Handled
<1>1. Held \in SUBSET Slots /\ statics \in Stores /\ Memory \in Memories
  BY MemoryType
<1>2. PICK m : m = Dies(Memory, "null")
  OBVIOUS
<1>3. m \in Memories /\ m.fault = "null" /\ m.slips = Memory.slips
  BY <1>1, <1>2, Dying DEF Faults
<1>4. Commit(m, Held) /\ UNCHANGED <<statics, used>>
  BY <1>2 DEF NullField
<1> QED BY <1>1, <1>3, <1>4, Faulting DEF Leaves, Ok

(* putstatic and putfield of a number taken for an object are fatal.        *)
LEMMA StoreShortHandled ==
  ASSUME TypeInv, Active, NEW v \in {NULL, WILD}, StoreShort(v)
  PROVE  Handled
<1>1. Held \in SUBSET Slots /\ statics \in Stores /\ Memory \in Memories
  BY MemoryType
<1>2. PICK d : d = Dies(Memory, IF v = NULL THEN "null" ELSE "wild")
  OBVIOUS
<1>3. d \in Memories /\ d.fault \in {"null", "wild"} /\ d.slips = Memory.slips
  BY <1>1, <1>2, Dying DEF Faults
<1>4. PICK c : c = Slip(d, TRUE, "short")
  OBVIOUS
<1>5. c \in Memories /\ c.fault = d.fault /\ d.slips \subseteq c.slips /\ c.slips # {}
  <2>1. "short" \in Slips
    BY DEF Slips
  <2> QED BY <1>3, <1>4, <2>1, Slipping
<1>6. Commit(c, Held) /\ UNCHANGED <<statics, used>>
  BY <1>2, <1>4 DEF StoreShort
<1> QED BY <1>1, <1>3, <1>5, <1>6, Faulting DEF Leaves, Ok

(* What an object would be with another value, or with other fields.       *)
LEMMA Changed ==
  ASSUME NEW o \in Object
  PROVE  /\ \A v \in Pointers :
              LET u == [o EXCEPT !.value = v] IN
              /\ u \in Object /\ u.kind = o.kind /\ u.count = o.count /\ u.isArray = o.isArray
              /\ u.value = v /\ u.fields = o.fields
         /\ \A F \in Seq([name : Fields, val : {NULL} \cup Slots]) :
              LET u == [o EXCEPT !.fields = F] IN
              /\ u \in Object /\ u.kind = o.kind /\ u.count = o.count /\ u.isArray = o.isArray
              /\ u.value = o.value /\ u.fields = F
  BY DEF Object

(* The value of an array's elements is replaced.                           *)
SetsValue(a, v, u) == u = [Memory EXCEPT !.obj[obj[a].value].value = v]

(* That yields a memory.                                                   *)
LEMMA SetsValueType ==
  ASSUME TypeInv, Active, NEW a \in Slots, obj[a].value \in Slots, NEW v \in {NULL, WILD} \cup Slots,
         NEW u, SetsValue(a, v, u)
  PROVE  u \in Memories /\ u.slips = slips
<1>1. PICK t \in Slots : t = obj[a].value
  OBVIOUS
<1>2. obj[t] \in Object /\ v \in Pointers /\ Memory.obj = obj
  BY MemoryType DEF Objects, Pointers
<1>3. PICK o : o = [obj[t] EXCEPT !.value = v]
  OBVIOUS
<1>4. o \in Object
  BY <1>2, <1>3, Changed
<1>5. Sets(t, o, u)
  BY <1>1, <1>2, <1>3 DEF Sets, SetsValue
<1> QED BY <1>4, <1>5, Replaced

(* Nothing that is counted changes.                                        *)
LEMMA Revalued ==
  ASSUME TypeInv, Active, NEW a \in Slots, obj[a].value \in Slots, NEW v \in {NULL, WILD} \cup Slots,
         a \in Held, obj[a].kind \in {"numbers", "references"},
         NEW u, SetsValue(a, v, u),
         NEW m \in Memories, m.obj = u.obj, m.node = u.node, m.list = u.list, m.fault = u.fault,
         slips \subseteq m.slips, m.slips = {} => v \in {NULL, WILD},
         Commit(m, Held), UNCHANGED <<statics, used>>
  PROVE  Handled
<1>1. PICK t \in Slots : t = obj[a].value
  OBVIOUS
<1>2. obj[t] \in Object /\ v \in Pointers /\ Held \in SUBSET Slots /\ Memory.obj = obj
      /\ Memory.slips = slips /\ obj \in Objects
  BY MemoryType DEF Objects, Pointers
<1>3. PICK o : o = [obj[t] EXCEPT !.value = v]
  OBVIOUS
<1>4. /\ o \in Object /\ o.kind = obj[t].kind /\ o.count = obj[t].count
      /\ o.isArray = obj[t].isArray /\ o.value = v /\ o.fields = obj[t].fields
  BY <1>2, <1>3, Changed
<1>5. Sets(t, o, u)
  BY <1>1, <1>2, <1>3 DEF Sets, SetsValue
<1>6. /\ u.node = node /\ u.list = Top.list /\ u.fault = "none" /\ u.obj[t] = o
      /\ \A s \in Slots : s # t => u.obj[s] = obj[s]
  BY <1>4, <1>5, Replaced
<1>7. \A s \in Slots : m.obj[s].count = obj[s].count
  BY <1>4, <1>6
<1>8. ASSUME Clean, m.slips = {}
      PROVE  /\ Shaped(m.obj)
             /\ \A s \in Slots : obj[s].count > 0 => SeenAlike(m.obj[s], obj[s])
  <2>1. HeldAlive(obj, chain) /\ Shaped(obj)
    BY <1>8 DEF Clean
  <2>2. obj[a].count > 0
    <3>1. Held = chain[Len(chain)].held /\ Len(chain) \in DOMAIN chain
      BY MemoryType DEF TypeInv, TypeOK
    <3> QED BY <2>1, <3>1 DEF HeldAlive
  <2>3. ~obj[t].isArray
    BY <1>1, <2>1, <2>2 DEF Shaped, ShapeOf
  <2>4. \A s \in Slots : obj[s].count > 0 => SeenAlike(m.obj[s], obj[s])
    <3> TAKE s \in Slots
    <3>1. CASE s = t
      <4>1. First(o) = First(obj[t])
        BY <1>4 DEF First
      <4>2. SeenAlike(o, obj[t])
        BY <1>4, <2>3, <4>1 DEF SeenAlike
      <4> QED BY <1>6, <3>1, <4>2
    <3>2. CASE s # t
      BY <1>6, <3>2 DEF SeenAlike
    <3> QED BY <3>1, <3>2
  <2>5. ASSUME NEW s \in Slots, m.obj[s].count > 0
        PROVE  ShapeOf(m.obj, s)
    <3>1. ShapeOf(obj, s)
      BY <1>7, <2>1, <2>5 DEF Shaped
    <3>2. CASE s = t
      BY <1>4, <1>6, <1>8, <2>3, <3>1, <3>2 DEF ShapeOf
    <3>3. CASE s # t
      <4>1. m.obj[s] = obj[s]
        BY <1>6, <3>3
      <4>2. \A y \in Slots : m.obj[y].isArray = obj[y].isArray
        BY <1>4, <1>6
      <4> QED BY <3>1, <4>1, <4>2 DEF ShapeOf
    <3> QED BY <3>2, <3>3
  <2> QED BY <2>4, <2>5 DEF Shaped
<1>9. /\ Leaves(Memory, m) /\ Ok(m) /\ m.node = node /\ m.list = Top.list
  BY <1>2, <1>6 DEF Leaves, Ok
<1> QED BY <1>2, <1>7, <1>8, <1>9, Writes

(* iastore and the like write into the elements only.                       *)
LEMMA StoreNumberHandled ==
  ASSUME TypeInv, Active, NEW a \in Slots, NEW v \in {NULL, WILD}, StoreNumber(a, v)
  PROVE  Handled
<1>1. PICK u : SetsValue(a, v, u)
  BY DEF SetsValue
<1>2. /\ a \in Held /\ obj[a].kind = "numbers" /\ obj[a].value \in Slots
      /\ UNCHANGED <<statics, used>> /\ Commit(u, Held)
  BY <1>1 DEF StoreNumber, HasElements, SetsValue
<1>3. u \in Memories /\ u.slips = slips
  BY <1>1, <1>2, SetsValueType
<1> QED BY <1>1, <1>2, <1>3, Revalued

(* aastore; a reference that is not null is not counted.                   *)
LEMMA StoreReferenceHandled ==
  ASSUME TypeInv, Active, NEW a \in Slots, NEW v \in Slots \cup {NULL}, StoreReference(a, v)
  PROVE  Handled
<1>1. PICK u : SetsValue(a, v, u)
  BY DEF SetsValue
<1>2. PICK c \in BOOLEAN : c = (v # NULL)
  OBVIOUS
<1>3. PICK m : m = Slip(u, c, "field")
  OBVIOUS
<1>4. /\ a \in Held /\ obj[a].kind = "references" /\ obj[a].value \in Slots
      /\ UNCHANGED <<statics, used>> /\ Commit(m, Held)
  BY <1>1, <1>2, <1>3 DEF StoreReference, HasElements, SetsValue
<1>5. u \in Memories /\ u.slips = slips
  BY <1>1, <1>4, SetsValueType
<1>6. /\ m \in Memories /\ m.obj = u.obj /\ m.node = u.node /\ m.list = u.list
      /\ m.fault = u.fault /\ slips \subseteq m.slips /\ (m.slips = {} => v \in {NULL, WILD})
  <2>1. "field" \in Slips
    BY DEF Slips
  <2> QED BY <1>2, <1>3, <1>5, <2>1, Slipping
<1> QED BY <1>1, <1>4, <1>6, Revalued

(* Objects keep their shape when a field of one of them is stored to.      *)
LEMMA FieldsShaped ==
  ASSUME NEW ob, NEW ob2, Shaped(ob), NEW x \in Slots,
         \A s \in Slots : /\ ob2[s].isArray = ob[s].isArray /\ ob2[s].kind = ob[s].kind
                          /\ ob2[s].value = ob[s].value
                          /\ s # x => ob2[s].fields = ob[s].fields
                          /\ ob2[s].count > 0 => ob[s].count > 0,
         \A i \in DOMAIN ob2[x].fields : ob2[x].fields[i].val # NULL => i = 1
  PROVE  Shaped(ob2)
<1>1. ASSUME NEW s \in Slots, ob2[s].count > 0
      PROVE  ShapeOf(ob2, s)
  <2>1. ShapeOf(ob, s)
    BY <1>1 DEF Shaped
  <2>2. \A i \in DOMAIN ob2[s].fields : ob2[s].fields[i].val # NULL => i = 1
    BY <2>1 DEF ShapeOf
  <2> QED BY <2>1, <2>2 DEF ShapeOf
<1> QED BY <1>1 DEF Shaped

(* What a method holds is alive.                                           *)
LEMMA HeldFacts ==
  ASSUME TypeInv, Active, Clean, NEW o \in Held
  PROVE  o \in Slots /\ obj[o].count > 0 /\ ShapeOf(obj, o)
<1>1. Held = chain[Len(chain)].held /\ Len(chain) \in DOMAIN chain /\ Held \in SUBSET Slots
  BY MemoryType DEF TypeInv, TypeOK
<1>2. obj[o].count > 0
  BY <1>1 DEF Clean, HeldAlive
<1> QED BY <1>1, <1>2 DEF Clean, Shaped

(* The elements of a longer sequence.                                      *)
LEMMA Appended ==
  ASSUME NEW S, NEW F \in Seq(S), NEW e \in S
  PROVE  /\ Append(F, e) \in Seq(S) /\ Append(F, e) # << >>
         /\ DOMAIN Append(F, e) = DOMAIN F \cup {Len(F) + 1}
         /\ Append(F, e)[Len(F) + 1] = e
         /\ \A i \in DOMAIN F : Append(F, e)[i] = F[i]
<1>1. PICK G : G = Append(F, e)
  OBVIOUS
<1>2. /\ G \in Seq(S) /\ Len(G) = Len(F) + 1 /\ Len(F) \in Nat /\ G[Len(F) + 1] = e
      /\ \A i \in 1 .. Len(F) : G[i] = F[i]
  BY <1>1
<1>3. G # << >>
  BY <1>2
<1>4. DOMAIN G = 1 .. Len(F) + 1 /\ DOMAIN F = 1 .. Len(F)
  BY <1>2
<1> QED BY <1>1, <1>2, <1>3, <1>4

(* putfield of a field that was never stored to, after the first.          *)
LEMMA AnotherFieldHandled ==
  ASSUME TypeInv, Active, NEW x \in Slots, NEW n \in Fields, NEW v \in Slots \cup {NULL},
         AnotherField(x, n, v)
  PROVE  Handled
<1>1. PICK R, G, e : /\ R = [name : Fields, val : {NULL} \cup Slots] /\ G = obj[x].fields
                     /\ e = [name |-> n, val |-> v]
  OBVIOUS
<1>2. /\ Receiver(x) /\ G # << >> /\ UNCHANGED <<statics, used>> /\ Memory.obj = obj
      /\ Memory.slips = slips /\ obj \in Objects /\ Held \in SUBSET Slots
  BY <1>1, MemoryType DEF AnotherField
<1>3. G \in Seq(R) /\ e \in R /\ obj[x] \in Object /\ e.val = v /\ x \in Held
  BY <1>1, <1>2, ReceiverFacts
<1>4. PICK F : F = Append(G, e)
  OBVIOUS
<1>5. /\ F \in Seq(R) /\ F # << >> /\ DOMAIN F = DOMAIN G \cup {Len(G) + 1}
      /\ F[Len(G) + 1] = e /\ \A i \in DOMAIN G : F[i] = G[i]
  BY <1>3, <1>4, Appended
<1>6. PICK o : o = [obj[x] EXCEPT !.fields = F]
  OBVIOUS
<1>7. /\ o \in Object /\ o.kind = obj[x].kind /\ o.count = obj[x].count
      /\ o.isArray = obj[x].isArray /\ o.value = obj[x].value /\ o.fields = F
  <2>1. F \in Seq([name : Fields, val : {NULL} \cup Slots])
    BY ONLY <1>1, <1>5
  <2> QED BY <1>3, <1>6, <2>1, Changed
<1>8. PICK u : Sets(x, o, u)
  BY DEF Sets
<1>9. /\ u \in Memories /\ u.node = node /\ u.list = Top.list /\ u.fault = "none"
      /\ u.slips = slips /\ u.obj \in Objects /\ u.obj[x] = o
      /\ \A t \in Slots : t # x => u.obj[t] = obj[t]
  BY <1>7, <1>8, Replaced
<1>10. PICK c \in BOOLEAN : c = (v # NULL)
  OBVIOUS
<1>11. PICK m : m = Slip(u, c, "field")
  OBVIOUS
<1>12. Commit(m, Held)
  <2>1. u = [Memory EXCEPT !.obj[x].fields = Append(@, [name |-> n, val |-> v])]
    BY <1>1, <1>2, <1>4, <1>6, <1>8 DEF Sets
  <2> QED BY <1>10, <1>11, <2>1 DEF AnotherField
<1>13. /\ m \in Memories /\ m.obj = u.obj /\ m.node = u.node /\ m.list = u.list
       /\ m.fault = u.fault /\ u.slips \subseteq m.slips /\ (m.slips = {} => v = NULL)
  <2>1. "field" \in Slips
    BY DEF Slips
  <2> QED BY <1>9, <1>10, <1>11, <2>1, Slipping
<1>14. \A s \in Slots : m.obj[s].count = obj[s].count
  BY <1>7, <1>9, <1>13
<1>15. ASSUME Clean, m.slips = {}
       PROVE  /\ Shaped(m.obj)
              /\ \A s \in Slots : obj[s].count > 0 => SeenAlike(m.obj[s], obj[s])
  <2>1. 1 \in DOMAIN G
    BY <1>2, <1>3
  <2>2. First(o) = First(obj[x])
    BY <1>1, <1>2, <1>5, <1>7, <2>1 DEF First
  <2>3. SeenAlike(o, obj[x])
    BY <1>7, <2>2 DEF SeenAlike
  <2>4. \A s \in Slots : SeenAlike(m.obj[s], obj[s])
    <3> TAKE s \in Slots
    <3>1. CASE s = x
      BY <1>9, <1>13, <2>3, <3>1
    <3>2. CASE s # x
      BY <1>9, <1>13, <3>2 DEF SeenAlike
    <3> QED BY <3>1, <3>2
  <2>5. \A i \in DOMAIN F : F[i].val # NULL => i = 1
    <3>1. ShapeOf(obj, x)
      BY <1>3, <1>15, HeldFacts
    <3>2. \A i \in DOMAIN G : G[i].val # NULL => i = 1
      BY <1>1, <3>1 DEF ShapeOf
    <3> QED BY <1>3, <1>5, <1>13, <1>15, <3>2
  <2>6. Shaped(obj)
    BY <1>15 DEF Clean
  <2>7. \A i \in DOMAIN m.obj[x].fields : m.obj[x].fields[i].val # NULL => i = 1
    BY <1>7, <1>9, <1>13, <2>5
  <2>8. \A s \in Slots : /\ m.obj[s].isArray = obj[s].isArray /\ m.obj[s].kind = obj[s].kind
                         /\ m.obj[s].value = obj[s].value
                         /\ s # x => m.obj[s].fields = obj[s].fields
                         /\ m.obj[s].count > 0 => obj[s].count > 0
    BY <1>7, <1>9, <1>13
  <2>9. Shaped(m.obj)
    BY <2>6, <2>7, <2>8, FieldsShaped
  <2> QED BY <2>4, <2>9
<1>16. /\ Leaves(Memory, m) /\ Ok(m) /\ m.node = node /\ m.list = Top.list
  BY <1>2, <1>9, <1>13 DEF Leaves, Ok
<1> QED BY <1>2, <1>12, <1>14, <1>15, <1>16, Writes

(* Counts that follow the reference of one object.                         *)
LEMMA FieldExact ==
  ASSUME NEW ob, NEW ob2, NEW nd \in NodeMaps, NEW st \in Stores, Exact(ob, nd, st), NEW x \in Slots,
         NEW old, old = Owned(ob)[x], NEW new, new = Owned(ob2)[x],
         \A y \in Slots : y # x => Owned(ob2)[y] = Owned(ob)[y],
         \A s \in Slots : /\ ob2[s].isArray = ob[s].isArray /\ ob2[s].value = ob[s].value
                          /\ ob2[s].count = ob[s].count - Is(old, s) + Is(new, s)
  PROVE  Exact(ob2, nd, st)
<1>1. \A f \in Statics : PartOf(ob2, st[f]) = PartOf(ob, st[f])
  BY DEF PartOf
<1>2. ElementsIn(ob2, st) = ElementsIn(ob, st)
  BY <1>1 DEF ElementsIn
<1> SUFFICES ASSUME NEW s \in Slots
             PROVE  ob2[s].count = Total(ob2, nd, st, s)
  BY DEF Exact
<1>3. /\ Refs(Owned(ob), s) \in Nat /\ Refs(Owned(ob2), s) \in Nat
      /\ Refs(Owned(ob2), s) = Refs(Owned(ob), s) - Is(old, s) + Is(new, s)
  BY OwnedChange
<1>4. ob[s].count = Total(ob, nd, st, s)
  BY DEF Exact
<1>5. /\ Refs(Recording(nd), s) \in Nat /\ Refs(st, s) \in Nat /\ Refs(ElementsIn(ob, st), s) \in Nat
  BY TotalType
<1>6. Is(old, s) \in {0, 1} /\ Is(new, s) \in {0, 1}
  BY DEF Is
<1> QED BY <1>2, <1>3, <1>4, <1>5, <1>6 DEF Total

(* The first field of an object counts what it stores.                     *)
LEMMA FirstFieldHandled ==
  ASSUME TypeInv, Active, NEW x \in Slots, NEW v \in Slots, NEW n \in Fields, FirstField(x, n, v)
  PROVE  Handled
<1>1. PICK F : F = <<[name |-> n, val |-> v]>>
  OBVIOUS
<1>2. /\ Receiver(x) /\ v \in Held /\ Bare(obj[x]) /\ UNCHANGED <<statics, used>>
      /\ Memory \in Memories /\ Memory.obj = obj
      /\ Memory.slips = slips /\ obj \in Objects /\ Held \in SUBSET Slots
      /\ Memory.node = node /\ Memory.list = Top.list /\ Memory.fault = "none"
  BY MemoryType DEF FirstField, Bare, Memory
<1>3. x \in Held /\ obj[x] \in Object
  BY <1>2, ReceiverFacts
<1>4. /\ F \in Seq([name : Fields, val : {NULL} \cup Slots])
      /\ DOMAIN F = {1} /\ F[1].val = v /\ F # << >>
  <2>1. PICK e : e = [name |-> n, val |-> v]
    OBVIOUS
  <2>2. e \in [name : Fields, val : {NULL} \cup Slots] /\ e.val = v
    BY <2>1
  <2>3. F = <<e>>
    BY <1>1, <2>1
  <2>4. ASSUME NEW S, e \in S
        PROVE  <<e>> \in Seq(S) /\ DOMAIN <<e>> = {1} /\ <<e>>[1] = e /\ <<e>> # << >>
    BY <2>4
  <2> QED BY <2>2, <2>3, <2>4
<1>5. PICK o : o = [obj[x] EXCEPT !.fields = F]
  OBVIOUS
<1>6. /\ o \in Object /\ o.kind = obj[x].kind /\ o.count = obj[x].count
      /\ o.isArray = obj[x].isArray /\ o.value = obj[x].value /\ o.fields = F
  BY <1>3, <1>4, <1>5, Changed
<1>7. PICK f : f = [obj EXCEPT ![x] = o]
  OBVIOUS
<1>8. f \in Objects /\ f[x] = o /\ \A y \in Slots : y # x => f[y] = obj[y]
  BY <1>2, <1>6, <1>7 DEF Objects
<1>9. PICK p : p = [f[v] EXCEPT !.count = f[v].count + 1]
  OBVIOUS
<1>10. p \in Object /\ p.count = f[v].count + 1 /\ Alike(p, f[v])
  <2>1. f[v] \in Object
    BY <1>8 DEF Objects
  <2>2. f[v].count + 1 \in Int
    BY <2>1, ObjectFacts
  <2> QED BY <1>9, <2>1, <2>2, Recounted
<1>11. PICK g : g = [f EXCEPT ![v] = p]
  OBVIOUS
<1>12. g \in Objects /\ g[v] = p /\ \A y \in Slots : y # v => g[y] = f[y]
  BY <1>8, <1>10, <1>11 DEF Objects
<1>13. PICK m : m = [Memory EXCEPT !.obj = g]
  OBVIOUS
<1>14. /\ m \in Memories /\ m.obj = g /\ m.node = node /\ m.list = Top.list
       /\ m.fault = "none" /\ m.slips = slips
  BY <1>2, <1>12, <1>13, With DEF Objects
<1>15. Commit(m, Held)
  <2>1. PICK a : a = [Memory EXCEPT !.obj[x].fields = F]
    OBVIOUS
  <2>2. a = [Memory EXCEPT !.obj = f]
    BY <1>2, <1>5, <1>7, <2>1
  <2>3. a.obj = f
    BY <1>2, <2>2 DEF Memories
  <2>4. [a.obj EXCEPT ![v] = [a.obj[v] EXCEPT !.count = Memory.obj[v].count + 1]] = g
    <3>1. Memory.obj[v].count = f[v].count
      BY <1>2, <1>6, <1>8
    <3>2. [f[v] EXCEPT !.count = Memory.obj[v].count + 1] = p
      BY <1>9, <3>1, Zenon
    <3> QED BY <1>11, <2>3, <3>2
  <2>5. [a EXCEPT !.obj = g] = m
    <3>1. [[Memory EXCEPT !.obj = f] EXCEPT !.obj = g] = [Memory EXCEPT !.obj = g]
      BY DEF Memory
    <3> QED BY <1>13, <2>2, <3>1
  <2>6. m = [Memory EXCEPT !.obj[x].fields = F, !.obj[v].count = @ + 1]
    <3>1. [Memory EXCEPT !.obj[x].fields = F, !.obj[v].count = @ + 1]
            = [a EXCEPT !.obj = [a.obj EXCEPT ![v] = [a.obj[v] EXCEPT !.count = Memory.obj[v].count + 1]]]
      BY <2>1, Zenon
    <3> QED BY <2>4, <2>5, <3>1, Zenon
  <2>7. m = [Memory EXCEPT !.obj[x].fields = <<[name |-> n, val |-> v]>>, !.obj[v].count = @ + 1]
    BY <1>1, <2>6, Zenon
  <2> QED BY <2>7 DEF FirstField
<1>16. statics \in Stores /\ used \in SUBSET Slots /\ node \in NodeMaps
  BY MemoryType DEF TypeInv, TypeOK
<1>17. Sound(m, Held)
  BY <1>2, <1>14, <1>15, <1>16 DEF Sound, Leaves
<1>18. \A s \in Slots : /\ g[s].isArray = obj[s].isArray /\ g[s].kind = obj[s].kind
                        /\ g[s].value = obj[s].value
                        /\ g[s].fields = IF s = x THEN F ELSE obj[s].fields
                        /\ g[s].count = IF s = v THEN obj[s].count + 1 ELSE obj[s].count
  <2> TAKE s \in Slots
  <2>1. Alike(g[s], f[s]) /\ g[s].count = IF s = v THEN f[s].count + 1 ELSE f[s].count
    BY <1>10, <1>12 DEF Alike
  <2>2. /\ f[s].isArray = obj[s].isArray /\ f[s].kind = obj[s].kind
        /\ f[s].value = obj[s].value /\ f[s].count = obj[s].count
        /\ f[s].fields = IF s = x THEN F ELSE obj[s].fields
    BY <1>6, <1>8
  <2> QED BY <2>1, <2>2 DEF Alike
<1>19. ASSUME Clean, NEW w, ListOf(node, Top.list, w)
       PROVE  /\ Exact(g, node, statics) /\ Shaped(g)
              /\ \A s \in Slots \ used : g[s].count = 0
              /\ \E u : Tame(node, w, m, u)
  <2>1. obj[x].count > 0 /\ obj[v].count > 0 /\ Exact(obj, node, statics) /\ Shaped(obj)
    BY <1>2, <1>3, <1>19, HeldFacts DEF Clean
  <2>2. \A s \in Slots : obj[s].count \in Int
    BY <1>2, ObjectFacts DEF Objects
  <2>3. \A s \in Slots : g[s].count > 0 <=> obj[s].count > 0
    BY <1>18, <2>1, <2>2
  <2>4. Owned(obj)[x] = NULL /\ Owned(g)[x] = v
    <3>1. First(obj[x]) = NULL
      BY <1>2 DEF First, Bare
    <3>2. First(g[x]) = v
      BY <1>4, <1>18 DEF First
    <3> QED BY <2>1, <2>3, <3>1, <3>2 DEF Owned
  <2>5. \A y \in Slots : y # x => Owned(g)[y] = Owned(obj)[y]
    <3> TAKE y \in Slots
    <3> HAVE y # x
    <3>1. First(g[y]) = First(obj[y])
      BY <1>18 DEF First
    <3> QED BY <2>3, <3>1 DEF Owned
  <2>6. \A s \in Slots : g[s].count = obj[s].count - Is(NULL, s) + Is(v, s)
    <3> TAKE s \in Slots
    <3>1. Is(NULL, s) = 0
      BY SlotAssumption DEF Is, NULL
    <3> QED BY <1>18, <2>2, <3>1 DEF Is
  <2>7. Exact(g, node, statics)
    BY <1>16, <1>18, <2>1, <2>4, <2>5, <2>6, FieldExact
  <2>8. Shaped(g)
    <3>1. \A i \in DOMAIN g[x].fields : g[x].fields[i].val # NULL => i = 1
      BY <1>4, <1>18
    <3> QED BY <1>18, <2>1, <2>3, <3>1, FieldsShaped
  <2>9. \A s \in Slots \ used : g[s].count = 0
    BY <1>18, <1>19, <2>1 DEF Clean
  <2>10. Tame(node, w, m, w)
    BY <1>14, <1>19 DEF Tame
  <2> QED BY <2>7, <2>8, <2>9, <2>10
<1>20. \A w : Clean /\ ListOf(node, Top.list, w) => Tidy(m, w, statics', used')
  BY <1>2, <1>14, <1>19 DEF Tidy
<1> QED BY <1>17, <1>20 DEF Handled

(* A field of an object is assigned.                                       *)
SetsField(m, x, i, v, r) == r = [m EXCEPT !.obj[x].fields[i].val = v]

(* Nothing else changes.                                                   *)
HasField(m, x, i, v, r) ==
  /\ r \in Memories /\ r.node = m.node /\ r.list = m.list /\ r.fault = m.fault
  /\ r.slips = m.slips
  /\ \A y \in Slots : /\ r.obj[y].kind = m.obj[y].kind /\ r.obj[y].count = m.obj[y].count
                      /\ r.obj[y].isArray = m.obj[y].isArray
                      /\ r.obj[y].value = m.obj[y].value
                      /\ y # x => r.obj[y].fields = m.obj[y].fields
  /\ DOMAIN r.obj[x].fields = DOMAIN m.obj[x].fields /\ r.obj[x].fields # << >>
  /\ r.obj[x].fields[i].val = v
  /\ \A j \in DOMAIN m.obj[x].fields : j # i => r.obj[x].fields[j] = m.obj[x].fields[j]

(* Assigning a field does that.                                            *)
LEMMA FieldSet ==
  ASSUME NEW m \in Memories, NEW x \in Slots, NEW i \in DOMAIN m.obj[x].fields,
         NEW v \in {NULL} \cup Slots, NEW r, SetsField(m, x, i, v, r)
  PROVE  HasField(m, x, i, v, r)
<1>1. PICK w : w = m.obj[x].fields
  OBVIOUS
<1>2. /\ m.obj \in [Slots -> Object] /\ m.obj[x] \in Object
      /\ w \in Seq([name : Fields, val : {NULL} \cup Slots])
  BY <1>1, MemoryFacts, ObjectFacts
<1>3. PICK e : e = [w[i] EXCEPT !.val = v]
  OBVIOUS
<1>4. e \in [name : Fields, val : {NULL} \cup Slots] /\ e.val = v
  <2>1. ASSUME NEW S, w \in Seq(S)
        PROVE  w[i] \in S
    BY <1>1, <2>1
  <2>2. w[i] \in [name : Fields, val : {NULL} \cup Slots]
    BY <1>2, <2>1
  <2> QED BY <1>3, <2>2
<1>5. PICK F : F = [w EXCEPT ![i] = e]
  OBVIOUS
<1>6. /\ F \in Seq([name : Fields, val : {NULL} \cup Slots])
      /\ DOMAIN F = DOMAIN w /\ F # << >> /\ F[i] = e
      /\ \A j \in DOMAIN w : j # i => F[j] = w[j]
  <2>1. ASSUME NEW S, w \in Seq(S), e \in S
        PROVE  /\ F \in Seq(S) /\ DOMAIN F = DOMAIN w /\ F # << >> /\ F[i] = e
               /\ \A j \in DOMAIN w : j # i => F[j] = w[j]
    BY <1>1, <1>5, <2>1
  <2> QED BY <1>2, <1>4, <2>1
<1>7. PICK o : o = [m.obj[x] EXCEPT !.fields = F]
  OBVIOUS
<1>8. /\ o \in Object /\ o.kind = m.obj[x].kind /\ o.count = m.obj[x].count
      /\ o.isArray = m.obj[x].isArray /\ o.value = m.obj[x].value /\ o.fields = F
  BY <1>2, <1>6, <1>7, Changed
<1>9. PICK g : g = [m.obj EXCEPT ![x] = o]
  OBVIOUS
<1>10. g \in [Slots -> Object] /\ g[x] = o /\ \A y \in Slots : y # x => g[y] = m.obj[y]
  BY <1>2, <1>8, <1>9
<1>11. PICK u : u = [m EXCEPT !.obj = g]
  OBVIOUS
<1>12. /\ u \in Memories /\ u.obj = g /\ u.node = m.node /\ u.list = m.list
       /\ u.fault = m.fault /\ u.slips = m.slips
  BY <1>10, <1>11, With
<1>13. r = u
  BY <1>1, <1>3, <1>5, <1>7, <1>9, <1>11, Zenon DEF SetsField
<1> QED BY <1>1, <1>4, <1>6, <1>8, <1>10, <1>12, <1>13 DEF HasField

(* An object's count is decremented.                                       *)
Lowers(o, a) == a = [Memory EXCEPT !.obj[o].count = @ - 1]

(* Nothing else changes.                                                   *)
LEMMA Lowered ==
  ASSUME TypeInv, Active, NEW o \in Slots, NEW a, Lowers(o, a)
  PROVE  /\ a \in Memories /\ a.node = node /\ a.list = Top.list /\ a.fault = "none"
         /\ a.slips = slips
         /\ \A s \in Slots : Alike(a.obj[s], obj[s]) /\ a.obj[s].count = obj[s].count - Is(o, s)
<1>1. Memory.obj = obj /\ obj \in [Slots -> Object] /\ obj[o] \in Object
  BY MemoryType DEF Objects
<1>2. PICK c : c = obj[o].count - 1
  OBVIOUS
<1>3. c \in Int
  BY <1>1, <1>2, ObjectFacts
<1>4. PICK p : p = [obj[o] EXCEPT !.count = c]
  OBVIOUS
<1>5. p \in Object /\ p.count = c /\ Alike(p, obj[o])
  BY <1>1, <1>3, <1>4, Recounted
<1>6. Sets(o, p, a)
  <2>1. [Memory.obj[o] EXCEPT !.count = Memory.obj[o].count - 1] = p
    BY <1>1, <1>2, <1>4
  <2> QED BY <2>1, Zenon DEF Lowers, Sets
<1>7. /\ a \in Memories /\ a.node = node
      /\ a.list = Top.list /\ a.fault = "none" /\ a.slips = slips
      /\ a.obj[o] = p /\ \A t \in Slots : t # o => a.obj[t] = obj[t]
  BY <1>5, <1>6, Replaced
<1>8. ASSUME NEW s \in Slots
      PROVE  Alike(a.obj[s], obj[s]) /\ a.obj[s].count = obj[s].count - Is(o, s)
  <2>1. CASE s = o
    BY <1>2, <1>5, <1>7, <2>1 DEF Is
  <2>2. CASE s # o
    <3>1. obj[s].count \in Int
      BY <1>1, ObjectFacts
    <3> QED BY <1>7, <2>2, <3>1 DEF Is, Alike
  <2> QED BY <2>1, <2>2
<1> QED BY <1>7, <1>8

(* What it leaves, given where the field is and what was in it.            *)
Overwritten(x, i, old, v) ==
  IF old = NULL THEN Dies(Memory, "null")
  ELSE [Slip(Slip([Memory EXCEPT !.obj[old].count = @ - 1], Strands(Memory, <<old>>), "children"),
             v # NULL, "field") EXCEPT !.obj[x].fields[i].val = v]

(* putfield of a field that was stored to releases what was there.         *)
LEMMA OverwriteFieldHandled ==
  ASSUME TypeInv, Active, NEW x \in Slots, NEW n \in Fields, NEW v \in Slots \cup {NULL},
         OverwriteField(x, n, v)
  PROVE  Handled
<1>1. PICK i, old : i = Position(x, n) /\ old = obj[x].fields[i].val
  OBVIOUS
<1>2. /\ Receiver(x) /\ x \in Held /\ i # 0 /\ i \in DOMAIN obj[x].fields
      /\ old \in {NULL} \cup Slots /\ UNCHANGED <<statics, used>>
  BY <1>1, ReceiverFacts DEF OverwriteField
<1>3. /\ Memory \in Memories /\ Memory.obj = obj /\ Memory.node = node /\ Memory.slips = slips
      /\ obj \in Objects /\ Held \in SUBSET Slots /\ statics \in Stores
      /\ used \in SUBSET Slots /\ node \in NodeMaps
  BY MemoryType DEF TypeInv, TypeOK
<1>4. CASE old = NULL
  <2>1. PICK m : m = Dies(Memory, "null")
    OBVIOUS
  <2>2. m \in Memories /\ m.fault = "null" /\ m.slips = slips
    BY <1>3, <2>1, Dying DEF Faults
  <2>3. Commit(m, Held)
    BY <1>1, <1>4, <2>1 DEF OverwriteField
  <2> QED BY <1>2, <1>3, <2>2, <2>3, Faulting DEF Leaves, Ok
<1>5. CASE old # NULL
  <2>1. old \in Slots
    BY <1>2, <1>5
  <2>2. PICK a : Lowers(old, a)
    BY DEF Lowers
  <2>3. /\ a \in Memories /\ a.node = node /\ a.list = Top.list /\ a.fault = "none"
        /\ a.slips = slips
        /\ \A s \in Slots : /\ Alike(a.obj[s], obj[s])
                            /\ a.obj[s].count = obj[s].count - Is(old, s)
    BY <2>1, <2>2, Lowered
  <2>4. PICK b : b = Slip(a, Strands(Memory, <<old>>), "children")
    OBVIOUS
  <2>5. /\ b \in Memories /\ b.obj = a.obj /\ b.node = a.node /\ b.list = a.list
        /\ b.fault = a.fault /\ a.slips \subseteq b.slips
        /\ b.slips = {} => ~Strands(Memory, <<old>>)
    <3>1. Strands(Memory, <<old>>) \in BOOLEAN
      BY DEF Strands
    <3>2. "children" \in Slips
      BY DEF Slips
    <3> QED BY <2>3, <2>4, <3>1, <3>2, Slipping
  <2>6. PICK c : c = Slip(b, v # NULL, "field")
    OBVIOUS
  <2>7. /\ c \in Memories /\ c.obj = a.obj /\ c.node = node /\ c.list = Top.list
        /\ c.fault = "none" /\ slips \subseteq c.slips
        /\ c.slips = {} => ~Strands(Memory, <<old>>) /\ v = NULL
    <3>1. "field" \in Slips
      BY DEF Slips
    <3>2. /\ c \in Memories /\ c.obj = b.obj /\ c.node = b.node /\ c.list = b.list
          /\ c.fault = b.fault /\ b.slips \subseteq c.slips
          /\ c.slips = {} => v = NULL
      BY <2>5, <2>6, <3>1, Slipping
    <3> QED BY <2>3, <2>5, <3>2
  <2>8. PICK m : SetsField(c, x, i, v, m)
    BY DEF SetsField
  <2>9. i \in DOMAIN c.obj[x].fields /\ DOMAIN c.obj[x].fields = DOMAIN obj[x].fields
    BY <1>2, <2>3, <2>7 DEF Alike
  <2>10. /\ m \in Memories /\ m.node = node /\ m.list = Top.list /\ m.fault = "none"
         /\ m.slips = c.slips
         /\ \A y \in Slots : /\ m.obj[y].kind = c.obj[y].kind /\ m.obj[y].count = c.obj[y].count
                             /\ m.obj[y].isArray = c.obj[y].isArray
                             /\ m.obj[y].value = c.obj[y].value
                             /\ y # x => m.obj[y].fields = c.obj[y].fields
         /\ DOMAIN m.obj[x].fields = DOMAIN obj[x].fields /\ m.obj[x].fields # << >>
         /\ m.obj[x].fields[i].val = v
         /\ \A j \in DOMAIN obj[x].fields : j # i => m.obj[x].fields[j] = c.obj[x].fields[j]
    <3>1. v \in {NULL} \cup Slots /\ c \in Memories /\ i \in DOMAIN c.obj[x].fields
      BY <2>7, <2>9
    <3>2. HasField(c, x, i, v, m)
      BY <2>8, <3>1, FieldSet
    <3> QED BY <2>7, <2>9, <3>2 DEF HasField
  <2>11. PICK g : g = m.obj
    OBVIOUS
  <2>12. /\ \A y \in Slots : /\ g[y].kind = obj[y].kind /\ g[y].isArray = obj[y].isArray
                             /\ g[y].value = obj[y].value
                             /\ g[y].count = obj[y].count - Is(old, y)
                             /\ y # x => g[y].fields = obj[y].fields
         /\ DOMAIN g[x].fields = DOMAIN obj[x].fields /\ g[x].fields # << >>
         /\ g[x].fields[i].val = v
         /\ \A j \in DOMAIN obj[x].fields : j # i => g[x].fields[j] = obj[x].fields[j]
    BY <2>3, <2>7, <2>10, <2>11 DEF Alike
  <2>13. Commit(m, Held)
    <3>1. Commit(Overwritten(x, Position(x, n), obj[x].fields[Position(x, n)].val, v), Held)
      BY Zenon DEF OverwriteField, Overwritten
    <3>2. Commit(Overwritten(x, i, old, v), Held)
      BY ONLY <1>1, <3>1
    <3>3. m = Overwritten(x, i, old, v)
      BY ONLY <1>5, <2>2, <2>4, <2>6, <2>8, Zenon DEF Overwritten, Lowers, SetsField
    <3> QED BY ONLY <3>2, <3>3
  <2>14. Sound(m, Held)
    BY <1>2, <1>3, <2>7, <2>10, <2>13 DEF Sound, Leaves
  <2>15. ASSUME Clean, NEW w, ListOf(node, Top.list, w), m.slips = {}
         PROVE  /\ Exact(g, node, statics) /\ Shaped(g)
                /\ \A s \in Slots \ used : g[s].count = 0
                /\ \E u : Tame(node, w, m, u)
    <3>1. /\ obj[x].count > 0 /\ ShapeOf(obj, x) /\ Exact(obj, node, statics) /\ Shaped(obj)
          /\ v = NULL /\ ~Strands(Memory, <<old>>)
      BY <1>2, <2>7, <2>10, <2>15, HeldFacts DEF Clean
    <3>2. i = 1 /\ First(obj[x]) = old
      BY <1>1, <1>2, <1>5, <3>1 DEF ShapeOf, First
    <3>3. \A s \in Slots : obj[s].count \in Nat
      BY <1>3, <3>1, Referred
    <3>4. obj[old].count > 0
      BY <1>3, <2>1, <3>1, <3>2, Referred
    <3>5. ASSUME NEW s \in Slots, obj[s].fields # << >>
          PROVE  g[s].count > 0 <=> obj[s].count > 0
      <4>1. CASE s = old
        <5>1. PICK k : k = obj[s].count
          OBVIOUS
        <5>2. Times(<<old>>, s) = 1
          BY <1>2, <4>1, TimesOne DEF Is
        <5>3. k \notin 1 .. 1
          BY <1>3, <3>1, <3>5, <5>1, <5>2 DEF Strands
        <5>4. g[s].count = k - 1 /\ k > 0 /\ k \in Nat
          BY <2>12, <3>3, <3>4, <4>1, <5>1 DEF Is
        <5> QED BY <5>1, <5>3, <5>4
      <4>2. CASE s # old
        BY <2>12, <3>3, <4>2 DEF Is
      <4> QED BY <4>1, <4>2
    <3>6. Owned(obj)[x] = old /\ Owned(g)[x] = NULL
      <4>1. First(g[x]) = NULL
        BY <2>12, <3>1, <3>2 DEF First
      <4> QED BY <3>1, <3>2, <4>1 DEF Owned
    <3>7. \A y \in Slots : y # x => Owned(g)[y] = Owned(obj)[y]
      <4> TAKE y \in Slots
      <4> HAVE y # x
      <4>1. g[y].fields = obj[y].fields
        BY <2>12
      <4>2. CASE obj[y].fields = << >>
        BY <4>1, <4>2 DEF Owned, First
      <4>3. CASE obj[y].fields # << >>
        <5>1. First(g[y]) = First(obj[y])
          BY <4>1 DEF First
        <5> QED BY <3>5, <4>3, <5>1 DEF Owned
      <4> QED BY <4>2, <4>3
    <3>8. \A s \in Slots : g[s].count = obj[s].count - Is(old, s) + Is(NULL, s)
      <4> TAKE s \in Slots
      <4>1. Is(NULL, s) = 0
        BY SlotAssumption DEF Is, NULL
      <4> QED BY <2>12, <3>3, <4>1 DEF Is
    <3>9. Exact(g, node, statics)
      <4>1. \A s \in Slots : /\ g[s].isArray = obj[s].isArray /\ g[s].value = obj[s].value
                             /\ g[s].count = obj[s].count - Is(old, s) + Is(NULL, s)
        BY <2>12, <3>8
      <4> QED BY <1>3, <3>1, <3>6, <3>7, <4>1, FieldExact
    <3>10. \A s \in Slots : g[s].count > 0 => obj[s].count > 0
      BY <2>12, <3>3 DEF Is
    <3>11. Shaped(g)
      <4>1. ASSUME NEW j \in DOMAIN g[x].fields, g[x].fields[j].val # NULL
            PROVE  j = 1
        BY <2>12, <3>1, <3>2, <4>1 DEF ShapeOf
      <4> QED BY <2>12, <3>1, <3>10, <4>1, FieldsShaped
    <3>12. \A s \in Slots \ used : g[s].count = 0
      <4> TAKE s \in Slots \ used
      <4>1. obj[s].count = 0
        BY <2>15 DEF Clean
      <4> QED BY <2>12, <3>4, <4>1 DEF Is
    <3>13. Tame(node, w, m, w)
      BY <2>10, <2>15 DEF Tame
    <3> QED BY <3>9, <3>11, <3>12, <3>13
  <2>16. \A w : Clean /\ ListOf(node, Top.list, w) => Tidy(m, w, statics', used')
    BY <1>2, <2>10, <2>11, <2>15 DEF Tidy
  <2> QED BY <2>14, <2>16 DEF Handled
<1> QED BY <1>4, <1>5

(* Memory that is handed out has no object in it.                          *)
LEMMA FreeIsDead ==
  ASSUME TypeInv, Active, Clean, NEW s \in Slots, NEW out, used \subseteq out,
         s \in out => s \in used, Free(s, out)
  PROVE  obj[s].count = 0
<1>1. CASE s \in used
  BY <1>1 DEF Free
<1>2. CASE s \notin used
  BY <1>2 DEF Clean
<1> QED BY <1>1, <1>2

(* Objects keep their shape when dead memory is made into others.          *)
LEMMA ShapedNew ==
  ASSUME NEW ob, NEW ob2, Shaped(ob), KeepsElements(ob), NEW D \in SUBSET Slots,
         \A s \in D : ob[s].count = 0 /\ ShapeOf(ob2, s),
         \A s \in Slots \ D : Alike(ob2[s], ob[s]) /\ (ob2[s].count > 0 => ob[s].count > 0)
  PROVE  Shaped(ob2)
<1> SUFFICES ASSUME NEW s \in Slots \ D, ob2[s].count > 0
             PROVE  ShapeOf(ob2, s)
  BY DEF Shaped
<1>1. ob[s].count > 0 /\ ShapeOf(ob, s) /\ Alike(ob2[s], ob[s])
  BY DEF Shaped
<1>2. CASE ~ob[s].isArray
  BY <1>1, <1>2 DEF ShapeOf, Alike
<1>3. CASE ob[s].isArray
  <2>1. ob[s].value \in Slots \ D /\ ~ob[ob[s].value].isArray
    BY <1>1, <1>3 DEF ShapeOf, KeepsElements
  <2>2. ~ob2[ob[s].value].isArray
    BY <2>1 DEF Alike
  <2> QED BY <1>1, <1>3, <2>1, <2>2 DEF ShapeOf, Alike
<1> QED BY <1>2, <1>3

(* new and ldc: an object in memory that was free, recorded.               *)
LEMMA OneNew ==
  ASSUME TypeInv, Active, NEW s \in Slots, Free(s, used),
         NEW o \in Object, o.count = 0, NEW a, Sets(s, o, a), NEW cond \in BOOLEAN,
         ~cond => /\ Bare(o) /\ ~o.isArray /\ o.value \in {NULL, WILD}
                  /\ o.kind \in {"object", "string"},
         Commit(Record(Slip(a, cond, "reuse"), s), Held \cup {s}),
         used' = used \cup {s}, UNCHANGED statics
  PROVE  Handled
<1>1. /\ Memory \in Memories /\ Memory.obj = obj /\ Memory.node = node /\ Memory.slips = slips
      /\ obj \in Objects /\ Held \in SUBSET Slots /\ statics \in Stores
      /\ used \in SUBSET Slots /\ node \in NodeMaps
  BY MemoryType DEF TypeInv, TypeOK
<1>2. /\ a \in Memories /\ a.node = node
      /\ a.list = Top.list /\ a.fault = "none" /\ a.slips = slips
      /\ a.obj \in Objects /\ a.obj[s] = o /\ \A t \in Slots : t # s => a.obj[t] = obj[t]
  BY Replaced
<1>3. PICK b : b = Slip(a, cond, "reuse")
  OBVIOUS
<1>4. /\ b \in Memories /\ b.obj = a.obj /\ b.node = node /\ b.list = Top.list
      /\ b.fault = "none" /\ slips \subseteq b.slips /\ (b.slips = {} => ~cond)
  <2>1. "reuse" \in Slips
    BY DEF Slips
  <2>2. /\ b \in Memories /\ b.obj = a.obj /\ b.node = a.node /\ b.list = a.list
        /\ b.fault = a.fault /\ a.slips \subseteq b.slips /\ (b.slips = {} => ~cond)
    BY <1>2, <1>3, <2>1, Slipping
  <2> QED BY <1>2, <2>2
<1>5. PICK m : m = Record(b, s)
  OBVIOUS
<1>6. m \in Memories /\ b.slips \subseteq m.slips
  BY <1>4, <1>5, RecordType DEF Leaves
<1>7. Commit(m, Held \cup {s})
  BY <1>3, <1>5
<1>8. Sound(m, Held \cup {s})
  BY <1>1, <1>4, <1>6, <1>7 DEF Sound, Leaves
<1>9. ASSUME Clean, NEW w, ListOf(node, Top.list, w), m.slips = {}
      PROVE  /\ m.fault = "none" /\ Exact(m.obj, m.node, statics) /\ Shaped(m.obj)
             /\ \A t \in Slots \ (used \cup {s}) : m.obj[t].count = 0
             /\ \E u : Tame(node, w, m, u)
  <2>1. /\ Exact(obj, node, statics) /\ Shaped(obj) /\ KeepsElements(obj)
        /\ \A t \in Slots \ used : obj[t].count = 0
    BY <1>9 DEF Clean
  <2>2. obj[s].count = 0
    BY <1>9, FreeIsDead
  <2>3. /\ Bare(o) /\ ~o.isArray /\ o.value \in {NULL, WILD} /\ o.kind \in {"object", "string"}
    BY <1>4, <1>6, <1>9
  <2>4. Exact(b.obj, b.node, statics)
    <3>1. \A t \in Slots : /\ b.obj[t].count = obj[t].count
                           /\ obj[t].count > 0 => SeenAlike(b.obj[t], obj[t])
      <4> TAKE t \in Slots
      <4>1. CASE t = s
        BY <1>2, <1>4, <2>2, <4>1
      <4>2. CASE t # s
        <5>1. b.obj[t] = obj[t]
          BY <1>2, <1>4, <4>2
        <5> QED BY <5>1 DEF SeenAlike
      <4> QED BY <4>1, <4>2
    <3> QED BY <1>1, <1>4, <2>1, <3>1, ExactLike
  <2>5. First(b.obj[s]) = NULL
    BY <1>2, <1>4, <2>3 DEF First, Bare
  <2>6. /\ m.fault = b.fault /\ Exact(m.obj, m.node, statics)
        /\ \A t \in Slots : /\ Alike(m.obj[t], b.obj[t])
                            /\ m.obj[t].count = b.obj[t].count + Is(s, t)
        /\ \E u : Tame(node, w, m, u)
    BY <1>1, <1>4, <1>5, <1>9, <2>4, <2>5, RecordExact
  <2>7. Shaped(m.obj)
    <3>1. ShapeOf(m.obj, s)
      BY <1>2, <1>4, <2>3, <2>6 DEF ShapeOf, Alike, Bare
    <3>2. \A t \in Slots \ {s} : /\ Alike(m.obj[t], obj[t])
                                 /\ m.obj[t].count > 0 => obj[t].count > 0
      <4> TAKE t \in Slots \ {s}
      <4>1. obj[t].count \in Int
        BY <1>1, ObjectFacts DEF Objects
      <4>2. b.obj[t] = obj[t] /\ Is(s, t) = 0
        BY <1>2, <1>4 DEF Is
      <4> QED BY <2>6, <4>1, <4>2
    <3>3. PICK D : D = {s}
      OBVIOUS
    <3> QED BY ONLY s \in Slots, <2>1, <2>2, <3>1, <3>2, <3>3, ShapedNew
  <2>8. \A t \in Slots \ (used \cup {s}) : m.obj[t].count = 0
    BY <1>2, <1>4, <2>1, <2>6 DEF Is
  <2> QED BY <1>4, <2>6, <2>7, <2>8
<1>10. \A w : Clean /\ ListOf(node, Top.list, w) => Tidy(m, w, statics', used')
  BY <1>9 DEF Tidy
<1> QED BY <1>8, <1>10 DEF Handled

(* new: the object is recorded, its count becomes 1.                        *)
LEMMA NewHandled ==
  ASSUME TypeInv, Active, NEW s \in Slots, New(s)
  PROVE  Handled
<1>1. obj \in Objects /\ obj[s] \in Object
  BY MemoryType DEF Objects
<1>2. PICK o : o = [kind |-> "object", count |-> 0, isArray |-> FALSE,
                    value |-> obj[s].value, fields |-> obj[s].fields]
  OBVIOUS
<1>3. /\ o \in Object /\ o.count = 0 /\ o.kind = "object" /\ ~o.isArray
      /\ o.value = obj[s].value /\ o.fields = obj[s].fields
  BY <1>1, <1>2 DEF Object, Kinds
<1>4. PICK a : Sets(s, o, a)
  BY DEF Sets
<1>5. PICK cond \in BOOLEAN : cond = (obj[s].fields # << >> \/ obj[s].value # NULL)
  OBVIOUS
<1>6. ~cond => Bare(o) /\ o.value \in {NULL, WILD}
  BY <1>3, <1>5 DEF Bare
<1>7. Commit(Record(Slip(a, cond, "reuse"), s), Held \cup {s})
  BY <1>2, <1>4, <1>5, Zenon DEF New, Sets
<1>8. Free(s, used) /\ used' = used \cup {s} /\ UNCHANGED statics
  BY DEF New
<1> QED BY <1>3, <1>4, <1>6, <1>7, <1>8, OneNew

(* ldc of a string does the same for a string.                              *)
LEMMA LoadStringHandled ==
  ASSUME TypeInv, Active, NEW s \in Slots, LoadString(s)
  PROVE  Handled
<1>1. obj \in Objects /\ obj[s] \in Object
  BY MemoryType DEF Objects
<1>2. PICK o : o = [kind |-> "string", count |-> 0, isArray |-> obj[s].isArray,
                    value |-> WILD, fields |-> obj[s].fields]
  OBVIOUS
<1>3. /\ o \in Object /\ o.count = 0 /\ o.kind = "string" /\ o.isArray = obj[s].isArray
      /\ o.value = WILD /\ o.fields = obj[s].fields
  BY <1>1, <1>2 DEF Object, Kinds, Pointers
<1>4. PICK a : Sets(s, o, a)
  BY DEF Sets
<1>5. PICK cond \in BOOLEAN : cond = (obj[s].fields # << >> \/ obj[s].isArray)
  OBVIOUS
<1>6. ~cond => Bare(o) /\ ~o.isArray
  BY <1>3, <1>5 DEF Bare
<1>7. Commit(Record(Slip(a, cond, "reuse"), s), Held \cup {s})
  BY <1>2, <1>4, <1>5, Zenon DEF LoadString, Sets
<1>8. Free(s, used) /\ used' = used \cup {s} /\ UNCHANGED statics
  BY DEF LoadString
<1> QED BY <1>3, <1>4, <1>6, <1>7, <1>8, OneNew

(* newarray and anewarray: a header and its elements, both recorded.       *)
LEMMA NewArrayHandled ==
  ASSUME TypeInv, Active, NEW s \in Slots, NEW t \in Slots,
         NEW kind \in {"numbers", "references"}, NewArray(s, t, kind)
  PROVE  Handled
<1>1. /\ Memory \in Memories /\ Memory.obj = obj /\ Memory.node = node /\ Memory.slips = slips
      /\ Memory.list = Top.list /\ Memory.fault = "none"
      /\ obj \in Objects /\ Held \in SUBSET Slots /\ statics \in Stores
      /\ used \in SUBSET Slots /\ node \in NodeMaps
  BY MemoryType DEF TypeInv, TypeOK, Memory
<1>2. /\ s # t /\ Free(s, used) /\ Free(t, used \cup {s})
      /\ used' = used \cup {s, t} /\ UNCHANGED statics
  BY DEF NewArray
<1>3. PICK stale \in BOOLEAN : stale = (\/ obj[s].fields # << >> \/ obj[t].fields # << >>
                                        \/ kind = "references" /\ obj[t].value # NULL)
  OBVIOUS
<1>4. PICK h, e : h = Header(s, t, kind) /\ e = ElementsOf(t, kind)
  OBVIOUS
<1>5. obj[s] \in Object /\ obj[t] \in Object
  BY <1>1 DEF Objects
<1>6. /\ h \in Object /\ h.kind = kind /\ h.count = 0 /\ h.isArray /\ h.value = t
      /\ h.fields = obj[s].fields
  BY <1>4, <1>5 DEF Header, Object, Kinds, Pointers
<1>7. /\ e \in Object /\ e.kind \in {"elements", "object"} /\ e.count = 0 /\ ~e.isArray
      /\ e.value = IF kind = "numbers" THEN NULL ELSE obj[t].value
      /\ e.fields = obj[t].fields
  <2>1. CASE kind = "numbers"
    BY <1>4, <1>5, <2>1 DEF ElementsOf, Object, Kinds, Pointers
  <2>2. CASE kind # "numbers"
    BY <1>4, <1>5, <2>2 DEF ElementsOf, Object, Kinds, Pointers
  <2> QED BY <2>1, <2>2
<1>8. PICK f : f = [x \in Slots |-> IF x = s THEN h ELSE IF x = t THEN e ELSE obj[x]]
  OBVIOUS
<1>9. /\ f \in Objects /\ f[s] = h /\ f[t] = e
      /\ \A x \in Slots : x \notin {s, t} => f[x] = obj[x]
  BY <1>1, <1>2, <1>6, <1>7, <1>8 DEF Objects
<1>10. PICK a : a = [Memory EXCEPT !.obj = f]
  OBVIOUS
<1>11. /\ a \in Memories /\ a.obj = f /\ a.node = node /\ a.list = Top.list
       /\ a.fault = "none" /\ a.slips = slips
  BY <1>1, <1>9, <1>10, With DEF Objects
<1>12. PICK b : b = Slip(a, stale, "reuse")
  OBVIOUS
<1>13. /\ b \in Memories /\ b.obj = f /\ b.node = node /\ b.list = Top.list
       /\ b.fault = "none" /\ slips \subseteq b.slips /\ (b.slips = {} => ~stale)
  <2>1. "reuse" \in Slips
    BY DEF Slips
  <2>2. /\ b \in Memories /\ b.obj = a.obj /\ b.node = a.node /\ b.list = a.list
        /\ b.fault = a.fault /\ a.slips \subseteq b.slips /\ (b.slips = {} => ~stale)
    BY <1>11, <1>12, <2>1, Slipping
  <2> QED BY <1>11, <2>2
<1>14. PICK r : r = Record(b, s)
  OBVIOUS
<1>15. r \in Memories /\ b.slips \subseteq r.slips
  BY <1>13, <1>14, RecordType DEF Leaves
<1>16. PICK m : m = Record(r, t)
  OBVIOUS
<1>17. m \in Memories /\ r.slips \subseteq m.slips
  BY <1>15, <1>16, RecordType DEF Leaves
<1>18. Commit(m, Held \cup {s})
  <2>1. a = [Memory EXCEPT !.obj = [x \in Slots |-> IF x = s THEN Header(s, t, kind)
                                                    ELSE IF x = t THEN ElementsOf(t, kind)
                                                    ELSE obj[x]]]
    BY <1>4, <1>8, <1>10
  <2> QED BY <1>3, <1>12, <1>14, <1>16, <2>1, Zenon DEF NewArray
<1>19. Sound(m, Held \cup {s})
  BY <1>1, <1>2, <1>13, <1>15, <1>17, <1>18 DEF Sound, Leaves
<1>20. ASSUME Clean, NEW w, ListOf(node, Top.list, w), m.slips = {}
       PROVE  /\ m.fault = "none" /\ Exact(m.obj, m.node, statics) /\ Shaped(m.obj)
              /\ \A x \in Slots \ (used \cup {s, t}) : m.obj[x].count = 0
              /\ \E u : Tame(node, w, m, u)
  <2>1. /\ Exact(obj, node, statics) /\ Shaped(obj) /\ KeepsElements(obj)
        /\ \A x \in Slots \ used : obj[x].count = 0
    BY <1>20 DEF Clean
  <2>2. obj[s].count = 0 /\ obj[t].count = 0
    <3>1. obj[s].count = 0
      BY <1>2, <1>20, FreeIsDead
    <3>2. obj[t].count = 0
      BY <1>2, <1>20, FreeIsDead
    <3> QED BY <3>1, <3>2
  <2>3. /\ h.fields = << >> /\ e.fields = << >> /\ e.value = NULL
    BY <1>3, <1>6, <1>7, <1>13, <1>15, <1>17, <1>20
  <2>4. Exact(b.obj, b.node, statics)
    <3>1. ASSUME NEW x \in Slots
          PROVE  /\ f[x].count = obj[x].count
                 /\ obj[x].count > 0 => SeenAlike(f[x], obj[x])
      <4>1. CASE x \in {s, t}
        BY <1>6, <1>7, <1>9, <2>2, <4>1
      <4>2. CASE x \notin {s, t}
        <5>1. f[x] = obj[x]
          BY <1>9, <4>2
        <5> QED BY <5>1 DEF SeenAlike
      <4> QED BY <4>1, <4>2
    <3> QED BY <1>1, <1>13, <2>1, <3>1, ExactLike
  <2>5. First(b.obj[s]) = NULL /\ First(b.obj[t]) = NULL
    BY <1>9, <1>13, <2>3 DEF First
  <2>6. /\ r.fault = b.fault /\ Exact(r.obj, r.node, statics)
        /\ \A x \in Slots : /\ Alike(r.obj[x], b.obj[x])
                            /\ r.obj[x].count = b.obj[x].count + Is(s, x)
        /\ \E u : Tame(node, w, r, u)
    BY <1>1, <1>13, <1>14, <1>20, <2>4, <2>5, RecordExact
  <2>7. PICK u : Tame(node, w, r, u)
    BY <2>6
  <2>8. ListOf(r.node, r.list, u)
    BY <2>7 DEF Tame
  <2>9. First(r.obj[t]) = NULL
    BY <2>5, <2>6 DEF First, Alike
  <2>10. /\ m.fault = r.fault /\ Exact(m.obj, m.node, statics)
         /\ \A x \in Slots : /\ Alike(m.obj[x], r.obj[x])
                             /\ m.obj[x].count = r.obj[x].count + Is(t, x)
         /\ \E v : Tame(r.node, u, m, v)
    BY <1>1, <1>15, <1>16, <2>6, <2>8, <2>9, RecordExact
  <2>11. \E v : Tame(node, w, m, v)
    BY <1>1, <2>7, <2>10, TameTwice
  <2>12. \A x \in Slots : Alike(m.obj[x], f[x])
    BY <1>13, <2>6, <2>10 DEF Alike
  <2>13. \A x \in Slots : x \notin {s, t} => /\ Alike(m.obj[x], obj[x])
                                             /\ m.obj[x].count = obj[x].count
    <3> TAKE x \in Slots
    <3> HAVE x \notin {s, t}
    <3>1. obj[x].count \in Int
      BY <1>1, ObjectFacts DEF Objects
    <3>2. f[x] = obj[x] /\ Is(s, x) = 0 /\ Is(t, x) = 0
      BY <1>9 DEF Is
    <3>3. m.obj[x].count = r.obj[x].count + Is(t, x) /\ r.obj[x].count = f[x].count + Is(s, x)
      BY <1>13, <2>6, <2>10
    <3> QED BY <2>12, <3>1, <3>2, <3>3
  <2>14. Shaped(m.obj)
    <3>1. ShapeOf(m.obj, t)
      BY <1>7, <1>9, <2>3, <2>12 DEF ShapeOf, Alike
    <3>2. ShapeOf(m.obj, s)
      BY <1>6, <1>7, <1>9, <2>3, <2>12 DEF ShapeOf, Alike
    <3>3. PICK D : D = {s, t}
      OBVIOUS
    <3>4. /\ D \in SUBSET Slots
          /\ \A x \in D : obj[x].count = 0 /\ ShapeOf(m.obj, x)
          /\ \A x \in Slots \ D : Alike(m.obj[x], obj[x]) /\ (m.obj[x].count > 0 => obj[x].count > 0)
      BY <2>2, <2>13, <3>1, <3>2, <3>3
    <3> QED BY ONLY <2>1, <3>4, ShapedNew
  <2>15. \A x \in Slots \ (used \cup {s, t}) : m.obj[x].count = 0
    BY <2>1, <2>13
  <2> QED BY <1>13, <2>6, <2>10, <2>11, <2>14, <2>15
<1>21. \A w : Clean /\ ListOf(node, Top.list, w) => Tidy(m, w, statics', used')
  BY <1>2, <1>20 DEF Tidy
<1> QED BY <1>19, <1>21 DEF Handled

(* putstatic: what was there is released, and what is stored is kept.      *)
LEMMA PutStaticHandled ==
  ASSUME TypeInv, Active, NEW f \in Statics, NEW v \in Slots \cup {NULL}, PutStatic(f, v)
  PROVE  Handled
<1>1. /\ Memory \in Memories /\ Memory.obj = obj /\ Memory.node = node /\ Memory.slips = slips
      /\ Memory.list = Top.list /\ Memory.fault = "none" /\ Ok(Memory)
      /\ obj \in Objects /\ Held \in SUBSET Slots /\ statics \in Stores
      /\ used \in SUBSET Slots /\ node \in NodeMaps
  BY MemoryType DEF TypeInv, TypeOK, Memory
<1>2. v \in Held \cup {NULL} /\ UNCHANGED used /\ Stored(statics, f, v, statics')
  BY DEF PutStatic, Stored
<1>3. statics' \in Stores /\ statics[f] \in {NULL} \cup Slots
  BY <1>1, <1>2 DEF Stored, Stores
<1>4. PICK m : m = IF statics[f] = NULL THEN Memory ELSE Released(Memory, statics[f])
  OBVIOUS
<1>5. m \in Memories /\ slips \subseteq m.slips
  <2>1. CASE statics[f] = NULL
    BY <1>1, <1>4, <2>1
  <2>2. CASE statics[f] # NULL
    BY <1>1, <1>3, <1>4, <2>2, ReleasedFacts DEF Recounts, Leaves
  <2> QED BY <2>1, <2>2
<1>6. PICK r : r = IF Ok(m) /\ v # NULL THEN Kept(m, v) ELSE m
  OBVIOUS
<1>7. r \in Memories /\ m.slips \subseteq r.slips
  <2>1. CASE Ok(m) /\ v # NULL
    BY <1>5, <1>6, <2>1, KeptType DEF Leaves
  <2>2. CASE ~(Ok(m) /\ v # NULL)
    BY <1>5, <1>6, <2>2
  <2> QED BY <2>1, <2>2
<1>8. Commit(r, Held)
  BY <1>4, <1>6 DEF PutStatic
<1>9. Sound(r, Held)
  BY <1>1, <1>2, <1>3, <1>5, <1>7, <1>8 DEF Sound, Leaves
<1>10. ASSUME Clean, NEW w, ListOf(node, Top.list, w), r.slips = {}
       PROVE  /\ r.fault \in {"none", "null"}
              /\ Ok(r) => /\ Exact(r.obj, r.node, statics') /\ Shaped(r.obj)
                          /\ \A s \in Slots \ used : r.obj[s].count = 0
                          /\ \E u : Tame(node, w, r, u)
  <2>1. /\ Exact(obj, node, statics) /\ Shaped(obj) /\ KeepsElements(obj) /\ m.slips = {}
        /\ \A s \in Slots \ used : obj[s].count = 0
        /\ \A s \in Slots : obj[s].count \in Nat
    BY <1>1, <1>7, <1>10, Referred DEF Clean
  <2>2. PICK st : Stored(statics, f, NULL, st)
    BY DEF Stored
  <2>3. st \in Stores /\ st[f] = NULL /\ Stored(st, f, v, statics') /\ (v = NULL => statics' = st)
    BY <1>1, <1>2, <2>2 DEF Stored, Stores
  <2>4. /\ m.node = node /\ m.list = Top.list /\ m.fault = "none"
        /\ Exact(m.obj, node, st)
        /\ \A s \in Slots : Alike(m.obj[s], obj[s]) /\ m.obj[s].count <= obj[s].count
    <3>1. CASE statics[f] = NULL
      <4>1. st = statics
        BY <1>1, <2>2, <3>1 DEF Stored, Stores
      <4> QED BY <1>1, <1>4, <2>1, <3>1, <4>1 DEF Alike
    <3>2. CASE statics[f] # NULL
      <4>1. PICK old \in Slots : old = statics[f]
        BY <1>3, <3>2
      <4>2. m = Released(Memory, old)
        BY <1>4, <3>2, <4>1
      <4>3. /\ Recounts(Memory, m) /\ m.fault = Memory.fault
            /\ Exact(m.obj, m.node, st)
            /\ \A s \in Slots : m.obj[s].count <= Memory.obj[s].count
        BY <1>1, <2>1, <2>2, <4>1, <4>2, ReleasedExact
      <4> QED BY <1>1, <4>3 DEF Recounts
    <3> QED BY <3>1, <3>2
  <2>5. m.obj \in Objects /\ r.obj \in Objects /\ Ok(m) /\ r.node \in NodeMaps
    BY <1>5, <1>7, <2>4, MemoryFacts DEF Objects, Ok
  <2>6. ASSUME Exact(r.obj, r.node, statics'),
               \A s \in Slots : Alike(r.obj[s], obj[s]),
               \A s \in Slots : obj[s].count = 0 => r.obj[s].count <= 0
        PROVE  Shaped(r.obj) /\ \A s \in Slots \ used : r.obj[s].count = 0
    <3>1. \A s \in Slots : r.obj[s].count \in Nat
      BY <1>3, <2>5, <2>6, Referred
    <3>2. \A s \in Slots : r.obj[s].count > 0 => obj[s].count > 0
      BY <2>1, <2>6, <3>1
    <3> QED BY <1>1, <2>1, <2>5, <2>6, <3>1, <3>2, StillShaped
  <2>7. CASE v = NULL
    <3>1. r = m /\ statics' = st
      BY <1>6, <2>3, <2>7
    <3>2. Tame(node, w, r, w)
      BY <1>10, <2>4, <3>1 DEF Tame
    <3>3. Exact(r.obj, r.node, statics') /\ \A s \in Slots : Alike(r.obj[s], obj[s])
      BY <2>4, <3>1
    <3>4. \A s \in Slots : obj[s].count = 0 => r.obj[s].count <= 0
      BY <2>4, <3>1
    <3> QED BY <2>4, <2>6, <3>1, <3>2, <3>3, <3>4
  <2>8. CASE v # NULL
    <3>1. v \in Held /\ v \in Slots /\ r = Kept(m, v)
      BY <1>2, <1>6, <2>5, <2>8
    <3>2. obj[v].count > 0 /\ ShapeOf(obj, v)
      BY <1>10, <3>1, HeldFacts
    <3>3. ShapeOf(m.obj, v)
      BY <2>4, <3>1, <3>2 DEF ShapeOf, Alike
    <3>4. PICK e : e = PartOf(m.obj, v)
      OBVIOUS
    <3>5. /\ r.fault \in {"none", "null"}
          /\ Ok(r) => /\ Exact(r.obj, r.node, statics')
                      /\ \A s \in Slots : /\ Alike(r.obj[s], m.obj[s])
                                          /\ s \notin {v, e} => r.obj[s].count <= m.obj[s].count
                      /\ \E u : Tame(m.node, w, r, u)
      <4>1. Exact(m.obj, m.node, st) /\ ListOf(m.node, m.list, w)
        BY <1>10, <2>4
      <4> QED BY <1>5, <1>10, <2>3, <2>5, <3>1, <3>3, <3>4, <4>1, KeptExact
    <3>6. \A s \in {v, e} \cap Slots : obj[s].count > 0
      <4>1. CASE ~m.obj[v].isArray
        <5>1. e = NULL
          BY <3>4, <4>1 DEF PartOf
        <5>2. e \notin Slots
          BY <5>1, SlotAssumption DEF NULL
        <5> QED BY <3>2, <5>2
      <4>2. CASE m.obj[v].isArray
        <5>1. e = obj[v].value /\ obj[v].isArray
          BY <2>4, <3>1, <3>4, <4>2 DEF PartOf, Alike
        <5>2. e \in Slots => obj[e].count # 0
          BY <2>1, <3>1, <3>2, <5>1 DEF KeepsElements
        <5> QED BY <2>1, <3>2, <5>2
      <4> QED BY <4>1, <4>2
    <3>7. ASSUME Ok(r)
          PROVE  /\ \A s \in Slots : Alike(r.obj[s], obj[s])
                 /\ \A s \in Slots : obj[s].count = 0 => r.obj[s].count <= 0
      <4>1. \A s \in Slots : Alike(r.obj[s], obj[s])
        BY <2>4, <3>5, <3>7 DEF Alike
      <4>2. ASSUME NEW s \in Slots, obj[s].count = 0
            PROVE  r.obj[s].count <= 0
        <5>1. s \notin {v, e}
          BY <3>6, <4>2
        <5>2. /\ r.obj[s].count <= m.obj[s].count /\ m.obj[s].count <= 0
          BY <2>4, <3>5, <3>7, <4>2, <5>1
        <5>3. r.obj[s].count \in Int /\ m.obj[s].count \in Int
          BY <2>5, ObjectFacts DEF Objects
        <5> QED BY <5>2, <5>3
      <4> QED BY <4>1, <4>2
    <3> QED BY <2>4, <2>6, <3>5, <3>7
  <2> QED BY <2>7, <2>8
<1>11. \A w : Clean /\ ListOf(node, Top.list, w) => Tidy(r, w, statics', used')
  BY <1>2, <1>10 DEF Tidy
<1> QED BY <1>9, <1>11 DEF Handled

(* The callee comes last, with the list its static frame has.              *)
LEMMA InvokeChain ==
  ASSUME TypeInv, Active, NEW m \in Methods, Invoke(m), NEW n, n = Len(chain)
  PROVE  /\ chain' \in Seq(Activation) /\ n \in Nat /\ n + 1 \notin DOMAIN chain
         /\ DOMAIN chain' = DOMAIN chain \cup {n + 1}
         /\ \A i \in DOMAIN chain : chain'[i].list = chain[i].list /\ chain'[i].held = chain[i].held
         /\ chain'[n + 1].list = entry[m] /\ chain'[n + 1].held = chain[n].held
         /\ n \in DOMAIN chain
<1>1. PICK c : c = chain
  OBVIOUS
<1>2. /\ c \in Seq(Activation) /\ n \in Nat \ {0} /\ DOMAIN c = 1 .. n /\ n \in DOMAIN c
      /\ Held = c[n].held
  BY <1>1, MemoryType DEF TypeInv, TypeOK
<1>3. c[n] \in Activation
  BY <1>2
<1>4. PICK a : a = [c[n] EXCEPT !.copy = TRUE]
  OBVIOUS
<1>5. a \in Activation /\ a.list = c[n].list /\ a.held = c[n].held
  BY <1>3, <1>4 DEF Activation
<1>6. PICK d : d = [c EXCEPT ![n] = a]
  OBVIOUS
<1>7. d \in Seq(Activation) /\ Len(d) = n /\ DOMAIN d = 1 .. n /\ d[n] = a
      /\ \A i \in 1 .. n : i # n => d[i] = c[i]
  BY <1>2, <1>5, <1>6
<1>8. PICK b : b = [meth |-> m, copy |-> FALSE, list |-> entry[m], held |-> Held]
  OBVIOUS
<1>9. b \in Activation /\ b.list = entry[m] /\ b.held = c[n].held
  <2>1. entry[m] \in {WILD, NULL} \cup Nodes
    BY DEF TypeInv, TypeOK
  <2>2. c[n].held \in SUBSET Slots
    BY <1>3 DEF Activation
  <2> QED BY <1>2, <1>8, <2>1, <2>2 DEF Activation
<1>10. chain' = Append(d, b)
  BY <1>1, <1>4, <1>6, <1>8, <1>2, Zenon DEF Invoke
<1>11. PICK e : e = Append(d, b)
  OBVIOUS
<1>12. /\ e \in Seq(Activation) /\ DOMAIN e = 1 .. (n + 1) /\ e[n + 1] = b
       /\ \A i \in 1 .. n : e[i] = d[i]
  BY <1>2, <1>7, <1>9, <1>11
<1>13. DOMAIN e = DOMAIN c \cup {n + 1} /\ n + 1 \notin DOMAIN c
  BY <1>2, <1>12
<1>14. \A i \in DOMAIN c : e[i].list = c[i].list /\ e[i].held = c[i].held
  BY <1>2, <1>5, <1>7, <1>12
<1> QED BY <1>1, <1>2, <1>9, <1>10, <1>11, <1>12, <1>13, <1>14

(* A call keeps the invariant.                                             *)
LEMMA InvokeInv ==
  ASSUME HeapInv, Active, NEW m \in Methods, Invoke(m)
  PROVE  HeapInv'
<1>1. TypeInv /\ fault = "none" /\ UNCHANGED <<obj, node, statics, entry, used, fault>>
  BY DEF HeapInv, Invoke, Running
<1>2. PICK n : n = Len(chain)
  OBVIOUS
<1>3. PICK ch : ch = chain'
  OBVIOUS
<1>4. /\ ch \in Seq(Activation) /\ n \in Nat /\ n + 1 \notin DOMAIN chain
      /\ DOMAIN ch = DOMAIN chain \cup {n + 1}
      /\ \A i \in DOMAIN chain : ch[i].list = chain[i].list /\ ch[i].held = chain[i].held
      /\ ch[n + 1].list = entry[m] /\ ch[n + 1].held = chain[n].held
      /\ n \in DOMAIN chain
  BY <1>1, <1>2, <1>3, InvokeChain
<1>5. TypeInv'
  <2>1. slips' \subseteq Slips /\ ops' \in Nat
    BY <1>1 DEF Invoke, TypeInv, TypeOK, Slips
  <2> QED BY <1>1, <1>3, <1>4, <2>1 DEF TypeInv, TypeOK
<1>6. ASSUME slips' = {}
      PROVE  Clean'
  <2>1. slips = {} /\ entry[m] = NULL
    BY <1>6 DEF Invoke
  <2>2. Clean
    BY <1>1, <2>1 DEF HeapInv
  <2>3. PICK L : Lists(node, chain, L)
    BY <2>2 DEF Clean
  <2>4. PICK w : w = << >>
    OBVIOUS
  <2>5. ListOf(node, NULL, w) /\ ToSet(w) = {}
    BY <2>4 DEF ListOf, ToSet
  <2>6. PICK L2 : L2 = [i \in DOMAIN ch |-> IF i = n + 1 THEN w ELSE L[i]]
    OBVIOUS
  <2>7. L2[n + 1] = w /\ \A i \in DOMAIN chain : L2[i] = L[i]
    BY <1>4, <2>6
  <2>8. Lists(node, ch, L2)
    <3>1. ASSUME NEW i \in DOMAIN ch
          PROVE  ListOf(node, ch[i].list, L2[i])
      <4>1. CASE i = n + 1
        BY <1>4, <2>1, <2>5, <2>7, <4>1
      <4>2. CASE i # n + 1
        BY <1>4, <2>3, <2>7, <4>2 DEF Lists
      <4> QED BY <4>1, <4>2
    <3>2. ASSUME NEW i \in DOMAIN ch, NEW j \in DOMAIN ch, i # j
          PROVE  ToSet(L2[i]) \cap ToSet(L2[j]) = {}
      <4>1. CASE i = n + 1 \/ j = n + 1
        BY <2>5, <2>7, <4>1
      <4>2. CASE i # n + 1 /\ j # n + 1
        BY <1>4, <2>3, <2>7, <3>2, <4>2 DEF Lists
      <4> QED BY <4>1, <4>2
    <3> QED BY <3>1, <3>2 DEF Lists
  <2>9. HeldAlive(obj, ch)
    BY <1>4, <2>2 DEF HeldAlive, Clean
  <2> QED BY <1>1, <1>3, <2>2, <2>8, <2>9 DEF Clean
<1> QED BY <1>1, <1>5, <1>6 DEF HeapInv

(* A return keeps the invariant.                                           *)
LEMMA ReturnInv ==
  ASSUME HeapInv, Active, Return
  PROVE  HeapInv'
<1>1. PICK m : m = DropList(Memory)
  OBVIOUS
<1>2. /\ obj' = m.obj /\ node' = m.node /\ fault' = m.fault
      /\ entry' = (IF Top.copy THEN entry ELSE [entry EXCEPT ![Top.meth] = m.list])
      /\ chain' = (IF Ok(m) THEN Front(chain) ELSE chain)
      /\ slips' = Slipped(m, chain') /\ ops' = ops + 1
      /\ UNCHANGED <<statics, used>>
  BY <1>1 DEF Return
<1>3. TypeInv /\ fault = "none"
  BY DEF HeapInv, Return, Running
<1>4. /\ Memory \in Memories /\ Ok(Memory) /\ Memory.obj = obj /\ Memory.node = node
      /\ Memory.slips = slips /\ Memory.list = chain[Len(chain)].list
      /\ obj \in Objects /\ statics \in Stores /\ node \in NodeMaps
  BY <1>3, MemoryType DEF TypeInv
<1>5. m \in Memories /\ slips \subseteq m.slips
  BY <1>1, <1>4, DropListType DEF Leaves
<1>6. PICK c, n : c = chain /\ n = Len(c)
  OBVIOUS
<1>7. /\ c \in Seq(Activation) /\ c # << >> /\ n \in Nat \ {0} /\ DOMAIN c = 1 .. n
      /\ n \in DOMAIN c
  BY <1>3, <1>6, MemoryType DEF TypeInv, TypeOK, Active
<1>8. PICK d : d = Front(c)
  OBVIOUS
<1>9. /\ d \in Seq(Activation) /\ DOMAIN d = DOMAIN c \ {n}
      /\ \A i \in DOMAIN d : d[i] = c[i]
  <2>1. /\ d \in Seq(Activation) /\ Len(d) = n - 1 /\ \A k \in 1 .. n - 1 : d[k] = c[k]
    BY <1>6, <1>7, <1>8, SeqParts
  <2>2. DOMAIN d = 1 .. n - 1
    BY <1>7, <2>1
  <2> QED BY <1>7, <2>1, <2>2
<1>10. chain' \in Seq(Activation)
  BY <1>2, <1>6, <1>7, <1>8, <1>9
<1>11. TypeInv'
  <2>1. slips' \subseteq Slips
    BY <1>2, <1>5, <1>10, SlippedIs
  <2>2. entry' \in [Methods -> {WILD, NULL} \cup Nodes]
    <3>1. m.list \in {WILD, NULL} \cup Nodes
      BY <1>5, MemoryFacts DEF Heads
    <3> QED BY <1>2, <1>3, <3>1 DEF TypeInv, TypeOK
  <2>3. ops' \in Nat
    BY <1>2, <1>3 DEF TypeInv, TypeOK
  <2>4. /\ m.obj \in [Slots -> Object] /\ m.node \in NodeMaps /\ DOMAIN m.node \subseteq Nodes
        /\ m.fault \in {"none", "null", "wild", "freed"}
        /\ \A k \in DOMAIN m.node : m.node[k] \in [obj : Slots, next : {NULL} \cup Nodes]
    <3>1. m.node \in [DOMAIN m.node -> ListEntry]
      BY <1>5, MemoryFacts
    <3> QED BY <1>5, <3>1, MemoryFacts DEF Faults, ListEntry
  <2>5. /\ statics \in [Statics -> {NULL} \cup Slots] /\ used \subseteq Slots
    BY <1>3 DEF TypeInv, TypeOK
  <2> QED BY <1>2, <1>10, <2>1, <2>2, <2>3, <2>4, <2>5 DEF TypeInv, TypeOK
<1>12. ASSUME slips' = {}
       PROVE  fault' \in {"none", "null"} /\ (fault' = "none" => Clean')
  <2>1. /\ m.slips = {} /\ KeepsElements(m.obj)
        /\ \A i \in DOMAIN chain' : \A o \in chain'[i].held : m.obj[o].count # 0
    BY <1>2, <1>5, <1>10, <1>12, SlippedIs
  <2>2. Clean
    BY <1>3, <1>5, <2>1 DEF HeapInv
  <2>3. PICK L : Lists(node, c, L)
    BY <1>6, <2>2 DEF Clean
  <2>4. PICK w : w = L[n]
    OBVIOUS
  <2>5. ListOf(node, Memory.list, w)
    BY <1>4, <1>6, <1>7, <2>3, <2>4 DEF Lists
  <2>6. Exact(obj, node, statics) /\ Shaped(obj) /\ \A s \in Slots \ used : obj[s].count = 0
    BY <2>2 DEF Clean
  <2>7. /\ m.fault \in {"none", "null"}
        /\ Ok(m) => Settles(Memory, w, statics, m)
    BY <1>1, <1>4, <2>1, <2>5, <2>6, DropListExact
  <2>8. ASSUME m.fault = "none"
        PROVE  Clean'
    <3>1. /\ Exact(m.obj, m.node, statics)
          /\ \A s \in Slots : Alike(m.obj[s], obj[s]) /\ m.obj[s].count <= obj[s].count
          /\ \E u : Tame(node, w, m, u)
      BY <1>4, <2>7, <2>8 DEF Ok, Settles
    <3>2. chain' = d
      BY <1>2, <1>6, <1>8, <2>8 DEF Ok
    <3>3. /\ m.obj \in Objects /\ m.node \in NodeMaps
          /\ \A s \in Slots : m.obj[s].count \in Nat /\ obj[s].count \in Nat
      <4>1. m.obj \in Objects /\ m.node \in NodeMaps
        BY <1>5, MemoryFacts DEF Objects
      <4> QED BY <1>4, <2>6, <3>1, <4>1, Referred
    <3>4. Shaped(m.obj)
      <4>1. \A s \in Slots : m.obj[s].count > 0 => obj[s].count > 0
        BY <3>1, <3>3
      <4> QED BY <1>4, <2>6, <3>1, <3>3, <4>1, StillShaped
    <3>5. \A s \in Slots \ used : m.obj[s].count = 0
      BY <2>6, <3>1, <3>3
    <3>6. HeldAlive(m.obj, d)
      <4> SUFFICES ASSUME NEW i \in DOMAIN d, NEW o \in d[i].held
                   PROVE  m.obj[o].count > 0
        BY DEF HeldAlive
      <4>1. m.obj[o].count # 0
        BY <2>1, <3>2
      <4>2. d[i] \in Activation
        <5>1. d \in Seq(Activation)
          BY <1>9
        <5> QED BY <5>1
      <4>3. o \in Slots
        BY <4>2 DEF Activation
      <4> QED BY <3>3, <4>1, <4>3
    <3>7. Lists(m.node, d, L)
      <4>1. ASSUME NEW i \in DOMAIN d
            PROVE  ListOf(m.node, d[i].list, L[i])
        <5>1. i \in DOMAIN c /\ i # n /\ d[i] = c[i]
          BY <1>9
        <5>2. ListOf(node, c[i].list, L[i]) /\ ToSet(L[i]) \cap ToSet(w) = {}
          BY <1>7, <2>3, <2>4, <5>1 DEF Lists
        <5>3. ToSet(L[i]) \subseteq DOMAIN node
          <6>1. L[i] \in Seq(DOMAIN node)
            BY <5>2 DEF ListOf
          <6> QED BY <6>1, SeqElements
        <5>4. \A k \in ToSet(L[i]) : k \in DOMAIN m.node /\ m.node[k] = node[k]
          BY <3>1, <5>2, <5>3 DEF Tame
        <5>5. ListOf(m.node, c[i].list, L[i])
          BY <5>2, <5>4, ListStays
        <5> QED BY <5>1, <5>5
      <4>2. \A i, j \in DOMAIN d : i # j => ToSet(L[i]) \cap ToSet(L[j]) = {}
        BY <1>9, <2>3 DEF Lists
      <4> QED BY <4>1, <4>2 DEF Lists
    <3> QED BY <1>2, <2>1, <3>1, <3>2, <3>4, <3>5, <3>6, <3>7 DEF Clean
  <2> QED BY <1>2, <2>7, <2>8
<1> QED BY <1>11, <1>12 DEF HeapInv

-----------------------------------------------------------------------------
(* The invariant holds at first.                                           *)
LEMMA InitInv ==
  ASSUME Init
  PROVE  HeapInv
<1>1. PICK o : o = [kind |-> "object", count |-> 0, isArray |-> FALSE, value |-> NULL, fields |-> << >>]
  OBVIOUS
<1>2. /\ o \in Object /\ o.count = 0 /\ First(o) = NULL
  <2>1. PICK F : F = << >>
    OBVIOUS
  <2>2. F \in Seq([name : Fields, val : {NULL} \cup Slots])
    BY <2>1
  <2>3. o = [kind |-> "object", count |-> 0, isArray |-> FALSE, value |-> NULL, fields |-> F]
    BY <1>1, <2>1
  <2>4. o \in Object /\ o.count = 0 /\ o.fields = F
    BY <2>2, <2>3 DEF Object, Kinds, Pointers
  <2> QED BY <2>1, <2>4 DEF First
<1>3. /\ obj = [s \in Slots |-> o] /\ node = << >> /\ used = {}
      /\ statics = [f \in Statics |-> NULL] /\ entry \in [Methods -> {NULL, WILD}]
      /\ fault = "none" /\ ops = 0 /\ slips = IF entry[Main] = NULL THEN {} ELSE {"entry"}
  BY <1>1 DEF Init
<1>4. obj \in Objects /\ statics \in Stores /\ \A s \in Slots : obj[s] = o
  BY <1>2, <1>3 DEF Objects, Stores
<1>5. PICK a : a = [meth |-> Main, copy |-> FALSE, list |-> entry[Main], held |-> {}]
  OBVIOUS
<1>6. a \in Activation /\ a.list = entry[Main] /\ a.held = {}
  <2>1. entry[Main] \in {WILD, NULL} \cup Nodes /\ Main \in Methods
    BY <1>3, BoundAssumption
  <2> QED BY <1>5, <2>1 DEF Activation
<1>7. PICK c : c = <<a>>
  OBVIOUS
<1>8. c \in Seq(Activation) /\ DOMAIN c = {1} /\ c[1] = a
  BY <1>6, <1>7
<1>9. chain = c
  BY <1>5, <1>7 DEF Init
<1>10. DOMAIN node = {} /\ node \in NodeMaps
  <2>1. DOMAIN node = {}
    BY <1>3
  <2>2. PICK D : D = {}
    OBVIOUS
  <2>3. D \in SUBSET Nodes /\ IsFiniteSet(D) /\ node \in [D -> ListEntry]
    <3>1. IsFiniteSet({})
      BY FS_EmptySet
    <3>2. node = [k \in D |-> node[k]]
      BY <1>3, <2>2
    <3> QED BY <2>2, <3>1, <3>2
  <2> QED BY <2>1, <2>3, AllNodeMaps
<1>11. TypeInv
  <2>1. entry \in [Methods -> {WILD, NULL} \cup Nodes] /\ slips \subseteq Slips /\ ops \in Nat
    BY <1>3 DEF Slips
  <2> QED BY <1>3, <1>4, <1>8, <1>9, <1>10, <2>1 DEF TypeInv, TypeOK, Objects, Stores
<1>12. ASSUME slips = {}
       PROVE  Clean
  <2>1. entry[Main] = NULL
    BY <1>3, <1>12
  <2>2. Exact(obj, node, statics)
    <3> SUFFICES ASSUME NEW s \in Slots
                 PROVE  obj[s].count = Total(obj, node, statics, s)
      BY DEF Exact
    <3>1. Refs(Recording(node), s) = 0
      <4>1. DOMAIN Recording(node) = {}
        BY <1>10 DEF Recording
      <4> QED BY <4>1, RefsNone
    <3>2. NULL # s
      BY SlotAssumption DEF NULL
    <3>3. Refs(statics, s) = 0
      <4>1. \A f \in DOMAIN statics : statics[f] # s
        BY <1>3, <3>2
      <4> QED BY <4>1, RefsNone
    <3>4. Refs(ElementsIn(obj, statics), s) = 0
      <4>1. PICK G : G = ElementsIn(obj, statics)
        OBVIOUS
      <4>2. NULL \notin Slots
        BY SlotAssumption DEF NULL
      <4>3. \A f \in DOMAIN G : G[f] # s
        BY <1>3, <3>2, <4>1, <4>2 DEF ElementsIn, PartOf
      <4> QED BY <4>1, <4>3, RefsNone
    <3>5. Refs(Owned(obj), s) = 0
      <4>1. PICK G : G = Owned(obj)
        OBVIOUS
      <4>2. \A x \in DOMAIN G : G[x] # s
        BY <1>2, <1>4, <3>2, <4>1 DEF Owned
      <4> QED BY <4>1, <4>2, RefsNone
    <3> QED BY <1>2, <1>4, <3>1, <3>3, <3>4, <3>5 DEF Total
  <2>3. Shaped(obj) /\ KeepsElements(obj) /\ \A s \in Slots : obj[s].count = 0
    BY <1>2, <1>4 DEF Shaped, KeepsElements
  <2>4. HeldAlive(obj, chain)
    BY <1>6, <1>8, <1>9 DEF HeldAlive
  <2>5. \E L : Lists(node, chain, L)
    <3>1. PICK w : w = << >>
      OBVIOUS
    <3>2. ListOf(node, NULL, w)
      BY <3>1 DEF ListOf
    <3>3. PICK L : L = [i \in {1} |-> w]
      OBVIOUS
    <3>4. Lists(node, c, L)
      BY <1>6, <1>8, <2>1, <3>2, <3>3 DEF Lists
    <3> QED BY <1>9, <3>4
  <2> QED BY <2>2, <2>3, <2>4, <2>5 DEF Clean
<1> QED BY <1>3, <1>11, <1>12 DEF HeapInv

(* Every step keeps the invariant.                                         *)
LEMMA NextInv ==
  ASSUME HeapInv, Next
  PROVE  HeapInv'
<1>1. Active /\ TypeInv
  BY DEF Next, HeapInv
<1>2. ASSUME Running, Handled
      PROVE  HeapInv'
  BY <1>1, <1>2, HandledInv
<1>3. ASSUME NEW s \in Slots, New(s)
      PROVE  HeapInv'
  <2>1. Running
    BY ONLY <1>3 DEF New
  <2>2. Handled
    BY ONLY <1>1, <1>3, NewHandled
  <2> QED BY <1>2, <2>1, <2>2
<1>4. ASSUME NEW s \in Slots, LoadString(s)
      PROVE  HeapInv'
  <2>1. Running
    BY ONLY <1>4 DEF LoadString
  <2>2. Handled
    BY ONLY <1>1, <1>4, LoadStringHandled
  <2> QED BY <1>2, <2>1, <2>2
<1>5. ASSUME NEW s \in Slots, NEW t \in Slots, NEW kind \in {"numbers", "references"},
             NewArray(s, t, kind)
      PROVE  HeapInv'
  <2>1. Running
    BY ONLY <1>5 DEF NewArray
  <2>2. Handled
    BY ONLY <1>1, <1>5, NewArrayHandled
  <2> QED BY <1>2, <2>1, <2>2
<1>6. ASSUME NEW a \in Slots, NEW v \in {NULL, WILD}, StoreNumber(a, v)
      PROVE  HeapInv'
  <2>1. Running
    BY ONLY <1>6 DEF StoreNumber
  <2>2. Handled
    BY ONLY <1>1, <1>6, StoreNumberHandled
  <2> QED BY <1>2, <2>1, <2>2
<1>7. ASSUME NEW a \in Slots, LoadReference(a)
      PROVE  HeapInv'
  <2>1. Running
    BY ONLY <1>7 DEF LoadReference
  <2>2. Handled
    BY ONLY <1>1, <1>7, LoadReferenceHandled
  <2> QED BY <1>2, <2>1, <2>2
<1>8. ASSUME NEW a \in Slots, NEW v \in Slots \cup {NULL}, StoreReference(a, v)
      PROVE  HeapInv'
  <2>1. Running
    BY ONLY <1>8 DEF StoreReference
  <2>2. Handled
    BY ONLY <1>1, <1>8, StoreReferenceHandled
  <2> QED BY <1>2, <2>1, <2>2
<1>9. ASSUME NEW f \in Statics, GetStatic(f)
      PROVE  HeapInv'
  <2>1. Running
    BY ONLY <1>9 DEF GetStatic
  <2>2. Handled
    BY ONLY <1>1, <1>9, GetStaticHandled
  <2> QED BY <1>2, <2>1, <2>2
<1>10. ASSUME NEW f \in Statics, NEW v \in Slots \cup {NULL}, PutStatic(f, v)
       PROVE  HeapInv'
  <2>1. Running
    BY ONLY <1>10 DEF PutStatic
  <2>2. Handled
    BY ONLY <1>1, <1>10, PutStaticHandled
  <2> QED BY <1>2, <2>1, <2>2
<1>11. ASSUME NEW x \in Slots, NullField(x)
       PROVE  HeapInv'
  <2>1. Running
    BY ONLY <1>11 DEF NullField
  <2>2. Handled
    BY ONLY <1>1, <1>11, NullFieldHandled
  <2> QED BY <1>2, <2>1, <2>2
<1>12. ASSUME NEW x \in Slots, NEW n \in Fields, GetField(x, n)
       PROVE  HeapInv'
  <2>1. Running
    BY ONLY <1>12 DEF GetField
  <2>2. Handled
    BY ONLY <1>1, <1>12, GetFieldHandled
  <2> QED BY <1>2, <2>1, <2>2
<1>13. ASSUME NEW x \in Slots, NEW v \in Slots, NEW n \in Fields, FirstField(x, n, v)
       PROVE  HeapInv'
  <2>1. Running
    BY ONLY <1>13 DEF FirstField
  <2>2. Handled
    BY ONLY <1>1, <1>13, FirstFieldHandled
  <2> QED BY <1>2, <2>1, <2>2
<1>14. ASSUME NEW x \in Slots, NEW n \in Fields, NEW v \in Slots \cup {NULL},
              OverwriteField(x, n, v)
       PROVE  HeapInv'
  <2>1. Running
    BY ONLY <1>14 DEF OverwriteField
  <2>2. Handled
    BY ONLY <1>1, <1>14, OverwriteFieldHandled
  <2> QED BY <1>2, <2>1, <2>2
<1>15. ASSUME NEW x \in Slots, NEW n \in Fields, NEW v \in Slots \cup {NULL},
              AnotherField(x, n, v)
       PROVE  HeapInv'
  <2>1. Running
    BY ONLY <1>15 DEF AnotherField
  <2>2. Handled
    BY ONLY <1>1, <1>15, AnotherFieldHandled
  <2> QED BY <1>2, <2>1, <2>2
<1>16. ASSUME NEW v \in {NULL, WILD}, StoreShort(v)
       PROVE  HeapInv'
  <2>1. Running
    BY ONLY <1>16 DEF StoreShort
  <2>2. Handled
    BY ONLY <1>1, <1>16, StoreShortHandled
  <2> QED BY <1>2, <2>1, <2>2
<1>17. ASSUME NEW m \in Methods, Invoke(m)
       PROVE  HeapInv'
  BY <1>1, <1>17, InvokeInv
<1>18. ASSUME Return
       PROVE  HeapInv'
  BY <1>1, <1>18, ReturnInv
<1> QED
  BY <1>3, <1>4, <1>5, <1>6, <1>7, <1>8, <1>9, <1>10, <1>11, <1>12, <1>13, <1>14, <1>15,
     <1>16, <1>17, <1>18 DEF Next

(* The invariant holds of every behaviour.                                 *)
LEMMA Invariant == Spec => []HeapInv
<1>1. Init => HeapInv
  BY InitInv
<1>2. HeapInv /\ [Next]_vars => HeapInv'
  <2> SUFFICES ASSUME HeapInv, [Next]_vars
               PROVE  HeapInv'
    OBVIOUS
  <2>1. CASE Next
    BY <2>1, NextInv
  <2>2. CASE UNCHANGED vars
    BY <2>2 DEF vars, HeapInv, TypeInv, TypeOK, Clean, Active
  <2> QED BY <2>1, <2>2
<1> QED BY <1>1, <1>2, PTL DEF Spec

-----------------------------------------------------------------------------
(* What the invariant says of the properties of Heap.                      *)

(* The list entries of an object, and the static fields that hold it as    *)
(* References counts them.                                                 *)
LEMMA HoldersCounted ==
  ASSUME HeapInv, Active, slips = {}, fault = "none", NEW s \in Slots
  PROVE  Cardinality({f \in Statics : statics[f] # NULL /\ s \in ToSet(Parts(Memory, statics[f]))})
           = Refs(statics, s) + Refs(ElementsIn(obj, statics), s)
<1>1. /\ Clean /\ TypeInv /\ Memory \in Memories /\ Memory.obj = obj /\ statics \in Stores
      /\ node \in NodeMaps /\ obj \in Objects /\ DOMAIN statics = Statics
      /\ \A f \in Statics : statics[f] \in {NULL} \cup Slots
  BY MemoryType DEF HeapInv, TypeInv, Stores
<1>2. Exact(obj, node, statics) /\ Shaped(obj)
  BY <1>1 DEF Clean
<1>3. NULL \notin Slots
  BY SlotAssumption DEF NULL
<1>4. PICK A, B : /\ A = {f \in Statics : statics[f] = s}
                  /\ B = {f \in Statics : PartOf(obj, statics[f]) = s}
  OBVIOUS
<1>5. ASSUME NEW f \in Statics, statics[f] # NULL
      PROVE  /\ s \in ToSet(Parts(Memory, statics[f])) <=> f \in A \cup B
             /\ ~(f \in A /\ f \in B)
  <2>1. PICK o \in Slots : o = statics[f]
    BY <1>1, <1>5
  <2>2. ShapeOf(obj, o)
    BY <1>1, <1>2, <2>1, Referred DEF Shaped
  <2>3. PICK w : w = Parts(Memory, o)
    OBVIOUS
  <2>4. /\ w \in Seq(Pointers) /\ Len(w) \in {1, 2} /\ w[1] = o
        /\ (Len(w) = 2 <=> obj[o].isArray /\ obj[o].value # NULL)
        /\ (Len(w) = 2 => w[2] = obj[o].value)
    BY <1>1, <2>3, PartsFacts
  <2>5. ToSet(w) = {w[k] : k \in 1 .. Len(w)}
    BY <2>4, SeqElements
  <2>6. CASE Len(w) = 1
    <3>1. ~obj[o].isArray
      BY <1>3, <2>2, <2>4, <2>6 DEF ShapeOf
    <3>2. PartOf(obj, o) = NULL
      BY <3>1 DEF PartOf
    <3>3. ToSet(w) = {o}
      BY <2>4, <2>5, <2>6
    <3> QED BY <1>3, <1>4, <2>1, <2>3, <3>2, <3>3
  <2>7. CASE Len(w) = 2
    <3>1. PartOf(obj, o) = obj[o].value /\ obj[o].isArray
      BY <2>4, <2>7 DEF PartOf
    <3>2. ToSet(w) = {o, obj[o].value}
      BY <2>4, <2>5, <2>7
    <3>3. obj[o].value # o
      BY <2>2, <3>1 DEF ShapeOf
    <3> QED BY <1>4, <2>1, <2>3, <3>1, <3>2, <3>3
  <2> QED BY <2>4, <2>6, <2>7
<1>6. ASSUME NEW f \in Statics, statics[f] = NULL
      PROVE  f \notin A \cup B
  <2>1. PartOf(obj, NULL) = NULL
    BY <1>3 DEF PartOf
  <2> QED BY <1>3, <1>4, <1>6, <2>1
<1>7. {f \in Statics : statics[f] # NULL /\ s \in ToSet(Parts(Memory, statics[f]))} = A \cup B
  BY <1>4, <1>5, <1>6
<1>8. A \cap B = {}
  BY <1>4, <1>5, <1>6
<1>9. /\ IsFiniteSet(A) /\ IsFiniteSet(B)
      /\ Cardinality(A) \in Nat /\ Cardinality(B) \in Nat
  BY <1>4, FieldAssumption, FS_Subset, FS_CardinalityType
<1>10. Cardinality(A \cup B) = Cardinality(A) + Cardinality(B)
  <2>1. Cardinality(A \cup B) = Cardinality(A) + Cardinality(B) - Cardinality(A \cap B)
    BY <1>9, FS_Union
  <2>2. Cardinality(A \cap B) = 0
    BY <1>8, FS_EmptySet
  <2> QED BY <1>9, <2>1, <2>2
<1>11. A = {z \in DOMAIN statics : statics[z] = s}
  BY <1>1, <1>4
<1>12. B = {z \in DOMAIN ElementsIn(obj, statics) : ElementsIn(obj, statics)[z] = s}
  <2>1. PICK G : G = ElementsIn(obj, statics)
    OBVIOUS
  <2>2. DOMAIN G = Statics /\ \A f \in Statics : G[f] = PartOf(obj, statics[f])
    BY <2>1 DEF ElementsIn
  <2> QED BY <1>4, <2>1, <2>2
<1> QED BY <1>7, <1>10, <1>11, <1>12 DEF Refs

(* The fields of live objects that hold an object.                         *)
LEMMA FieldsCounted ==
  ASSUME HeapInv, Active, slips = {}, fault = "none", NEW s \in Slots
  PROVE  Cardinality({p \in Slots \X (1 .. Cardinality(Fields)) :
                        /\ obj[p[1]].count > 0 /\ p[2] \in DOMAIN obj[p[1]].fields
                        /\ obj[p[1]].fields[p[2]].val = s})
           = Refs(Owned(obj), s)
<1>1. Clean /\ TypeInv /\ obj \in Objects
  BY MemoryType DEF HeapInv
<1>2. Shaped(obj)
  BY <1>1 DEF Clean
<1>3. NULL # s
  BY SlotAssumption DEF NULL
<1>4. PICK k : k = Cardinality(Fields)
  OBVIOUS
<1>5. k \in Nat /\ (k = 0 => Fields = {})
  BY <1>4, FieldAssumption, FS_CardinalityType, FS_EmptySet
<1>6. PICK X : X = {x \in Slots : Owned(obj)[x] = s}
  OBVIOUS
<1>7. IsFiniteSet(X) /\ X \subseteq Slots
  BY <1>6, SlotAssumption, FS_Subset
<1>8. \A x \in Slots : x \in X <=> obj[x].count > 0 /\ First(obj[x]) = s
  BY <1>3, <1>6 DEF Owned
<1>9. PICK P : P = {p \in Slots \X (1 .. k) :
                      /\ obj[p[1]].count > 0 /\ p[2] \in DOMAIN obj[p[1]].fields
                      /\ obj[p[1]].fields[p[2]].val = s}
  OBVIOUS
<1>10. ASSUME NEW x \in Slots, NEW i, i \in DOMAIN obj[x].fields, obj[x].count > 0,
              obj[x].fields[i].val = s
       PROVE  i = 1 /\ x \in X
  <2>1. i = 1
    BY <1>2, <1>3, <1>10 DEF Shaped, ShapeOf
  <2>2. obj[x].fields # << >>
    BY <1>10
  <2>3. First(obj[x]) = s
    BY <1>10, <2>1, <2>2 DEF First
  <2> QED BY <1>8, <1>10, <2>1, <2>3
<1>11. ASSUME NEW x \in X
       PROVE  <<x, 1>> \in P
  <2>1. x \in Slots /\ obj[x].count > 0 /\ First(obj[x]) = s
    BY <1>7, <1>8
  <2>2. PICK w : w = obj[x].fields
    OBVIOUS
  <2>3. w # << >> /\ w[1].val = s
    BY <1>3, <2>1, <2>2 DEF First
  <2>4. w \in Seq([name : Fields, val : {NULL} \cup Slots])
    BY <1>1, <2>1, <2>2, ObjectFacts DEF Objects
  <2>5. ASSUME NEW S, w \in Seq(S)
        PROVE  1 \in DOMAIN w /\ w[1] \in S
    BY <2>3, <2>5
  <2>6. 1 \in DOMAIN w /\ w[1] \in [name : Fields, val : {NULL} \cup Slots]
    BY <2>4, <2>5
  <2>7. 1 \in 1 .. k
    BY <1>5, <2>6
  <2>8. PICK p : p = <<x, 1>>
    OBVIOUS
  <2>9. p \in Slots \X (1 .. k) /\ p[1] = x /\ p[2] = 1
    BY <2>1, <2>7, <2>8
  <2> QED BY <1>9, <2>1, <2>2, <2>3, <2>6, <2>8, <2>9
<1>12. ASSUME NEW p \in P
       PROVE  p[1] \in X /\ p = <<p[1], 1>>
  <2>1. /\ p \in Slots \X (1 .. k) /\ obj[p[1]].count > 0 /\ p[2] \in DOMAIN obj[p[1]].fields
        /\ obj[p[1]].fields[p[2]].val = s
    BY <1>9
  <2>2. p[1] \in Slots /\ p = <<p[1], p[2]>>
    BY <2>1
  <2> QED BY <1>10, <2>1, <2>2
<1>13. PICK g : g = [x \in X |-> <<x, 1>>]
  OBVIOUS
<1>14. g \in Bijection(X, P)
  <2>1. g \in [X -> P] /\ DOMAIN g = X
    BY <1>11, <1>13
  <2>2. \A x, y \in X : g[x] = g[y] => x = y
    BY <1>13
  <2>3. \A p \in P : \E x \in X : g[x] = p
    BY <1>12, <1>13
  <2> QED BY <2>1, <2>2, <2>3 DEF Bijection, Injection, Surjection, IsInjective
<1>15. Cardinality(P) = Cardinality(X)
  <2>1. ExistsBijection(X, P)
    BY <1>14 DEF ExistsBijection
  <2> QED BY <1>7, <2>1, FS_Bijection
<1>16. X = {z \in DOMAIN Owned(obj) : Owned(obj)[z] = s}
  <2>1. DOMAIN Owned(obj) = Slots
    BY DEF Owned
  <2> QED BY <1>6, <2>1
<1>17. Cardinality(X) = Refs(Owned(obj), s)
  BY <1>16 DEF Refs
<1> QED BY <1>4, <1>9, <1>15, <1>17

(* What is referred to is not handed out.                                  *)
LEMMA ReferredKept ==
  ASSUME Clean, NEW s \in Slots, obj[s].count > 0, obj[s].count \in Int
  PROVE  ~Free(s, used)
<1>1. s \in used
  BY DEF Clean
<1> QED BY <1>1 DEF Free

(***************************************************************************)
(* Every state has its types: no handler, whatever has gone wrong before,  *)
(* makes an object, a list entry, a frame or a static field into something *)
(* of another kind, and the fault it ends with is one of three.            *)
(***************************************************************************)
THEOREM TypeCorrect == Spec => []TypeOK
<1>1. HeapInv => TypeOK
  BY DEF HeapInv, TypeInv
<1> QED BY <1>1, Invariant, PTL

(***************************************************************************)
(* Until a slip, ref_count is exactly the number of list entries, static   *)
(* fields (with the elements of their arrays) and fields of live objects   *)
(* that refer to the object: new, newarray, ldc, putstatic, putfield and   *)
(* the release of a list on return count what they store and uncount what  *)
(* they let go of, for any number of slots, methods and fields.            *)
(***************************************************************************)
THEOREM CountsStayExact == Spec => []CountsExact
<1>1. ASSUME HeapInv
      PROVE  CountsExact
  <2> SUFFICES ASSUME Active, slips = {}, fault = "none", NEW s \in Slots
               PROVE  obj[s].count = References(s)
    BY DEF CountsExact
  <2>1. Clean /\ node \in NodeMaps /\ statics \in Stores
    BY <1>1, MemoryType DEF HeapInv, TypeInv
  <2>2. obj[s].count = Total(obj, node, statics, s)
    BY <2>1 DEF Clean, Exact
  <2>3. Cardinality({n \in DOMAIN node : node[n].obj = s}) = Refs(Recording(node), s)
    <3>1. {n \in DOMAIN node : node[n].obj = s}
            = {z \in DOMAIN Recording(node) : Recording(node)[z] = s}
      BY DEF Recording
    <3> QED BY <3>1 DEF Refs
  <2>4. PICK a, b, c, d : /\ a = Refs(Recording(node), s) /\ b = Refs(statics, s)
                          /\ c = Refs(ElementsIn(obj, statics), s) /\ d = Refs(Owned(obj), s)
    OBVIOUS
  <2>5. a \in Nat /\ b \in Nat /\ c \in Nat /\ d \in Nat
    BY <2>1, <2>4, TotalType
  <2>6. PICK f, g : /\ f = Cardinality({h \in Statics : statics[h] # NULL
                                                        /\ s \in ToSet(Parts(Memory, statics[h]))})
                    /\ g = Cardinality({p \in Slots \X (1 .. Cardinality(Fields)) :
                                          /\ obj[p[1]].count > 0 /\ p[2] \in DOMAIN obj[p[1]].fields
                                          /\ obj[p[1]].fields[p[2]].val = s})
    OBVIOUS
  <2>7. f = b + c
    BY <1>1, <2>4, <2>6, HoldersCounted
  <2>8. g = d
    BY <1>1, <2>4, <2>6, FieldsCounted
  <2>9. References(s) = a + f + g
    BY <2>3, <2>4, <2>6 DEF References
  <2>10. obj[s].count = a + b + c + d
    BY <2>2, <2>4 DEF Total
  <2> QED BY <2>5, <2>7, <2>8, <2>9, <2>10
<1> QED BY <1>1, Invariant, PTL

(***************************************************************************)
(* Until a slip, no handler of the interpreter follows a list entry that   *)
(* has been freed, or a word that is no pointer: it can only die of a null  *)
(* reference.                                                              *)
(***************************************************************************)
THEOREM PointersStayValid == Spec => []PointersValid
<1>1. HeapInv => PointersValid
  BY DEF HeapInv, PointersValid
<1> QED BY <1>1, Invariant, PTL

(***************************************************************************)
(* Until a slip, mem_alloc does not hand out the memory of an object in a  *)
(* static field, nor that of an object in one of its fields.               *)
(***************************************************************************)
THEOREM ReachableStaysKept == Spec => []ReachableKept
<1>1. ASSUME HeapInv
      PROVE  ReachableKept
  <2> SUFFICES ASSUME Active, slips = {}, fault = "none", NEW f \in Statics, statics[f] # NULL
               PROVE  /\ ~Free(statics[f], used)
                      /\ \A i \in DOMAIN obj[statics[f]].fields :
                           obj[statics[f]].fields[i].val # NULL
                             => ~Free(obj[statics[f]].fields[i].val, used)
    BY DEF ReachableKept
  <2>1. /\ Clean /\ TypeInv /\ node \in NodeMaps /\ statics \in Stores /\ obj \in Objects
    BY <1>1, MemoryType DEF HeapInv, TypeInv
  <2>2. Exact(obj, node, statics) /\ Shaped(obj)
    BY <2>1 DEF Clean
  <2>3. PICK o \in Slots : o = statics[f]
    BY <2>1 DEF Stores
  <2>4. obj[o].count > 0
    BY <2>1, <2>2, <2>3, Referred
  <2>5. \A s \in Slots : obj[s].count \in Int
    BY <2>1, ObjectFacts DEF Objects
  <2>6. ~Free(o, used)
    BY <2>1, <2>4, <2>5, ReferredKept
  <2>7. ASSUME NEW i \in DOMAIN obj[o].fields, obj[o].fields[i].val # NULL
        PROVE  ~Free(obj[o].fields[i].val, used)
    <3>1. i = 1 /\ obj[o].fields # << >>
      BY <2>2, <2>4, <2>7 DEF Shaped, ShapeOf
    <3>2. PICK w : w = obj[o].fields
      OBVIOUS
    <3>3. w \in Seq([name : Fields, val : {NULL} \cup Slots])
      BY <2>1, <3>2, ObjectFacts DEF Objects
    <3>4. ASSUME NEW S, w \in Seq(S)
          PROVE  w[i] \in S
      BY <2>7, <3>2, <3>4
    <3>5. w[i] \in [name : Fields, val : {NULL} \cup Slots]
      BY <3>3, <3>4
    <3>6. PICK s \in Slots : s = obj[o].fields[i].val
      BY <2>7, <3>2, <3>5
    <3>7. First(obj[o]) = s
      BY <3>1, <3>6 DEF First
    <3>8. obj[s].count > 0
      BY <2>1, <2>2, <2>4, <3>7, Referred
    <3> QED BY <2>1, <2>5, <3>6, <3>8, ReferredKept
  <2> QED BY <2>3, <2>6, <2>7
<1> QED BY <1>1, Invariant, PTL
=============================================================================
