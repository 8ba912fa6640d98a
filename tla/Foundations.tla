---------------------------- MODULE Foundations ----------------------------
(***************************************************************************)
(* What the proofs share: the parts of a sequence, induction over the      *)
(* natural numbers stated about sets of numbers, the existence of          *)
(* functions defined by recursion over an interval, and what a walk along  *)
(* a linked list meets.                                                    *)
(***************************************************************************)
EXTENDS Paths, FiniteSetTheorems, WellFoundedInduction, TLAPS

-----------------------------------------------------------------------------
(* Sequences.                                                              *)

(* The parts of a sequence that is not empty.                              *)
LEMMA SeqParts ==
  ASSUME NEW S, NEW w \in Seq(S), w # << >>
  PROVE  /\ Len(w) \in Nat \ {0} /\ Last(w) = w[Len(w)] /\ Last(w) \in S
         /\ Front(w) \in Seq(S) /\ Len(Front(w)) = Len(w) - 1
         /\ \A k \in 1 .. Len(w) - 1 : Front(w)[k] = w[k]
<1>1. Len(w) \in Nat \ {0}
  OBVIOUS
<1>2. Last(w) = w[Len(w)] /\ Last(w) \in S
  BY <1>1 DEF Last
<1> DEFINE n == Len(w) - 1
<1>3. n \in Nat /\ n <= Len(w)
  BY <1>1
<1> HIDE DEF n
<1>4. /\ SubSeq(w, 1, n) \in Seq(S) /\ Len(SubSeq(w, 1, n)) = n
      /\ \A k \in 1 .. n : SubSeq(w, 1, n)[k] = w[k]
  BY <1>3
<1> QED BY <1>1, <1>2, <1>4 DEF Front, n

(* A function on an interval that starts at 1 is one.                      *)
LEMMA IntervalSeq ==
  ASSUME NEW S, NEW n \in Nat, NEW f \in [1 .. n -> S]
  PROVE  f \in Seq(S) /\ Len(f) = n
  OBVIOUS

(* The elements of a sequence.                                             *)
LEMMA SeqElements ==
  ASSUME NEW S, NEW w \in Seq(S)
  PROVE  /\ ToSet(w) = {w[k] : k \in 1 .. Len(w)} /\ ToSet(w) \subseteq S
         /\ DOMAIN w = 1 .. Len(w) /\ Len(w) \in Nat
  BY DEF ToSet

-----------------------------------------------------------------------------
(* Induction and recursion.                                                *)

(* Every set of natural numbers that is not empty has a least element.     *)
LEMMA LeastNumber ==
  ASSUME NEW T \in SUBSET Nat, T # {}
  PROVE  \E m \in T : \A k \in T : m <= k
<1>1. \E x \in T : \A y \in T : ~(<<y, x>> \in OpToRel(<, Nat))
  BY WFMin, NatLessThanWellFounded
<1>2. \A x, y \in Nat : <<x, y>> \in OpToRel(<, Nat) <=> x < y
  BY Zenon DEF OpToRel
<1>3. PICK x \in T : \A y \in T : ~(<<y, x>> \in OpToRel(<, Nat))
  BY <1>1
<1>4. \A y \in T : ~(y < x)
  BY <1>2, <1>3, Zenon
<1>5. \A y \in T : x <= y
  BY <1>4
<1> QED BY <1>5

(* A set that contains a number whenever it contains all smaller ones      *)
(* contains every number.                                                  *)
LEMMA Induction ==
  ASSUME NEW T, \A n \in Nat : (\A k \in 0 .. n - 1 : k \in T) => n \in T
  PROVE  \A n \in Nat : n \in T
<1> SUFFICES ASSUME Nat \ T # {}
             PROVE  FALSE
  OBVIOUS
<1>1. PICK m \in Nat \ T : \A k \in Nat \ T : m <= k
  <2>1. Nat \ T \in SUBSET Nat
    OBVIOUS
  <2> QED BY <2>1, LeastNumber
<1>2. \A k \in 0 .. m - 1 : k \in T
  BY <1>1
<1> QED BY <1>1, <1>2

(* What is kept from one number of an interval to the next is kept.        *)
LEMMA Preserved ==
  ASSUME NEW n \in Nat, NEW T, 0 \in T, \A i \in 1 .. n : i - 1 \in T => i \in T
  PROVE  \A i \in 0 .. n : i \in T
<1> DEFINE S == {i \in Nat : i <= n => i \in T}
<1>1. \A i \in Nat : (\A j \in 0 .. i - 1 : j \in S) => i \in S
  OBVIOUS
<1>2. \A i \in Nat : i \in S
  <2> HIDE DEF S
  <2> QED BY <1>1, Induction
<1> QED BY <1>2

(* A step computes a value of V at each number of an interval from a       *)
(* function on the interval; a causal one looks only at smaller numbers.   *)
Steps(n, V) == [(0 .. n) \X [0 .. n -> V] -> V]
Causal(n, V, step) ==
  \A i \in 0 .. n : \A f, g \in [0 .. n -> V] :
    (\A j \in 0 .. i - 1 : f[j] = g[j]) => step[<<i, f>>] = step[<<i, g>>]
Recursive(n, V, step, f) ==
  f \in [0 .. n -> V] /\ f = [i \in 0 .. n |-> step[<<i, f>>]]

(* A causal step defines a function by recursion.                          *)
LEMMA Recursion ==
  ASSUME NEW n \in Nat, NEW V, V # {},
         NEW step \in Steps(n, V), Causal(n, V, step)
  PROVE  \E f : Recursive(n, V, step, f)
<1> DEFINE F == [0 .. n -> V]
           Fits(m, f) == \A i \in 0 .. m - 1 : f[i] = step[<<i, f>>]
           Exists(m) == \E f \in F : Fits(m, f)
           T == {m \in Nat : m <= n + 1 => Exists(m)}
<1> HIDE DEF Exists
<1>1. ASSUME NEW m \in Nat, \A k \in 0 .. m - 1 : k \in T
      PROVE  m \in T
  <2> SUFFICES ASSUME m <= n + 1
               PROVE  Exists(m)
    OBVIOUS
  <2>1. CASE m = 0
    <3>1. PICK v \in V : TRUE
      OBVIOUS
    <3>2. PICK f \in F : f = [i \in 0 .. n |-> v]
      OBVIOUS
    <3>3. Fits(m, f)
      BY <2>1
    <3> QED BY <3>3, Zenon DEF Exists
  <2>2. CASE m > 0
    <3>1. m - 1 \in 0 .. n /\ m - 1 \in 0 .. m - 1
      BY <2>2
    <3>2. Exists(m - 1)
      <4>1. m - 1 \in T
        BY <1>1, <3>1
      <4> QED BY <3>1, <4>1
    <3> HIDE DEF T
    <3>3. PICK g \in F : Fits(m - 1, g)
      BY <3>2, Zenon DEF Exists
    <3>4. step[<<m - 1, g>>] \in V
      BY <3>1, <3>3 DEF Steps
    <3> DEFINE f == [g EXCEPT ![m - 1] = step[<<m - 1, g>>]]
    <3>5. f \in F
      BY <3>3, <3>4
    <3>6. f[m - 1] = step[<<m - 1, g>>] /\ \A j \in 0 .. n : j # m - 1 => f[j] = g[j]
      BY <3>1, <3>3
    <3> HIDE DEF f
    <3>7. ASSUME NEW i \in 0 .. m - 1
          PROVE  f[i] = step[<<i, f>>]
      <4>1. step[<<i, f>>] = step[<<i, g>>]
        <5>1. i \in 0 .. n /\ \A j \in 0 .. i - 1 : f[j] = g[j]
          BY <3>1, <3>6
        <5> QED BY <3>3, <3>5, <5>1 DEF Causal
      <4>2. CASE i = m - 1
        BY <3>6, <4>1, <4>2
      <4>3. CASE i # m - 1
        <5>1. i \in 0 .. (m - 1) - 1 /\ i \in 0 .. n
          BY <3>1, <4>3
        <5> QED BY <3>3, <3>6, <4>1, <4>3, <5>1
      <4> QED BY <4>2, <4>3
    <3>8. Fits(m, f)
      BY <3>7
    <3> QED BY <3>5, <3>8, Zenon DEF Exists
  <2> QED BY <2>1, <2>2
<1>2. n + 1 \in T
  <2> HIDE DEF T
  <2> QED BY <1>1, Induction
<1>3. PICK f \in F : Fits(n + 1, f)
  <2>1. Exists(n + 1)
    BY <1>2
  <2> QED BY <2>1, Zenon DEF Exists
<1>4. f = [i \in 0 .. n |-> step[<<i, f>>]]
  <2>1. f = [i \in 0 .. n |-> f[i]]
    BY <1>3
  <2>2. \A i \in 0 .. n : f[i] = step[<<i, f>>]
    BY <1>3
  <2> QED BY <2>1, <2>2
<1> QED BY <1>3, <1>4 DEF Recursive

(* A turn of a loop computes from its number and the value before it the   *)
(* value behind it.                                                        *)
LoopBody(n, V) == [(1 .. n) \X V -> V]
Iterates(n, V, s, F, f) ==
  /\ f \in [0 .. n -> V] /\ f[0] = s
  /\ \A i \in 1 .. n : f[i] = F[<<i, f[i - 1]>>]

(* Taking the turns one after the other defines a function.                *)
LEMMA Iteration ==
  ASSUME NEW n \in Nat, NEW V, NEW s \in V, NEW F \in LoopBody(n, V)
  PROVE  \E f : Iterates(n, V, s, F, f)
<1>1. F \in [(1 .. n) \X V -> V]
  BY DEF LoopBody
<1> DEFINE One(g, i) == IF i = 0 THEN s ELSE F[<<i, g[i - 1]>>]
           step == [q \in (0 .. n) \X [0 .. n -> V] |-> One(q[2], q[1])]
<1>2. \A i \in 0 .. n : \A g \in [0 .. n -> V] : One(g, i) \in V
  <2> TAKE i \in 0 .. n
  <2> TAKE g \in [0 .. n -> V]
  <2>1. i # 0 => i \in 1 .. n /\ g[i - 1] \in V
    OBVIOUS
  <2>2. i # 0 => <<i, g[i - 1]>> \in (1 .. n) \X V
    BY <2>1
  <2> QED BY <1>1, <2>2
<1>3. \A i \in 0 .. n : \A g \in [0 .. n -> V] : step[<<i, g>>] = One(g, i)
  <2> HIDE DEF One
  <2> QED OBVIOUS
<1>4. step \in Steps(n, V)
  <2> HIDE DEF One
  <2> QED BY <1>2 DEF Steps
<1>5. Causal(n, V, step)
  <2> SUFFICES ASSUME NEW i \in 0 .. n, NEW g \in [0 .. n -> V], NEW h \in [0 .. n -> V],
                      \A j \in 0 .. i - 1 : g[j] = h[j]
               PROVE  step[<<i, g>>] = step[<<i, h>>]
    BY Zenon DEF Causal
  <2>1. i # 0 => g[i - 1] = h[i - 1]
    OBVIOUS
  <2>2. One(g, i) = One(h, i)
    BY <2>1
  <2> HIDE DEF One, step
  <2> QED BY <1>3, <2>2
<1> HIDE DEF step
<1>6. PICK f : Recursive(n, V, step, f)
  BY <1>4, <1>5, Recursion
<1>7. f \in [0 .. n -> V] /\ \A i \in 0 .. n : f[i] = One(f, i)
  <2> HIDE DEF One
  <2>1. f \in [0 .. n -> V] /\ f = [i \in 0 .. n |-> step[<<i, f>>]]
    BY <1>6 DEF Recursive
  <2>2. \A i \in 0 .. n : f[i] = step[<<i, f>>]
    BY <2>1
  <2> QED BY <1>3, <2>1, <2>2
<1>8. \A i \in 1 .. n : f[i] = F[<<i, f[i - 1]>>]
  <2> TAKE i \in 1 .. n
  <2>1. i \in 0 .. n /\ i # 0
    OBVIOUS
  <2> QED BY <1>7, <2>1, Zenon
<1>9. f[0] = s
  <2>1. 0 \in 0 .. n
    OBVIOUS
  <2> QED BY <1>7, <2>1, Zenon
<1> QED BY <1>7, <1>8, <1>9 DEF Iterates

(* A function on an interval collects at each number what is its own and   *)
(* what the function collects at smaller numbers.                          *)
Collects(n, own, below, f) ==
  f = [i \in 0 .. n |-> own[i] \cup UNION {f[j] : j \in below[i]}]

(* There is such a function.                                               *)
LEMMA Collection ==
  ASSUME NEW n \in Nat, NEW U, NEW own \in [0 .. n -> SUBSET U], NEW below,
         \A i \in 0 .. n : below[i] \subseteq 0 .. i - 1
  PROVE  \E f : Collects(n, own, below, f)
<1> DEFINE V == SUBSET U
           step == [q \in (0 .. n) \X [0 .. n -> V] |->
                      own[q[1]] \cup UNION {q[2][j] : j \in below[q[1]]}]
<1>1. \A i \in 0 .. n : \A g \in [0 .. n -> V] :
        step[<<i, g>>] = own[i] \cup UNION {g[j] : j \in below[i]}
  OBVIOUS
<1>2. step \in Steps(n, V)
  <2> SUFFICES ASSUME NEW i \in 0 .. n, NEW g \in [0 .. n -> V]
               PROVE  own[i] \cup UNION {g[j] : j \in below[i]} \in V
    BY DEF Steps
  <2>1. \A j \in below[i] : j \in 0 .. n
    OBVIOUS
  <2>2. \A j \in below[i] : g[j] \subseteq U
    BY <2>1
  <2> QED BY <2>2
<1> HIDE DEF step
<1>3. Causal(n, V, step)
  <2> SUFFICES ASSUME NEW i \in 0 .. n, NEW g \in [0 .. n -> V], NEW h \in [0 .. n -> V],
                      \A j \in 0 .. i - 1 : g[j] = h[j]
               PROVE  step[<<i, g>>] = step[<<i, h>>]
    BY Zenon DEF Causal
  <2>1. \A j \in below[i] : g[j] = h[j]
    OBVIOUS
  <2>2. {g[j] : j \in below[i]} = {h[j] : j \in below[i]}
    BY <2>1
  <2>3. step[<<i, g>>] = own[i] \cup UNION {g[j] : j \in below[i]}
    BY <1>1
  <2>4. step[<<i, h>>] = own[i] \cup UNION {h[j] : j \in below[i]}
    BY <1>1
  <2> QED BY <2>2, <2>3, <2>4, Zenon
<1>4. V # {}
  OBVIOUS
<1> HIDE DEF V
<1>5. PICK f : Recursive(n, V, step, f)
  BY <1>2, <1>3, <1>4, Recursion
<1>6. Collects(n, own, below, f)
  BY <1>1, <1>5 DEF Recursive, Collects
<1> QED BY <1>6

(* A finite set of numbers has a number of every rank.                     *)
LEMMA Ranks ==
  ASSUME NEW S \in SUBSET Nat, IsFiniteSet(S), NEW i \in Nat, i < Cardinality(S)
  PROVE  \E u \in S : Cardinality({v \in S : v < u}) = i
<1> DEFINE rank(u) == Cardinality({v \in S : v < u})
           Ranked(n) == \E u \in S : rank(u) = n
           T == {n \in 0 .. i : Ranked(n)}
<1>1. 0 \in T
  <2>1. S # {}
    BY FS_EmptySet
  <2>2. PICK u \in S : \A v \in S : u <= v
    BY <2>1, LeastNumber
  <2>3. \A v \in S : ~(v < u)
    BY <2>2
  <2>4. Cardinality({v \in S : v < u}) = 0
    <3>1. {v \in S : v < u} = {}
      BY <2>3
    <3> QED BY <3>1, FS_EmptySet
  <2> QED BY <2>4
<1>2. ASSUME NEW n \in 1 .. i, n - 1 \in T
      PROVE  n \in T
  <2>1. PICK u \in S : Cardinality({v \in S : v < u}) = n - 1
    BY <1>2
  <2>2. PICK A, B : A = {v \in S : v < u} /\ B = {v \in S : v <= u}
    OBVIOUS
  <2>3. IsFiniteSet(A) /\ B = A \cup {u} /\ u \notin A
    <3>1. A \in SUBSET S
      BY <2>2
    <3>2. IsFiniteSet(A)
      BY <3>1, FS_Subset
    <3>3. \A v \in S : v <= u <=> v < u \/ v = u
      OBVIOUS
    <3>4. B = A \cup {u}
      BY <2>2, <3>3
    <3>5. u \notin A
      BY <2>2
    <3> QED BY <3>2, <3>4, <3>5
  <2>4. Cardinality(B) = n
    <3>1. Cardinality(B) = Cardinality(A) + 1
      BY <2>3, FS_AddElement
    <3> QED BY <2>1, <2>2, <3>1
  <2>5. S \ B # {}
    <3>1. B # S
      BY <2>4
    <3> QED BY <2>2, <3>1
  <2>6. PICK m \in S \ B : \A v \in S \ B : m <= v
    <3>1. S \ B \in SUBSET Nat
      OBVIOUS
    <3> QED BY <2>5, <3>1, LeastNumber
  <2>7. {v \in S : v < m} = B
    <3>1. \A v \in S : v < m <=> v <= u
      <4> TAKE v \in S
      <4>1. m > u /\ m \in Nat
        BY <2>2, <2>6
      <4>2. ~(v <= u) => m <= v
        BY <2>2, <2>6
      <4> QED BY <4>1, <4>2
    <3> QED BY <2>2, <3>1
  <2>8. Ranked(n)
    <3>1. m \in S /\ rank(m) = n
      BY <2>4, <2>6, <2>7
    <3> HIDE DEF rank
    <3> QED BY <3>1
  <2> HIDE DEF Ranked
  <2> QED BY <2>8
<1>3. \A n \in 0 .. i : n \in T
  <2> HIDE DEF T
  <2> QED BY <1>1, <1>2, Preserved
<1>4. i \in T
  BY <1>3
<1> QED BY <1>4

-----------------------------------------------------------------------------
(* Multiples.                                                              *)

(* The next multiple.                                                      *)
LEMMA Distribution ==
  ASSUME NEW q \in Nat, NEW s \in Nat
  PROVE  q * s \in Nat /\ (q + 1) * s = q * s + s
  OBVIOUS

(* Every number lies between two multiples.                                *)
LEMMA Floor ==
  ASSUME NEW s \in Nat \ {0}, NEW x \in Nat
  PROVE  \E q \in Nat : q * s <= x /\ x < q * s + s
<1> DEFINE Between(y, q) == q * s <= y /\ y < q * s + s
           T == {y \in Nat : \E q \in Nat : Between(y, q)}
<1>1. 0 \in T
  <2>1. Between(0, 0)
    OBVIOUS
  <2> HIDE DEF Between
  <2> QED BY <2>1
<1>2. ASSUME NEW y \in 1 .. x, y - 1 \in T
      PROVE  y \in T
  <2>1. PICK q \in Nat : Between(y - 1, q)
    BY <1>2
  <2>2. PICK a : a = q * s
    OBVIOUS
  <2>3. a \in Nat /\ (q + 1) * s = a + s
    BY <2>2, Distribution
  <2>4. a <= y - 1 /\ y - 1 < a + s
    BY <2>1, <2>2
  <2>5. y < a + s => Between(y, q)
    BY <2>2, <2>4
  <2>6. y = a + s => Between(y, q + 1)
    BY <2>3
  <2>7. y < a + s \/ y = a + s
    BY <2>3, <2>4
  <2> HIDE DEF Between
  <2>8. y \in Nat /\ q + 1 \in Nat
    OBVIOUS
  <2> QED BY <2>5, <2>6, <2>7, <2>8
<1> HIDE DEF T
<1>3. x \in T
  BY <1>1, <1>2, Preserved
<1> QED BY <1>3 DEF T

(* Larger multiples.                                                       *)
LEMMA Ordered ==
  ASSUME NEW m \in Nat, NEW n \in Nat, m <= n, NEW s \in Nat
  PROVE  m * s <= n * s
<1>1. PICK d \in Nat : n = m + d
  OBVIOUS
<1>2. (m + d) * s = m * s + d * s /\ d * s \in Nat /\ m * s \in Nat
  OBVIOUS
<1> QED BY <1>1, <1>2

(* What meets an interval of n * s numbers meets one of its n parts.       *)
LEMMA PartBetween ==
  ASSUME NEW a \in Nat, NEW s \in Nat \ {0}, NEW n \in Nat \ {0}, NEW o \in Nat,
         NEW l \in Nat \ {0}, a < o + l, o < a + n * s
  PROVE  \E q \in 0 .. n - 1 : a + q * s < o + l /\ o < a + q * s + s
<1>1. PICK x \in Nat : x = IF o <= a THEN 0 ELSE o - a
  OBVIOUS
<1>2. PICK q \in Nat : q * s <= x /\ x < q * s + s
  BY Floor
<1>3. PICK y, z : y = q * s /\ z = n * s
  OBVIOUS
<1>4. y \in Nat /\ z \in Nat
  BY <1>3, Distribution
<1>5. x < z
  <2>1. o < a + z
    BY <1>3
  <2>2. z > 0
    <3>1. 1 * s <= n * s
      <4>1. 1 <= n
        OBVIOUS
      <4> QED BY <4>1, Ordered
    <3> QED BY <1>3, <1>4, <3>1
  <2> QED BY <1>1, <1>4, <2>1, <2>2
<1>6. q < n
  <2> SUFFICES ASSUME n <= q
               PROVE  FALSE
    OBVIOUS
  <2>1. z <= y
    BY <1>3, Ordered
  <2> QED BY <1>2, <1>3, <1>4, <1>5, <2>1
<1>7. a + y < o + l /\ o < a + y + s
  BY <1>1, <1>2, <1>3, <1>4
<1> QED BY <1>3, <1>6, <1>7

(* Dividing with a remainder.                                              *)
LEMMA Division ==
  ASSUME NEW b \in Nat, NEW s \in Nat \ {0}, NEW j \in 0 .. s - 1
  PROVE  (b * s + j) \div s = b /\ (b * s + j) % s = j
<1>1. PICK x, y : y = b * s /\ x = y + j
  OBVIOUS
<1>2. x \in Nat /\ y \in Nat
  BY <1>1, Distribution
<1>3. PICK q : q = x \div s
  OBVIOUS
<1>4. q \in Nat /\ q * s <= x /\ x < q * s + s /\ x % s = x - q * s
  BY <1>2, <1>3
<1>5. PICK z : z = q * s
  OBVIOUS
<1>6. z \in Nat /\ (q + 1) * s = z + s /\ (b + 1) * s = y + s
  BY <1>1, <1>4, <1>5, Distribution
<1>7. ~(b + 1 <= q)
  <2>1. b + 1 <= q => y + s <= z
    BY <1>4, <1>5, <1>6, Ordered
  <2> QED BY <1>1, <1>2, <1>4, <1>5, <1>6, <2>1
<1>8. ~(q + 1 <= b)
  <2>1. q + 1 <= b => z + s <= y
    BY <1>1, <1>4, <1>6, Ordered
  <2> QED BY <1>1, <1>2, <1>4, <1>5, <1>6, <2>1
<1>9. q = b
  BY <1>4, <1>7, <1>8
<1>10. x % s = j
  BY <1>1, <1>2, <1>4, <1>9
<1> QED BY <1>1, <1>3, <1>9, <1>10

(* Dividing a multiple.                                                    *)
LEMMA Multiple ==
  ASSUME NEW m \in Nat, NEW s \in Nat \ {0}
  PROVE  (m * s) \div s = m
  OBVIOUS

-----------------------------------------------------------------------------
(* Paths.                                                                  *)

Leads(D, next, q) ==
  /\ q # << >>
  /\ \A k \in 1 .. Len(q) - 1 : q[k] \in D /\ q[k + 1] = next[q[k]]

(* A path follows next until that ends, or is cut.                         *)
LEMMA PathFacts ==
  ASSUME NEW D, IsFiniteSet(D), NEW V, NEW next \in [D -> V], NEW p \in V
  PROVE  /\ Path(next, p) \in Seq(V) /\ Leads(D, next, Path(next, p))
         /\ Path(next, p)[1] = p
         /\ Len(Path(next, p)) = Cardinality(D) + 1 \/ Last(Path(next, p)) \notin D
<1> DEFINE n == Cardinality(D)
           W == Seq(V) \ {<< >>}
           Longer(w) == IF Last(w) \in D THEN Append(w, next[Last(w)]) ELSE w
           One(g, i) == IF i = 0 THEN <<p>> ELSE Longer(g[i - 1])
           step == [q \in (0 .. n) \X [0 .. n -> W] |-> One(q[2], q[1])]
<1>1. n \in Nat
  BY FS_CardinalityType
<1>2. <<p>> \in W
  OBVIOUS
<1>3. \A w \in W : Longer(w) \in W
  <2> TAKE w \in W
  <2>1. w # << >> /\ Last(w) = w[Len(w)]
    BY DEF Last
  <2>2. Last(w) \in D => Append(w, next[Last(w)]) \in Seq(V) /\ Append(w, next[Last(w)]) # << >>
    <3> HAVE Last(w) \in D
    <3>1. next[Last(w)] \in V
      OBVIOUS
    <3>2. PICK a : a = next[Last(w)] /\ a \in V
      BY <3>1
    <3>3. Append(w, a) \in Seq(V) /\ Len(Append(w, a)) = Len(w) + 1
      BY <3>2
    <3>4. Append(w, a) # << >>
      BY <3>3
    <3> QED BY <3>2, <3>3, <3>4
  <2> QED BY <2>2
<1>4. \A i \in 0 .. n : \A g \in [0 .. n -> W] : One(g, i) \in W
  <2> TAKE i \in 0 .. n
  <2> TAKE g \in [0 .. n -> W]
  <2>1. i # 0 => g[i - 1] \in W
    BY <1>1
  <2> HIDE DEF W, Longer
  <2> QED BY <1>2, <1>3, <2>1
<1>5. \A i \in 0 .. n : \A g \in [0 .. n -> W] : step[<<i, g>>] = One(g, i)
  <2> HIDE DEF One
  <2> QED OBVIOUS
<1>6. PICK f : Recursive(n, W, step, f)
  <2>1. step \in Steps(n, W)
    <3> HIDE DEF W, One
    <3> QED BY <1>4 DEF Steps
  <2>2. Causal(n, W, step)
    <3> SUFFICES ASSUME NEW i \in 0 .. n, NEW g \in [0 .. n -> W], NEW h \in [0 .. n -> W],
                        \A j \in 0 .. i - 1 : g[j] = h[j]
                 PROVE  step[<<i, g>>] = step[<<i, h>>]
      BY Zenon DEF Causal
    <3>1. i # 0 => g[i - 1] = h[i - 1]
      BY <1>1
    <3>2. One(g, i) = One(h, i)
      <4> HIDE DEF Longer
      <4> QED BY <3>1
    <3> HIDE DEF One, step, W
    <3> QED BY <1>5, <3>2
  <2>3. W # {}
    BY <1>2
  <2> HIDE DEF step, W
  <2> QED BY <1>1, <2>1, <2>2, <2>3, Recursion
<1>7. f \in [0 .. n -> W] /\ f = [i \in 0 .. n |-> One(f, i)]
  <2> HIDE DEF step, W, One
  <2>1. f \in [0 .. n -> W] /\ f = [i \in 0 .. n |-> step[<<i, f>>]]
    BY <1>6 DEF Recursive
  <2>2. \A i \in 0 .. n : f[i] = step[<<i, f>>]
    BY <2>1
  <2>3. \A i \in 0 .. n : f[i] = One(f, i)
    BY <1>5, <2>1, <2>2
  <2> QED BY <2>1, <2>3
<1> DEFINE met == CHOOSE g : g = [i \in 0 .. n |-> One(g, i)]
<1>8. met = [i \in 0 .. n |-> One(met, i)]
  <2>1. \E g : g = [i \in 0 .. n |-> One(g, i)]
    BY <1>7
  <2> HIDE DEF One
  <2> QED BY <2>1, Zenon
<1>9. Path(next, p) = met[n]
  <2>1. DOMAIN next = D
    OBVIOUS
  <2> QED BY <2>1, Zenon DEF Path
<1> HIDE DEF met
<1>10. met[0] = <<p>> /\ \A i \in 1 .. n : met[i] = Longer(met[i - 1])
  <2> HIDE DEF Longer
  <2> QED BY <1>1, <1>8
<1> DEFINE Good(i) == /\ met[i] \in Seq(V) /\ Leads(D, next, met[i]) /\ met[i][1] = p
                      /\ Len(met[i]) = i + 1 \/ Last(met[i]) \notin D
           T == {i \in Nat : i <= n => Good(i)}
<1>11. ASSUME NEW i \in Nat, \A j \in 0 .. i - 1 : j \in T, i <= n
       PROVE  Good(i)
  <2>1. CASE i = 0
    <3>1. PICK w : w = <<p>>
      OBVIOUS
    <3>2. w \in Seq(V) /\ Len(w) = 1 /\ w[1] = p
      BY <3>1
    <3>3. met[i] = w
      BY <1>10, <2>1, <3>1
    <3>4. w # << >>
      BY <1>2, <3>1
    <3>5. Leads(D, next, w) /\ Len(w) = i + 1
      BY <2>1, <3>2, <3>4 DEF Leads
    <3> QED BY <3>2, <3>3, <3>5
  <2>2. CASE i # 0
    <3>1. Good(i - 1)
      <4>1. i - 1 \in 0 .. i - 1 /\ i - 1 <= n
        BY <1>1, <1>11, <2>2
      <4> HIDE DEF Good
      <4> QED BY <1>11, <4>1
    <3>2. PICK w : w = met[i - 1]
      OBVIOUS
    <3>3. /\ w \in Seq(V) /\ Leads(D, next, w) /\ w[1] = p
          /\ Len(w) = i \/ Last(w) \notin D
      BY <3>1, <3>2
    <3>4. Len(w) \in Nat \ {0} /\ Last(w) = w[Len(w)]
      BY <3>3, SeqParts DEF Leads
    <3>5. met[i] = Longer(w)
      BY <1>10, <1>11, <2>2, <3>2
    <3>6. CASE Last(w) \notin D
      <4>1. met[i] = w
        BY <3>5, <3>6
      <4> QED BY <3>3, <3>6, <4>1
    <3>7. CASE Last(w) \in D
      <4>1. PICK a : a = next[Last(w)] /\ a \in V
        BY <3>7
      <4>2. PICK v : v = Append(w, a)
        OBVIOUS
      <4>3. /\ v \in Seq(V) /\ Len(v) = Len(w) + 1 /\ v[Len(w) + 1] = a
            /\ \A k \in 1 .. Len(w) : v[k] = w[k]
        BY <3>3, <4>1, <4>2
      <4>4. met[i] = v
        BY <3>5, <3>7, <4>1, <4>2
      <4>5. v # << >>
        BY <3>4, <4>3
      <4>6. \A k \in 1 .. Len(v) - 1 : v[k] \in D /\ v[k + 1] = next[v[k]]
        <5> TAKE k \in 1 .. Len(v) - 1
        <5>1. CASE k = Len(w)
          BY <3>4, <3>7, <4>1, <4>3, <5>1
        <5>2. CASE k # Len(w)
          <6>1. k \in 1 .. Len(w) - 1 /\ k + 1 \in 1 .. Len(w) /\ k \in 1 .. Len(w)
            BY <3>4, <4>3, <5>2
          <6> QED BY <3>3, <4>3, <6>1 DEF Leads
        <5> QED BY <5>1, <5>2
      <4>7. v[1] = p
        BY <3>3, <3>4, <4>3
      <4>8. Len(v) = i + 1
        BY <3>3, <3>7, <4>3
      <4> QED BY <4>3, <4>4, <4>5, <4>6, <4>7, <4>8 DEF Leads
    <3> QED BY <3>6, <3>7
  <2> QED BY <2>1, <2>2
<1>12. \A i \in Nat : (\A j \in 0 .. i - 1 : j \in T) => i \in T
  <2> HIDE DEF Good
  <2> QED BY <1>11
<1>13. n \in T
  <2> HIDE DEF T
  <2> QED BY <1>1, <1>12, Induction
<1> QED BY <1>1, <1>9, <1>13

(* A path that ends in time is the only one.                               *)
LEMMA PathIs ==
  ASSUME NEW D, IsFiniteSet(D), NEW V, NEW next \in [D -> V], NEW q \in Seq(V),
         Leads(D, next, q), Last(q) \notin D, Len(q) <= Cardinality(D) + 1
  PROVE  Path(next, q[1]) = q
<1>1. Len(q) \in Nat \ {0} /\ Last(q) = q[Len(q)] /\ q[1] \in V
  <2>1. Len(q) \in Nat \ {0} /\ Last(q) = q[Len(q)]
    BY SeqParts DEF Leads
  <2> QED BY <2>1
<1>2. PICK r : r = Path(next, q[1])
  OBVIOUS
<1>3. /\ r \in Seq(V) /\ Leads(D, next, r) /\ r[1] = q[1]
      /\ Len(r) = Cardinality(D) + 1 \/ Last(r) \notin D
  BY <1>1, <1>2, PathFacts
<1>4. Len(r) \in Nat \ {0} /\ Last(r) = r[Len(r)]
  BY <1>3, SeqParts DEF Leads
<1> DEFINE T == {k \in Nat : k \in 1 .. Len(q) /\ k <= Len(r) => r[k] = q[k]}
<1>5. ASSUME NEW k \in Nat, \A j \in 0 .. k - 1 : j \in T, k \in 1 .. Len(q), k <= Len(r)
      PROVE  r[k] = q[k]
  <2>1. CASE k = 1
    BY <1>3, <2>1
  <2>2. CASE k # 1
    <3>1. k - 1 \in 0 .. k - 1 /\ k - 1 \in 1 .. Len(q) - 1 /\ k - 1 \in 1 .. Len(r) - 1
      BY <1>1, <1>4, <1>5, <2>2
    <3>2. r[k - 1] = q[k - 1]
      BY <1>1, <1>5, <3>1
    <3>3. (k - 1) + 1 = k
      OBVIOUS
    <3> QED BY <1>3, <3>1, <3>2, <3>3 DEF Leads
  <2> QED BY <2>1, <2>2
<1>6. \A k \in Nat : (\A j \in 0 .. k - 1 : j \in T) => k \in T
  BY <1>5
<1> HIDE DEF T
<1>7. \A k \in Nat : k \in T
  BY <1>6, Induction
<1>8. \A k \in 1 .. Len(q) : k <= Len(r) => r[k] = q[k]
  BY <1>1, <1>7 DEF T
<1>9. Len(r) = Len(q)
  <2>1. ASSUME Len(r) < Len(q)
        PROVE  FALSE
    <3>1. Len(r) \in 1 .. Len(q) - 1 /\ Len(r) \in 1 .. Len(q)
      BY <1>1, <1>4, <2>1
    <3>2. r[Len(r)] = q[Len(r)] /\ q[Len(r)] \in D
      BY <1>4, <1>8, <3>1 DEF Leads
    <3> QED BY <1>3, <1>4, <2>1, <3>2, FS_CardinalityType
  <2>2. ASSUME Len(r) > Len(q)
        PROVE  FALSE
    <3>1. Len(q) \in 1 .. Len(r) - 1 /\ Len(q) \in 1 .. Len(q)
      BY <1>1, <1>4, <2>2
    <3> QED BY <1>1, <1>3, <1>4, <1>8, <2>2, <3>1 DEF Leads
  <2> QED BY <1>1, <1>4, <2>1, <2>2
<1>10. r = q
  <2>1. \A k \in 1 .. Len(q) : r[k] = q[k]
    BY <1>1, <1>8, <1>9
  <2> QED BY <1>3, <1>9, <2>1
<1> QED BY <1>2, <1>10
=============================================================================
