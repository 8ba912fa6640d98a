---------------------------- MODULE StackProofs ----------------------------
(***************************************************************************)
(* The frames implement one stack of activations (JvmStack), as long as no *)
(* class is loaded in the middle of a method and no method is invoked that *)
(* is active.  An activation is read off the chain of frames: its method's *)
(* buffers, the return address in the frame above it, and the locals.      *)
(***************************************************************************)
EXTENDS FramesProofs, StackRefinement

-----------------------------------------------------------------------------
(* Sequences that differ at the end.                                       *)

(* Sequences with the same elements are equal.                             *)
LEMMA SameSeq ==
  ASSUME NEW S, NEW s \in Seq(S), NEW t \in Seq(S), Len(s) = Len(t),
         \A i \in 1 .. Len(s) : s[i] = t[i]
  PROVE  s = t
<1>1. \A u \in Seq(S) : u = [i \in 1 .. Len(u) |-> u[i]]
  OBVIOUS
<1>2. s = [i \in 1 .. Len(s) |-> s[i]] /\ t = [i \in 1 .. Len(s) |-> t[i]]
  BY <1>1
<1> QED BY <1>2

(* What is below the last element.                                         *)
LEMMA Lower ==
  ASSUME NEW S, NEW s \in Seq(S), s # << >>
  PROVE  /\ Len(s) \in Nat \ {0}
         /\ SubSeq(s, 1, Len(s) - 1) \in Seq(S)
         /\ Len(SubSeq(s, 1, Len(s) - 1)) = Len(s) - 1
         /\ \A i \in 1 .. Len(s) - 1 : SubSeq(s, 1, Len(s) - 1)[i] = s[i]
<1>1. Len(s) \in Nat \ {0}
  OBVIOUS
<1>2. ASSUME NEW n \in Nat, n <= Len(s)
      PROVE  /\ SubSeq(s, 1, n) \in Seq(S) /\ Len(SubSeq(s, 1, n)) = n
             /\ \A i \in 1 .. n : SubSeq(s, 1, n)[i] = s[i]
  BY <1>2
<1>3. PICK n \in Nat : n = Len(s) - 1
  BY <1>1
<1> QED BY <1>1, <1>2, <1>3

(* What an element is appended to.                                         *)
LEMMA Appended ==
  ASSUME NEW S, NEW s \in Seq(S), NEW x \in S
  PROVE  /\ Append(s, x) \in Seq(S) /\ Len(Append(s, x)) = Len(s) + 1
         /\ Append(s, x)[Len(s) + 1] = x
         /\ \A i \in 1 .. Len(s) : Append(s, x)[i] = s[i]
OBVIOUS

(* A sequence that changes in its last element.                            *)
LEMMA SameBelow ==
  ASSUME NEW S, NEW s \in Seq(S), NEW t \in Seq(S), s # << >>, Len(t) = Len(s),
         \A i \in 1 .. Len(s) - 1 : t[i] = s[i]
  PROVE  t = Append(SubSeq(s, 1, Len(s) - 1), t[Len(s)])
<1>1. Len(s) \in Nat \ {0}
  BY Lower
<1>2. PICK b \in Seq(S) : /\ b = SubSeq(s, 1, Len(s) - 1) /\ Len(b) = Len(s) - 1
                          /\ \A i \in 1 .. Len(s) - 1 : b[i] = s[i]
  BY Lower
<1>3. PICK x \in S : x = t[Len(s)]
  BY <1>1
<1> PICK u : u = Append(b, x)
  OBVIOUS
<1>4. /\ u \in Seq(S) /\ Len(u) = Len(b) + 1 /\ u[Len(b) + 1] = x
      /\ \A i \in 1 .. Len(b) : u[i] = b[i]
  BY <1>2, Appended
<1>5. Len(u) = Len(t) /\ \A i \in 1 .. Len(u) : u[i] = t[i]
  BY <1>1, <1>2, <1>3, <1>4
<1>6. u = t
  BY <1>5, SameSeq
<1> QED BY <1>2, <1>3, <1>4, <1>6

(* A sequence that changes in its last element and grows by one.           *)
LEMMA OneMore ==
  ASSUME NEW S, NEW s \in Seq(S), NEW t \in Seq(S), s # << >>, Len(t) = Len(s) + 1,
         \A i \in 1 .. Len(s) - 1 : t[i] = s[i]
  PROVE  t = Append(Append(SubSeq(s, 1, Len(s) - 1), t[Len(s)]), t[Len(t)])
<1>1. Len(s) \in Nat \ {0}
  BY Lower
<1>2. PICK b \in Seq(S) : /\ b = SubSeq(s, 1, Len(s) - 1) /\ Len(b) = Len(s) - 1
                          /\ \A i \in 1 .. Len(s) - 1 : b[i] = s[i]
  BY Lower
<1>3. /\ \E x \in S : x = t[Len(s)]
      /\ \E y \in S : y = t[Len(t)]
  BY <1>1
<1> PICK x \in S, y \in S : x = t[Len(s)] /\ y = t[Len(t)]
  BY <1>3
<1> PICK u : u = Append(b, x)
  OBVIOUS
<1>4. /\ u \in Seq(S) /\ Len(u) = Len(b) + 1 /\ u[Len(b) + 1] = x
      /\ \A i \in 1 .. Len(b) : u[i] = b[i]
  BY <1>2, Appended
<1> PICK v : v = Append(u, y)
  OBVIOUS
<1>5. /\ v \in Seq(S) /\ Len(v) = Len(u) + 1 /\ v[Len(u) + 1] = y
      /\ \A i \in 1 .. Len(u) : v[i] = u[i]
  BY <1>2, Appended
<1>6. Len(v) = Len(t) /\ \A i \in 1 .. Len(v) : v[i] = t[i]
  <2>1. Len(b) = Len(s) - 1 /\ Len(u) = Len(s) /\ Len(v) = Len(s) + 1
    BY <1>1, <1>2, <1>4, <1>5
  <2>2. v[Len(s) + 1] = t[Len(s) + 1] /\ u[Len(s)] = t[Len(s)] /\ v[Len(s)] = u[Len(s)]
    BY <1>1, <1>4, <1>5, <2>1
  <2>3. \A i \in 1 .. Len(s) - 1 : v[i] = t[i]
    BY <1>1, <1>2, <1>4, <1>5, <2>1
  <2>4. \A i \in 1 .. Len(v) : i \in 1 .. Len(s) - 1 \/ i = Len(s) \/ i = Len(s) + 1
    BY <1>1, <2>1
  <2> QED BY <2>1, <2>2, <2>3, <2>4
<1>7. v = t
  BY <1>6, SameSeq
<1> QED BY <1>2, <1>4, <1>5, <1>7

(* A sequence that loses its last element.                                 *)
LEMMA OneLess ==
  ASSUME NEW S, NEW s \in Seq(S), NEW t \in Seq(S), s # << >>, Len(t) = Len(s) - 1,
         \A i \in 1 .. Len(s) - 1 : t[i] = s[i]
  PROVE  t = SubSeq(s, 1, Len(s) - 1)
<1>1. PICK b \in Seq(S) : /\ b = SubSeq(s, 1, Len(s) - 1) /\ Len(b) = Len(s) - 1
                          /\ \A i \in 1 .. Len(s) - 1 : b[i] = s[i]
  BY Lower
<1> QED BY <1>1, SameSeq

-----------------------------------------------------------------------------
(* The frames of a walk.                                                   *)

(* From a copy, a walk meets copies only.                                  *)
LEMMA CopyWalks ==
  ASSUME NEW n \in Nat, NEW prev, Forest(prev, n)
  PROVE  \A k \in 1 .. n : Walk(prev)[k] \in Seq(1 .. n)
<1> DEFINE V == Seq(1 .. n)
           T == {k \in Nat : k \in 1 .. n => Walk(prev)[k] \in V}
<1>1. ASSUME NEW k \in Nat, \A j \in 0 .. k - 1 : j \in T, k \in 1 .. n
      PROVE  Walk(prev)[k] \in V
  <2>1. Unfolds(prev, k)
    BY <1>1, WalkUnfolds
  <2>2. prev[k] # NULL => Walk(prev)[prev[k]] \in V
    <3>1. prev[k] # NULL => prev[k] \in 1 .. n /\ prev[k] \in 0 .. k - 1
      BY <1>1 DEF Forest
    <3> HIDE DEF V
    <3> QED BY <1>1, <3>1
  <2>3. <<k>> \in V /\ \A w \in V : Append(w, k) \in V
    BY <1>1
  <2> HIDE DEF V
  <2> QED BY <2>1, <2>2, <2>3 DEF Unfolds
<1>2. \A k \in Nat : (\A j \in 0 .. k - 1 : j \in T) => k \in T
  BY <1>1
<1> HIDE DEF T
<1>3. \A k \in Nat : k \in T
  BY <1>2, Induction
<1> QED BY <1>3 DEF T

(* Below the frame a, walk c has copies only.                              *)
Ends(c, a, n) ==
  /\ Len(c) \in Nat \ {0} /\ c[Len(c)] = a
  /\ \A i \in 1 .. Len(c) - 1 : c[i] \in 1 .. n

(* A walk ends with the frame it is of, and what is below are copies.      *)
LEMMA WalkEnds ==
  ASSUME NEW n \in Nat, NEW prev, Forest(prev, n), NEW a \in Methods \cup 1 .. n
  PROVE  Ends(Walk(prev)[a], a, n)
<1>1. Unfolds(prev, a)
  BY WalkUnfolds
<1>2. CASE prev[a] = NULL
  BY <1>1, <1>2 DEF Unfolds, Ends
<1>3. CASE prev[a] # NULL
  <2>1. prev[a] \in 1 .. n
    BY <1>3 DEF Forest
  <2>2. PICK w \in Seq(1 .. n) : w = Walk(prev)[prev[a]]
    BY <2>1, CopyWalks
  <2>3. Walk(prev)[a] = Append(w, a)
    BY <1>1, <1>3, <2>2 DEF Unfolds
  <2> QED BY <2>3 DEF Ends
<1> QED BY <1>2, <1>3

(* The chain ends at the current frame.                                    *)
LEMMA ChainEnds ==
  ASSUME IInv, ChainInv, Executing
  PROVE  Ends(Chain, cur, invokes)
<1>1. cur \in Methods \cup 1 .. invokes /\ TypeOK
  BY ExecutionFacts DEF IInv
<1> QED BY <1>1, Links, WalkEnds DEF Chain

-----------------------------------------------------------------------------
(* The activations.                                                        *)

(* The activation of the i-th frame of a walk.                             *)
View(c, i) ==
  [meth  |-> frame[c[i]].buf,
   at    |-> IF i < Len(c) THEN frame[c[i + 1]].ret.at
             ELSE IF pc = NULL THEN 0 ELSE pc.at,
   local |-> locals[frame[c[i]].buf]]
Shown(c) == [i \in 1 .. Len(c) |-> View(c, i)]

(* No two frames of the chain belong to one method.                        *)
Distinct(c) ==
  \A i, j \in 1 .. Len(c) : i # j => frame[c[i]].buf # frame[c[j]].buf
DistinctInv == status = "run" /\ depth > 0 => Distinct(Chain)

(* No method is invoked that is active.                                    *)
NoReentry ==
  \A m \in Methods : Invoke(m) => \A i \in 1 .. Len(Chain) : frame[Chain[i]].buf # m

(* The activations of a walk are a sequence.                               *)
LEMMA ShownSeq ==
  ASSUME NEW c, Len(c) \in Nat \ {0}, NEW S, \A i \in 1 .. Len(c) : View(c, i) \in S
  PROVE  /\ Shown(c) \in Seq(S) /\ Len(Shown(c)) = Len(c) /\ Shown(c) # << >>
         /\ \A i \in 1 .. Len(c) : Shown(c)[i] = View(c, i)
<1>1. /\ Shown(c) \in [1 .. Len(c) -> S]
      /\ \A i \in 1 .. Len(c) : Shown(c)[i] = View(c, i)
  BY DEF Shown
<1>2. Shown(c) \in Seq(S) /\ Len(Shown(c)) = Len(c)
  BY <1>1
<1> QED BY <1>1, <1>2

(* Two walks and what they show can be taken from one set.                 *)
LEMMA BothShown ==
  ASSUME NEW c, NEW d, Len(c) \in Nat \ {0}, Len(d) \in Nat \ {0}
  PROVE  \E S : /\ Shown(c) \in Seq(S) /\ Shown(d)' \in Seq(S)
                /\ Len(Shown(c)) = Len(c) /\ Len(Shown(d)') = Len(d) /\ Shown(c) # << >>
                /\ \A i \in 1 .. Len(c) : Shown(c)[i] = View(c, i)
                /\ \A i \in 1 .. Len(d) : Shown(d)'[i] = View(d, i)'
<1> PICK S : S = {View(c, i) : i \in 1 .. Len(c)} \cup {View(d, i)' : i \in 1 .. Len(d)}
  OBVIOUS
<1>1. (\A i \in 1 .. Len(c) : View(c, i) \in S) /\ (\A i \in 1 .. Len(d) : View(d, i)' \in S)
  OBVIOUS
<1>2. /\ Shown(c) \in Seq(S) /\ Len(Shown(c)) = Len(c) /\ Shown(c) # << >>
      /\ \A i \in 1 .. Len(c) : Shown(c)[i] = View(c, i)
  BY <1>1, ShownSeq
<1>3. /\ Shown(d)' \in [1 .. Len(d) -> S]
      /\ \A i \in 1 .. Len(d) : Shown(d)'[i] = View(d, i)'
  BY <1>1 DEF Shown
<1>4. Shown(d)' \in Seq(S) /\ Len(Shown(d)') = Len(d)
  BY <1>3
<1> QED BY <1>2, <1>3, <1>4

-----------------------------------------------------------------------------
(* Steps within a method.                                                  *)

(* The pc moves forward, and no other method's locals change.              *)
Advance ==
  /\ Executing /\ pc' \in Addr /\ pc'.at > pc.at
  /\ \A a \in DOMAIN frame : frame'[a].buf = frame[a].buf /\ frame'[a].ret = frame[a].ret
  /\ locals' \in [Methods -> Nat]
  /\ \A m \in Methods \ {Top.buf} : locals'[m] = locals[m]

(* The frames of a walk are frames, and their buffers a method's.          *)
LEMMA WalkFrames ==
  ASSUME TypeOK, NEW c, NEW a \in Methods \cup 1 .. invokes, Ends(c, a, invokes)
  PROVE  \A i \in 1 .. Len(c) :
           /\ c[i] \in Methods \cup 1 .. invokes /\ c[i] \in DOMAIN frame
           /\ frame[c[i]] \in Frame /\ frame[c[i]].buf \in Methods
<1>1. frame \in [Methods \cup 1 .. invokes -> Frame]
  BY DEF TypeOK
<1>2. ASSUME NEW i \in 1 .. Len(c) PROVE c[i] \in Methods \cup 1 .. invokes
  <2>1. i \in 1 .. Len(c) - 1 \/ i = Len(c)
    BY DEF Ends
  <2> QED BY <2>1 DEF Ends
<1>3. ASSUME NEW i \in 1 .. Len(c)
      PROVE  c[i] \in DOMAIN frame /\ frame[c[i]] \in Frame
  BY <1>1, <1>2
<1> QED BY <1>2, <1>3 DEF Frame

(* Such a step is the top activation's.                                    *)
LEMMA AdvanceStep ==
  ASSUME IInv, IInv', ChainInv, DistinctInv, LocalMove, Advance,
         Nat \subseteq Positions, Nat \subseteq Values
  PROVE  Stack!Execute /\ DistinctInv'
<1>1. PICK c : c = Chain
  OBVIOUS
<1>2. /\ Executing /\ TypeOK /\ depth > 0 /\ depth' = depth /\ pc \in Addr /\ pc # NULL
      /\ cur \in Methods \cup 1 .. invokes /\ Top.buf \in Methods /\ depth \in Nat
  BY ExecutionFacts DEF Advance, LocalMove, Executing, IInv, TypeOK, Frame
<1>3. Ends(c, cur, invokes) /\ Chain' = c /\ Distinct(c)
  BY <1>1, <1>2, ChainEnds, LocalChain DEF DistinctInv, Executing
<1>4. PICK n \in Nat \ {0} : n = Len(c) /\ c[n] = cur
  BY <1>3 DEF Ends
<1>5. \A i \in 1 .. n : c[i] \in DOMAIN frame /\ frame[c[i]].buf \in Methods
  BY <1>2, <1>3, <1>4, WalkFrames
<1>6. \A i \in 1 .. n : frame'[c[i]].buf = frame[c[i]].buf /\ frame'[c[i]].ret = frame[c[i]].ret
  BY <1>5 DEF Advance
<1>7. activations = Shown(c) /\ activations' = Shown(c)'
  <2>1. depth # 0 /\ depth' # 0
    BY <1>2
  <2> QED BY <1>1, <1>3, <2>1 DEF activations, Shown, View
<1>8. ASSUME NEW i \in 1 .. n - 1
      PROVE  View(c, i)' = View(c, i)
  <2>1. i \in 1 .. n /\ i + 1 \in 1 .. n /\ i < n /\ n \in 1 .. n
    BY <1>8
  <2>2. frame[c[i]].buf # Top.buf
    BY <1>3, <1>4, <2>1 DEF Distinct, Top
  <2>3. locals'[frame[c[i]].buf] = locals[frame[c[i]].buf]
    BY <1>5, <2>1, <2>2 DEF Advance
  <2> QED BY <1>4, <1>6, <2>1, <2>3 DEF View
<1>9. PICK v \in Nat : v = locals'[Top.buf]
  BY <1>2 DEF Advance
<1>10. PICK p \in Nat : p = pc'.at /\ p > pc.at
  BY DEF Advance, Addr
<1>11. /\ View(c, n) = [meth |-> Top.buf, at |-> pc.at, local |-> locals[Top.buf]]
       /\ View(c, n)' = [meth |-> Top.buf, at |-> p, local |-> v]
  <2>1. n \in 1 .. n /\ ~(n < n) /\ pc' # NULL
    BY NameAssumption DEF Advance
  <2> QED BY <1>2, <1>4, <1>6, <1>9, <1>10, <2>1 DEF View, Top
<1>12. PICK S : /\ Shown(c) \in Seq(S) /\ Shown(c)' \in Seq(S)
                /\ Len(Shown(c)) = n /\ Len(Shown(c)') = n /\ Shown(c) # << >>
                /\ \A i \in 1 .. n : Shown(c)[i] = View(c, i)
                /\ \A i \in 1 .. n : Shown(c)'[i] = View(c, i)'
  BY <1>4, BothShown
<1>13. PICK s \in Seq(S), t \in Seq(S) : s = Shown(c) /\ t = Shown(c)'
  BY <1>12
<1>14. /\ s # << >> /\ Len(t) = Len(s) /\ Len(s) = n
       /\ s[n] = View(c, n) /\ t[n] = View(c, n)'
       /\ \A i \in 1 .. n - 1 : t[i] = s[i]
  <2>1. \A i \in 1 .. n - 1 : i \in 1 .. n
    OBVIOUS
  <2> QED BY <1>8, <1>12, <1>13, <2>1
<1>15. t = Append(SubSeq(s, 1, Len(s) - 1), t[Len(s)])
  BY <1>14, SameBelow
<1>16. t = Append(SubSeq(s, 1, Len(s) - 1), [s[Len(s)] EXCEPT !.at = p, !.local = v])
  <2>1. PICK q : q = [s[Len(s)] EXCEPT !.at = p]
    OBVIOUS
  <2>2. q = [meth |-> Top.buf, at |-> p, local |-> locals[Top.buf]]
    BY <1>11, <1>14, <2>1
  <2>3. [q EXCEPT !.local = v] = t[Len(s)]
    BY <1>11, <1>14, <2>2
  <2>4. [s[Len(s)] EXCEPT !.at = p, !.local = v]
          = [[s[Len(s)] EXCEPT !.at = p] EXCEPT !.local = v]
    OBVIOUS
  <2> QED BY <1>15, <2>1, <2>3, <2>4
<1>17. Stack!Execute
  <2>1. p \in {q \in Positions : q > s[Len(s)].at} /\ v \in Values
    BY <1>10, <1>11, <1>14
  <2>2. activations = s /\ activations' = t
    BY <1>7, <1>13
  <2> QED BY <1>14, <1>16, <2>1, <2>2 DEF Stack!Execute, Stack!Top, Stack!Below
<1>18. Distinct(c)'
  BY <1>3, <1>4, <1>6 DEF Distinct
<1> QED BY <1>3, <1>17, <1>18 DEF DistinctInv, Distinct

-----------------------------------------------------------------------------
(* Calls, returns and starts.                                              *)

(* An invocation is a call of the method.                                  *)
LEMMA CallStep ==
  ASSUME IInv, IInv', ChainInv, DistinctInv, NEW m \in Methods, Invoke(m), NoReentry,
         Nat \subseteq Positions, Nat \subseteq Values
  PROVE  Stack!Call /\ DistinctInv'
<1>1. PICK c, d, k : c = Chain /\ d = Chain' /\ k = invokes + 1
  OBVIOUS
<1>2. PICK caller : caller = [Top EXCEPT !.off = @ - Popped]
  OBVIOUS
<1>3. PICK static : static = [(IF m = cur THEN caller ELSE frame[m])
                                EXCEPT !.ret = Following(pc), !.prev = k]
  OBVIOUS
<1>4. /\ Executing
      /\ frame' = [a \in DOMAIN frame \cup {k} |->
                     IF a = m THEN static ELSE IF a \in {k, cur} THEN caller ELSE frame[a]]
      /\ pc' = [meth |-> m, at |-> 1] /\ depth' = depth + 1 /\ status' = status
      /\ locals' = IF Popped > 0 THEN [locals EXCEPT ![m] = k] ELSE locals
  BY <1>1, <1>2, <1>3 DEF Invoke
<1>5. /\ TypeOK /\ TypeOK' /\ depth > 0 /\ depth \in Nat /\ pc \in Addr /\ pc # NULL
      /\ cur \in Methods \cup 1 .. invokes /\ Top \in Frame /\ invokes \in Nat
  BY <1>4, ExecutionFacts DEF Executing, IInv, TypeOK
<1>6. /\ Ends(c, cur, invokes) /\ Distinct(c) /\ Pushed(c, d, k, m)
  BY <1>1, <1>4, <1>5, ChainEnds, InvokeChain DEF DistinctInv, Executing
<1>7. PICK n \in Nat \ {0} : n = Len(c) /\ c[n] = cur
  BY <1>6 DEF Ends
<1>8. /\ Len(d) = n + 1 /\ d[n] = k /\ d[n + 1] = m
      /\ \A i \in 1 .. n - 1 : d[i] = c[i] /\ c[i] \in 1 .. invokes
  BY <1>6, <1>7 DEF Pushed, Ends
<1>9. /\ \A i \in 1 .. n : frame[c[i]].buf \in Methods \ {m}
      /\ frame[cur] = Top
  <2>1. \A i \in 1 .. n : frame[c[i]].buf # m
    BY <1>1, <1>7 DEF NoReentry
  <2> QED BY <1>5, <1>6, <1>7, <2>1, WalkFrames DEF Top
<1>10. /\ k \notin Methods \cup 1 .. invokes /\ DOMAIN frame = Methods \cup 1 .. invokes
       /\ m \notin 1 .. invokes /\ frame[m] \in Frame
  <2>1. frame \in [Methods \cup 1 .. invokes -> Frame]
    BY <1>5 DEF TypeOK
  <2>2. k \notin Methods /\ k \notin 1 .. invokes /\ m \notin 1 .. invokes
    BY <1>1, <1>5, NameAssumption
  <2> QED BY <2>1, <2>2
<1>11. /\ caller.buf = Top.buf /\ caller.ret = Top.ret
       /\ static.buf = m /\ static.ret = Following(pc)
  <2>1. caller.buf = Top.buf /\ caller.ret = Top.ret /\ caller \in [buf : Methods, off : {caller.off}, ret : Addr \cup {NULL}, prev : 1 .. invokes \cup {NULL}]
    BY <1>2, <1>5 DEF Frame
  <2>2. frame[m].buf = m
    BY DEF IInv, StaticFrames
  <2>3. m = cur => Top.buf = m
    BY <2>2 DEF Top
  <2> QED BY <1>3, <1>10, <2>1, <2>2, <2>3 DEF Frame
<1>12. /\ frame'[m] = static /\ frame'[k] = caller
       /\ \A a \in 1 .. invokes : frame'[a].buf = frame[a].buf /\ frame'[a].ret = frame[a].ret
  <2>1. frame'[m] = static /\ frame'[k] = caller
    BY <1>4, <1>10
  <2>2. ASSUME NEW a \in 1 .. invokes
        PROVE  frame'[a].buf = frame[a].buf /\ frame'[a].ret = frame[a].ret
    <3>1. a # m /\ a # k /\ a \in DOMAIN frame
      BY <1>10
    <3> QED BY <1>4, <1>9, <1>11, <3>1
  <2> QED BY <2>1, <2>2
<1>13. \A x \in Methods \ {m} : locals'[x] = locals[x]
  BY <1>4
<1>14. activations = Shown(c) /\ activations' = Shown(d)'
  <2>1. depth # 0 /\ depth' # 0
    BY <1>4, <1>5
  <2> QED BY <1>1, <2>1 DEF activations, Shown, View
<1>15. ASSUME NEW i \in 1 .. n - 1
       PROVE  View(d, i)' = View(c, i)
  <2>1. i \in 1 .. n /\ i < n /\ i < n + 1 /\ d[i] = c[i] /\ c[i] \in 1 .. invokes
    BY <1>8, <1>15
  <2>2. frame'[d[i]].buf = frame[c[i]].buf /\ locals'[frame[c[i]].buf] = locals[frame[c[i]].buf]
    BY <1>9, <1>12, <1>13, <2>1
  <2>3. frame'[d[i + 1]].ret = frame[c[i + 1]].ret
    <3>1. CASE i + 1 = n
      BY <1>7, <1>8, <1>9, <1>11, <1>12, <3>1
    <3>2. CASE i + 1 # n
      <4>1. i + 1 \in 1 .. n - 1
        BY <1>15, <3>2
      <4> QED BY <1>8, <1>12, <4>1
    <3> QED BY <3>1, <3>2
  <2> QED BY <1>7, <1>8, <2>1, <2>2, <2>3 DEF View
<1>16. PICK v \in Nat : v = locals'[m]
  BY <1>5 DEF TypeOK
<1>17. /\ View(c, n) = [meth |-> Top.buf, at |-> pc.at, local |-> locals[Top.buf]]
       /\ View(d, n)' = [meth |-> Top.buf, at |-> pc.at + 1, local |-> locals[Top.buf]]
       /\ View(d, n + 1)' = [meth |-> m, at |-> 1, local |-> v]
  <2>1. n \in 1 .. n /\ ~(n < n) /\ n < n + 1 /\ ~(n + 1 < n + 1)
    OBVIOUS
  <2>2. Following(pc).at = pc.at + 1
    BY <1>5 DEF Following, Addr
  <2>3. View(c, n) = [meth |-> Top.buf, at |-> pc.at, local |-> locals[Top.buf]]
    BY <1>5, <1>7, <1>9, <2>1 DEF View
  <2>4. locals'[Top.buf] = locals[Top.buf]
    BY <1>7, <1>9, <1>13, <2>1
  <2>5. View(d, n)' = [meth |-> Top.buf, at |-> pc.at + 1, local |-> locals[Top.buf]]
    BY <1>8, <1>11, <1>12, <2>1, <2>2, <2>4 DEF View
  <2>6. pc' # NULL /\ pc'.at = 1
    <3>1. pc' \in Addr
      BY <1>4 DEF Addr
    <3> QED BY <1>4, <3>1, NameAssumption
  <2>7. View(d, n + 1)' = [meth |-> m, at |-> 1, local |-> v]
    BY <1>8, <1>11, <1>12, <1>16, <2>1, <2>6 DEF View
  <2> QED BY <2>3, <2>5, <2>7
<1>18. PICK S : /\ Shown(c) \in Seq(S) /\ Shown(d)' \in Seq(S)
                /\ Len(Shown(c)) = n /\ Len(Shown(d)') = n + 1 /\ Shown(c) # << >>
                /\ \A i \in 1 .. n : Shown(c)[i] = View(c, i)
                /\ \A i \in 1 .. n + 1 : Shown(d)'[i] = View(d, i)'
  <2>1. Len(d) \in Nat \ {0}
    BY <1>8
  <2> QED BY <1>7, <1>8, <2>1, BothShown
<1>19. PICK s \in Seq(S), t \in Seq(S) : s = Shown(c) /\ t = Shown(d)'
  BY <1>18
<1>20. /\ s # << >> /\ Len(t) = Len(s) + 1 /\ Len(s) = n
       /\ s[n] = View(c, n) /\ t[n] = View(d, n)' /\ t[n + 1] = View(d, n + 1)'
       /\ \A i \in 1 .. n - 1 : t[i] = s[i]
  <2>1. \A i \in 1 .. n - 1 : i \in 1 .. n /\ i \in 1 .. n + 1
    OBVIOUS
  <2> QED BY <1>15, <1>18, <1>19, <2>1
<1>21. t = Append(Append(SubSeq(s, 1, Len(s) - 1), t[Len(s)]), t[Len(t)])
  BY <1>20, OneMore
<1>22. /\ t[Len(s)] = [s[Len(s)] EXCEPT !.at = @ + 1]
       /\ t[Len(t)] = [meth |-> m, at |-> 1, local |-> v]
  BY <1>17, <1>20
<1>23. Stack!Call
  <2>1. activations = s /\ activations' = t
    BY <1>14, <1>19
  <2>2. v \in Values
    BY <1>16
  <2>3. t = Append(Append(SubSeq(s, 1, Len(s) - 1), [s[Len(s)] EXCEPT !.at = @ + 1]),
                   [meth |-> m, at |-> 1, local |-> v])
    BY <1>21, <1>22
  <2>4. \E x \in Methods, y \in Values :
          t = Append(Append(SubSeq(s, 1, Len(s) - 1), [s[Len(s)] EXCEPT !.at = @ + 1]),
                     [meth |-> x, at |-> 1, local |-> y])
    BY <2>2, <2>3
  <2> QED BY <1>20, <2>1, <2>4 DEF Stack!Call, Stack!Top, Stack!Below
<1>24. ASSUME NEW i \in 1 .. n + 1, NEW j \in 1 .. n + 1, i < j
       PROVE  frame'[d[i]].buf # frame'[d[j]].buf
  <2>1. \A x \in 1 .. n : frame'[d[x]].buf = frame[c[x]].buf
    <3> TAKE x \in 1 .. n
    <3>1. CASE x = n
      BY <1>7, <1>8, <1>9, <1>11, <1>12, <3>1
    <3>2. CASE x # n
      <4>1. x \in 1 .. n - 1
        BY <3>2
      <4> QED BY <1>8, <1>12, <4>1
    <3> QED BY <3>1, <3>2
  <2>2. i \in 1 .. n
    BY <1>24
  <2>3. CASE j = n + 1
    BY <1>8, <1>9, <1>11, <1>12, <2>1, <2>2, <2>3
  <2>4. CASE j # n + 1
    <3>1. j \in 1 .. n /\ i # j
      BY <1>24, <2>4
    <3> QED BY <1>6, <1>7, <2>1, <2>2, <3>1 DEF Distinct
  <2> QED BY <2>3, <2>4
<1>25. \A i, j \in 1 .. Len(d) : i # j => frame'[d[i]].buf # frame'[d[j]].buf
  <2> TAKE i, j \in 1 .. Len(d)
  <2>1. i \in 1 .. n + 1 /\ j \in 1 .. n + 1 /\ (i # j => i < j \/ j < i)
    BY <1>8
  <2> QED BY <1>24, <2>1
<1> QED BY <1>1, <1>23, <1>25 DEF DistinctInv, Distinct

(* A return uncovers the caller.                                           *)
LEMMA UncoverStep ==
  ASSUME IInv, ChainInv, DepthInv, DistinctInv, Return
  PROVE  Stack!Return /\ DistinctInv'
<1>1. PICK c, d : c = Chain /\ d = Chain'
  OBVIOUS
<1>2. /\ Executing /\ depth' = depth - 1
      /\ pc' = IF depth = 1 THEN Following(pc) ELSE Top.ret
      /\ UNCHANGED <<frame, locals, status>>
  BY DEF Return, At
<1>3. /\ TypeOK /\ depth > 0 /\ depth \in Nat /\ status = "run" /\ depth = Len(c)
      /\ cur \in Methods \cup 1 .. invokes /\ invokes \in Nat
  BY <1>1, <1>2, ExecutionFacts DEF Executing, IInv, TypeOK, DepthInv
<1>4. Ends(c, cur, invokes) /\ Distinct(c)
  BY <1>1, <1>2, <1>3, ChainEnds DEF DistinctInv
<1>5. PICK n \in Nat \ {0} : n = Len(c) /\ c[n] = cur
  BY <1>4 DEF Ends
<1>6. activations = Shown(c)
  BY <1>1, <1>3 DEF activations, Shown, View
<1>7. CASE depth = 1
  <2>1. activations' = << >> /\ DistinctInv'
    BY <1>2, <1>7 DEF activations, DistinctInv
  <2>2. PICK S : Shown(c) \in Seq(S) /\ Len(Shown(c)) = n /\ Shown(c) # << >>
    BY <1>5, BothShown
  <2>3. << >> = SubSeq(Shown(c), 1, Len(Shown(c)) - 1)
    <3>1. Len(Shown(c)) = 1
      BY <1>3, <1>5, <1>7, <2>2
    <3> PICK t : t = << >>
      OBVIOUS
    <3>2. t \in Seq(S) /\ Len(t) = 0
      OBVIOUS
    <3>3. Len(t) = Len(Shown(c)) - 1 /\ \A i \in 1 .. Len(Shown(c)) - 1 : t[i] = Shown(c)[i]
      BY <3>1, <3>2
    <3> QED BY <2>2, <3>2, <3>3, OneLess
  <2> QED BY <1>6, <2>1, <2>2, <2>3 DEF Stack!Return, Stack!Below
<1>8. CASE depth # 1
  <2>1. /\ Len(d) = n - 1 /\ Top.ret # NULL /\ pc' = Top.ret
        /\ \A i \in 1 .. n - 1 : d[i] = c[i]
    BY <1>1, <1>2, <1>3, <1>5, <1>8, ReturnChain
  <2>2. n - 1 \in Nat \ {0} /\ depth' # 0
    BY <1>2, <1>3, <1>5, <1>8
  <2>3. activations' = Shown(d)'
    BY <1>1, <2>2 DEF activations, Shown, View
  <2>4. ASSUME NEW i \in 1 .. n - 1
        PROVE  View(d, i)' = View(c, i)
    <3>1. d[i] = c[i] /\ i < n
      BY <2>1, <2>4
    <3>2. CASE i = n - 1
      <4>1. c[i + 1] = cur
        BY <1>5, <3>2
      <4> QED BY <1>2, <1>5, <2>1, <3>1, <3>2, <4>1 DEF View, Top
    <3>3. CASE i # n - 1
      <4>1. i + 1 \in 1 .. n - 1 /\ i < n - 1
        BY <2>4, <3>3
      <4> QED BY <1>2, <1>5, <2>1, <3>1, <4>1 DEF View
    <3> QED BY <3>2, <3>3
  <2>5. PICK S : /\ Shown(c) \in Seq(S) /\ Shown(d)' \in Seq(S)
                 /\ Len(Shown(c)) = n /\ Len(Shown(d)') = n - 1 /\ Shown(c) # << >>
                 /\ \A i \in 1 .. n : Shown(c)[i] = View(c, i)
                 /\ \A i \in 1 .. n - 1 : Shown(d)'[i] = View(d, i)'
    BY <1>5, <2>1, <2>2, BothShown
  <2>6. PICK s \in Seq(S), t \in Seq(S) : s = Shown(c) /\ t = Shown(d)'
    BY <2>5
  <2>7. \A i \in 1 .. n - 1 : t[i] = s[i]
    BY <2>4, <2>5, <2>6
  <2>8. s # << >> /\ t = SubSeq(s, 1, Len(s) - 1)
    BY <2>5, <2>6, <2>7, OneLess
  <2>9. Stack!Return
    <3>1. activations = s /\ activations' = t
      BY <1>6, <2>3, <2>6
    <3> QED BY <2>8, <3>1 DEF Stack!Return, Stack!Below
  <2>10. \A i, j \in 1 .. Len(d) : i # j => frame'[d[i]].buf # frame'[d[j]].buf
    <3> TAKE i, j \in 1 .. Len(d)
    <3>1. i \in 1 .. n - 1 /\ j \in 1 .. n - 1 /\ i \in 1 .. n /\ j \in 1 .. n
      BY <2>1
    <3> QED BY <1>2, <1>4, <1>5, <2>1, <3>1 DEF Distinct
  <2> QED BY <1>1, <2>9, <2>10 DEF DistinctInv, Distinct
<1> QED BY <1>7, <1>8

(* A boot method enters the empty stack.                                   *)
LEMMA BootStep ==
  ASSUME IInv, IInv', ChainInv, Start, Nat \subseteq Positions, Nat \subseteq Values
  PROVE  Stack!Start /\ DistinctInv'
<1>1. PICK m : m = Boot[boot + 1]
  OBVIOUS
<1>2. /\ depth = 0 /\ depth' = 1 /\ pc' = [meth |-> m, at |-> 1] /\ boot < Len(Boot)
      /\ UNCHANGED <<frame, locals>> /\ Chain' = <<m>>
  BY <1>1, StartChain DEF Start
<1>3. m \in Methods /\ frame[m].buf = m /\ locals[m] \in Nat
  <2>1. m \in Methods
    BY <1>1, <1>2, BootIsRoot, RootsAreMethods DEF IInv, TypeOK
  <2> QED BY <2>1 DEF IInv, TypeOK, StaticFrames
<1>4. PICK c : c = <<m>>
  OBVIOUS
<1>5. Len(c) = 1 /\ c[1] = m
  BY <1>4
<1>6. pc' # NULL /\ pc'.at = 1
  <2>1. pc' \in Addr
    BY <1>2, <1>3 DEF Addr
  <2> QED BY <1>2, <2>1, NameAssumption
<1>7. activations = << >> /\ activations' = Shown(c)'
  BY <1>2, <1>4 DEF activations, Shown, View
<1>8. View(c, 1)' = [meth |-> m, at |-> 1, local |-> locals[m]]
  BY <1>2, <1>3, <1>5, <1>6 DEF View
<1>9. Shown(c)' = << [meth |-> m, at |-> 1, local |-> locals[m]] >>
  <2>1. Shown(c)' = [i \in 1 .. 1 |-> View(c, i)']
    BY <1>5 DEF Shown
  <2>2. \A i \in 1 .. 1 : View(c, i)' = [meth |-> m, at |-> 1, local |-> locals[m]]
    BY <1>8
  <2>3. Shown(c)' = [i \in 1 .. 1 |-> [meth |-> m, at |-> 1, local |-> locals[m]]]
    BY <2>1, <2>2
  <2> QED BY <2>3
<1>10. Stack!Start
  BY <1>3, <1>7, <1>9 DEF Stack!Start
<1>11. Distinct(c)'
  BY <1>5 DEF Distinct
<1> QED BY <1>2, <1>4, <1>10, <1>11 DEF DistinctInv, Distinct

(* Of the other steps, those that do not move on leave the stack alone.    *)
LEMMA QuietStep ==
  ASSUME IInv, ChainInv, DistinctInv, LocalAction, ~Advance
  PROVE  UNCHANGED activations /\ DistinctInv'
<1>1. CASE UNCHANGED vars \/ \E how : how # "run" /\ Halt(how)
  <2>1. /\ UNCHANGED <<frame, cur, depth, pc, locals>>
        /\ status' = status \/ status' # "run"
    BY <1>1 DEF vars, Halt
  <2>2. Chain' = Chain
    BY <2>1 DEF Chain, Prev
  <2> QED BY <2>1, <2>2 DEF activations, DistinctInv, Distinct
<1>2. CASE Unwind
  BY <1>2 DEF Unwind, activations, DistinctInv
<1>3. CASE Overrun \/ Underrun \/ NullReceiver \/ StackOverflow \/ FetchNull \/ StartWild \/ Exit
  <2>1. \E how : how # "run" /\ Halt(how)
    BY <1>3 DEF Overrun, Underrun, NullReceiver, StackOverflow, FetchNull, StartWild, Exit
  <2> QED BY <1>1, <2>1
<1>4. CASE Push \/ New \/ Store \/ PrintValue \/ Skip \/ Goto \/ IfEq
  <2>1. /\ Executing
        /\ \E p \in {Following(pc), [pc EXCEPT !.at = Instr.target]} : pc' = p
        /\ pc' # Following(pc) => Instr.op \in {"goto", "ifeq"}
        /\ locals' = locals \/ locals' = [locals EXCEPT ![Top.buf] = invokes]
    BY <1>4 DEF Push, New, Store, PrintValue, Skip, Goto, IfEq, At, Following
  <2>2. /\ pc \in Addr /\ Instr.target \in Nat /\ Top.buf \in Methods /\ invokes \in Nat
        /\ locals \in [Methods -> Nat] /\ frame \in [Methods \cup 1 .. invokes -> Frame]
        /\ Instr.op \in {"goto", "ifeq"} => Instr.target \in pc.at + 1 .. Len(code[pc.meth].body)
    BY <2>1, ExecutionFacts DEF IInv, TypeOK, Instruction, Frame, WellFormedAt, Instr
  <2>3. pc' \in Addr /\ pc'.at > pc.at
    BY <2>1, <2>2 DEF Following, Addr
  <2>4. \A a \in DOMAIN frame : frame'[a].buf = frame[a].buf /\ frame'[a].ret = frame[a].ret
    <3>1. PICK o : frame' = [frame EXCEPT ![cur].off = o] \/ frame' = frame
      BY LocalActions DEF LocalMove
    <3> TAKE a \in DOMAIN frame
    <3>2. frame[a] \in Frame
      BY <2>2
    <3>3. frame' = frame \/ frame'[a] = frame[a] \/ frame'[a] = [frame[a] EXCEPT !.off = o]
      BY <2>2, <3>1
    <3> QED BY <3>2, <3>3 DEF Frame
  <2>5. Advance
    BY <2>1, <2>2, <2>3, <2>4 DEF Advance
  <2> QED BY <2>5
<1> QED BY <1>1, <1>2, <1>3, <1>4 DEF LocalAction

-----------------------------------------------------------------------------
(* Every step is a step of the abstract stack or none.                     *)
LEMMA StackStep ==
  ASSUME Nat \subseteq Positions, Nat \subseteq Values,
         IInv, IInv', ChainInv, DepthInv, DistinctInv,
         [Next]_vars, [NoLazyClinit]_vars, [NoReentry]_vars
  PROVE  [Stack!Next]_activations /\ DistinctInv'
<1>1. CASE UNCHANGED vars
  <2>1. Chain' = Chain
    BY <1>1 DEF vars, Chain, Prev
  <2> QED BY <1>1, <2>1 DEF vars, activations, DistinctInv, Distinct
<1>2. CASE LocalAction /\ Advance
  BY <1>2, AdvanceStep, LocalActions DEF Stack!Next
<1>3. CASE LocalAction /\ ~Advance
  BY <1>3, QuietStep
<1>4. CASE \E m \in Methods : Invoke(m)
  <2>1. PICK m \in Methods : Invoke(m)
    BY <1>4
  <2>2. depth' # depth
    BY <2>1 DEF Invoke, IInv, TypeOK
  <2>3. NoReentry
    BY <2>2 DEF vars
  <2> QED BY <2>1, <2>3, CallStep DEF Stack!Next
<1>5. CASE LazyClinit
  <2>1. depth' # depth
    BY <1>5 DEF LazyClinit, IInv, TypeOK
  <2> QED BY <1>5, <2>1 DEF vars, NoLazyClinit
<1>6. CASE Return
  BY <1>6, UncoverStep DEF Stack!Next
<1>7. CASE Start
  BY <1>7, BootStep DEF Stack!Next
<1> QED BY <1>1, <1>2, <1>3, <1>4, <1>5, <1>6, <1>7, Actions

(* As long as no class is loaded in the middle of a method and no method   *)
(* is invoked that is active, the frames, copied and relinked by calls and *)
(* returns, are one stack of activations, of which only the top one        *)
(* changes (the invoke handlers, jvm_interp_return).                       *)
THEOREM StackImplemented ==
  ASSUME Nat \subseteq Positions, Nat \subseteq Values
  PROVE  Spec /\ [][NoLazyClinit]_vars /\ [][NoReentry]_vars => ImplementsStack
<1>1. Init => Stack!Init /\ DepthInv /\ DistinctInv
  BY DEF Init, Stack!Init, activations, DepthInv, DistinctInv
<1>2. IInv /\ IInv' /\ ChainInv /\ DepthInv /\ DistinctInv
        /\ [Next]_vars /\ [NoLazyClinit]_vars /\ [NoReentry]_vars
        => [Stack!Next]_activations /\ DistinctInv'
  BY StackStep
<1> QED BY <1>1, <1>2, NextDepth, Invariance, ChainInvariance, PTL
        DEF Spec, ImplementsStack, Stack!Spec
=============================================================================
