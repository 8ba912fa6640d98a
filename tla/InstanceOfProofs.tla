-------------------------- MODULE InstanceOfProofs --------------------------
(***************************************************************************)
(* Proofs about InstanceOf: loading links the whole chain of superclasses, *)
(* whatever was loaded before; instanceof on an object that is no array    *)
(* never says yes wrongly; and its answers are the language's where no     *)
(* type names two interfaces.  The recursive definitions of the model are  *)
(* unfolded with the lemmas of Foundations.                                *)
(***************************************************************************)
EXTENDS InstanceOf, Foundations

-----------------------------------------------------------------------------
(* Class files.                                                            *)

File == [interface : BOOLEAN, super : Nat, interfaces : Seq(Nat)]

(* Type m extends a class and implements interfaces below it, and an       *)
(* interface extends nothing.                                              *)
Compiles(fs, m) ==
  /\ fs[m].super \in 0 .. m - 1
  /\ fs[m].super # OBJECT => ~fs[fs[m].super].interface
  /\ fs[m].interface => fs[m].super = OBJECT
  /\ \A i \in 1 .. Len(fs[m].interfaces) :
       /\ fs[m].interfaces[i] \in 1 .. m - 1
       /\ fs[fs[m].interfaces[i]].interface

Compile(fs, n) == /\ fs \in Seq(File) /\ Len(fs) = n
                  /\ \A m \in 1 .. n : Compiles(fs, m)

(* A class file compiled against those below it is a File, and compiles    *)
(* after them.                                                             *)
LEMMA OneMore ==
  ASSUME NEW below \in Seq(File), NEW f \in Compiled(below)
  PROVE  /\ f \in File
         /\ \A n \in Nat : Compile(below, n) => Compile(Append(below, f), n + 1)
<1> DEFINE ifs == {i \in DOMAIN below : below[i].interface}
<1>1. MaxDirect \in Nat
  BY SizeAssumption
<1>2. \A w \in BoundedSeq(ifs, MaxDirect) : w \in Seq(ifs)
  BY <1>1 DEF BoundedSeq, SeqOf
<1>3. /\ f \in [interface : BOOLEAN, super : {OBJECT} \cup DOMAIN below, interfaces : Seq(ifs)]
      /\ f.super # OBJECT => f.super \in DOMAIN below \ ifs
      /\ f.interface => f.super = OBJECT
  BY <1>2 DEF Compiled
<1>4. DOMAIN below = 1 .. Len(below) /\ Len(below) \in Nat
  OBVIOUS
<1>5. f \in File
  <2>1. Seq(ifs) \subseteq Seq(Nat)
    BY <1>4
  <2>2. {OBJECT} \cup DOMAIN below \subseteq Nat
    BY <1>4 DEF OBJECT
  <2> QED BY <1>3, <2>1, <2>2 DEF File
<1>6. ASSUME NEW n \in Nat, Compile(below, n)
      PROVE  Compile(Append(below, f), n + 1)
  <2>1. PICK fs : fs = Append(below, f)
    OBVIOUS
  <2>2. /\ fs \in Seq(File) /\ Len(fs) = n + 1 /\ fs[n + 1] = f
        /\ \A m \in 1 .. n : fs[m] = below[m]
    BY <1>5, <1>6, <2>1 DEF Compile
  <2>3. ASSUME NEW m \in 1 .. n
        PROVE  Compiles(fs, m)
    <3>1. Compiles(below, m)
      BY <1>6 DEF Compile
    <3>2. \A k \in 1 .. m : fs[k] = below[k]
      BY <2>2
    <3>3. below[m].super \in 0 .. m - 1 /\ m \in Nat
      BY <3>1 DEF Compiles
    <3>4. /\ fs[m] = below[m]
          /\ below[m].super # OBJECT => fs[below[m].super] = below[below[m].super]
      BY <3>2, <3>3 DEF OBJECT
    <3>5. ASSUME NEW i \in 1 .. Len(below[m].interfaces)
          PROVE  /\ below[m].interfaces[i] \in 1 .. m - 1
                 /\ fs[below[m].interfaces[i]].interface
      <4>1. PICK j : j = below[m].interfaces[i]
        OBVIOUS
      <4>2. j \in 1 .. m - 1 /\ below[j].interface
        BY <3>1, <4>1 DEF Compiles
      <4>3. fs[j] = below[j]
        BY <3>2, <3>3, <4>2
      <4> QED BY <4>1, <4>2, <4>3
    <3> QED BY <3>1, <3>4, <3>5, Zenon DEF Compiles
  <2>4. Compiles(fs, n + 1)
    <3>1. /\ f.super \in 0 .. n
          /\ f.super # OBJECT => f.super \in 1 .. n /\ ~below[f.super].interface
      BY <1>3, <1>4, <1>6 DEF Compile, OBJECT
    <3>2. ASSUME NEW i \in 1 .. Len(f.interfaces)
          PROVE  f.interfaces[i] \in 1 .. n /\ below[f.interfaces[i]].interface
      <4>1. f.interfaces \in Seq(ifs)
        BY <1>3
      <4>2. f.interfaces[i] \in ifs
        BY <4>1
      <4> QED BY <1>4, <1>6, <4>2 DEF Compile
    <3> QED BY <1>3, <2>2, <3>1, <3>2 DEF Compiles
  <2>5. \A m \in 1 .. n + 1 : m \in 1 .. n \/ m = n + 1
    OBVIOUS
  <2> QED BY <2>1, <2>2, <2>3, <2>4, <2>5 DEF Compile
<1> QED BY <1>5, <1>6

Longer(bs) == UNION {{Append(below, f) : f \in Compiled(below)} : below \in bs}

(* The files of a class path compile in their order.                       *)
LEMMA FilesCompile == files \in ClassPaths => Compile(files, N)
<1> DEFINE Paths(p) == p = [n \in 0 .. N |-> IF n = 0 THEN {<< >>} ELSE Longer(p[n - 1])]
           V == SUBSET Seq(File)
           step == [q \in (0 .. N) \X [0 .. N -> V] |->
                      IF q[1] = 0 THEN {<< >>} ELSE Longer(q[2][q[1] - 1])]
<1>1. N \in Nat
  BY SizeAssumption
<1>2. \E p : Paths(p)
  <2>1. \A bs \in V : Longer(bs) \in V
    <3> SUFFICES ASSUME NEW bs \in V, NEW b \in Longer(bs)
                 PROVE  b \in Seq(File)
      OBVIOUS
    <3>1. PICK below \in bs : b \in {Append(below, f) : f \in Compiled(below)}
      BY DEF Longer
    <3>2. PICK f \in Compiled(below) : b = Append(below, f)
      BY <3>1
    <3>3. f \in File
      BY OneMore
    <3> QED BY <3>2, <3>3
  <2>2. \A i \in 0 .. N : \A g \in [0 .. N -> V] :
          step[<<i, g>>] = IF i = 0 THEN {<< >>} ELSE Longer(g[i - 1])
    OBVIOUS
  <2>3. step \in Steps(N, V)
    <3> SUFFICES ASSUME NEW i \in 0 .. N, NEW g \in [0 .. N -> V]
                 PROVE  (IF i = 0 THEN {<< >>} ELSE Longer(g[i - 1])) \in V
      BY DEF Steps
    <3>1. CASE i = 0
      BY <3>1
    <3>2. CASE i # 0
      <4>1. g[i - 1] \in V
        BY <1>1, <3>2
      <4> QED BY <2>1, <3>2, <4>1
    <3> QED BY <3>1, <3>2
  <2> HIDE DEF step
  <2>4. Causal(N, V, step)
    <3> SUFFICES ASSUME NEW i \in 0 .. N, NEW g \in [0 .. N -> V], NEW h \in [0 .. N -> V],
                        \A j \in 0 .. i - 1 : g[j] = h[j]
                 PROVE  step[<<i, g>>] = step[<<i, h>>]
      BY Zenon DEF Causal
    <3>1. i # 0 => g[i - 1] = h[i - 1]
      BY <1>1
    <3> QED BY <2>2, <3>1
  <2>5. V # {}
    OBVIOUS
  <2> HIDE DEF V
  <2>6. PICK p : Recursive(N, V, step, p)
    BY <1>1, <2>3, <2>4, <2>5, Recursion
  <2>7. Paths(p)
    BY <2>2, <2>6 DEF Recursive
  <2> QED BY <2>7
<1> DEFINE path == CHOOSE p : Paths(p)
<1>3. ClassPaths = path[N]
  BY Zenon DEF ClassPaths, Longer
<1>4. Paths(path)
  BY <1>2, Zenon
<1> HIDE DEF path
<1>5. \A n \in 0 .. N : path[n] = IF n = 0 THEN {<< >>} ELSE Longer(path[n - 1])
  BY <1>4
<1> DEFINE Good(n) == \A b \in path[n] : Compile(b, n)
           T == {n \in Nat : n <= N => Good(n)}
<1>6. \A n \in Nat : n \in T
  <2>1. ASSUME NEW n \in Nat, \A k \in 0 .. n - 1 : k \in T, n <= N
        PROVE  Good(n)
    <3>1. CASE n = 0
      <4>1. path[0] = {<< >>}
        BY <1>1, <1>5
      <4>2. Compile(<< >>, 0)
        BY DEF Compile
      <4> QED BY <3>1, <4>1, <4>2
    <3>2. CASE n # 0
      <4>1. path[n] = Longer(path[n - 1]) /\ n - 1 \in Nat
        BY <1>1, <1>5, <2>1, <3>2
      <4>2. Good(n - 1)
        <5>1. n - 1 \in 0 .. n - 1 /\ n - 1 <= N
          BY <1>1, <2>1, <3>2
        <5> QED BY <2>1, <5>1
      <4>3. ASSUME NEW b \in path[n]
            PROVE  Compile(b, n)
        <5>1. PICK below \in path[n - 1] : b \in {Append(below, f) : f \in Compiled(below)}
          BY <4>1 DEF Longer
        <5>2. PICK f \in Compiled(below) : b = Append(below, f)
          BY <5>1
        <5>3. Compile(below, n - 1) /\ below \in Seq(File)
          BY <4>2 DEF Compile
        <5>4. Compile(b, (n - 1) + 1)
          BY <4>1, <5>2, <5>3, OneMore
        <5> QED BY <5>4
      <4> QED BY <4>3
    <3> QED BY <3>1, <3>2
  <2> HIDE DEF Good
  <2>2. \A n \in Nat : (\A k \in 0 .. n - 1 : k \in T) => n \in T
    BY <2>1
  <2> HIDE DEF T
  <2> QED BY <2>2, Induction
<1>7. Good(N)
  <2> HIDE DEF Good
  <2> QED BY <1>1, <1>6
<1> QED BY <1>3, <1>7

-----------------------------------------------------------------------------
(* Superclasses and supertypes.                                            *)

(* The fields of a type.                                                   *)
LEMMA FileFacts ==
  ASSUME Compile(files, N), NEW n \in Types
  PROVE  /\ n \in Nat /\ N \in Nat /\ files[n].super \in 0 .. n - 1
         /\ files[n].interface \in BOOLEAN
         /\ files[n].super # OBJECT => files[n].super \in Types /\ ~IsInterface(files[n].super)
         /\ IsInterface(n) => files[n].super = OBJECT
         /\ DOMAIN files[n].interfaces = 1 .. Len(files[n].interfaces)
         /\ Len(files[n].interfaces) \in Nat
         /\ files[n].interfaces # << >> => 1 \in DOMAIN files[n].interfaces
         /\ \A i \in DOMAIN files[n].interfaces :
              /\ files[n].interfaces[i] \in 1 .. n - 1
              /\ files[n].interfaces[i] \in Types
              /\ IsInterface(files[n].interfaces[i])
<1>1. N \in Nat /\ n \in Nat /\ n \in 1 .. N
  BY SizeAssumption DEF Types
<1>2. files[n] \in File
  BY <1>1 DEF Compile
<1>3. Compiles(files, n)
  BY <1>1 DEF Compile
<1>4. /\ files[n].interfaces \in Seq(Nat) /\ files[n].interface \in BOOLEAN
      /\ Len(files[n].interfaces) \in Nat
      /\ DOMAIN files[n].interfaces = 1 .. Len(files[n].interfaces)
      /\ files[n].interfaces # << >> => 1 \in DOMAIN files[n].interfaces
  <2>1. files[n].interfaces \in Seq(Nat) /\ files[n].interface \in BOOLEAN
    BY <1>2 DEF File
  <2> QED BY <2>1
<1>5. /\ files[n].super \in 0 .. n - 1
      /\ files[n].super # OBJECT => files[n].super \in Types /\ ~IsInterface(files[n].super)
      /\ IsInterface(n) => files[n].super = OBJECT
  BY <1>1, <1>3 DEF Compiles, Types, OBJECT, IsInterface
<1>6. \A i \in DOMAIN files[n].interfaces :
        /\ files[n].interfaces[i] \in 1 .. n - 1
        /\ files[n].interfaces[i] \in Types
        /\ IsInterface(files[n].interfaces[i])
  <2> SUFFICES ASSUME NEW i \in 1 .. Len(files[n].interfaces)
               PROVE  /\ files[n].interfaces[i] \in 1 .. n - 1
                      /\ files[n].interfaces[i] \in Types
                      /\ IsInterface(files[n].interfaces[i])
    BY <1>4
  <2>1. PICK j : j = files[n].interfaces[i]
    OBVIOUS
  <2>2. j \in 1 .. n - 1 /\ files[j].interface
    BY <1>3, <2>1 DEF Compiles
  <2>3. j \in Types
    BY <1>1, <2>2 DEF Types
  <2> QED BY <2>1, <2>2, <2>3 DEF IsInterface
<1> QED BY <1>1, <1>4, <1>5, <1>6, ZenonT(30)

(* The superclasses of a type are the type and those of its superclass.    *)
LEMMA ChainUnfolds ==
  ASSUME Compile(files, N)
  PROVE  /\ Chain(OBJECT) = {}
         /\ \A n \in Types : Chain(n) = {n} \cup Chain(files[n].super)
<1> DEFINE Up(f) == f = [m \in 0 .. N |-> IF m = OBJECT THEN {} ELSE {m} \cup f[files[m].super]]
           own   == [m \in 0 .. N |-> IF m = OBJECT THEN {} ELSE {m}]
           below == [m \in 0 .. N |-> IF m = OBJECT THEN {} ELSE {files[m].super}]
<1>1. N \in Nat
  BY SizeAssumption
<1>2. \A m \in 0 .. N : m # OBJECT => m \in Types /\ files[m].super \in 0 .. m - 1
  BY <1>1, FileFacts DEF OBJECT, Types
<1>3. \E f : Up(f)
  <2>1. own \in [0 .. N -> SUBSET (0 .. N)]
    OBVIOUS
  <2>2. \A i \in 0 .. N : below[i] \subseteq 0 .. i - 1
    BY <1>2
  <2>3. \A m \in 0 .. N : /\ own[m] = IF m = OBJECT THEN {} ELSE {m}
                          /\ below[m] = IF m = OBJECT THEN {} ELSE {files[m].super}
    OBVIOUS
  <2> HIDE DEF own, below
  <2>4. PICK f : Collects(N, own, below, f)
    BY <1>1, <2>1, <2>2, Collection
  <2>5. \A m \in 0 .. N : own[m] \cup UNION {f[j] : j \in below[m]} =
                         IF m = OBJECT THEN {} ELSE {m} \cup f[files[m].super]
    <3> SUFFICES ASSUME NEW m \in 0 .. N
                 PROVE  own[m] \cup UNION {f[j] : j \in below[m]} =
                          IF m = OBJECT THEN {} ELSE {m} \cup f[files[m].super]
      OBVIOUS
    <3>1. CASE m = OBJECT
      <4>1. own[m] = {} /\ below[m] = {}
        BY <2>3, <3>1
      <4> QED BY <3>1, <4>1
    <3>2. CASE m # OBJECT
      <4>1. own[m] = {m} /\ below[m] = {files[m].super}
        BY <2>3, <3>2
      <4> QED BY <3>2, <4>1
    <3> QED BY <3>1, <3>2
  <2>6. Up(f)
    BY <2>4, <2>5 DEF Collects
  <2> QED BY <2>6
<1> DEFINE up == CHOOSE f : Up(f)
<1>4. Up(up)
  BY <1>3, Zenon
<1>5. \A n : Chain(n) = up[n]
  BY Zenon DEF Chain
<1> HIDE DEF up
<1>6. \A m \in 0 .. N : up[m] = IF m = OBJECT THEN {} ELSE {m} \cup up[files[m].super]
  BY <1>4
<1>7. OBJECT \in 0 .. N /\ \A n \in Types : n \in 0 .. N /\ n # OBJECT
  BY <1>1 DEF OBJECT, Types
<1> QED BY <1>5, <1>6, <1>7

(* The supertypes of a type are the type, those of its superclass, and     *)
(* those of its interfaces.                                                *)
LEMMA SupertypesUnfold ==
  ASSUME Compile(files, N)
  PROVE  /\ Supertypes[OBJECT] = {OBJECT}
         /\ \A n \in Types : Supertypes[n] =
              {n} \cup Supertypes[files[n].super]
                  \cup UNION {Supertypes[files[n].interfaces[i]] : i \in DOMAIN files[n].interfaces}
<1> DEFINE More(m, f) == {m} \cup f[files[m].super]
                             \cup UNION {f[files[m].interfaces[i]] : i \in DOMAIN files[m].interfaces}
           Above(f) == f = [m \in 0 .. N |-> IF m = OBJECT THEN {OBJECT} ELSE More(m, f)]
           own   == [m \in 0 .. N |-> {m}]
           Named(m) == {files[m].interfaces[i] : i \in DOMAIN files[m].interfaces}
           below == [m \in 0 .. N |-> IF m = OBJECT THEN {} ELSE {files[m].super} \cup Named(m)]
<1>1. N \in Nat
  BY SizeAssumption
<1>2. \A m \in 0 .. N : m # OBJECT => m \in Types
  BY <1>1 DEF OBJECT, Types
<1>3. \E f : Above(f)
  <2>1. own \in [0 .. N -> SUBSET (0 .. N)]
    OBVIOUS
  <2>2. \A i \in 0 .. N : below[i] \subseteq 0 .. i - 1
    <3> SUFFICES ASSUME NEW m \in 0 .. N, m # OBJECT
                 PROVE  {files[m].super} \cup Named(m) \subseteq 0 .. m - 1
      OBVIOUS
    <3>1. m \in Types
      BY <1>2
    <3>2. files[m].super \in 0 .. m - 1 /\ Named(m) \subseteq 1 .. m - 1
      BY <3>1, FileFacts
    <3> QED BY <3>2
  <2>3. \A m \in 0 .. N : /\ own[m] = {m}
                          /\ m = OBJECT => below[m] = {}
                          /\ m # OBJECT => below[m] = {files[m].super} \cup Named(m)
    OBVIOUS
  <2> HIDE DEF own, below
  <2>4. PICK f : Collects(N, own, below, f)
    BY <1>1, <2>1, <2>2, Collection
  <2>5. ASSUME NEW m \in 0 .. N
        PROVE  own[m] \cup UNION {f[j] : j \in below[m]} = IF m = OBJECT THEN {OBJECT} ELSE More(m, f)
    <3>1. CASE m = OBJECT
      <4>1. own[m] = {m} /\ below[m] = {}
        BY <2>3, <3>1
      <4> QED BY <3>1, <4>1
    <3>2. CASE m # OBJECT
      <4>1. own[m] = {m} /\ below[m] = {files[m].super} \cup Named(m)
        BY <2>3, <3>2
      <4>2. {f[j] : j \in Named(m)} = {f[files[m].interfaces[i]] : i \in DOMAIN files[m].interfaces}
        BY Zenon
      <4>3. {f[j] : j \in {files[m].super} \cup Named(m)} =
              {f[files[m].super]} \cup {f[j] : j \in Named(m)}
        BY Zenon
      <4>4. UNION {f[j] : j \in below[m]} = f[files[m].super] \cup UNION {f[j] : j \in Named(m)}
        <5> HIDE DEF Named
        <5> QED BY <4>1, <4>3
      <4> QED BY <3>2, <4>1, <4>2, <4>4
    <3> QED BY <3>1, <3>2
  <2>6. Above(f)
    <3> HIDE DEF More
    <3> QED BY <2>4, <2>5 DEF Collects
  <2> QED BY <2>6
<1> DEFINE above == CHOOSE f : Above(f)
<1>4. Above(above)
  BY <1>3, Zenon
<1>5. Supertypes = above
  BY Zenon DEF Supertypes
<1> HIDE DEF above
<1>6. \A m \in 0 .. N : above[m] = IF m = OBJECT THEN {OBJECT} ELSE More(m, above)
  <2> HIDE DEF More
  <2> QED BY <1>4
<1>7. OBJECT \in 0 .. N /\ \A n \in Types : n \in 0 .. N /\ n # OBJECT
  BY <1>1 DEF OBJECT, Types
<1>8. above[OBJECT] = {OBJECT} /\ \A n \in Types : above[n] = More(n, above)
  <2> HIDE DEF More
  <2> QED BY <1>6, <1>7
<1> QED BY <1>5, <1>8

(* interface_instanceof follows the first interface, and its first         *)
(* interface, and so on.                                                   *)
LEMMA FirstUnfolds ==
  ASSUME Compile(files, N), NEW n \in Types
  PROVE  FirstInterfaces(n) =
           IF files[n].interfaces = << >> THEN {}
           ELSE {files[n].interfaces[1]} \cup FirstInterfaces(files[n].interfaces[1])
<1> DEFINE Empty(m) == files[m].interfaces = << >>
           Head1(m) == files[m].interfaces[1]
           First(f) == f = [m \in Types |-> IF Empty(m) THEN {} ELSE {Head1(m)} \cup f[Head1(m)]]
           own == [m \in 0 .. N |-> IF m = OBJECT \/ Empty(m) THEN {} ELSE {Head1(m)}]
<1>1. N \in Nat /\ \A m \in Types : m \in 0 .. N /\ m # OBJECT
  BY SizeAssumption DEF OBJECT, Types
<1>2. \A m \in Types : ~Empty(m) => Head1(m) \in 1 .. m - 1 /\ Head1(m) \in Types
  BY FileFacts
<1>3. \E f : First(f)
  <2> HIDE DEF Empty, Head1
  <2>1. \A m \in 0 .. N : own[m] = IF m = OBJECT \/ Empty(m) THEN {} ELSE {Head1(m)}
    OBVIOUS
  <2>2. \A m \in 0 .. N : own[m] \subseteq 0 .. m - 1
    <3>1. \A m \in 0 .. N : m # OBJECT => m \in Types
      BY <1>1 DEF OBJECT, Types
    <3> QED BY <1>2, <3>1
  <2>3. own \in [0 .. N -> SUBSET (0 .. N)]
    BY <1>1, <2>2
  <2> HIDE DEF own
  <2>4. PICK f : Collects(N, own, own, f)
    BY <1>1, <2>2, <2>3, Collection
  <2> DEFINE g == [m \in Types |-> f[m]]
  <2>5. ASSUME NEW m \in Types
        PROVE  g[m] = IF Empty(m) THEN {} ELSE {Head1(m)} \cup g[Head1(m)]
    <3>1. f[m] = own[m] \cup UNION {f[j] : j \in own[m]}
      BY <1>1, <2>4 DEF Collects
    <3>2. CASE Empty(m)
      <4>1. own[m] = {}
        BY <1>1, <2>1, <3>2
      <4> QED BY <3>1, <3>2, <4>1
    <3>3. CASE ~Empty(m)
      <4>1. own[m] = {Head1(m)} /\ Head1(m) \in Types
        BY <1>1, <1>2, <2>1, <3>3
      <4> QED BY <3>1, <3>3, <4>1
    <3> QED BY <3>2, <3>3
  <2>6. First(g)
    <3> HIDE DEF g
    <3>1. g = [m \in Types |-> g[m]]
      BY DEF g
    <3> QED BY <2>5, <3>1
  <2> QED BY <2>6
<1> DEFINE first == CHOOSE f : First(f)
<1>4. First(first)
  BY <1>3, Zenon
<1>5. \A m : FirstInterfaces(m) = first[m]
  BY Zenon DEF FirstInterfaces
<1> HIDE DEF first
<1> QED BY <1>4, <1>5

(* What one type has to say about its superclasses and its interfaces.     *)
ChainOK(n) ==
  /\ Chain(n) \subseteq 1 .. n /\ Chain(n) \subseteq Types
  /\ \A m \in Chain(n) : Chain(m) \subseteq Chain(n)
  /\ n # OBJECT => /\ n \in Chain(n)
                   /\ ~IsInterface(n) => \A m \in Chain(n) : ~IsInterface(m)

(* Superclasses come before a class, and those of a superclass are its     *)
(* own; no superclass of a class is an interface.                          *)
LEMMA ChainFacts ==
  ASSUME Compile(files, N)
  PROVE  \A n \in 0 .. N : ChainOK(n)
<1> DEFINE T == {n \in Nat : n <= N => ChainOK(n)}
<1>1. N \in Nat /\ OBJECT = 0
  BY SizeAssumption DEF OBJECT
<1>2. ASSUME NEW n \in Nat, \A k \in 0 .. n - 1 : k \in T, n <= N
      PROVE  ChainOK(n)
  <2>1. CASE n = OBJECT
    BY <1>1, <2>1, ChainUnfolds DEF ChainOK
  <2>2. CASE n # OBJECT
    <3>1. n \in Types /\ n \in 1 .. n
      BY <1>1, <1>2, <2>2 DEF Types
    <3>2. PICK s : s = files[n].super
      OBVIOUS
    <3>3. /\ s \in 0 .. n - 1
          /\ s # OBJECT => ~IsInterface(s)
          /\ IsInterface(n) => s = OBJECT
      BY <3>1, <3>2, FileFacts
    <3>4. ChainOK(s)
      <4>1. s \in T /\ s <= N
        BY <1>1, <1>2, <3>3
      <4> QED BY <4>1
    <3>5. Chain(n) = {n} \cup Chain(s)
      BY <3>1, <3>2, ChainUnfolds
    <3>6. Chain(n) \subseteq 1 .. n /\ Chain(n) \subseteq Types
      <4>1. Chain(s) \subseteq 1 .. s /\ Chain(s) \subseteq Types
        BY <3>4 DEF ChainOK
      <4> QED BY <3>1, <3>3, <3>5, <4>1
    <3>7. \A m \in Chain(n) : Chain(m) \subseteq Chain(n)
      BY <3>4, <3>5 DEF ChainOK
    <3>8. ~IsInterface(n) => \A m \in Chain(n) : ~IsInterface(m)
      <4>1. CASE s = OBJECT
        <5>1. Chain(n) = {n}
          BY <3>5, <4>1, ChainUnfolds
        <5> QED BY <5>1
      <4>2. CASE s # OBJECT
        BY <3>3, <3>4, <3>5, <4>2 DEF ChainOK
      <4> QED BY <4>1, <4>2
    <3> QED BY <3>5, <3>6, <3>7, <3>8 DEF ChainOK
  <2> QED BY <2>1, <2>2
<1>3. \A n \in Nat : (\A k \in 0 .. n - 1 : k \in T) => n \in T
  BY <1>2
<1> HIDE DEF T
<1>4. \A n \in Nat : n \in T
  BY <1>3, Induction
<1> QED BY <1>1, <1>4 DEF T

SupertypesOK(n) ==
  /\ n \in Supertypes[n] /\ Chain(n) \subseteq Supertypes[n]
  /\ Supertypes[n] \subseteq 0 .. n /\ OBJECT \in Supertypes[n]
  /\ \A m \in Chain(n) : Supertypes[m] \subseteq Supertypes[n]

(* The superclasses of a type are supertypes, and so are theirs.           *)
LEMMA SupertypeFacts ==
  ASSUME Compile(files, N)
  PROVE  \A n \in 0 .. N : SupertypesOK(n)
<1> DEFINE T == {n \in Nat : n <= N => SupertypesOK(n)}
<1>1. N \in Nat /\ OBJECT = 0
  BY SizeAssumption DEF OBJECT
<1>2. ASSUME NEW n \in Nat, \A k \in 0 .. n - 1 : k \in T, n <= N
      PROVE  SupertypesOK(n)
  <2>1. CASE n = OBJECT
    BY <1>1, <2>1, ChainUnfolds, SupertypesUnfold DEF SupertypesOK
  <2>2. CASE n # OBJECT
    <3>1. n \in Types
      BY <1>1, <1>2, <2>2 DEF Types
    <3>2. PICK s : s = files[n].super
      OBVIOUS
    <3>3. PICK above : above = {Supertypes[files[n].interfaces[i]] : i \in DOMAIN files[n].interfaces}
      OBVIOUS
    <3>4. s \in 0 .. n - 1 /\ s \in 0 .. N
      BY <1>2, <3>1, <3>2, FileFacts
    <3>5. SupertypesOK(s)
      BY <1>1, <1>2, <3>4
    <3>6. Supertypes[n] = {n} \cup Supertypes[s] \cup UNION above
      BY <3>1, <3>2, <3>3, SupertypesUnfold
    <3>7. Chain(n) = {n} \cup Chain(s)
      BY <3>1, <3>2, ChainUnfolds
    <3>8. UNION above \subseteq 0 .. n
      <4> SUFFICES ASSUME NEW i \in DOMAIN files[n].interfaces
                   PROVE  Supertypes[files[n].interfaces[i]] \subseteq 0 .. n
        BY <3>3
      <4>1. PICK j : j = files[n].interfaces[i]
        OBVIOUS
      <4>2. j \in 1 .. n - 1 /\ n \in Nat
        BY <3>1, <4>1, FileFacts
      <4>3. SupertypesOK(j)
        BY <1>1, <1>2, <4>2
      <4>4. Supertypes[j] \subseteq 0 .. n
        BY <4>2, <4>3 DEF SupertypesOK
      <4> QED BY <4>1, <4>4
    <3>9. Supertypes[n] \subseteq 0 .. n
      <4>1. Supertypes[s] \subseteq 0 .. n
        BY <3>4, <3>5 DEF SupertypesOK
      <4> QED BY <3>6, <3>8, <4>1
    <3> QED BY <3>5, <3>6, <3>7, <3>9 DEF SupertypesOK
  <2> QED BY <2>1, <2>2
<1>3. \A n \in Nat : (\A k \in 0 .. n - 1 : k \in T) => n \in T
  BY <1>2
<1> HIDE DEF T
<1>4. \A n \in Nat : n \in T
  BY <1>3, Induction
<1> QED BY <1>1, <1>4 DEF T

FirstOK(n) == /\ FirstInterfaces(n) \subseteq Supertypes[n] \cap Types
              /\ \A i \in FirstInterfaces(n) : IsInterface(i)

(* What interface_instanceof follows are interfaces among the supertypes.  *)
LEMMA FirstFacts ==
  ASSUME Compile(files, N)
  PROVE  \A n \in Types : FirstOK(n)
<1> DEFINE T == {n \in Nat : n \in Types => FirstOK(n)}
<1>1. N \in Nat /\ \A n \in Types : n \in 0 .. N /\ n \in Nat
  BY SizeAssumption DEF Types
<1>2. ASSUME NEW n \in Nat, \A k \in 0 .. n - 1 : k \in T, n \in Types
      PROVE  FirstOK(n)
  <2>1. CASE files[n].interfaces = << >>
    BY <1>2, <2>1, FirstUnfolds DEF FirstOK
  <2>2. CASE files[n].interfaces # << >>
    <3>1. PICK j : j = files[n].interfaces[1]
      OBVIOUS
    <3>2. 1 \in DOMAIN files[n].interfaces /\ j \in 1 .. n - 1 /\ j \in Types /\ IsInterface(j)
      BY <1>2, <2>2, <3>1, FileFacts
    <3>3. FirstOK(j)
      <4>1. j \in 0 .. n - 1
        BY <3>2
      <4> QED BY <1>2, <3>2, <4>1
    <3>4. FirstInterfaces(n) = {j} \cup FirstInterfaces(j)
      BY <1>2, <2>2, <3>1, FirstUnfolds
    <3>5. Supertypes[j] \subseteq Supertypes[n]
      BY <1>2, <3>1, <3>2, SupertypesUnfold
    <3>6. j \in Supertypes[j]
      BY <1>1, <3>2, SupertypeFacts DEF SupertypesOK
    <3> QED BY <3>2, <3>3, <3>4, <3>5, <3>6 DEF FirstOK
  <2> QED BY <2>1, <2>2
<1>3. \A n \in Nat : (\A k \in 0 .. n - 1 : k \in T) => n \in T
  BY <1>2
<1> HIDE DEF T
<1>4. \A n \in Nat : n \in T
  BY <1>3, Induction
<1> QED BY <1>1, <1>4 DEF T

(* The types the test meets on its way: the superclasses, and the          *)
(* interfaces it follows from each of them.                                *)
Met(n) == Chain(n) \cup UNION {FirstInterfaces(s) : s \in Chain(n)}

(* The test meets supertypes only.                                         *)
LEMMA MetAreSupertypes ==
  ASSUME Compile(files, N), NEW n \in Types
  PROVE  Met(n) \subseteq Supertypes[n] \cap Types
<1>1. n \in 0 .. N
  BY SizeAssumption DEF Types
<1>2. ChainOK(n) /\ SupertypesOK(n)
  BY <1>1, ChainFacts, SupertypeFacts
<1>3. ASSUME NEW s \in Chain(n)
      PROVE  FirstInterfaces(s) \subseteq Supertypes[n] \cap Types
  <2>1. s \in Types /\ Supertypes[s] \subseteq Supertypes[n]
    BY <1>2 DEF ChainOK, SupertypesOK
  <2>2. FirstOK(s)
    BY <2>1, FirstFacts
  <2> QED BY <2>1, <2>2 DEF FirstOK
<1>4. Chain(n) \subseteq Supertypes[n] \cap Types
  BY <1>2 DEF ChainOK, SupertypesOK
<1>5. UNION {FirstInterfaces(s) : s \in Chain(n)} \subseteq Supertypes[n] \cap Types
  BY <1>3
<1> QED BY <1>4, <1>5 DEF Met

(* If no type names two interfaces, the test meets all supertypes but      *)
(* java/lang/Object, which has no file.                                    *)
LEMMA MetAll ==
  ASSUME Compile(files, N), SingleInterfaces
  PROVE  \A n \in 0 .. N : Supertypes[n] = {OBJECT} \cup Met(n)
<1> DEFINE Same1(n) == Supertypes[n] = {OBJECT} \cup Met(n)
           T == {n \in Nat : n <= N => Same1(n)}
<1>1. N \in Nat /\ OBJECT = 0 /\ \A n \in Types : n \in 0 .. N
  BY SizeAssumption DEF OBJECT, Types
<1>2. ASSUME NEW n \in Nat, \A k \in 0 .. n - 1 : k \in T, n <= N
      PROVE  Same1(n)
  <2>1. CASE n = OBJECT
    <3>1. Supertypes[n] = {OBJECT} /\ Chain(n) = {}
      BY <2>1, ChainUnfolds, SupertypesUnfold
    <3> QED BY <3>1 DEF Met
  <2>2. CASE n # OBJECT
    <3>1. n \in Types
      BY <1>1, <1>2, <2>2 DEF Types
    <3>2. PICK s : s = files[n].super
      OBVIOUS
    <3>3. PICK above : above = {Supertypes[files[n].interfaces[i]] : i \in DOMAIN files[n].interfaces}
      OBVIOUS
    <3>4. s \in 0 .. n - 1
      BY <3>1, <3>2, FileFacts
    <3>5. Supertypes[s] = {OBJECT} \cup Met(s)
      <4>1. s \in T /\ s <= N
        BY <1>1, <1>2, <3>4
      <4> QED BY <4>1
    <3>6. Supertypes[n] = {n} \cup Supertypes[s] \cup UNION above
      BY <3>1, <3>2, <3>3, SupertypesUnfold
    <3>7. Chain(n) = {n} \cup Chain(s)
      BY <3>1, <3>2, ChainUnfolds
    <3>8. Met(n) = {n} \cup FirstInterfaces(n) \cup Met(s)
      BY <3>7 DEF Met
    <3>9. {OBJECT} \cup UNION above = {OBJECT} \cup FirstInterfaces(n)
      <4>1. CASE files[n].interfaces = << >>
        <5>1. above = {}
          BY <3>3, <4>1
        <5> QED BY <3>1, <4>1, <5>1, FirstUnfolds
      <4>2. CASE files[n].interfaces # << >>
        <5>1. PICK j : j = files[n].interfaces[1]
          OBVIOUS
        <5>2. j \in 1 .. n - 1 /\ j \in Types /\ IsInterface(j)
          BY <3>1, <4>2, <5>1, FileFacts
        <5>3. DOMAIN files[n].interfaces = {1}
          BY <3>1, <4>2, FileFacts DEF SingleInterfaces
        <5>4. above = {Supertypes[j]}
          BY <3>3, <5>1, <5>3
        <5>5. Supertypes[j] = {OBJECT} \cup Met(j)
          <6>1. j \in T /\ j <= N
            BY <1>1, <1>2, <5>2
          <6> QED BY <6>1
        <5>6. Chain(j) = {j}
          <6>1. files[j].super = OBJECT
            BY <5>2, FileFacts
          <6> QED BY <5>2, <6>1, ChainUnfolds
        <5>7. Met(j) = {j} \cup FirstInterfaces(j)
          BY <5>6 DEF Met
        <5>8. FirstInterfaces(n) = {j} \cup FirstInterfaces(j)
          BY <3>1, <4>2, <5>1, FirstUnfolds
        <5>9. UNION above = Supertypes[j]
          BY <5>4
        <5> QED BY <5>5, <5>7, <5>8, <5>9
      <4> QED BY <4>1, <4>2
    <3> QED BY <3>5, <3>6, <3>8, <3>9
  <2> QED BY <2>1, <2>2
<1> HIDE DEF Same1
<1>3. \A n \in Nat : (\A k \in 0 .. n - 1 : k \in T) => n \in T
  BY <1>2
<1> HIDE DEF T
<1>4. \A n \in Nat : n \in T
  BY <1>3, Induction
<1>5. \A n \in 0 .. N : Same1(n)
  BY <1>1, <1>4 DEF T
<1> QED BY <1>5 DEF Same1

-----------------------------------------------------------------------------
(* Linked classes.                                                         *)

(* The superclasses of every linked class are linked, as their files say.  *)
Sane(known) ==
  /\ DOMAIN known \subseteq Types
  /\ \A n \in DOMAIN known : known[n] = files[n].super /\ Chain(n) \subseteq DOMAIN known

(* Loading more types keeps that, and loads them.                          *)
LEMMA LinkedStaysSane ==
  ASSUME Compile(files, N), NEW known, Sane(known), NEW ns, ns \subseteq Types \cup Numbers
  PROVE  /\ Sane(Linked(known, ns))
         /\ DOMAIN known \subseteq DOMAIN Linked(known, ns)
         /\ ns \cap Types \subseteq DOMAIN Linked(known, ns)
<1>1. \A n \in Types : ChainOK(n) /\ n # OBJECT /\ n \notin Numbers
  BY ChainFacts, SizeAssumption, PrimitiveAssumption DEF Types, OBJECT, Numbers
<1>2. Missing(known, ns) = (ns \cap Types) \ DOMAIN known
  BY <1>1 DEF Missing
<1>3. PICK more : more = Linked(known, ns)
  OBVIOUS
<1>4. DOMAIN more = DOMAIN known \cup UNION {Chain(n) : n \in (ns \cap Types) \ DOMAIN known}
  BY <1>2, <1>3 DEF Linked, AllOf
<1>5. DOMAIN more \subseteq Types
  BY <1>1, <1>4 DEF Sane, ChainOK
<1>6. ASSUME NEW n \in DOMAIN more
      PROVE  more[n] = files[n].super /\ Chain(n) \subseteq DOMAIN more
  <2>1. more[n] = IF n \in DOMAIN known THEN known[n] ELSE files[n].super
    BY <1>3 DEF Linked
  <2>2. more[n] = files[n].super
    BY <2>1 DEF Sane
  <2>3. CASE n \in DOMAIN known
    BY <1>4, <2>2, <2>3 DEF Sane
  <2>4. CASE n \notin DOMAIN known
    <3>1. PICK c \in (ns \cap Types) \ DOMAIN known : n \in Chain(c)
      BY <1>4, <2>4
    <3>2. Chain(n) \subseteq Chain(c)
      BY <1>1, <3>1 DEF ChainOK
    <3>3. Chain(c) \subseteq DOMAIN more
      BY <1>4, <3>1
    <3> QED BY <2>2, <3>2, <3>3
  <2> QED BY <2>3, <2>4
<1>7. ns \cap Types \subseteq DOMAIN more
  BY <1>1, <1>4 DEF ChainOK
<1> QED BY <1>3, <1>4, <1>5, <1>6, <1>7 DEF Sane

(* A walk over the super pointers of linked classes meets all              *)
(* superclasses.                                                           *)
LEMMA SupersAreChain ==
  ASSUME Compile(files, N), NEW known, Sane(known), NEW n \in DOMAIN known
  PROVE  Supers(known, n) = Chain(n)
<1> DEFINE Up(f) == f = [m \in {NULL} \cup DOMAIN known |->
                           IF m = NULL THEN {} ELSE {m} \cup f[known[m]]]
           up == CHOOSE f : Up(f)
           D == {NULL} \cup DOMAIN known
           chain == [m \in D |-> Chain(m)]
<1>1. N \in Nat /\ OBJECT = 0 /\ NULL = 0 /\ \A m \in Types : m \in Nat /\ m # NULL
  BY SizeAssumption DEF Types, OBJECT, NULL
<1>2. ASSUME NEW m \in DOMAIN known
      PROVE  /\ known[m] \in 0 .. m - 1 /\ known[m] \in D
             /\ Chain(m) = {m} \cup Chain(known[m])
  <2>1. m \in Types /\ known[m] = files[m].super /\ Chain(m) \subseteq DOMAIN known
    BY DEF Sane
  <2>2. /\ files[m].super \in 0 .. m - 1
        /\ files[m].super # OBJECT => files[m].super \in Types
    BY <2>1, FileFacts
  <2>3. Chain(m) = {m} \cup Chain(files[m].super)
    BY <2>1, ChainUnfolds
  <2>4. files[m].super # OBJECT => files[m].super \in Chain(files[m].super)
    BY <2>2, ChainUnfolds
  <2> QED BY <1>1, <2>1, <2>2, <2>3, <2>4
<1>3. Up(chain)
  <2>1. ASSUME NEW m \in D
        PROVE  chain[m] = IF m = NULL THEN {} ELSE {m} \cup chain[known[m]]
    <3>1. CASE m = NULL
      BY <1>1, <3>1, ChainUnfolds
    <3>2. CASE m # NULL
      BY <1>2, <3>2
    <3> QED BY <3>1, <3>2
  <2>2. chain = [m \in D |-> chain[m]]
    OBVIOUS
  <2> HIDE DEF chain
  <2> QED BY <2>1, <2>2
<1>4. Up(up)
  BY <1>3, Zenon
<1>5. Supers(known, n) = up[n]
  BY Zenon DEF Supers
<1> HIDE DEF up
<1>6. \A m \in D : up[m] = IF m = NULL THEN {} ELSE {m} \cup up[known[m]]
  BY <1>4
<1> DEFINE T == {m \in Nat : m \in D => up[m] = Chain(m)}
<1>7. ASSUME NEW m \in Nat, \A k \in 0 .. m - 1 : k \in T, m \in D
      PROVE  up[m] = Chain(m)
  <2>1. CASE m = NULL
    BY <1>1, <1>6, <2>1, ChainUnfolds
  <2>2. CASE m # NULL
    <3>1. known[m] \in T /\ known[m] \in D
      BY <1>2, <1>7, <2>2
    <3>2. up[m] = {m} \cup up[known[m]]
      BY <1>6, <2>2, <1>7
    <3>3. Chain(m) = {m} \cup Chain(known[m])
      BY <1>2, <1>7, <2>2
    <3> QED BY <3>1, <3>2, <3>3
  <2> QED BY <2>1, <2>2
<1>8. \A m \in Nat : (\A k \in 0 .. m - 1 : k \in T) => m \in T
  BY <1>7
<1> HIDE DEF T
<1>9. n \in T
  BY <1>1, <1>8, Induction DEF Sane
<1> QED BY <1>5, <1>9 DEF T

-----------------------------------------------------------------------------
(* The answers.                                                            *)

(* About an object that is no array, the test of the code is whether it    *)
(* meets the type.                                                         *)
LEMMA PlainMeets ==
  ASSUME Compile(files, N), NEW known, Sane(known), NEW c, NEW t,
         c.name \in DOMAIN known, ~IsInterface(c.name), t.name \in Types
  PROVE  PlainInstanceof(known, c, t) <=> t.dims = 0 /\ t.name \in Met(c.name)
<1>1. /\ Supers(known, c.name) = Chain(c.name)
      /\ c.name \in Types /\ c.name \in 0 .. N /\ c.name # OBJECT
  BY SupersAreChain, SizeAssumption DEF Sane, Types, OBJECT
<1>2. \A m \in Chain(c.name) : m \in Types /\ ~IsInterface(m)
  BY <1>1, ChainFacts DEF ChainOK
<1>3. \A s \in Chain(c.name) : \A i \in FirstInterfaces(s) : IsInterface(i)
  BY <1>2, FirstFacts DEF FirstOK
<1>4. t.name \in Met(c.name) <=> \/ t.name \in Chain(c.name)
                                 \/ \E s \in Chain(c.name) : t.name \in FirstInterfaces(s)
  BY DEF Met
<1>5. CASE IsInterface(t.name)
  BY <1>1, <1>2, <1>4, <1>5 DEF PlainInstanceof, InterfaceInstanceof
<1>6. CASE ~IsInterface(t.name)
  BY <1>1, <1>3, <1>4, <1>6 DEF PlainInstanceof, InterfaceInstanceof
<1> QED BY <1>5, <1>6

(* So it is for the element of an array.                                   *)
LEMMA ElementMeets ==
  ASSUME Compile(files, N), NEW known, Sane(known), NEW c, NEW t, c.name \in DOMAIN known
  PROVE  ElementInstanceof(known, c, t) <=> t.name \in Met(c.name)
<1>1. Supers(known, c.name) = Chain(c.name)
  BY SupersAreChain
<1> QED BY <1>1 DEF ElementInstanceof, InterfaceInstanceof, Met

(* Met types are subtypes, and the only ones if no type names two          *)
(* interfaces.                                                             *)
LEMMA MetIsSubtype ==
  ASSUME Compile(files, N), NEW n \in Types, NEW m \in Types
  PROVE  /\ m \in Met(n) => m \in Supertypes[n]
         /\ SingleInterfaces => (m \in Met(n) <=> m \in Supertypes[n])
         /\ n \in Met(n)
<1>1. n \in 0 .. N /\ n # OBJECT /\ m # OBJECT
  BY SizeAssumption DEF Types, OBJECT
<1>2. n \in Chain(n)
  BY <1>1, ChainFacts DEF ChainOK
<1>3. SingleInterfaces => Supertypes[n] = {OBJECT} \cup Met(n)
  BY <1>1, MetAll
<1>4. n \in Met(n)
  BY <1>2 DEF Met
<1> QED BY <1>1, <1>3, <1>4, MetAreSupertypes

(* What the program may ask.                                               *)
LEMMA ObjectFacts ==
  ASSUME NEW o \in Objects, NEW t \in Asked
  PROVE  /\ o.isArray \in BOOLEAN
         /\ ~o.isArray => /\ o.class = o.type /\ o.class.dims = 0
                          /\ o.class.name \in Types /\ ~IsInterface(o.class.name)
         /\ o.isArray => /\ o.class.name \in Types \cup Numbers
                         /\ o.class.name \in Numbers => o.class.dims > 0
         /\ o.class \in Class /\ t \in Class
         /\ t.name \in 0 .. N \cup Primitives
         /\ t.name \in Numbers => t.dims > 0
<1>1. 0 \in 0 .. MaxDims /\ 1 \in 0 .. MaxDims
  BY SizeAssumption
<1>2. /\ t \in Class /\ t.name \in 0 .. N \cup Primitives
      /\ t.name \in Numbers => t.dims > 0
  BY PrimitiveAssumption DEF Asked, Numbers
<1>3. CASE o \in Plain
  <2>1. PICK n \in Types : /\ ~IsInterface(n)
                           /\ o = [class |-> [name |-> n, dims |-> 0], isArray |-> FALSE,
                                   type |-> [name |-> n, dims |-> 0]]
    BY <1>3 DEF Plain
  <2>2. o.class \in Class
    BY <1>1, <2>1 DEF Class, Types
  <2> QED BY <1>2, <2>1, <2>2
<1>4. \A e \in Headers : /\ e \in Class /\ e.name \in Types \cup Numbers
                         /\ e.name \in Numbers => e.dims > 0
  BY SizeAssumption, PrimitiveAssumption DEF Headers, Types, Numbers
<1>5. CASE o \in NewArrays
  <2>1. PICK q \in Primitives :
          o = [class |-> [name |-> newarray_class[q], dims |-> 1], isArray |-> TRUE,
               type |-> [name |-> q, dims |-> 1]]
    BY <1>5 DEF NewArrays
  <2>2. newarray_class[q] \in Known
    BY PrimitiveAssumption
  <2>3. o.class \in Class
    BY <1>1, <2>1, <2>2 DEF Class, Numbers
  <2> QED BY <1>2, <2>1, <2>2, <2>3 DEF Numbers
<1>6. CASE o \in ANewArrays
  <2>1. PICK e \in Headers :
          o = [class |-> e, isArray |-> TRUE, type |-> [e EXCEPT !.dims = @ + 1]]
    BY <1>6 DEF ANewArrays
  <2> QED BY <1>2, <1>4, <2>1
<1>7. CASE o \in MultiArrays
  <2>1. PICK e \in Headers : o = [class |-> e, isArray |-> TRUE, type |-> e]
    BY <1>7 DEF MultiArrays
  <2> QED BY <1>2, <1>4, <2>1
<1> QED BY <1>3, <1>5, <1>6, <1>7 DEF Objects

(* The answer about an object that is no array.                            *)
LEMMA PlainVerdict ==
  ASSUME Compile(files, N), NEW known, Sane(known), NEW o \in Objects, NEW t \in Asked,
         ~o.isArray, o.class.name \in DOMAIN known, Outcome(known, o, t) # "dead"
  PROVE  /\ Outcome(known, o, t) = "yes" => Subtype(o.type, t)
         /\ SingleInterfaces => (Outcome(known, o, t) = "yes" <=> Subtype(o.type, t))
<1> DEFINE c == o.class
<1>1. /\ o.type = c /\ c.dims = 0 /\ c.name \in Types /\ ~IsInterface(c.name)
      /\ t \in Class /\ c \in Class /\ t.name \in 0 .. N \cup Primitives
      /\ t.name \in Numbers => t.dims > 0
  BY ObjectFacts
<1> HIDE DEF c
<1>2. ~Unknown(t.name) /\ t.name # OBJECT
  BY DEF Outcome, Unknown
<1>3. Outcome(known, o, t) = "yes" <=> Same(c, t) \/ PlainInstanceof(known, c, t)
  BY <1>2 DEF Outcome, c
<1>4. c.name \notin Numbers /\ OBJECT = 0 /\ c.name # OBJECT
  BY <1>1, SizeAssumption, PrimitiveAssumption DEF Types, OBJECT, Numbers
<1>5. CASE t.dims # 0
  <2>1. ~Same(c, t) /\ ~PlainInstanceof(known, c, t)
    BY <1>1, <1>5 DEF Same, PlainInstanceof
  <2>2. ~Subtype(c, t)
    BY <1>1, <1>2, <1>5 DEF Subtype
  <2> QED BY <1>1, <1>3, <2>1, <2>2
<1>6. CASE t.dims = 0
  <2>1. t.name \in Types
    BY <1>1, <1>2, <1>6 DEF Types, OBJECT, Numbers
  <2>2. PlainInstanceof(known, c, t) <=> t.name \in Met(c.name)
    BY <1>1, <1>6, <2>1, PlainMeets DEF c
  <2>3. Same(c, t) => c.name = t.name
    BY DEF Same
  <2>4. Subtype(c, t) <=> t.name \in Supertypes[c.name]
    <3>1. c = t => t.name \in Supertypes[c.name]
      BY <1>1, <2>1, MetIsSubtype
    <3> QED BY <1>1, <1>2, <1>6, <3>1 DEF Subtype
  <2>5. /\ t.name \in Met(c.name) => t.name \in Supertypes[c.name]
        /\ SingleInterfaces => (t.name \in Met(c.name) <=> t.name \in Supertypes[c.name])
        /\ c.name \in Met(c.name)
    BY <1>1, <2>1, MetIsSubtype
  <2>6. Outcome(known, o, t) = "yes" <=> t.name \in Met(c.name)
    BY <1>3, <2>2, <2>3, <2>5
  <2> QED BY <1>1, <2>4, <2>5, <2>6
<1> QED BY <1>5, <1>6

(* The answer about an array, asked about an array type.                   *)
LEMMA ArrayVerdict ==
  ASSUME Compile(files, N), NEW known, Sane(known), NEW o \in Objects, NEW t \in Asked,
         o.isArray, o.class.name \in DOMAIN known \cup Numbers,
         Outcome(known, o, t) # "dead", SingleInterfaces, t.dims > 0
  PROVE  Outcome(known, o, t) = "yes" <=> Subtype(Apparent(o), t)
<1>1. PICK c : c = o.class
  OBVIOUS
<1>2. PICK s : s = Apparent(o)
  OBVIOUS
<1>3. /\ c.name \in Types \cup Numbers
      /\ c.name \in Numbers => c.dims > 0
      /\ c \in Class /\ t \in Class
  BY <1>1, ObjectFacts
<1>4. c.dims \in Nat /\ t.dims \in Nat /\ t.dims # 0
  BY <1>3, SizeAssumption DEF Class
<1>5. ~Unknown(t.name) /\ t.name # OBJECT
  BY DEF Outcome, Unknown
<1>6. /\ \A n \in Numbers : n \notin Types /\ n # OBJECT
      /\ \A n \in Types : n # OBJECT
  BY SizeAssumption, PrimitiveAssumption DEF Types, OBJECT, Numbers
<1>7. /\ s.name = c.name
      /\ s.dims = IF c.dims = 0 THEN 1 ELSE c.dims
      /\ c.dims # 0 => s = c
  BY <1>1, <1>2, <1>3 DEF Apparent, Class
<1>8. Subtype(s, t) <=> s = t \/ (s.name \in Types /\ s.dims = t.dims /\ t.name \in Supertypes[s.name])
  BY <1>5 DEF Subtype
<1>9. Outcome(known, o, t) =
        IF Same(c, t) THEN "yes"
        ELSE IF SamePrimitive(c, t) \/ ~Comparable(c, t) THEN "no"
        ELSE IF NoFile(c.name) \/ NoFile(t.name) THEN "dead"
        ELSE IF ElementInstanceof(known, c, t) THEN "yes" ELSE "no"
  BY <1>1, <1>5 DEF Outcome
<1>10. s.dims = t.dims <=> Comparable(c, t)
  BY <1>4, <1>7 DEF Comparable
<1>11. Same(c, t) => s = t
  BY <1>4, <1>7 DEF Same
<1>12. CASE Same(c, t)
  BY <1>2, <1>8, <1>9, <1>11, <1>12
<1>13. CASE ~Same(c, t) /\ ~Comparable(c, t)
  BY <1>2, <1>8, <1>9, <1>10, <1>13
<1>14. CASE ~Same(c, t) /\ Comparable(c, t) /\ SamePrimitive(c, t)
  <2>1. c.name \in Numbers /\ c.name = t.name
    BY <1>14 DEF SamePrimitive
  <2>2. s.name \notin Types
    BY <1>6, <1>7, <2>1
  <2>3. s # t
    <3>1. s = c
      BY <1>3, <1>4, <1>7, <2>1
    <3> QED BY <1>14, <2>1, <3>1 DEF Same
  <2> QED BY <1>2, <1>8, <1>9, <1>14, <2>2, <2>3
<1>15. CASE ~Same(c, t) /\ Comparable(c, t) /\ ~SamePrimitive(c, t)
  <2>1. c.name \in Types /\ t.name \in Types
    BY <1>1, <1>9, <1>15 DEF NoFile
  <2>2. c.name \in DOMAIN known
    BY <1>1, <1>6, <2>1
  <2>3. Outcome(known, o, t) = "yes" <=> t.name \in Met(c.name)
    BY <1>9, <1>15, <2>1, <2>2, ElementMeets DEF NoFile
  <2>4. t.name \in Met(c.name) <=> t.name \in Supertypes[c.name]
    BY <2>1, MetIsSubtype
  <2>5. s = t => t.name \in Met(c.name)
    BY <1>7, <2>1, MetIsSubtype
  <2> QED BY <1>2, <1>7, <1>8, <1>10, <1>15, <2>1, <2>3, <2>4, <2>5
<1> QED BY <1>12, <1>13, <1>14, <1>15

-----------------------------------------------------------------------------
(* The invariants.                                                         *)

(* Linking is what the answers rest on; the answers themselves do not      *)
(* change until the next question.                                         *)
IInv == TypeOK /\ Linking /\ PlainSound /\ PlainComplete /\ ArrayByHeader

(* Linking says of the loaded classes what a test needs.                   *)
LEMMA LinkingIsSane == TypeOK => (Linking <=> Sane(super))
BY DEF TypeOK, Linking, Sane, Loaded

(* The types a test looks up are in the class path.                        *)
LEMMA LookedUpAreTypes ==
  ASSUME Compile(files, N), NEW known, Sane(known), NEW o \in Objects, NEW t \in Asked,
         o.class.name \in DOMAIN known \cup Numbers, TestsInterfaces(known, o, t)
  PROVE  LookedUp(known, o.class, t) \subseteq Types
<1>1. PICK c : c = o.class
  OBVIOUS
<1>2. c.name \in Types
  <2>1. CASE ~o.isArray
    BY <1>1, <2>1, ObjectFacts
  <2>2. CASE o.isArray
    <3>1. /\ Outcome(known, o, t) # "dead" /\ ~Same(c, t) /\ ~SamePrimitive(c, t)
          /\ Comparable(c, t)
      BY <1>1, <2>2 DEF TestsInterfaces
    <3>2. ~NoFile(c.name)
      BY <1>1, <2>2, <3>1 DEF Outcome
    <3> QED BY <3>2 DEF NoFile
  <2> QED BY <2>1, <2>2
<1>3. Supers(known, c.name) = Chain(c.name) /\ Chain(c.name) \subseteq Types
  <2>1. c.name \in DOMAIN known
    BY <1>1, <1>2, SizeAssumption, PrimitiveAssumption DEF Types, Numbers
  <2> QED BY <2>1, SupersAreChain DEF Sane
<1>4. \A s \in Chain(c.name) : FirstInterfaces(s) \subseteq Types
  BY <1>3, FirstFacts DEF FirstOK
<1>5. LookedUp(known, c, t) \subseteq UNION {FirstInterfaces(s) : s \in Chain(c.name)}
  BY <1>3 DEF LookedUp
<1> QED BY <1>1, <1>4, <1>5

(* Every class path of the program compiles.                               *)
LEMMA InitInv == Init => IInv
<1> SUFFICES ASSUME Init
             PROVE  IInv
  OBVIOUS
<1>1. files \in ClassPaths /\ super = << >> /\ asked = None /\ answer = "no"
  BY DEF Init
<1>2. Loaded = {}
  BY <1>1 DEF Loaded
<1>3. TypeOK /\ Linking
  BY <1>1, <1>2 DEF TypeOK, Linking
<1>4. ~Answered
  BY <1>1 DEF Answered
<1> QED BY <1>3, <1>4 DEF IInv, PlainSound, PlainComplete, ArrayByHeader

(* The question and the answer, and what they mean, are as before.         *)
LEMMA SameAnswers ==
  ASSUME IInv, UNCHANGED <<files, asked, answer>>
  PROVE  PlainSound' /\ PlainComplete' /\ ArrayByHeader'
<1>1. Supertypes' = Supertypes
  BY SMT DEF Supertypes
<1>2. \A s, t : Subtype(s, t)' <=> Subtype(s, t)
  BY <1>1, Zenon DEF Subtype
<1>3. /\ PlainSound' <=> PlainSound
      /\ PlainComplete' <=> PlainComplete
      /\ ArrayByHeader' <=> ArrayByHeader
  BY <1>2, Zenon DEF PlainSound, PlainComplete, ArrayByHeader, Answered, Question, Target, Yes,
     IsSubtype, SingleInterfaces, Apparent
<1> QED BY <1>3 DEF IInv

(* Types and links, once it is known what is loaded.                       *)
LEMMA LinkedTyped ==
  ASSUME Compile(files, N), files \in ClassPaths, UNCHANGED files, Sane(super'),
         asked' \in Objects \X Asked \/ asked' = None, answer' \in {"yes", "no", "dead"}
  PROVE  TypeOK' /\ Linking'
<1>1. \A n : Chain(n)' = Chain(n)
  BY Zenon DEF Chain
<1>2. \A n \in Loaded' : super'[n] \in 0 .. n - 1
  BY FileFacts DEF Sane, Loaded
<1>3. Loaded' \subseteq Types
  BY DEF Sane, Loaded
<1>4. (Objects \X Asked)' = Objects \X Asked
  BY DEF Objects, Plain, IsInterface, NewArrays, ANewArrays, MultiArrays, Headers, Asked, Class
<1>5. TypeOK'
  BY <1>2, <1>3, <1>4 DEF TypeOK
<1>6. Linking'
  BY <1>1 DEF Linking, Sane, Loaded
<1> QED BY <1>5, <1>6

(* Making an object loads its class.                                       *)
LEMMA MakeInv ==
  ASSUME IInv, NEW n \in Types, Make(n)
  PROVE  IInv'
<1>1. /\ super' = Linked(super, {n})
      /\ UNCHANGED <<files, asked, answer>>
  BY DEF Make
<1>2. Compile(files, N) /\ Sane(super)
  BY FilesCompile, LinkingIsSane DEF IInv, TypeOK
<1>3. Sane(super')
  BY <1>1, <1>2, LinkedStaysSane
<1>4. TypeOK' /\ Linking'
  BY <1>1, <1>2, <1>3, LinkedTyped DEF IInv, TypeOK
<1> QED BY <1>1, <1>4, SameAnswers DEF IInv

(* A question is answered from the links it finds and adds.                *)
LEMMA InstanceofInv ==
  ASSUME IInv, NEW o \in Objects, NEW t \in Asked, Instanceof(o, t)
  PROVE  IInv'
<1>1. PICK known : known = IF Unknown(t.name) THEN super ELSE Linked(super, {t.name})
  OBVIOUS
<1>2. PICK looked : looked = LookedUp(known, o.class, t)
  OBVIOUS
<1>3. /\ o.class.name \in Loaded \cup Numbers
      /\ answer' = Outcome(known, o, t)
      /\ super' = IF TestsInterfaces(known, o, t) THEN Linked(known, looked) ELSE known
      /\ asked' = <<o, t>> /\ files' = files
  BY <1>1, <1>2 DEF Instanceof
<1>4. Compile(files, N) /\ Sane(super) /\ files \in ClassPaths
  BY FilesCompile, LinkingIsSane DEF IInv, TypeOK
<1>5. Sane(known) /\ o.class.name \in DOMAIN known \cup Numbers
  <2>1. CASE Unknown(t.name)
    BY <1>1, <1>3, <1>4, <2>1 DEF Loaded
  <2>2. CASE ~Unknown(t.name)
    <3>1. {t.name} \subseteq Types \cup Numbers
      <4>1. t.name \in 0 .. N \cup Primitives
        BY ObjectFacts
      <4> QED BY <2>2, <4>1, SizeAssumption DEF Types, OBJECT, Numbers, Unknown
    <3>2. Sane(known) /\ DOMAIN super \subseteq DOMAIN known
      BY <1>1, <1>4, <2>2, <3>1, LinkedStaysSane
    <3> QED BY <1>3, <3>2 DEF Loaded
  <2> QED BY <2>1, <2>2
<1>6. Sane(super')
  <2>1. CASE TestsInterfaces(known, o, t)
    <3>1. looked \subseteq Types \cup Numbers
      BY <1>2, <1>4, <1>5, <2>1, LookedUpAreTypes
    <3> QED BY <1>3, <1>4, <1>5, <2>1, <3>1, LinkedStaysSane
  <2>2. CASE ~TestsInterfaces(known, o, t)
    BY <1>3, <1>5, <2>2
  <2> QED BY <2>1, <2>2
<1>7. TypeOK' /\ Linking'
  <2>1. Outcome(known, o, t) \in {"yes", "no", "dead"}
    BY DEF Outcome
  <2> QED BY <1>3, <1>4, <1>6, <2>1, LinkedTyped
<1>8. /\ Supertypes' = Supertypes
      /\ SingleInterfaces' <=> SingleInterfaces
  <2>1. Supertypes' = Supertypes
    BY <1>3, SMT DEF Supertypes
  <2> QED BY <1>3, <2>1 DEF SingleInterfaces
<1>9. /\ Answered' => Outcome(known, o, t) # "dead"
      /\ Question' = o.type /\ Target' = t /\ asked'[1] = o
      /\ Yes' <=> Outcome(known, o, t) = "yes"
      /\ IsSubtype' <=> Subtype(o.type, t)
  <2>1. asked'[1] = o /\ asked'[2] = t
    BY <1>3
  <2>2. Question' = o.type /\ Target' = t
    BY <2>1 DEF Question, Target
  <2>3. IsSubtype' <=> Subtype(o.type, t)
    BY <1>8, <2>2, Zenon DEF IsSubtype, Subtype
  <2> QED BY <1>3, <2>1, <2>2, <2>3 DEF Answered, Yes
<1>10. ASSUME Answered', ~o.isArray
       PROVE  /\ Yes' => IsSubtype'
              /\ SingleInterfaces' => (Yes' <=> IsSubtype')
  <2>1. o.class.name \in DOMAIN known
    <3>1. o.class.name \in Types
      BY <1>10, ObjectFacts
    <3> QED BY <1>5, <3>1, SizeAssumption, PrimitiveAssumption DEF Types, Numbers
  <2> QED BY <1>4, <1>5, <1>8, <1>9, <1>10, <2>1, PlainVerdict
<1>11. ASSUME Answered', o.isArray, SingleInterfaces', t.dims > 0
       PROVE  Yes' <=> Subtype(Apparent(o), t)
  BY <1>4, <1>5, <1>8, <1>9, <1>11, ArrayVerdict
<1>12. PlainSound' /\ PlainComplete'
  BY <1>9, <1>10 DEF PlainSound, PlainComplete
<1>13. ArrayByHeader'
  <2>1. Subtype(Apparent(asked[1]), Target)' <=> Subtype(Apparent(o), t)
    BY <1>8, <1>9, Zenon DEF Subtype, Apparent
  <2> QED BY <1>9, <1>11, <2>1 DEF ArrayByHeader
<1> QED BY <1>7, <1>12, <1>13 DEF IInv

(* Every state the program reaches is as the invariant says.               *)
THEOREM Invariance == Spec => []IInv
<1>1. Init => IInv
  BY InitInv
<1>2. IInv /\ [Next]_vars => IInv'
  <2> SUFFICES ASSUME IInv, [Next]_vars
               PROVE  IInv'
    OBVIOUS
  <2>1. CASE \E n \in Types : Make(n)
    BY <2>1, MakeInv
  <2>2. CASE \E o \in Objects, t \in Asked : Instanceof(o, t)
    BY <2>2, InstanceofInv
  <2>3. CASE UNCHANGED vars
    <3>1. UNCHANGED <<files, super, asked, answer>>
      BY <2>3 DEF vars
    <3>2. Compile(files, N) /\ Sane(super) /\ files \in ClassPaths
      BY FilesCompile, LinkingIsSane DEF IInv, TypeOK
    <3>3. TypeOK' /\ Linking'
      BY <3>1, <3>2, LinkedTyped DEF IInv, TypeOK
    <3> QED BY <3>1, <3>3, SameAnswers DEF IInv
  <2> QED BY <2>1, <2>2, <2>3 DEF Next
<1> QED BY <1>1, <1>2, PTL DEF Spec

(* A class is loaded under its name, in the class path, with a super       *)
(* pointer to a type below it.                                             *)
THEOREM TypeCorrect == Spec => []TypeOK
<1>1. IInv => TypeOK
  BY DEF IInv
<1> QED BY <1>1, Invariance, PTL

(* Whatever is loaded, and in whatever order, every loaded class has its   *)
(* whole chain of superclasses linked: no walk ends early.                 *)
THEOREM ChainsLinked == Spec => []Linking
<1>1. IInv => Linking
  BY DEF IInv
<1> QED BY <1>1, Invariance, PTL

(* instanceof never says yes of an object that is no array and no          *)
(* instance.                                                               *)
THEOREM SoundOnObjects == Spec => []PlainSound
<1>1. IInv => PlainSound
  BY DEF IInv
<1> QED BY <1>1, Invariance, PTL

(* In class paths whose types name at most one interface, the answers      *)
(* about such objects are the language's.                                  *)
THEOREM CompleteOnObjects == Spec => []PlainComplete
<1>1. IInv => PlainComplete
  BY DEF IInv
<1> QED BY <1>1, Invariance, PTL

(* And the answers about arrays are the language's for the type that the   *)
(* header an array instruction gave them stands for.                       *)
THEOREM HeaderDecides == Spec => []ArrayByHeader
<1>1. IInv => ArrayByHeader
  BY DEF IInv
<1> QED BY <1>1, Invariance, PTL
=============================================================================
