-------------------------- MODULE ClassLoaderProofs --------------------------
(***************************************************************************)
(* What holds of czvm's class loader for every class path, whatever the    *)
(* classes are and however their initialisers load one another.            *)
(***************************************************************************)
EXTENDS ClassLoader, Foundations, SequenceTheorems

-----------------------------------------------------------------------------
(* Sequences, files and activations.                                       *)

(* What is before the last element of a sequence.                          *)
LEMMA Prefix ==
  ASSUME NEW S, NEW s \in Seq(S), NEW n \in Nat, n <= Len(s)
  PROVE  /\ SubSeq(s, 1, n) \in Seq(S) /\ Len(SubSeq(s, 1, n)) = n
         /\ \A k \in 1 .. n : SubSeq(s, 1, n)[k] = s[k]
  OBVIOUS

(* The parts that SequencesExt takes a non-empty stack into.               *)
LEMMA StackFacts ==
  ASSUME NEW S, NEW s \in Seq(S), s # << >>
  PROVE  /\ Len(s) \in Nat \ {0} /\ Last(s) = s[Len(s)] /\ Last(s) \in S
         /\ Front(s) \in Seq(S) /\ Len(Front(s)) = Len(s) - 1
         /\ \A k \in 1 .. Len(s) - 1 : Front(s)[k] = s[k]
<1>1. Len(s) \in Nat \ {0}
  BY EmptySeq
<1>2. Last(s) = s[Len(s)] /\ Last(s) \in S
  BY <1>1, ElementOfSeq DEF Last
<1> DEFINE n == Len(s) - 1
<1>3. n \in Nat /\ n <= Len(s)
  BY <1>1
<1> HIDE DEF n
<1>4. /\ SubSeq(s, 1, n) \in Seq(S) /\ Len(SubSeq(s, 1, n)) = n
      /\ \A k \in 1 .. n : SubSeq(s, 1, n)[k] = s[k]
  BY <1>3, Prefix
<1> QED BY <1>1, <1>2, <1>4 DEF Front, n

(* Attributes are read to their end, or leave a position behind.           *)
LEMMA ReadAllPosition ==
  ASSUME NEW kinds \in Seq(STRING), NEW known
  PROVE  ReadAll(kinds, known) \in {"aligned", "shifted", "misread"}
  BY DEF ReadAll

(* A class that has a file is a class of the program, and the file is a    *)
(* class file.                                                             *)
LEMMA FileFacts ==
  ASSUME path \in [Classes -> {NOFILE} \cup ClassFile], NEW name, File(name) # NOFILE
  PROVE  name \in Classes /\ File(name) = path[name] /\ File(name) \in ClassFile
  BY DEF File

(* The parts of a method in a class file.                                  *)
LEMMA MethodFacts ==
  ASSUME NEW file \in ClassFile, NEW i \in DOMAIN file.methods
  PROVE  /\ file.methods \in Seq(MethodInfo) /\ i \in 1 .. Len(file.methods)
         /\ file.methods[i] \in MethodInfo
         /\ file.methods[i].body \in Seq(Instruction)
         /\ MethodEnd(file.methods[i]) \in Positions
<1>1. file.methods \in Seq(MethodInfo) /\ i \in 1 .. Len(file.methods)
  BY DEF ClassFile
<1>2. file.methods[i] \in MethodInfo
  BY <1>1
<1>3. ReadAll(file.methods[i].code, CodeAttributes) \in {"aligned", "shifted", "misread"}
  BY <1>2, ReadAllPosition DEF MethodInfo
<1>4. MethodEnd(file.methods[i]) \in Positions
  BY <1>3 DEF MethodEnd, Positions
<1> QED BY <1>1, <1>2, <1>4 DEF MethodInfo

(* An activation moves on in its file, its method or the list.             *)
LEMMA Moved ==
  ASSUME NEW a \in Activation, NEW n \in Nat
  PROVE  LET b == [a EXCEPT !.at = n] IN
         /\ b \in Activation /\ b.at = n /\ b.does = a.does /\ b.class = a.class
         /\ a.does = "run" => b.method = a.method /\ b.loaded = a.loaded
         /\ a.does # "run" => b.id = a.id
<1>1. CASE a \in [does : {"parse", "link"}, class : Classes, id : Nat, at : Nat]
  BY <1>1 DEF Activation
<1>2. CASE a \in [does : {"run"}, class : Classes, method : Nat, at : Nat, loaded : BOOLEAN]
  BY <1>2 DEF Activation
<1> QED BY <1>1, <1>2 DEF Activation

(* The fields of an activation.                                            *)
LEMMA ActivationFacts ==
  ASSUME NEW a \in Activation
  PROVE  /\ a.does \in {"parse", "link", "run"} /\ a.class \in Classes /\ a.at \in Nat
         /\ a.does = "run" => a.method \in Nat /\ a.loaded \in BOOLEAN
         /\ a.does # "run" => a.id \in Nat
  BY DEF Activation

-----------------------------------------------------------------------------
(* The inductive invariant.                                                *)

Body(a)   == MethodsOf(a)[a.method].body
NameOf(a) == MethodsOf(a)[a.method].name
Loads     == {a \in {stack[k] : k \in DOMAIN stack} : a.does # "run"}
Parsing   == {k \in DOMAIN stack : stack[k].does = "parse"}

(* What may be under way inside of what: anything inside an instruction, a *)
(* load inside the linking of a class, and inside its parsing only its     *)
(* initialiser.                                                            *)
Inside(a, b) ==
  \/ b.does = "run" /\ b.at <= Len(Body(b))
  \/ b.does = "link" /\ a.does # "run"
  \/ b.does = "parse" /\ a.does = "run" /\ NameOf(a) = "clinit"
Nested == /\ \A k \in 1 .. Len(stack) - 1 : Inside(stack[k + 1], stack[k])
          /\ stack # << >> => class_list # << >>
          /\ status = "run" => cursor # "misread"

(* Each entry of the class list keeps a descriptor, each load under way a  *)
(* second one, and only loads of arrays leave others open.                 *)
NoArrays == \A o \in AllOps : o.class \notin Primitives \cup Arrays
Counted == /\ open >= Len(class_list) + Cardinality(Parsing)
           /\ NoArrays => open = Len(class_list) + Cardinality(Parsing)

(* A super pointer leads to the first entry of the superclass.             *)
Superclasses ==
  \A i \in DOMAIN class_list :
    class_list[i].super # 0 =>
      LET name == File(class_list[i].name).super IN
        class_list[i].name \in Classes /\ Listed(name) /\ class_list[i].super = find_class(name)

Closed(j, chain) == IF class_list[j].super = 0 THEN File(class_list[j].name).super = OBJECT
                    ELSE class_list[j].super \in chain

(* Of a class that is being linked, the chain of superclasses is unbroken  *)
(* but for the place linking has reached.                                  *)
Halfway ==
  \A a \in Loads : a.does = "link" =>
    /\ class_list[a.id].methods
    /\ \E chain \in SUBSET ClassEntries :
         a.id \in chain /\ a.at \in chain /\ \A j \in chain \ {a.at} : Closed(j, chain)

Complete == \A i \in ClassEntries :
  (\A a \in Loads : a.id # i) => class_list[i].methods /\ Linked(i)

(* Unless arrays leave directories open, each load gives one back before   *)
(* anything but its own initialisers runs.                                 *)
Spare == NoArrays /\ Parsing = {} /\ class_list # << >> => open < FdLimit

(* A class that calls name as the declaring one is loaded only if it is    *)
(* not in the list.                                                        *)
Unique == Direct => \A i, j \in ClassEntries : class_list[i].name = class_list[j].name => i = j

IInv == /\ TypeOK /\ Nested /\ Counted /\ Superclasses /\ Halfway /\ Complete
        /\ Spare /\ Unique

-----------------------------------------------------------------------------
(* What depends on what.                                                   *)

(* A found class is its first entry.                                       *)
LEMMA FirstEntry ==
  ASSUME class_list \in Seq(Entry), NEW name, Listed(name)
  PROVE  find_class(name) \in Entries(name) /\ \A j \in Entries(name) : find_class(name) <= j
<1>1. Entries(name) \in SUBSET Nat /\ Entries(name) # {}
  BY DEF Entries, Listed
<1>2. \E m \in Entries(name) : \A j \in Entries(name) : m <= j
  BY <1>1, LeastNumber
<1> QED BY <1>2 DEF find_class

Extended == /\ class_list' \in Seq(Entry) /\ Len(class_list) <= Len(class_list')
            /\ \A i \in DOMAIN class_list :
                 /\ class_list'[i].name = class_list[i].name
                 /\ class_list[i].methods => class_list'[i].methods
            /\ path' = path

(* Entries that are added behind it leave a found class where it is.       *)
LEMMA FoundKept ==
  ASSUME class_list \in Seq(Entry), Extended, NEW name, Listed(name)
  PROVE  Listed(name)' /\ find_class(name)' = find_class(name)
<1>1. find_class(name) \in Entries(name) /\ \A j \in Entries(name) : find_class(name) <= j
  BY FirstEntry
<1>2. DOMAIN class_list = 1 .. Len(class_list) /\ DOMAIN class_list' = 1 .. Len(class_list')
      /\ Len(class_list) \in Nat /\ Len(class_list') \in Nat
  BY DEF Extended
<1>3. Entries(name) \subseteq Entries(name)'
  BY <1>2 DEF Entries, Extended
<1>4. Listed(name)'
  BY <1>1, <1>3 DEF Listed
<1>5. find_class(name)' \in Entries(name)' /\ \A j \in Entries(name)' : find_class(name)' <= j
  <2>1. Entries(name)' \in SUBSET Nat /\ Entries(name)' # {}
    BY <1>2, <1>4 DEF Entries, Listed
  <2>2. \E m \in Entries(name)' : \A j \in Entries(name)' : m <= j
    BY <2>1, LeastNumber
  <2> QED BY <2>2 DEF find_class
<1>6. find_class(name)' <= find_class(name)
  BY <1>1, <1>3, <1>5
<1>7. find_class(name)' \in Entries(name)
  BY <1>1, <1>2, <1>5, <1>6 DEF Entries, Extended
<1>8. find_class(name) <= find_class(name)' /\ find_class(name) \in Nat /\ find_class(name)' \in Nat
  BY <1>1, <1>2, <1>5, <1>7 DEF Entries
<1> QED BY <1>4, <1>6, <1>8

(* An activation still stands in its file or in the list when the list     *)
(* grows and keeps its names.                                              *)
LEMMA StandsKept ==
  ASSUME class_list \in Seq(Entry), Extended, NEW a \in Activation, Stands(a)
  PROVE  Stands(a)'
<1>1. CASE a.does = "run"
  BY <1>1 DEF Stands, Extended, File, MethodsOf
<1>2. CASE a.does # "run"
  <2>1. DOMAIN class_list = 1 .. Len(class_list) /\ DOMAIN class_list' = 1 .. Len(class_list')
        /\ Len(class_list) \in Nat /\ Len(class_list') \in Nat
    BY DEF Extended
  <2> QED BY <1>2, <2>1 DEF Stands, Extended, File, MethodsOf
<1> QED BY <1>1, <1>2

(* What an activation is inside of depends on the stack and the files      *)
(* only.                                                                   *)
LEMMA InsideKept ==
  ASSUME path' = path, NEW a, NEW b
  PROVE  Inside(a, b)' <=> Inside(a, b)
  BY DEF Inside, Body, NameOf, MethodsOf, File

(* Where only methods under way change, the loads under way stay.          *)
LEMMA OnlyRuns ==
  ASSUME stack \in Seq(Activation), stack' \in Seq(Activation),
         NEW m \in Nat, m <= Len(stack), m <= Len(stack'),
         \A k \in 1 .. m : stack'[k] = stack[k],
         \A k \in m + 1 .. Len(stack) : stack[k].does = "run",
         \A k \in m + 1 .. Len(stack') : stack'[k].does = "run"
  PROVE  Loads' = Loads /\ Parsing' = Parsing
<1>1. DOMAIN stack = 1 .. Len(stack) /\ DOMAIN stack' = 1 .. Len(stack')
      /\ Len(stack) \in Nat /\ Len(stack') \in Nat
  OBVIOUS
<1>2. Parsing' = Parsing
  BY <1>1 DEF Parsing
<1>3. ASSUME NEW a, a \in Loads
      PROVE  a \in Loads'
  <2>1. PICK k \in DOMAIN stack : a = stack[k] /\ a.does # "run"
    BY <1>3 DEF Loads
  <2>2. k \in 1 .. m
    BY <1>1, <2>1
  <2> QED BY <1>1, <2>1, <2>2 DEF Loads
<1>4. ASSUME NEW a, a \in Loads'
      PROVE  a \in Loads
  <2>1. PICK k \in DOMAIN stack' : a = stack'[k] /\ a.does # "run"
    BY <1>4 DEF Loads
  <2>2. k \in 1 .. m
    BY <1>1, <2>1
  <2> QED BY <1>1, <2>1, <2>2 DEF Loads
<1> QED BY <1>2, <1>3, <1>4

(* What holds of the class list depends on it and on the loads under way.  *)
LEMMA ListKept ==
  ASSUME UNCHANGED <<path, class_list>>, Loads' = Loads,
         Superclasses, Halfway, Complete
  PROVE  Superclasses' /\ Halfway' /\ Complete'
<1>1. Superclasses'
  BY DEF Superclasses, Listed, Entries, find_class, File
<1>2. Halfway'
  BY DEF Halfway, ClassEntries, Closed, File
<1>3. Complete'
  BY DEF Complete, ClassEntries, Linked, File
<1> QED BY <1>1, <1>2, <1>3

(* Nor do the two that only programs of a kind have.                       *)
LEMMA ProgramKept ==
  ASSUME path' = path
  PROVE  (NoArrays' <=> NoArrays) /\ (Direct' <=> Direct)
  BY DEF NoArrays, Direct, AllOps, OpsOf, MethodsIn, BodyOf, CallsOf, Files

(* Names that do not change stay unique.                                   *)
LEMMA UniqueKept ==
  ASSUME Unique, path' = path, DOMAIN class_list' = DOMAIN class_list,
         \A i \in DOMAIN class_list : class_list'[i].name = class_list[i].name
  PROVE  Unique'
  BY ProgramKept DEF Unique, ClassEntries

(* A descriptor is still spare after a step that neither opens a file nor  *)
(* ends a parse.                                                           *)
LEMMA SpareKept ==
  ASSUME Spare, path' = path, open' = open, Parsing' = Parsing,
         class_list' # << >> => class_list # << >>
  PROVE  Spare'
<1>1. NoArrays' <=> NoArrays
  BY ProgramKept
<1>2. SUFFICES ASSUME NoArrays', Parsing' = {}, class_list' # << >> PROVE open' < FdLimit
  BY DEF Spare
<1>3. NoArrays /\ Parsing = {} /\ class_list # << >>
  BY <1>1, <1>2
<1> QED BY <1>3 DEF Spare

(* A step that only stops the process.                                     *)
LEMMA StopsInv ==
  ASSUME IInv, UNCHANGED <<path, stack, class_list, cursor, open>>,
         status' \in {"exit", "failed", "segv", "misread", "wild"}
  PROVE  IInv'
<1>1. TypeOK'
  <2>1. \A k \in DOMAIN stack : Stands(stack[k])'
    BY DEF IInv, TypeOK, Stands, File, MethodsOf
  <2> QED BY <2>1 DEF IInv, TypeOK, File
<1>2. Nested'
  BY InsideKept DEF IInv, Nested
<1>3. Counted' /\ Loads' = Loads /\ Parsing' = Parsing
  BY ProgramKept DEF IInv, Counted, Parsing, Loads
<1>4. Spare' /\ Unique'
  BY <1>3, SpareKept, UniqueKept DEF IInv
<1> QED BY <1>1, <1>2, <1>3, <1>4, ListKept DEF IInv

-----------------------------------------------------------------------------
(* What a step changes.                                                    *)

(* How a step changes the stack above its lowest m activations decides     *)
(* what holds of the stack.                                                *)
LEMMA StackChanges ==
  ASSUME IInv, Extended, stack' \in Seq(Activation),
         NEW m \in Nat, m <= Len(stack), m <= Len(stack'),
         \A k \in 1 .. m : stack'[k] = stack[k],
         \A k \in m + 1 .. Len(stack') :
           /\ Stands(stack[k])'
           /\ k > 1 => Inside(stack[k], stack[k - 1])'
  PROVE  /\ \A k \in DOMAIN stack' : Stands(stack[k])'
         /\ \A k \in 1 .. Len(stack') - 1 : Inside(stack[k + 1], stack[k])'
<1>1. DOMAIN stack = 1 .. Len(stack) /\ DOMAIN stack' = 1 .. Len(stack')
      /\ Len(stack) \in Nat /\ Len(stack') \in Nat
  BY DEF IInv, TypeOK
<1>2. ASSUME NEW k \in DOMAIN stack'
      PROVE  Stands(stack[k])'
  <2>1. CASE k <= m
    <3>1. stack[k] \in Activation /\ Stands(stack[k]) /\ stack'[k] = stack[k]
      BY <1>1, <2>1 DEF IInv, TypeOK
    <3> DEFINE a == stack[k]
    <3>2. a \in Activation /\ Stands(a)
      BY <3>1
    <3> HIDE DEF a
    <3>3. class_list \in Seq(Entry)
      BY DEF IInv, TypeOK
    <3>4. stack'[k] = a
      BY <3>1 DEF a
    <3>5. Extended
      OBVIOUS
    <3> QED
      BY <3>1, <3>3, <3>5, <1>1, <2>1 DEF Stands, Extended, File, MethodsOf
  <2> QED BY <1>1, <2>1
<1>3. ASSUME NEW k \in 1 .. Len(stack') - 1
      PROVE  Inside(stack[k + 1], stack[k])'
  <2>1. CASE k + 1 <= m
    <3>1. Inside(stack[k + 1], stack[k]) /\ stack'[k] = stack[k] /\ stack'[k + 1] = stack[k + 1]
      BY <1>1, <2>1 DEF IInv, Nested
    <3> QED BY <3>1 DEF Inside, Body, NameOf, MethodsOf, File, Extended
  <2>2. CASE k + 1 > m
    <3>1. k + 1 \in m + 1 .. Len(stack') /\ k + 1 > 1 /\ (k + 1) - 1 = k
      BY <1>1, <2>2
    <3> QED BY <3>1
  <2> QED BY <1>1, <2>1, <2>2
<1> QED BY <1>2, <1>3

(* How a step changes the class list and the loads under way decides what  *)
(* holds of the classes: a super pointer is only ever set to the class     *)
(* found for the superclass, and a load ends when its class is complete.   *)
LEMMA ListChanges ==
  ASSUME IInv, Extended,
         \A i \in DOMAIN class_list' :
           \/ i \in DOMAIN class_list /\ class_list'[i].super = class_list[i].super
           \/ i \notin DOMAIN class_list /\ class_list'[i].super = 0
           \/ LET name == File(class_list[i].name).super IN
                /\ i \in ClassEntries /\ name # OBJECT
                /\ Listed(name) /\ class_list'[i].super = find_class(name),
         \A i \in ClassEntries' : i \in DOMAIN class_list \/ \E b \in Loads' : b.id = i,
         \A a \in Loads : \/ \E b \in Loads' : b.id = a.id
                          \/ class_list[a.id].methods /\ Linked(a.id),
         \A b \in Loads' : b.does = "link" =>
           \/ b \in Loads
           \/ /\ class_list'[b.id].methods
              /\ \E chain \in SUBSET ClassEntries' :
                   b.id \in chain /\ b.at \in chain /\ \A j \in chain \ {b.at} : Closed(j, chain)'
  PROVE  Superclasses' /\ Halfway' /\ Complete'
<1>1. DOMAIN class_list = 1 .. Len(class_list) /\ DOMAIN class_list' = 1 .. Len(class_list')
      /\ Len(class_list) \in Nat /\ Len(class_list') \in Nat /\ Len(class_list) <= Len(class_list')
      /\ class_list \in Seq(Entry)
  BY DEF IInv, TypeOK, Extended
<1>2. ClassEntries \subseteq ClassEntries'
  BY <1>1 DEF ClassEntries, Extended
<1>3. ASSUME NEW i \in DOMAIN class_list
      PROVE  /\ class_list'[i].name = class_list[i].name
             /\ File(class_list[i].name)' = File(class_list[i].name)
  BY <1>3 DEF Extended, File
<1>4. ASSUME NEW i \in DOMAIN class_list, class_list[i].super # 0
      PROVE  class_list'[i].super = class_list[i].super
  BY <1>1, <1>4 DEF IInv, Superclasses, ClassEntries
<1>5. ASSUME NEW chain \in SUBSET ClassEntries, NEW j \in ClassEntries, Closed(j, chain)
      PROVE  Closed(j, chain)'
  <2>1. j \in DOMAIN class_list /\ j \in DOMAIN class_list'
    BY <1>1, <1>2 DEF ClassEntries
  <2>2. CASE class_list[j].super # 0
    BY <1>4, <2>1, <2>2, <1>5 DEF Closed
  <2>3. CASE class_list[j].super = 0
    <3>1. File(class_list[j].name).super = OBJECT
      BY <1>5, <2>3 DEF Closed
    <3>2. class_list'[j].super = 0
      BY <2>1, <2>3, <3>1
    <3> QED BY <1>3, <2>1, <3>1, <3>2 DEF Closed
  <2> QED BY <2>2, <2>3
<1>6. Superclasses'
  <2>1. SUFFICES ASSUME NEW i \in DOMAIN class_list', class_list'[i].super # 0
        PROVE  (LET name == File(class_list[i].name).super IN
                 class_list[i].name \in Classes /\ Listed(name) /\ class_list[i].super = find_class(name))'
    BY DEF Superclasses
  <2>2. i \in DOMAIN class_list
    BY <2>1 DEF ClassEntries
  <2> PICK name : name = File(class_list[i].name).super
    OBVIOUS
  <2>3. class_list[i].name \in Classes /\ Listed(name) /\ class_list'[i].super = find_class(name)
    BY <2>1, <2>2 DEF IInv, Superclasses, ClassEntries
  <2>4. (File(class_list[i].name).super)' = name /\ class_list'[i].name \in Classes
    BY <1>3, <2>2, <2>3
  <2>5. Listed(name)' /\ find_class(name)' = find_class(name)
    BY <1>1, <2>3, FoundKept
  <2> QED BY <2>3, <2>4, <2>5
<1>7. Halfway'
  <2>1. SUFFICES ASSUME NEW b \in Loads', b.does = "link"
        PROVE  /\ class_list'[b.id].methods
               /\ \E chain \in SUBSET ClassEntries' :
                    b.id \in chain /\ b.at \in chain /\ \A j \in chain \ {b.at} : Closed(j, chain)'
    BY DEF Halfway
  <2>2. CASE b \in Loads
    <3>1. class_list[b.id].methods
      BY <2>1, <2>2 DEF IInv, Halfway
    <3>2. PICK chain \in SUBSET ClassEntries :
            b.id \in chain /\ b.at \in chain /\ \A j \in chain \ {b.at} : Closed(j, chain)
      BY <2>1, <2>2 DEF IInv, Halfway
    <3>3. chain \in SUBSET ClassEntries' /\ \A j \in chain \ {b.at} : Closed(j, chain)'
      BY <1>2, <1>5, <3>2
    <3>4. class_list'[b.id].methods
      BY <1>1, <3>1, <3>2 DEF Extended, ClassEntries
    <3> QED BY <3>2, <3>3, <3>4
  <2> QED BY <2>1, <2>2
<1>8. ASSUME NEW i \in ClassEntries, Linked(i)
      PROVE  Linked(i)'
  <2>1. PICK chain \in SUBSET ClassEntries : i \in chain /\ \A j \in chain : Closed(j, chain)
    BY <1>8 DEF Linked, Closed
  <2>2. chain \in SUBSET ClassEntries' /\ i \in chain /\ \A j \in chain : Closed(j, chain)'
    BY <1>2, <1>5, <2>1
  <2> QED BY <2>2 DEF Linked, Closed
<1>9. Complete'
  <2>1. SUFFICES ASSUME NEW i \in ClassEntries', \A b \in Loads' : b.id # i
        PROVE  class_list'[i].methods /\ Linked(i)'
    BY DEF Complete
  <2>2. i \in ClassEntries
    BY <1>1, <1>3, <2>1 DEF ClassEntries
  <2>3. CASE \E a \in Loads : a.id = i
    BY <2>1, <2>2, <2>3, <1>8 DEF Extended, ClassEntries
  <2>4. CASE \A a \in Loads : a.id # i
    BY <2>2, <2>4, <1>8 DEF IInv, Complete, Extended, ClassEntries
  <2> QED BY <2>3, <2>4
<1> QED BY <1>6, <1>7, <1>9

-----------------------------------------------------------------------------
(* The steps.                                                              *)

(* Finitely many classes are being parsed.                                 *)
LEMMA ParsingFinite ==
  ASSUME TypeOK
  PROVE  IsFiniteSet(Parsing) /\ Cardinality(Parsing) \in Nat
<1>1. Parsing \subseteq 1 .. Len(stack) /\ Len(stack) \in Nat
  BY DEF TypeOK, Parsing
<1>2. IsFiniteSet(1 .. Len(stack))
  BY <1>1, FS_Interval
<1> QED BY <1>1, <1>2, FS_Subset, FS_CardinalityType

(* What a load can begin in: a linking, or an instruction, which may have  *)
(* been marked.                                                            *)
MayLoad(below) ==
  /\ Len(below) = Len(stack)
  /\ \A k \in DOMAIN stack :
       /\ below[k] = stack[k] \/ (stack[k].does = "run" /\ below[k].does = "run")
       /\ Stands(below[k])
       /\ k > 1 => Inside(below[k], below[k - 1])
  /\ Len(below) > 0 => LET last == below[Len(below)] IN
       last.does = "link" \/ (last.does = "run" /\ last.at <= Len(Body(last)))

(* load_class on behalf of activations that may load: it begins to parse   *)
(* the file, or stops the process where there is none to read.             *)
LEMMA BeginsInv ==
  ASSUME IInv, status = "run", NEW name, NEW below \in Seq(Activation), NEW held \in Nat,
         open <= held, held # open => ~NoArrays,
         Begins(name, below, held), MayLoad(below), Listed(name) => ~Direct
  PROVE  IInv'
<1>1. /\ class_list \in Seq(Entry) /\ stack \in Seq(Activation) /\ open \in Nat /\ FdLimit \in Nat
      /\ DOMAIN class_list = 1 .. Len(class_list) /\ DOMAIN stack = 1 .. Len(stack)
      /\ Len(class_list) \in Nat /\ Len(stack) \in Nat
      /\ TypeOK
  BY LimitAssumption DEF IInv, TypeOK
<1> PICK len \in Nat : len = Len(stack) /\ len = Len(below)
  BY <1>1 DEF MayLoad
<1>2. ASSUME NEW k \in 1 .. len
      PROVE  /\ below[k] \in Activation /\ below[k].does = stack[k].does
             /\ below[k] = stack[k] \/ stack[k].does = "run"
             /\ Stands(below[k]) /\ (k > 1 => Inside(below[k], below[k - 1]))
  <2>1. k \in DOMAIN stack /\ below[k] \in Activation
    BY <1>1
  <2>2. /\ below[k] = stack[k] \/ (stack[k].does = "run" /\ below[k].does = "run")
        /\ Stands(below[k]) /\ (k > 1 => Inside(below[k], below[k - 1]))
    BY <2>1 DEF MayLoad
  <2> QED BY <2>1, <2>2
<1>3. len > 0 => \/ below[len].does = "link"
                 \/ below[len].does = "run" /\ below[len].at <= Len(Body(below[len]))
  BY DEF MayLoad
<1>4. CASE Stops("segv")
  BY <1>4, StopsInv DEF Stops
<1> DEFINE e   == [name |-> name, methods |-> FALSE, super |-> 0]
           new == [does |-> "parse", class |-> name, id |-> Len(class_list) + 1, at |-> 1]
<1>5. CASE /\ File(name) # NOFILE /\ ~Exhausted(held)
           /\ class_list' = Append(class_list, e)
           /\ stack' = Append(below, new)
           /\ open' = held + 2
           /\ ReadsTo(FieldsEnd(File(name)))
           /\ UNCHANGED path
  <2>1. name \in Classes /\ File(name) \in ClassFile
    BY <1>5, <1>1, FileFacts DEF TypeOK
  <2>2. e \in Entry /\ new \in Activation
    BY <2>1, <1>1 DEF Entry, Activation
  <2>3. /\ class_list' \in Seq(Entry) /\ Len(class_list') = Len(class_list) + 1
        /\ class_list'[Len(class_list) + 1] = e
        /\ \A i \in DOMAIN class_list : class_list'[i] = class_list[i]
        /\ DOMAIN class_list' = 1 .. Len(class_list) + 1
    BY <1>1, <1>5, <2>2
  <2>4. /\ stack' \in Seq(Activation) /\ Len(stack') = len + 1
        /\ stack'[len + 1] = new
        /\ \A k \in 1 .. len : stack'[k] = below[k]
        /\ DOMAIN stack' = 1 .. len + 1
    BY <1>5, <2>2
  <2> HIDE DEF e, new
  <2>5. Extended
    BY <1>1, <1>5, <2>3 DEF Extended
  <2>6. ASSUME NEW k \in 1 .. Len(stack')
        PROVE  Stands(stack[k])' /\ (k > 1 => Inside(stack[k], stack[k - 1])')
    <3>1. CASE k = len + 1
      <4>1. Stands(stack[k])'
        <5>1. stack'[k] = new /\ new.does = "parse" /\ new.class = name /\ new.at = 1
              /\ new.id = Len(class_list) + 1 /\ new.id \in DOMAIN class_list'
              /\ class_list'[new.id].name = name
          BY <1>1, <2>3, <2>4, <3>1 DEF new, e
        <5>2. File(name)' = File(name) /\ Len(File(name).methods) \in Nat
          BY <1>5, <2>1 DEF File, ClassFile
        <5> QED BY <5>1, <5>2 DEF Stands, MethodsOf, File
      <4>2. ASSUME k > 1 PROVE Inside(stack[k], stack[k - 1])'
        <5>1. stack'[k] = new /\ k - 1 = len /\ stack'[k - 1] = below[len]
          BY <2>4, <3>1, <4>2
        <5>2. new.does = "parse"
          BY DEF new
        <5>3. Body(stack[k - 1])' = Body(below[len])
          BY <1>5, <5>1 DEF Body, MethodsOf, File
        <5> QED BY <1>3, <4>2, <5>1, <5>2, <5>3 DEF Inside
      <4> QED BY <4>1, <4>2
    <3>2. CASE k \in 1 .. len
      <4>1. stack'[k] = below[k] /\ below[k] \in Activation
        BY <1>2, <2>4, <3>2
      <4>2. Stands(stack[k])'
        <5> PICK a \in Activation : a = below[k]
          BY <4>1
        <5>1. Stands(a)'
          BY <1>1, <1>2, <2>5, <3>2, StandsKept
        <5> QED BY <4>1, <5>1 DEF Stands, MethodsOf, File
      <4>3. ASSUME k > 1 PROVE Inside(stack[k], stack[k - 1])'
        <5>1. k - 1 \in 1 .. len /\ stack'[k - 1] = below[k - 1]
          BY <2>4, <3>2, <4>3
        <5>2. Inside(below[k], below[k - 1])
          BY <1>2, <3>2, <4>3
        <5> QED BY <1>5, <4>1, <5>1, <5>2 DEF Inside, Body, NameOf, MethodsOf, File
      <4> QED BY <4>2, <4>3
    <3> QED BY <2>4, <3>1, <3>2
  <2>7. /\ \A k \in DOMAIN stack' : Stands(stack[k])'
        /\ \A k \in 1 .. Len(stack') - 1 : Inside(stack[k + 1], stack[k])'
    <3> PICK m \in Nat : m = 0
      OBVIOUS
    <3>1. m <= Len(stack) /\ m <= Len(stack') /\ \A k \in 1 .. m : stack'[k] = stack[k]
      BY <2>4
    <3>2. \A k \in m + 1 .. Len(stack') : k \in 1 .. Len(stack')
      OBVIOUS
    <3> QED BY <2>4, <2>5, <2>6, <3>1, <3>2, StackChanges
  <2>8. cursor' \in Positions /\ open' \in 0 .. FdLimit /\ status' \in {"run", "misread"}
        /\ (status' = "run" => cursor' # "misread")
    BY <1>1, <1>5 DEF ReadsTo, FieldsEnd, Positions, Exhausted
  <2>9. TypeOK'
    <3>1. ASSUME NEW i \in DOMAIN class_list'
          PROVE  /\ class_list'[i].super \in 0 .. Len(class_list')
                 /\ class_list'[i].name \in Classes => path[class_list'[i].name] # NOFILE
      <4>1. CASE i \in DOMAIN class_list
        <5>1. /\ class_list[i].super \in 0 .. Len(class_list)
              /\ class_list[i].name \in Classes => path[class_list[i].name] # NOFILE
          BY <1>1, <4>1 DEF TypeOK, File
        <5>2. class_list'[i] = class_list[i]
          BY <2>3, <4>1
        <5> QED BY <1>1, <2>3, <5>1, <5>2
      <4>2. CASE i = Len(class_list) + 1
        <5>1. class_list'[i] = e /\ e.super = 0 /\ e.name = name
          BY <2>3, <4>2 DEF e
        <5> QED BY <1>1, <1>5, <2>1, <2>3, <5>1 DEF File
      <4> QED BY <1>1, <2>3, <4>1, <4>2
    <3>2. path' \in [Classes -> {NOFILE} \cup ClassFile] /\ path' = path
      BY <1>1, <1>5 DEF TypeOK
    <3>3. \A i \in DOMAIN class_list' :
            /\ class_list'[i].super \in 0 .. Len(class_list')
            /\ class_list'[i].name \in Classes => File(class_list[i].name)' # NOFILE
      BY <3>1, <3>2 DEF File
    <3> QED BY <2>3, <2>4, <2>7, <2>8, <3>2, <3>3 DEF TypeOK
  <2>10. Nested'
    BY <1>1, <2>3, <2>7, <2>8 DEF Nested
  <2>11. Counted'
    <3>1. Parsing' = Parsing \cup {len + 1}
      <4>1. new.does = "parse"
        BY DEF new
      <4>2. \A k \in 1 .. len : stack'[k].does = stack[k].does
        BY <1>2, <2>4
      <4> QED BY <1>1, <2>4, <4>1, <4>2 DEF Parsing
    <3>2. len + 1 \notin Parsing
      BY <1>1 DEF Parsing
    <3>3. IsFiniteSet(Parsing) /\ Cardinality(Parsing) \in Nat
      BY <1>1, ParsingFinite
    <3>4. Cardinality(Parsing') = Cardinality(Parsing) + 1
      BY <3>1, <3>2, <3>3, FS_AddElement
    <3>5. open >= Len(class_list) + Cardinality(Parsing)
      BY DEF IInv, Counted
    <3>6. open' >= Len(class_list') + Cardinality(Parsing')
      BY <1>1, <1>5, <2>3, <3>3, <3>4, <3>5
    <3>7. ASSUME NoArrays'
          PROVE  open' = Len(class_list') + Cardinality(Parsing')
      <4>1. NoArrays /\ held = open
        BY <1>5, <3>7, ProgramKept
      <4>2. open = Len(class_list) + Cardinality(Parsing)
        BY <4>1 DEF IInv, Counted
      <4> QED BY <1>1, <1>5, <2>3, <3>3, <3>4, <4>1, <4>2
    <3> QED BY <3>6, <3>7 DEF Counted
  <2>12. /\ \A a \in Loads : a \in Loads'
         /\ new \in Loads'
         /\ \A b \in Loads' : b \in Loads \/ b = new
    <3>1. ASSUME NEW a \in Loads PROVE a \in Loads'
      <4>1. PICK k \in 1 .. len : a = stack[k] /\ a.does # "run"
        BY <1>1 DEF Loads
      <4>2. stack'[k] = a /\ k \in DOMAIN stack'
        BY <1>2, <2>4, <4>1
      <4> QED BY <4>1, <4>2 DEF Loads
    <3>2. new \in Loads'
      <4>1. len + 1 \in DOMAIN stack' /\ new.does # "run"
        BY <2>4 DEF new
      <4> QED BY <2>4, <4>1 DEF Loads
    <3>3. ASSUME NEW b \in Loads' PROVE b \in Loads \/ b = new
      <4>1. PICK k \in DOMAIN stack' : b = stack'[k] /\ b.does # "run"
        BY <3>3 DEF Loads
      <4>2. CASE k \in 1 .. len
        <5>1. b = stack[k]
          BY <1>2, <4>1, <4>2, <2>4
        <5> QED BY <1>1, <4>1, <4>2, <5>1 DEF Loads
      <4> QED BY <2>4, <4>1, <4>2
    <3> QED BY <3>1, <3>2, <3>3
  <2>13. Superclasses' /\ Halfway' /\ Complete'
    <3>1. new.id = Len(class_list) + 1 /\ new.does = "parse" /\ e.super = 0
      BY DEF new, e
    <3>2. \A i \in DOMAIN class_list' :
            \/ i \in DOMAIN class_list /\ class_list'[i].super = class_list[i].super
            \/ i \notin DOMAIN class_list /\ class_list'[i].super = 0
      BY <1>1, <2>3, <3>1
    <3>3. \A i \in ClassEntries' : i \in DOMAIN class_list \/ \E b \in Loads' : b.id = i
      BY <1>1, <2>3, <2>12, <3>1 DEF ClassEntries
    <3>4. \A a \in Loads : \E b \in Loads' : b.id = a.id
      BY <2>12
    <3>5. \A b \in Loads' : b.does = "link" => b \in Loads
      BY <2>12, <3>1
    <3> QED BY <2>5, <3>2, <3>3, <3>4, <3>5, ListChanges
  <2>14. Spare'
    <3>1. len + 1 \in Parsing'
      BY <2>4 DEF Parsing, new
    <3> QED BY <3>1 DEF Spare
  <2>15. Unique'
    <3>1. SUFFICES ASSUME Direct, NEW i \in ClassEntries', NEW j \in ClassEntries',
                          class_list'[i].name = class_list'[j].name
          PROVE  i = j
      BY <1>5, ProgramKept DEF Unique
    <3>2. \A k \in DOMAIN class_list : class_list[k].name # name
      BY <3>1 DEF Listed, Entries
    <3>3. e.name = name
      BY DEF e
    <3>4. \A k \in ClassEntries' : k \in ClassEntries \/ k = Len(class_list) + 1
      BY <1>1, <2>3 DEF ClassEntries
    <3>5. \A k \in ClassEntries : class_list'[k].name = class_list[k].name /\ class_list[k].name # name
      BY <2>3, <3>2 DEF ClassEntries
    <3>6. class_list'[Len(class_list) + 1].name = name
      BY <2>3, <3>3
    <3>7. CASE i \in ClassEntries /\ j \in ClassEntries
      BY <3>1, <3>5, <3>7 DEF IInv, Unique
    <3> QED BY <3>1, <3>4, <3>5, <3>6, <3>7
  <2> QED BY <2>9, <2>10, <2>11, <2>13, <2>14, <2>15 DEF IInv
<1> QED BY <1>4, <1>5 DEF Begins

(* Steps of methods leave the class list and the loads under way alone.    *)
LEMMA RunsInv ==
  ASSUME IInv, UNCHANGED <<path, class_list, cursor, status>>, class_list # << >>,
         open' \in Nat, open <= open', open' <= FdLimit, open' # open => ~NoArrays,
         stack' \in Seq(Activation),
         NEW m \in Nat, m <= Len(stack), m <= Len(stack'),
         \A k \in 1 .. m : stack'[k] = stack[k],
         \A k \in m + 1 .. Len(stack) : stack[k].does = "run",
         \A k \in m + 1 .. Len(stack') :
           /\ stack'[k].does = "run" /\ Stands(stack[k])'
           /\ k > 1 => Inside(stack[k], stack[k - 1])'
  PROVE  IInv'
<1>1. Extended
  BY DEF IInv, TypeOK, Extended
<1>2. /\ \A k \in DOMAIN stack' : Stands(stack[k])'
      /\ \A k \in 1 .. Len(stack') - 1 : Inside(stack[k + 1], stack[k])'
  BY <1>1, StackChanges
<1>3. TypeOK'
  BY <1>2, LimitAssumption DEF IInv, TypeOK, File
<1>4. Nested'
  BY <1>2 DEF IInv, Nested
<1>5. Loads' = Loads /\ Parsing' = Parsing
  BY OnlyRuns DEF IInv, TypeOK
<1>6. Counted'
  <2>1. TypeOK
    BY DEF IInv
  <2>2. Cardinality(Parsing) \in Nat /\ Len(class_list) \in Nat /\ open \in Nat
    BY <2>1, ParsingFinite DEF TypeOK
  <2> QED BY <1>5, <2>2, ProgramKept DEF IInv, Counted
<1>7. Superclasses' /\ Halfway' /\ Complete'
  BY <1>5, ListKept DEF IInv
<1>8. Spare' /\ Unique'
  BY <1>5, ProgramKept, UniqueKept DEF IInv, Spare
<1> QED BY <1>3, <1>4, <1>6, <1>7, <1>8 DEF IInv

(* The activation that goes on.                                            *)
LEMMA TopFacts ==
  ASSUME TypeOK, stack # << >>
  PROVE  /\ Len(stack) \in Nat \ {0} /\ DOMAIN stack = 1 .. Len(stack)
         /\ stack \in Seq(Activation)
         /\ Top = stack[Len(stack)] /\ Top \in Activation /\ Stands(Top)
         /\ Rest \in Seq(Activation) /\ Len(Rest) = Len(stack) - 1
         /\ \A k \in 1 .. Len(stack) - 1 : Rest[k] = stack[k]
<1>1. stack \in Seq(Activation) /\ DOMAIN stack = 1 .. Len(stack)
      /\ \A k \in DOMAIN stack : Stands(stack[k])
  BY DEF TypeOK
<1>2. /\ Len(stack) \in Nat \ {0} /\ Last(stack) = stack[Len(stack)] /\ Last(stack) \in Activation
      /\ Front(stack) \in Seq(Activation) /\ Len(Front(stack)) = Len(stack) - 1
      /\ \A k \in 1 .. Len(stack) - 1 : Front(stack)[k] = stack[k]
  BY <1>1, StackFacts
<1>3. Stands(stack[Len(stack)])
  BY <1>1, <1>2
<1> QED BY <1>1, <1>2, <1>3 DEF Top, Rest

(* What is put on the rest of the stack.                                   *)
LEMMA Replaced ==
  ASSUME TypeOK, stack # << >>, NEW b \in Activation
  PROVE  /\ Append(Rest, b) \in Seq(Activation) /\ Len(Append(Rest, b)) = Len(stack)
         /\ Append(Rest, b)[Len(stack)] = b
         /\ \A k \in 1 .. Len(stack) - 1 : Append(Rest, b)[k] = stack[k]
<1> PICK r \in Seq(Activation) : r = Rest
  BY TopFacts
<1>1. Len(stack) \in Nat \ {0} /\ Len(r) = Len(stack) - 1
      /\ \A k \in 1 .. Len(stack) - 1 : r[k] = stack[k]
  BY TopFacts
<1> PICK n \in Nat \ {0} : n = Len(stack)
  BY <1>1
<1>2. /\ Append(r, b) \in Seq(Activation) /\ Len(Append(r, b)) = n /\ Append(r, b)[n] = b
      /\ \A k \in 1 .. n - 1 : Append(r, b)[k] = stack[k]
  BY <1>1
<1> QED BY <1>2

(* A method that runs is one of its class, and stands at an instruction or *)
(* behind the last.                                                        *)
LEMMA RunFacts ==
  ASSUME TypeOK, Does("run")
  PROVE  /\ status = "run" /\ stack # << >> /\ Top \in Activation /\ Top.does = "run"
         /\ File(Top.class) # NOFILE /\ Top.class \in Classes
         /\ Method = MethodsOf(Top)[Top.method] /\ Top.method \in DOMAIN MethodsOf(Top)
         /\ Method \in MethodInfo /\ Method.body \in Seq(Instruction) /\ Len(Method.body) \in Nat
         /\ Top.at \in 1 .. Len(Method.body) + 1
         /\ Body(Top) = Method.body /\ NameOf(Top) = Method.name
         /\ Top.at <= Len(Method.body) => Op \in Instruction
<1>1. status = "run" /\ stack # << >> /\ Top \in Activation /\ Top.does = "run" /\ Stands(Top)
  BY TopFacts DEF Does
<1>2. File(Top.class) # NOFILE /\ Top.class \in Classes /\ Top.method \in DOMAIN MethodsOf(Top)
      /\ Top.at \in 1 .. Len(MethodsOf(Top)[Top.method].body) + 1
  BY <1>1, ActivationFacts DEF Stands
<1>3. File(Top.class) \in ClassFile
  BY <1>2, FileFacts DEF TypeOK
<1>4. /\ MethodsOf(Top)[Top.method] \in MethodInfo
      /\ MethodsOf(Top)[Top.method].body \in Seq(Instruction)
  BY <1>2, <1>3, MethodFacts DEF MethodsOf
<1>5. Method = MethodsOf(Top)[Top.method]
  BY DEF Method, MethodsOf
<1>6. Top.at <= Len(Method.body) => Op \in Instruction
  BY <1>2, <1>4, <1>5 DEF Op
<1> QED BY <1>1, <1>2, <1>4, <1>5, <1>6 DEF Body, NameOf

(* The method goes on behind its instruction, or to it again.              *)
LEMMA TopRunMoved ==
  ASSUME TypeOK, Does("run"), NEW n \in 1 .. Len(Method.body) + 1, NEW l \in BOOLEAN
  PROVE  LET b == [Top EXCEPT !.at = n, !.loaded = l] IN
         /\ b \in Activation /\ b.does = "run" /\ b.at = n /\ Stands(b)
         /\ Body(b) = Method.body /\ NameOf(b) = Method.name
<1> DEFINE b == [Top EXCEPT !.at = n, !.loaded = l]
<1>1. /\ Top \in Activation /\ Top.does = "run" /\ Top.method \in DOMAIN MethodsOf(Top)
      /\ Method = MethodsOf(Top)[Top.method] /\ Len(Method.body) \in Nat
      /\ Body(Top) = Method.body /\ NameOf(Top) = Method.name
      /\ File(Top.class) # NOFILE
  BY RunFacts
<1>2. n \in Nat
  BY <1>1
<1>3. /\ b \in Activation /\ b.at = n /\ b.does = Top.does /\ b.class = Top.class
      /\ b.method = Top.method /\ b.loaded = l
  <2> PICK a \in Activation : a = Top
    BY <1>1
  <2>1. a.does = "run"
    BY <1>1
  <2> QED BY <1>2, <2>1 DEF Activation
<1> HIDE DEF b
<1>4. Stands(b) /\ Body(b) = Method.body /\ NameOf(b) = Method.name
  BY <1>1, <1>3 DEF Stands, MethodsOf, Body, NameOf
<1>5. b \in Activation /\ b.does = "run" /\ b.at = n
  BY <1>1, <1>3
<1> QED BY <1>4, <1>5 DEF b

(* The stack when a method goes on behind its instruction, or has got the  *)
(* instruction its class.                                                  *)
LEMMA PastStack ==
  ASSUME IInv, Does("run"), Top.at <= Len(Method.body), stack' \in {Past, Retried}, Extended
  PROVE  /\ stack' \in Seq(Activation)
         /\ \E m \in Nat :
              /\ m <= Len(stack) /\ m <= Len(stack') /\ \A k \in 1 .. m : stack'[k] = stack[k]
              /\ \A k \in m + 1 .. Len(stack) : stack[k].does = "run"
              /\ \A k \in m + 1 .. Len(stack') :
                   /\ stack'[k].does = "run" /\ Stands(stack[k])'
                   /\ k > 1 => Inside(stack[k], stack[k - 1])'
<1>1. /\ TypeOK /\ stack # << >> /\ Top.at \in Nat /\ Top.at > 0 /\ Len(Method.body) \in Nat
      /\ Top \in Activation /\ Top.does = "run" /\ NameOf(Top) = Method.name
  BY RunFacts DEF IInv
<1>2. Len(stack) \in Nat \ {0} /\ Top = stack[Len(stack)]
  BY <1>1, TopFacts
<1>3. \E n \in 1 .. Len(Method.body) + 1, l \in BOOLEAN :
         stack' = Append(Rest, [Top EXCEPT !.at = n, !.loaded = l])
  <2>1. CASE stack' = Past
    <3>1. Top.at + 1 \in 1 .. Len(Method.body) + 1
      BY <1>1
    <3> QED BY <2>1, <3>1 DEF Past
  <2>2. CASE stack' = Retried
    <3>1. Top.at \in 1 .. Len(Method.body) + 1
      BY <1>1
    <3>2. [Top EXCEPT !.loaded = TRUE] = [Top EXCEPT !.at = Top.at, !.loaded = TRUE]
      <4> PICK a \in Activation : a = Top
        BY <1>1
      <4>1. a.does = "run"
        BY <1>1
      <4> QED BY <4>1 DEF Activation
    <3> QED BY <2>2, <3>1, <3>2 DEF Retried
  <2> QED BY <2>1, <2>2
<1> PICK n \in 1 .. Len(Method.body) + 1, l \in BOOLEAN :
           stack' = Append(Rest, [Top EXCEPT !.at = n, !.loaded = l])
  BY <1>3
<1> DEFINE b == [Top EXCEPT !.at = n, !.loaded = l]
<1>4. /\ b \in Activation /\ b.does = "run" /\ Stands(b)
      /\ Body(b) = Method.body /\ NameOf(b) = Method.name
  BY <1>1, TopRunMoved
<1>11. stack' = Append(Rest, b)
  OBVIOUS
<1> HIDE DEF b
<1> PICK len \in Nat \ {0} : len = Len(stack)
  BY <1>2
<1>5. /\ stack' \in Seq(Activation) /\ Len(stack') = len /\ stack'[len] = b
      /\ \A k \in 1 .. len - 1 : stack'[k] = stack[k]
  BY <1>1, <1>4, <1>11, Replaced
<1>6. Stands(stack[len])'
  BY <1>2, <1>4, <1>5 DEF Stands, File, MethodsOf, Extended
<1>7. ASSUME len > 1
      PROVE  Inside(stack[len], stack[len - 1])'
  <2>1. Inside(stack[len], stack[len - 1])
    <3>1. \A k \in 1 .. Len(stack) - 1 : Inside(stack[k + 1], stack[k])
      BY DEF IInv, Nested
    <3>2. len - 1 \in 1 .. Len(stack) - 1 /\ (len - 1) + 1 = len
      BY <1>7
    <3> QED BY <3>1, <3>2
  <2>2. stack'[len] = b /\ stack'[len - 1] = stack[len - 1]
    BY <1>5, <1>7
  <2>3. NameOf(stack[len])' = NameOf(stack[len])
    BY <1>1, <1>2, <1>4, <2>2 DEF NameOf, MethodsOf, File, Extended
  <2>4. Body(stack[len - 1])' = Body(stack[len - 1])
    BY <2>2 DEF Body, MethodsOf, File, Extended
  <2>5. stack[len].does = "run" /\ b.does = "run"
    BY <1>1, <1>2, <1>4
  <2> QED BY <2>1, <2>2, <2>3, <2>4, <2>5 DEF Inside
<1>12. len - 1 \in Nat
  BY ONLY len \in Nat \ {0}
<1> PICK m \in Nat : m = len - 1
  BY ONLY <1>12
<1>8. m <= Len(stack) /\ m <= Len(stack') /\ \A k \in 1 .. m : stack'[k] = stack[k]
  BY <1>5
<1>9. \A k \in m + 1 .. Len(stack') :
         /\ stack'[k].does = "run" /\ Stands(stack[k])'
         /\ k > 1 => Inside(stack[k], stack[k - 1])'
  <2>1. ASSUME NEW k \in m + 1 .. Len(stack') PROVE k = len
    BY <1>5
  <2> QED BY <1>4, <1>5, <1>6, <1>7, <2>1
<1>10. \A k \in m + 1 .. Len(stack) : stack[k].does = "run"
  BY <1>1, <1>2
<1> QED BY <1>5, <1>8, <1>9, <1>10

(* An instruction that completes, or gets its class, without loading.      *)
LEMMA CompletesInv ==
  ASSUME IInv, Does("run"), Top.at <= Len(Method.body), stack' \in {Past, Retried},
         UNCHANGED <<path, class_list, cursor, status>>,
         open' \in Nat, open <= open', open' <= FdLimit, open' # open => ~NoArrays
  PROVE  IInv'
<1>1. Extended
  BY DEF Extended, IInv, TypeOK
<1>2. class_list # << >>
  BY RunFacts DEF IInv, Nested
<1> QED BY <1>1, <1>2, PastStack, RunsInv

(* An instruction loads a class, and will be retried.                      *)
LEMMA RetriedInv ==
  ASSUME IInv, Does("run"), Top.at <= Len(Method.body),
         NEW name, NEW held \in Nat, open <= held, held # open => ~NoArrays,
         Begins(name, Retried, held), Listed(name) => ~Direct
  PROVE  IInv'
<1>1. /\ TypeOK /\ stack # << >> /\ status = "run"
      /\ Top \in Activation /\ Top.does = "run" /\ NameOf(Top) = Method.name
      /\ Body(Top) = Method.body
  BY RunFacts DEF IInv
<1>2. Len(stack) \in Nat \ {0} /\ Top = stack[Len(stack)] /\ Stands(Top)
  BY <1>1, TopFacts
<1> PICK len \in Nat \ {0} : len = Len(stack)
  BY <1>2
<1> DEFINE b == [Top EXCEPT !.loaded = TRUE]
<1>3. /\ b \in Activation /\ b.does = "run" /\ b.class = Top.class /\ b.method = Top.method
      /\ b.at = Top.at
  <2> PICK a \in Activation : a = Top
    BY <1>1
  <2>1. a.does = "run"
    BY <1>1
  <2> QED BY <2>1 DEF Activation
<1>4. Retried = Append(Rest, b)
  BY DEF Retried
<1> HIDE DEF b
<1> PICK below : below = Retried
  OBVIOUS
<1>5. /\ below \in Seq(Activation) /\ Len(below) = len /\ below[len] = b
      /\ \A k \in 1 .. len - 1 : below[k] = stack[k]
  BY <1>1, <1>3, <1>4, Replaced
<1>6. Stands(b) /\ Body(b) = Method.body /\ NameOf(b) = Method.name
  BY <1>1, <1>2, <1>3 DEF Stands, MethodsOf, Body, NameOf
<1>7. ASSUME len > 1
      PROVE  Inside(below[len], below[len - 1])
  <2>1. Inside(stack[len], stack[len - 1])
    <3>1. \A k \in 1 .. Len(stack) - 1 : Inside(stack[k + 1], stack[k])
      BY DEF IInv, Nested
    <3>2. len - 1 \in 1 .. Len(stack) - 1 /\ (len - 1) + 1 = len
      BY <1>7
    <3> QED BY <3>1, <3>2
  <2>2. below[len] = b /\ below[len - 1] = stack[len - 1]
    BY <1>5, <1>7
  <2> QED BY <1>1, <1>2, <1>3, <1>6, <2>1, <2>2 DEF Inside
<1>8. ASSUME NEW k \in DOMAIN stack
      PROVE  /\ below[k] = stack[k] \/ (stack[k].does = "run" /\ below[k].does = "run")
             /\ Stands(below[k])
             /\ k > 1 => Inside(below[k], below[k - 1])
  <2>1. CASE k = len
    BY <1>1, <1>2, <1>3, <1>5, <1>6, <1>7, <2>1
  <2>2. CASE k \in 1 .. len - 1
    <3>1. below[k] = stack[k] /\ Stands(stack[k])
      BY <1>1, <1>5, <2>2 DEF TypeOK
    <3>2. ASSUME k > 1 PROVE Inside(below[k], below[k - 1])
      <4>1. k - 1 \in 1 .. len - 1 /\ (k - 1) + 1 = k
        BY <2>2, <3>2
      <4>2. Inside(stack[k], stack[k - 1])
        BY <2>2, <4>1 DEF IInv, Nested
      <4> QED BY <1>5, <3>1, <4>1, <4>2
    <3> QED BY <3>1, <3>2
  <2> QED BY <1>1, <2>1, <2>2, TopFacts
<1>9. /\ below[Len(below)].does = "run"
      /\ below[Len(below)].at <= Len(Body(below[Len(below)]))
  BY <1>3, <1>5, <1>6
<1>10. MayLoad(below)
  BY <1>5, <1>8, <1>9 DEF MayLoad
<1> QED BY <1>1, <1>5, <1>10, BeginsInv

(* The instruction is one of the program.                                  *)
LEMMA OpFacts ==
  ASSUME TypeOK, Does("run"), Top.at <= Len(Method.body)
  PROVE  Op \in AllOps /\ (Op.op \in Calls => Op \in CallsOf(MethodsIn(Classes)))
<1>1. /\ Top.class \in Classes /\ File(Top.class) # NOFILE
      /\ Top.method \in DOMAIN MethodsOf(Top) /\ Method = MethodsOf(Top)[Top.method]
      /\ Method.body \in Seq(Instruction) /\ Top.at \in 1 .. Len(Method.body) + 1
      /\ Len(Method.body) \in Nat
  BY RunFacts
<1> DEFINE cm == <<Top.class, Top.method>>
<1>2. Top.class \in Classes \cap Files /\ Top.method \in DOMAIN path[Top.class].methods
  BY <1>1 DEF Files, File, MethodsOf
<1>3. cm \in MethodsIn(Classes)
  BY <1>2 DEF MethodsIn
<1>4. BodyOf(cm) = Method.body /\ Top.at \in DOMAIN BodyOf(cm) /\ Op = BodyOf(cm)[Top.at]
  BY <1>1 DEF BodyOf, Op, MethodsOf, File
<1> HIDE DEF cm
<1>5. Op \in OpsOf(MethodsIn(Classes))
  BY <1>3, <1>4 DEF OpsOf
<1> QED BY <1>5 DEF AllOps, CallsOf

(* What the instructions that name a class have in common.                 *)
LEMMA NamesFacts ==
  ASSUME IInv, Executes(NamesClass)
  PROVE  /\ TypeOK /\ Does("run") /\ Top.at <= Len(Method.body) /\ Op \in AllOps
         /\ status = "run" /\ Op \in Instruction /\ Op.op \in NamesClass
         /\ open \in Nat /\ open <= FdLimit /\ FdLimit \in Nat
<1>1. TypeOK /\ Does("run") /\ Top.at <= Len(Method.body) /\ Op.op \in NamesClass
  BY DEF IInv, Executes
<1>2. open \in Nat /\ open <= FdLimit /\ FdLimit \in Nat
  BY LimitAssumption DEF IInv, TypeOK
<1> QED BY <1>1, <1>2, OpFacts, RunFacts

(* An instruction loads the class it names.                                *)
LEMMA LoadClassInv ==
  ASSUME IInv, LoadClass
  PROVE  IInv'
<1>1. Does("run") /\ Top.at <= Len(Method.body) /\ open \in Nat
  BY NamesFacts DEF LoadClass, Obtains
<1>2. Begins(Op.class, Retried, open) /\ ~Listed(Op.class)
  BY DEF LoadClass, Obtains, Lacks, Load
<1> QED BY <1>1, <1>2, RetriedInv

(* An array that is no array of numbers: a copy, or its element is loaded. *)
LEMMA LoadArrayInv ==
  ASSUME IInv, LoadArray
  PROVE  IInv'
<1>1. /\ Does("run") /\ Top.at <= Len(Method.body) /\ Op \in AllOps
      /\ open \in Nat /\ open <= FdLimit /\ FdLimit \in Nat /\ open < FdLimit
  BY NamesFacts DEF LoadArray, Obtains, HasDirectory
<1>2. ~NoArrays
  BY <1>1 DEF NoArrays, LoadArray
<1> PICK element : element = ElementOf[Op.class]
  OBVIOUS
<1>3. CASE stack' = Retried /\ open' = open + 1 /\ UNCHANGED <<path, class_list, cursor, status>>
  BY <1>1, <1>2, <1>3, CompletesInv
<1>4. CASE Begins(element, Retried, open + 1) /\ ~Listed(element)
  BY <1>1, <1>2, <1>4, RetriedInv
<1>5. CASE Stops("segv")
  BY <1>5, StopsInv DEF Stops
<1> QED BY <1>3, <1>4, <1>5 DEF LoadArray

(* An instruction goes on with its class.                                  *)
LEMMA HasClassInv ==
  ASSUME IInv, HasClass
  PROVE  IInv'
<1>1. Does("run") /\ Top.at <= Len(Method.body) /\ open \in Nat /\ open <= FdLimit
  BY NamesFacts DEF HasClass
<1>2. CASE Completes
  BY <1>1, <1>2, CompletesInv DEF Completes
<1>3. CASE Stops("segv")
  BY <1>3, StopsInv DEF Stops
<1>4. ASSUME NEW name \in Classes, ~Listed(name), Load(name, Retried)
      PROVE  IInv'
  BY <1>1, <1>4, RetriedInv DEF Load
<1> QED BY <1>2, <1>3, <1>4 DEF HasClass

(* An instruction goes on without.                                         *)
LEMMA WithoutClassInv ==
  ASSUME IInv, WithoutClass
  PROVE  IInv'
<1>1. Does("run") /\ Top.at <= Len(Method.body) /\ open \in Nat /\ open <= FdLimit
  <2>1. Executes(NamesClass)
    BY DEF WithoutClass, Executes
  <2> QED BY <2>1, NamesFacts
<1>2. CASE Completes
  BY <1>1, <1>2, CompletesInv DEF Completes
<1>3. CASE Stops("segv")
  BY <1>3, StopsInv DEF Stops
<1> QED BY <1>2, <1>3 DEF WithoutClass

(* A class that a method is found in has a file that declares it.          *)
LEMMA FoundHasFile ==
  ASSUME TypeOK, NEW name \in Classes \cup {OBJECT}, Listed(name)
  PROVE  name \in Classes /\ File(name) # NOFILE /\ File(name) \in ClassFile
<1>1. PICK i \in DOMAIN class_list : class_list[i].name = name
  BY DEF Listed, Entries
<1>2. name \in Classes
  <2>1. class_list[i] \in Entry
    BY <1>1 DEF TypeOK
  <2> QED BY <1>1, <2>1, NamesAssumption DEF Entry
<1>3. File(name) # NOFILE
  BY <1>1, <1>2 DEF TypeOK
<1> QED BY <1>2, <1>3, FileFacts DEF TypeOK

(* A method is entered on top of the stack.                                *)
LEMMA PushInv ==
  ASSUME IInv, status = "run", NEW b \in Activation, b.does = "run", Stands(b),
         stack # << >> => Inside(b, Top), class_list # << >>,
         stack' = Append(stack, b), UNCHANGED <<path, class_list, cursor, open, status>>
  PROVE  IInv'
<1> PICK len \in Nat : len = Len(stack)
  BY DEF IInv, TypeOK
<1>1. stack \in Seq(Activation) /\ TypeOK
  BY DEF IInv, TypeOK
<1>2. /\ stack' \in Seq(Activation) /\ Len(stack') = len + 1 /\ stack'[len + 1] = b
      /\ \A k \in 1 .. len : stack'[k] = stack[k]
  BY <1>1
<1>3. Stands(stack[len + 1])'
  BY <1>2 DEF Stands, File, MethodsOf
<1>4. ASSUME len + 1 > 1
      PROVE  Inside(stack[len + 1], stack[len])'
  <2>1. stack # << >> /\ Top = stack[len]
    BY <1>1, <1>4, TopFacts
  <2>2. Inside(b, stack[len]) /\ stack'[len + 1] = b /\ stack'[len] = stack[len]
    BY <1>2, <1>4, <2>1
  <2> QED BY <2>2 DEF Inside, Body, NameOf, MethodsOf, File
<1>5. \A k \in len + 1 .. Len(stack') :
        /\ stack'[k].does = "run" /\ Stands(stack[k])'
        /\ k > 1 => Inside(stack[k], stack[k - 1])'
  <2>1. ASSUME NEW k \in len + 1 .. Len(stack') PROVE k = len + 1 /\ k - 1 = len
    BY <1>2
  <2> QED BY <1>2, <1>3, <1>4, <2>1
<1>6. open' \in Nat /\ open <= open' /\ open' <= FdLimit
  BY <1>1, LimitAssumption DEF TypeOK
<1> QED BY <1>2, <1>5, <1>6, RunsInv

(* An invocation that enters its method.                                   *)
LEMMA InvokeInv ==
  ASSUME IInv, Invoke
  PROVE  IInv'
<1>1. /\ Does("run") /\ Top.at <= Len(Method.body) /\ Op.op \in Calls
      /\ find_class_method(Op.class, Op.method) = "found"
      /\ Op.op = "invokeinterface" => Listed(Op.of)
  BY DEF Invoke, Executes
<1>2. TypeOK
  BY DEF IInv
<1>3. /\ Op \in Instruction /\ status = "run" /\ stack # << >> /\ Top.does = "run"
      /\ Body(Top) = Method.body
  BY <1>1, <1>2, RunFacts
<1>4. Op.class \in Classes \cup {OBJECT} /\ Op.of \in Classes \cup {OBJECT}
  BY <1>1, <1>3 DEF Instruction, Calls
<1>5. Listed(Op.class) /\ Declares(File(Op.class), Op.method) # {}
  BY <1>1 DEF find_class_method
<1>6. Target \in Classes /\ File(Target) # NOFILE /\ File(Target) \in ClassFile
      /\ Declares(File(Target), Op.method) # {}
  BY <1>1, <1>2, <1>4, <1>5, FoundHasFile DEF Target
<1> PICK c, i : c = Target /\ i = (CHOOSE k \in Declares(File(Target), Op.method) : TRUE)
  OBVIOUS
<1>7. i \in DOMAIN File(c).methods
  BY <1>6 DEF Declares
<1> DEFINE b == Runs(c, i)
<1>8. /\ b \in Activation /\ b.does = "run" /\ b.class = c /\ b.method = i /\ b.at = 1
      /\ Len(File(c).methods[i].body) \in Nat
  BY <1>6, <1>7, MethodFacts DEF Runs, Activation
<1> HIDE DEF b
<1>9. Stands(b)
  BY <1>6, <1>7, <1>8 DEF Stands, MethodsOf
<1>10. Inside(b, Top)
  BY <1>1, <1>3 DEF Inside
<1>11. class_list # << >>
  BY <1>3 DEF IInv, Nested
<1>12. CASE Stops("wild")
  BY <1>12, StopsInv DEF Stops
<1>13. CASE stack' = Append(stack, b) /\ UNCHANGED <<path, class_list, cursor, open, status>>
  BY <1>3, <1>8, <1>9, <1>10, <1>11, <1>13, PushInv
<1> QED BY <1>12, <1>13 DEF Invoke, b

(* An invocation that loads its class first.                               *)
LEMMA InvokeLoadsInv ==
  ASSUME IInv, InvokeLoads
  PROVE  IInv'
<1>1. Does("run") /\ Top.at <= Len(Method.body) /\ Begins(Op.class, Retried, open)
      /\ Op.op \in Calls /\ find_class_method(Op.class, Op.method) = "none"
  BY DEF InvokeLoads, Unresolved, Executes, Load
<1>2. open \in Nat /\ TypeOK
  BY DEF IInv, TypeOK
<1>3. Listed(Op.class) => ~Direct
  <2>1. SUFFICES ASSUME Listed(Op.class), Direct PROVE FALSE
    OBVIOUS
  <2>2. Op \in Instruction
    BY <1>1, <1>2, RunFacts
  <2>3. Op.class \in Classes
    BY <1>1, <1>2, <2>1, <2>2, FoundHasFile DEF Instruction, Calls
  <2>4. Op.class # OBJECT
    BY <2>3, NamesAssumption
  <2>5. Declares(path[Op.class], Op.method) # {}
    BY <1>1, <1>2, <2>1, <2>4, OpFacts DEF Direct
  <2>6. Declares(File(Op.class), Op.method) # {}
    BY <2>3, <2>5 DEF File
  <2> QED BY <1>1, <2>1, <2>6 DEF find_class_method
<1> QED BY <1>1, <1>2, <1>3, RetriedInv

(* An invocation that finds no method, or one of Object.                   *)
LEMMA InvokeNothingInv ==
  ASSUME IInv, InvokeNothing
  PROVE  IInv'
<1>1. Does("run") /\ Top.at <= Len(Method.body)
  BY DEF InvokeNothing, Unresolved, Executes
<1>2. open \in Nat /\ open <= FdLimit /\ FdLimit \in Nat
  BY LimitAssumption DEF IInv, TypeOK
<1>3. CASE Stops("failed") \/ Stops("segv")
  BY <1>3, StopsInv DEF Stops
<1>4. CASE Completes
  BY <1>1, <1>2, <1>4, CompletesInv DEF Completes
<1> QED BY <1>3, <1>4 DEF InvokeNothing

(* An array of numbers, which adds a class of its own to the list.         *)
LEMMA LoadPrimitiveInv ==
  ASSUME IInv, LoadPrimitive
  PROVE  IInv'
<1>1. Does("run") /\ Top.at <= Len(Method.body) /\ Op \in AllOps /\ status = "run"
  BY NamesFacts DEF LoadPrimitive, Obtains
<1>2. /\ TypeOK /\ open \in Nat /\ open <= FdLimit /\ FdLimit \in Nat
      /\ class_list \in Seq(Entry)
      /\ DOMAIN class_list = 1 .. Len(class_list)
      /\ Len(class_list) \in Nat
  BY LimitAssumption DEF IInv, TypeOK
<1> DEFINE e == [name |-> Op.class, methods |-> FALSE, super |-> 0]
<1>3. Op.class \in Primitives
  BY DEF LoadPrimitive
<1>4. /\ HasDirectory /\ class_list' = Append(class_list, e)
      /\ stack' = Retried /\ open' = open + 1 /\ UNCHANGED <<path, cursor, status>>
  BY DEF LoadPrimitive, Obtains
<1> HIDE DEF e
<1>5. IInv'
  <2>2. Op.class \in Primitives /\ Op.class \notin Classes
    BY <1>3, NamesAssumption
  <2>3. e \in Entry /\ e.name = Op.class /\ e.super = 0
    BY <2>2 DEF Entry, e
  <2>4. /\ class_list' \in Seq(Entry) /\ Len(class_list') = Len(class_list) + 1
        /\ class_list'[Len(class_list) + 1] = e
        /\ \A i \in DOMAIN class_list : class_list'[i] = class_list[i]
        /\ DOMAIN class_list' = 1 .. Len(class_list) + 1
    BY <1>2, <1>4, <2>3
  <2>5. Extended
    BY <1>2, <1>4, <2>4 DEF Extended
  <2>6. stack' \in Seq(Activation)
    BY <1>1, <1>4, <2>5, PastStack
  <2>7. PICK m \in Nat :
              /\ m <= Len(stack) /\ m <= Len(stack') /\ \A k \in 1 .. m : stack'[k] = stack[k]
              /\ \A k \in m + 1 .. Len(stack) : stack[k].does = "run"
              /\ \A k \in m + 1 .. Len(stack') :
                   /\ stack'[k].does = "run" /\ Stands(stack[k])'
                   /\ k > 1 => Inside(stack[k], stack[k - 1])'
    BY <1>1, <1>4, <2>5, PastStack
  <2>8. /\ \A k \in DOMAIN stack' : Stands(stack[k])'
        /\ \A k \in 1 .. Len(stack') - 1 : Inside(stack[k + 1], stack[k])'
    BY <2>5, <2>6, <2>7, StackChanges
  <2>9. Loads' = Loads /\ Parsing' = Parsing
    BY <1>2, <2>6, <2>7, OnlyRuns DEF TypeOK
  <2>10. TypeOK'
    <3>1. \A i \in DOMAIN class_list' :
            /\ class_list'[i].super \in 0 .. Len(class_list')
            /\ class_list'[i].name \in Classes => File(class_list[i].name)' # NOFILE
      BY <1>2, <1>4, <2>2, <2>3, <2>4 DEF TypeOK, File
    <3>2. open' \in 0 .. FdLimit
      BY <1>2, <1>4 DEF HasDirectory
    <3> QED BY <1>2, <1>4, <2>4, <2>6, <2>8, <3>1, <3>2 DEF TypeOK
  <2>11. Nested'
    BY <1>2, <1>4, <2>4, <2>8 DEF IInv, Nested
  <2>12. Counted'
    <3>1. Cardinality(Parsing) \in Nat
      BY <1>2, ParsingFinite
    <3>2. ~NoArrays'
      BY <1>1, <1>3, <1>4, ProgramKept DEF NoArrays
    <3> QED BY <1>2, <1>4, <2>4, <2>9, <3>1, <3>2 DEF IInv, Counted
  <2>13. Superclasses' /\ Halfway' /\ Complete'
    <3>1. \A i \in DOMAIN class_list' :
            \/ i \in DOMAIN class_list /\ class_list'[i].super = class_list[i].super
            \/ i \notin DOMAIN class_list /\ class_list'[i].super = 0
      BY <1>2, <2>3, <2>4
    <3>2. \A i \in ClassEntries' : i \in DOMAIN class_list
      BY <1>2, <2>2, <2>3, <2>4 DEF ClassEntries
    <3> QED BY <2>5, <2>9, <3>1, <3>2, ListChanges
  <2>14. Spare'
    <3>1. ~NoArrays
      BY <1>1, <1>3 DEF NoArrays
    <3> QED BY <1>4, <3>1, ProgramKept DEF Spare
  <2>15. Unique'
    <3>1. ClassEntries' = ClassEntries
      BY <1>2, <2>2, <2>3, <2>4 DEF ClassEntries
    <3>2. \A i \in ClassEntries : class_list'[i].name = class_list[i].name
      BY <2>4 DEF ClassEntries
    <3>3. Direct' <=> Direct
      BY <1>4, ProgramKept
    <3>4. Unique
      BY DEF IInv
    <3> QED BY <3>1, <3>2, <3>3, <3>4 DEF Unique
  <2> QED BY <2>10, <2>11, <2>12, <2>13, <2>14, <2>15 DEF IInv
<1> QED BY <1>5

(* A method returns, or a <clinit> or main ends.                           *)
LEMMA ReturnInv ==
  ASSUME IInv, Return
  PROVE  IInv'
<1>1. TypeOK /\ Does("run") /\ Top.at > Len(Method.body)
  BY DEF IInv, Return
<1>2. /\ status = "run" /\ stack # << >> /\ Top \in Activation /\ Top.does = "run"
      /\ NameOf(Top) = Method.name
  BY <1>1, RunFacts
<1> PICK len \in Nat \ {0} : len = Len(stack)
  BY <1>2, TopFacts, <1>1
<1>3. /\ stack \in Seq(Activation) /\ DOMAIN stack = 1 .. len /\ Top = stack[len]
      /\ Rest \in Seq(Activation) /\ Len(Rest) = len - 1
      /\ \A k \in 1 .. len - 1 : Rest[k] = stack[k]
      /\ \A k \in 1 .. len : Stands(stack[k])
  BY <1>1, <1>2, TopFacts DEF TypeOK
<1>4. open \in Nat /\ open <= FdLimit /\ class_list # << >>
  BY <1>2, LimitAssumption DEF IInv, TypeOK, Nested
<1>5. CASE Stops("segv") \/ Stops("exit")
  BY <1>5, StopsInv DEF Stops
<1>6. CASE stack' = Rest /\ UNCHANGED <<path, class_list, cursor, open, status>>
  <2> PICK m \in Nat : m = len - 1
    OBVIOUS
  <2>1. \A k \in m + 1 .. Len(stack) : stack[k].does = "run"
    BY <1>2, <1>3
  <2>2. \A k \in m + 1 .. Len(stack') : FALSE
    BY <1>3, <1>6
  <2> QED BY <1>3, <1>4, <1>6, <2>1, <2>2, RunsInv
<1>7. CASE /\ Method.name # "clinit" /\ HasCaller
           /\ stack' = Append(Front(Rest), [Last(Rest) EXCEPT !.at = @ + 1, !.loaded = FALSE])
           /\ UNCHANGED <<path, class_list, cursor, open, status>>
  <2>1. len > 1
    <3>1. SUFFICES ASSUME len = 1 PROVE FALSE
      OBVIOUS
    <3> DEFINE runs == {k \in DOMAIN stack : stack[k].does = "run"}
    <3>2. runs \subseteq 1 .. 1 /\ IsFiniteSet(1 .. 1) /\ Cardinality(1 .. 1) = 1
      <4>1. runs \subseteq 1 .. 1
        BY <1>3, <3>1
      <4>2. 1 \in Int /\ (1 .. 1) = (1 .. 1) /\ ~(1 > 1) /\ 1 - 1 + 1 = 1
        OBVIOUS
      <4>3. IsFiniteSet(1 .. 1) /\ Cardinality(1 .. 1) = IF 1 > 1 THEN 0 ELSE 1 - 1 + 1
        BY <4>2, FS_Interval, Zenon
      <4> QED BY <4>1, <4>2, <4>3
    <3>3. Cardinality(runs) <= 1
      BY <3>2, FS_Subset
    <3>4. Cardinality(runs) \in Nat
      BY <3>2, FS_Subset, FS_CardinalityType
    <3> QED BY <1>7, <3>3, <3>4 DEF HasCaller, Depth
  <2> PICK m \in Nat : m + 2 = len
    BY <2>1
  <2> PICK a \in Activation : a = stack[m + 1]
    BY <1>3
  <2> PICK r \in Seq(Activation) : r = Rest
    BY <1>3
  <2>2. r # << >> /\ Last(r) = a /\ Len(r) = m + 1
    <3>1. Len(r) = m + 1 /\ r[m + 1] = a
      BY <1>3
    <3>2. r # << >>
      BY <3>1
    <3> QED BY <3>1, <3>2, StackFacts
  <2>3. Front(Rest) \in Seq(Activation) /\ Len(Front(Rest)) = m
        /\ \A k \in 1 .. m : Front(Rest)[k] = stack[k]
    <3>1. /\ Front(r) \in Seq(Activation) /\ Len(Front(r)) = Len(r) - 1
          /\ \A k \in 1 .. Len(r) - 1 : Front(r)[k] = r[k]
      BY <2>2, StackFacts
    <3>2. Len(r) - 1 = m
      BY <2>2
    <3>3. \A k \in 1 .. m : r[k] = stack[k]
      BY <1>3
    <3> QED BY <3>1, <3>2, <3>3
  <2>4. a.does = "run" /\ a.at <= Len(Body(a)) /\ Stands(a)
    <3>1. Inside(stack[m + 2], stack[m + 1])
      BY <1>3 DEF IInv, Nested
    <3> QED BY <1>2, <1>3, <1>7, <3>1 DEF Inside
  <2>5. a.at \in Nat /\ a.at > 0 /\ Len(Body(a)) \in Nat
    <3>1. File(a.class) # NOFILE /\ a.method \in DOMAIN File(a.class).methods
          /\ a.at \in 1 .. Len(Body(a)) + 1
      BY <2>4 DEF Stands, MethodsOf, Body
    <3>2. File(a.class) \in ClassFile
      BY <1>1, <3>1, FileFacts DEF TypeOK
    <3>3. Body(a) \in Seq(Instruction)
      BY <3>1, <3>2, MethodFacts DEF MethodsOf, Body
    <3> QED BY <3>1, <3>3
  <2> PICK n \in Nat : n = a.at + 1
    BY <2>5
  <2> DEFINE b == [a EXCEPT !.at = n, !.loaded = FALSE]
  <2>6. /\ b \in Activation /\ b.at = n /\ b.does = "run" /\ b.class = a.class
        /\ b.method = a.method
    BY <2>4 DEF Activation
  <2>7. stack' = Append(Front(Rest), b)
    BY <1>7, <2>2
  <2> HIDE DEF b
  <2>8. Stands(b) /\ NameOf(b) = NameOf(a)
    <3>1. MethodsOf(b) = MethodsOf(a) /\ File(b.class) = File(a.class)
      BY <2>6 DEF MethodsOf
    <3>2. NameOf(b) = NameOf(a) /\ Body(b) = Body(a)
      BY <2>6, <3>1 DEF NameOf, Body
    <3>3. File(a.class) # NOFILE /\ a.method \in DOMAIN MethodsOf(a)
      BY <2>4 DEF Stands
    <3>4. b.at \in 1 .. Len(MethodsOf(b)[b.method].body) + 1
      BY <2>4, <2>5, <2>6, <3>1 DEF Body
    <3> QED BY <2>6, <3>1, <3>2, <3>3, <3>4 DEF Stands
  <2>9. /\ stack' \in Seq(Activation) /\ Len(stack') = m + 1 /\ stack'[m + 1] = b
        /\ \A k \in 1 .. m : stack'[k] = stack[k]
    BY <2>3, <2>6, <2>7
  <2>10. Stands(stack[m + 1])'
    BY <1>7, <2>6, <2>8, <2>9 DEF Stands, MethodsOf, File
  <2>11. ASSUME m + 1 > 1 PROVE Inside(stack[m + 1], stack[m])'
    <3>1. Inside(a, stack[m])
      BY <1>3, <2>11 DEF IInv, Nested
    <3>2. Inside(b, stack[m])
      BY <2>4, <2>6, <2>8, <3>1 DEF Inside
    <3>3. stack'[m] = stack[m]
      BY <2>9, <2>11
    <3> QED BY <1>7, <2>9, <3>2, <3>3 DEF Inside, Body, NameOf, MethodsOf, File
  <2>12. \A k \in m + 1 .. Len(stack') :
           /\ stack'[k].does = "run" /\ Stands(stack[k])'
           /\ k > 1 => Inside(stack[k], stack[k - 1])'
    <3>1. ASSUME NEW k \in m + 1 .. Len(stack') PROVE k = m + 1 /\ k - 1 = m
      BY <2>9
    <3> QED BY <2>6, <2>9, <2>10, <2>11, <3>1
  <2>13. \A k \in m + 1 .. Len(stack) : stack[k].does = "run"
    <3>1. ASSUME NEW k \in m + 1 .. Len(stack) PROVE k = m + 1 \/ k = m + 2
      OBVIOUS
    <3> QED BY <1>2, <1>3, <2>4, <3>1
  <2>14. m <= Len(stack) /\ m <= Len(stack')
    BY <2>9
  <2>15. UNCHANGED <<path, class_list, cursor, status>> /\ UNCHANGED open
    BY <1>7
  <2>16. open' \in Nat /\ open <= open' /\ open' <= FdLimit /\ (open' # open => ~NoArrays)
    BY <1>4, <2>15
  <2>17. stack' \in Seq(Activation) /\ \A k \in 1 .. m : stack'[k] = stack[k]
    BY <2>9
  <2> HIDE <2>9
  <2> QED BY <1>4, <2>12, <2>13, <2>14, <2>15, <2>16, <2>17, RunsInv
<1> QED BY <1>5, <1>6, <1>7 DEF Return

(* jvm_init and jvm_run load the main class and start main.                *)
LEMMA StartInv ==
  ASSUME IInv, jvm_init \/ jvm_run
  PROVE  IInv'
<1>1. TypeOK /\ stack = << >> /\ status = "run"
  BY DEF IInv, jvm_init, jvm_run
<1>2. CASE Stops("failed")
  BY <1>2, StopsInv DEF Stops
<1>3. CASE Load(MAIN, << >>) /\ class_list = << >>
  <2>0. << >> \in Seq(Activation)
    OBVIOUS
  <2> PICK below \in Seq(Activation) : below = << >>
    BY <2>0, Zenon
  <2> PICK held \in Nat : held = open
    BY <1>1 DEF TypeOK
  <2>1. Begins(MAIN, below, held) /\ open <= held /\ held = open
    BY <1>3 DEF Load
  <2>2. MayLoad(below)
    <3>1. Len(stack) = 0
      BY <1>1
    <3> QED BY <1>1, <3>1 DEF MayLoad
  <2>3. ~Listed(MAIN)
    BY <1>3 DEF Listed, Entries
  <2> QED BY <1>1, <2>1, <2>2, <2>3, BeginsInv
<1>4. CASE /\ find_class_method(MAIN, "main") = "found" /\ class_list # << >>
           /\ stack' = << Runs(MAIN, CHOOSE k \in Declares(File(MAIN), "main") : TRUE) >>
           /\ UNCHANGED <<path, class_list, cursor, open, status>>
  <2>1. Listed(MAIN) /\ Declares(File(MAIN), "main") # {}
    BY <1>4 DEF find_class_method
  <2>2. MAIN \in Classes /\ File(MAIN) # NOFILE /\ File(MAIN) \in ClassFile
    BY <1>1, <2>1, FoundHasFile, NamesAssumption
  <2> PICK i : i = CHOOSE k \in Declares(File(MAIN), "main") : TRUE
    OBVIOUS
  <2>3. i \in DOMAIN File(MAIN).methods
    BY <2>1 DEF Declares
  <2> DEFINE b == Runs(MAIN, i)
  <2>4. /\ b \in Activation /\ b.does = "run" /\ b.class = MAIN /\ b.method = i /\ b.at = 1
        /\ Len(File(MAIN).methods[i].body) \in Nat
    BY <2>2, <2>3, MethodFacts DEF Runs, Activation
  <2> HIDE DEF b
  <2>5. Stands(b)
    BY <2>2, <2>3, <2>4 DEF Stands, MethodsOf
  <2>6. stack' = Append(stack, b)
    BY <1>1, <1>4 DEF b
  <2> QED BY <1>1, <1>4, <2>4, <2>5, <2>6, PushInv
<1> QED BY <1>2, <1>3, <1>4 DEF jvm_init, jvm_run

(* A class that is loaded has a file and an entry in the list.             *)
LEMMA LoadFacts ==
  ASSUME TypeOK, stack # << >>, Top.does # "run"
  PROVE  /\ Top.id \in ClassEntries /\ class_list[Top.id].name = Top.class
         /\ Top.class \in Classes /\ File(Top.class) # NOFILE /\ File(Top.class) \in ClassFile
         /\ Top.does = "parse" => Top.at \in 1 .. Len(MethodsOf(Top)) + 1
         /\ Top.does # "parse" => Top.at \in DOMAIN class_list
<1>1. Top \in Activation /\ Stands(Top)
  BY TopFacts
<1>2. /\ Top.id \in DOMAIN class_list /\ class_list[Top.id].name = Top.class
      /\ Top.class \in Classes
      /\ Top.does = "parse" => Top.at \in 1 .. Len(MethodsOf(Top)) + 1
      /\ Top.does # "parse" => Top.at \in DOMAIN class_list
  BY <1>1, ActivationFacts DEF Stands
<1>3. File(Top.class) # NOFILE
  BY <1>2 DEF TypeOK
<1>4. File(Top.class) \in ClassFile
  BY <1>3, FileFacts DEF TypeOK
<1> QED BY <1>2, <1>3, <1>4 DEF ClassEntries

(* The loads under way when the innermost goes on or ends.                 *)
LEMMA LoadsAbove ==
  ASSUME stack \in Seq(Activation), stack' \in Seq(Activation),
         NEW len \in Nat \ {0}, len = Len(stack), len - 1 <= Len(stack'), Top = stack[len],
         \A k \in 1 .. len - 1 : stack'[k] = stack[k]
  PROVE  /\ \A a \in Loads : a = Top \/ a \in Loads'
         /\ \A b \in Loads' :
              b \in Loads \/ \E k \in len .. Len(stack') : b = stack'[k] /\ b.does # "run"
<1>1. DOMAIN stack = 1 .. len /\ DOMAIN stack' = 1 .. Len(stack') /\ Len(stack') \in Nat
  OBVIOUS
<1>2. ASSUME NEW a \in Loads, a # Top PROVE a \in Loads'
  <2>1. PICK k \in DOMAIN stack : a = stack[k] /\ a.does # "run"
    BY DEF Loads
  <2>2. k \in 1 .. len - 1
    BY <1>1, <1>2, <2>1
  <2> QED BY <1>1, <2>1, <2>2 DEF Loads
<1>3. ASSUME NEW b \in Loads'
      PROVE  b \in Loads \/ \E k \in len .. Len(stack') : b = stack'[k] /\ b.does # "run"
  <2>1. PICK k \in DOMAIN stack' : b = stack'[k] /\ b.does # "run"
    BY <1>3 DEF Loads
  <2>2. CASE k \in 1 .. len - 1
    BY <1>1, <2>1, <2>2 DEF Loads
  <2>3. CASE k \in len .. Len(stack')
    BY <2>1, <2>3
  <2> QED BY <1>1, <2>2, <2>3
<1> QED BY <1>2, <1>3

(* One more method of the file is parsed.                                  *)
LEMMA MethodParsedInv ==
  ASSUME IInv, parse_class_method
  PROVE  IInv'
<1>1. TypeOK /\ status = "run" /\ stack # << >> /\ Top.does = "parse" /\ Top.at <= Len(MethodsOf(Top))
  BY DEF IInv, parse_class_method, Does
<1> PICK len \in Nat \ {0} : len = Len(stack)
  BY <1>1, TopFacts
<1>2. /\ stack \in Seq(Activation) /\ DOMAIN stack = 1 .. len /\ Top = stack[len]
      /\ Top \in Activation /\ Top.at \in Nat
  BY <1>1, TopFacts, ActivationFacts
<1>3. /\ Top.id \in ClassEntries /\ class_list[Top.id].name = Top.class
      /\ Top.class \in Classes /\ File(Top.class) # NOFILE /\ File(Top.class) \in ClassFile
      /\ Top.at \in 1 .. Len(MethodsOf(Top)) + 1
  BY <1>1, LoadFacts
<1>4. Top.at \in DOMAIN MethodsOf(Top) /\ Len(MethodsOf(Top)) \in Nat
  BY <1>1, <1>3 DEF MethodsOf, ClassFile
<1>5. MethodEnd(MethodsOf(Top)[Top.at]) \in Positions
      /\ Len(MethodsOf(Top)[Top.at].body) \in Nat
  BY <1>3, <1>4, MethodFacts DEF MethodsOf
<1> PICK n \in Nat : n = Top.at + 1
  BY <1>2
<1> PICK r : r = Runs(Top.class, Top.at)
  OBVIOUS
<1> DEFINE a == [Top EXCEPT !.at = n]
           next == Append(Rest, a)
<1>6. CASE \E how \in {"misread", "segv"} : Stops(how)
  BY <1>6, StopsInv DEF Stops
<1>7. CASE /\ ReadsTo(MethodEnd(MethodsOf(Top)[Top.at]))
           /\ \/ stack' = next
              \/ /\ MethodsOf(Top)[Top.at].name = "clinit" /\ stack' = Append(next, r)
           /\ UNCHANGED <<path, class_list, open>>
  <2>1. a \in Activation /\ a.at = n /\ a.does = "parse" /\ a.class = Top.class /\ a.id = Top.id
    <3> PICK t \in Activation : t = Top
      BY <1>2
    <3> QED BY <1>1, Moved
  <2>2. /\ r \in Activation /\ r.does = "run" /\ r.class = Top.class /\ r.method = Top.at
        /\ r.at = 1
    BY <1>2, <1>3 DEF Runs, Activation
  <2>3. Stands(a)
    BY <1>1, <1>3, <1>4, <2>1 DEF Stands, MethodsOf, ClassEntries
  <2>4. Stands(r) /\ NameOf(r) = MethodsOf(Top)[Top.at].name
    <3>1. MethodsOf(r) = MethodsOf(Top)
      BY <2>2 DEF MethodsOf
    <3>2. File(r.class) # NOFILE /\ r.method \in DOMAIN MethodsOf(r)
      BY <1>3, <1>4, <2>2, <3>1
    <3>3. r.at \in 1 .. Len(MethodsOf(r)[r.method].body) + 1
      BY <1>5, <2>2, <3>1
    <3>4. Stands(r)
      BY <2>2, <3>2, <3>3 DEF Stands
    <3> QED BY <2>2, <3>1, <3>4 DEF NameOf
  <2> HIDE DEF a
  <2>5. /\ next \in Seq(Activation) /\ Len(next) = len /\ next[len] = a
        /\ \A k \in 1 .. len - 1 : next[k] = stack[k]
    BY <1>1, <2>1, Replaced
  <2> HIDE DEF next
  <2>6. /\ stack' \in Seq(Activation) /\ len <= Len(stack') /\ stack'[len] = a
        /\ \A k \in 1 .. len - 1 : stack'[k] = stack[k]
        /\ \/ Len(stack') = len
           \/ /\ Len(stack') = len + 1 /\ stack'[len + 1] = r
              /\ MethodsOf(Top)[Top.at].name = "clinit"
    <3> PICK x \in Seq(Activation) : x = next
      BY <2>5
    <3>1. CASE stack' = x
      BY <2>5, <3>1
    <3>2. CASE stack' = Append(x, r) /\ MethodsOf(Top)[Top.at].name = "clinit"
      BY <2>2, <2>5, <3>2
    <3> QED BY <1>7, <3>1, <3>2
  <2>7. Extended
    BY <1>1, <1>7 DEF TypeOK, Extended
  <2>8. Stands(stack[len])'
    BY <1>7, <2>3, <2>6 DEF Stands, MethodsOf, File
  <2>9. ASSUME len > 1 PROVE Inside(stack[len], stack[len - 1])'
    <3>1. Inside(Top, stack[len - 1])
      BY <1>2, <2>9 DEF IInv, Nested
    <3>2. Inside(a, stack[len - 1]) /\ stack'[len - 1] = stack[len - 1]
      BY <1>1, <2>1, <2>6, <2>9, <3>1 DEF Inside
    <3> QED BY <1>7, <2>6, <3>2 DEF Inside, Body, NameOf, MethodsOf, File
  <2>10. ASSUME Len(stack') = len + 1
         PROVE  Stands(stack[len + 1])' /\ Inside(stack[len + 1], stack[len])'
    <3>1. stack'[len + 1] = r /\ NameOf(r) = "clinit" /\ Stands(r)
      BY <2>4, <2>6, <2>10
    <3>2. NameOf(r)' = "clinit" /\ Stands(stack[len + 1])'
      BY <1>7, <2>2, <3>1 DEF NameOf, Stands, MethodsOf, File
    <3> QED BY <2>1, <2>2, <2>6, <3>1, <3>2 DEF Inside, NameOf, MethodsOf, File
  <2> PICK m \in Nat : m = len - 1
    OBVIOUS
  <2>11. /\ \A k \in DOMAIN stack' : Stands(stack[k])'
         /\ \A k \in 1 .. Len(stack') - 1 : Inside(stack[k + 1], stack[k])'
    <3>1. ASSUME NEW k \in m + 1 .. Len(stack')
          PROVE  Stands(stack[k])' /\ (k > 1 => Inside(stack[k], stack[k - 1])')
      <4>1. k = len \/ (k = len + 1 /\ k - 1 = len /\ Len(stack') = len + 1)
        BY <2>6
      <4> QED BY <2>8, <2>9, <2>10, <4>1
    <3>2. m <= Len(stack) /\ m <= Len(stack') /\ \A k \in 1 .. m : stack'[k] = stack[k]
      BY <2>6
    <3> QED BY <2>6, <2>7, <3>1, <3>2, StackChanges
  <2>12. cursor' \in Positions /\ status' \in {"run", "misread"}
         /\ (status' = "run" => cursor' # "misread")
    BY <1>5, <1>7 DEF ReadsTo
  <2>13. TypeOK'
    BY <1>1, <1>7, <2>6, <2>11, <2>12 DEF TypeOK, File
  <2>14. Nested'
    BY <1>1, <1>7, <2>11, <2>12 DEF IInv, Nested
  <2>15. Parsing' = Parsing
    <3>1. DOMAIN stack' = 1 .. Len(stack')
      BY <2>6
    <3>2. \A k \in 1 .. len : stack'[k].does = stack[k].does
      BY <1>1, <1>2, <2>1, <2>6
    <3>3. Len(stack') = len + 1 => stack'[len + 1].does = "run"
      BY <2>2, <2>6
    <3>4. ASSUME NEW k \in 1 .. Len(stack') PROVE k \in 1 .. len \/ (k = len + 1 /\ Len(stack') = len + 1)
      BY <2>6
    <3>5. 1 .. len \subseteq 1 .. Len(stack')
      BY <2>6
    <3> QED BY <1>2, <3>1, <3>2, <3>3, <3>4, <3>5 DEF Parsing
  <2>16. Counted'
    BY <1>7, <2>15, ProgramKept DEF IInv, Counted
  <2>17. /\ \A c \in Loads : c = Top \/ c \in Loads'
         /\ \A b \in Loads' : b \in Loads \/ b = a
         /\ a \in Loads'
    <3>1. /\ \A c \in Loads : c = Top \/ c \in Loads'
          /\ \A b \in Loads' :
               b \in Loads \/ \E k \in len .. Len(stack') : b = stack'[k] /\ b.does # "run"
      BY <1>2, <2>6, LoadsAbove
    <3>2. a \in Loads'
      BY <2>1, <2>6 DEF Loads
    <3>3. ASSUME NEW b, NEW k \in len .. Len(stack'), b = stack'[k], b.does # "run"
          PROVE  b = a
      BY <2>2, <2>6, <3>3
    <3> QED BY <3>1, <3>2, <3>3
  <2>18. Superclasses' /\ Halfway' /\ Complete'
    <3>1. \A i \in DOMAIN class_list' : i \in DOMAIN class_list /\ class_list'[i].super = class_list[i].super
      BY <1>7
    <3>2. \A i \in ClassEntries' : i \in DOMAIN class_list
      BY <1>7 DEF ClassEntries
    <3>3. \A c \in Loads : \E b \in Loads' : b.id = c.id
      BY <2>1, <2>17
    <3>4. \A b \in Loads' : b.does = "link" => b \in Loads
      BY <2>1, <2>17
    <3> QED BY <2>7, <3>1, <3>2, <3>3, <3>4, ListChanges
  <2>19. Spare' /\ Unique'
    BY <1>7, <2>15, SpareKept, UniqueKept DEF IInv
  <2> QED BY <2>13, <2>14, <2>16, <2>18, <2>19 DEF IInv
<1> QED BY <1>6, <1>7 DEF parse_class_method

(* The stack when the innermost load goes on linking.                      *)
LEMMA LinkStack ==
  ASSUME IInv, Extended, stack # << >>, Top.does # "run",
         NEW b \in Activation, b.does = "link", b.id = Top.id, b.class = Top.class,
         b.at \in DOMAIN class_list, stack' = Append(Rest, b)
  PROVE  /\ stack' \in Seq(Activation)
         /\ \A k \in DOMAIN stack' : Stands(stack[k])'
         /\ \A k \in 1 .. Len(stack') - 1 : Inside(stack[k + 1], stack[k])'
         /\ Parsing' = Parsing \ {Len(stack)}
         /\ \A a \in Loads : a = Top \/ a \in Loads'
         /\ \A c \in Loads' : c \in Loads \/ c = b
         /\ b \in Loads'
<1>1. TypeOK
  BY DEF IInv
<1> PICK len \in Nat \ {0} : len = Len(stack)
  BY <1>1, TopFacts
<1>2. /\ stack \in Seq(Activation) /\ DOMAIN stack = 1 .. len /\ Top = stack[len]
  BY <1>1, TopFacts
<1>3. /\ Top.id \in DOMAIN class_list /\ class_list[Top.id].name = Top.class
  BY <1>1, LoadFacts DEF ClassEntries
<1>4. /\ stack' \in Seq(Activation) /\ Len(stack') = len /\ stack'[len] = b
      /\ \A k \in 1 .. len - 1 : stack'[k] = stack[k]
  BY <1>1, Replaced
<1>5. Stands(stack[len])'
  <2>1. /\ b.id \in DOMAIN class_list' /\ class_list'[b.id].name = b.class
        /\ b.at \in DOMAIN class_list'
    BY <1>1, <1>3 DEF Extended, TypeOK
  <2> QED BY <1>4, <2>1 DEF Stands
<1>6. ASSUME len > 1 PROVE Inside(stack[len], stack[len - 1])'
  <2>1. Inside(Top, stack[len - 1])
    BY <1>2, <1>6 DEF IInv, Nested
  <2>2. Inside(b, stack[len - 1]) /\ stack'[len - 1] = stack[len - 1]
    BY <1>4, <1>6, <2>1 DEF Inside
  <2>3. Body(stack[len - 1])' = Body(stack[len - 1])
    BY <2>2 DEF Body, MethodsOf, File, Extended
  <2> QED BY <1>4, <2>2, <2>3 DEF Inside
<1> PICK m \in Nat : m = len - 1
  OBVIOUS
<1>7. /\ \A k \in DOMAIN stack' : Stands(stack[k])'
      /\ \A k \in 1 .. Len(stack') - 1 : Inside(stack[k + 1], stack[k])'
  <2>1. ASSUME NEW k \in m + 1 .. Len(stack')
        PROVE  Stands(stack[k])' /\ (k > 1 => Inside(stack[k], stack[k - 1])')
    <3>1. k = len
      BY <1>4
    <3> QED BY <1>5, <1>6, <3>1
  <2>2. m <= Len(stack) /\ m <= Len(stack') /\ \A k \in 1 .. m : stack'[k] = stack[k]
    BY <1>4
  <2> QED BY <1>4, <2>1, <2>2, StackChanges
<1>8. Parsing' = Parsing \ {Len(stack)}
  <2>1. DOMAIN stack' = 1 .. len
    BY <1>4
  <2>2. ASSUME NEW k \in 1 .. len
        PROVE  stack'[k].does = "parse" <=> k # len /\ stack[k].does = "parse"
    <3>1. CASE k = len
      BY <1>4, <3>1
    <3>2. CASE k # len
      BY <1>4, <3>2
    <3> QED BY <3>1, <3>2
  <2>3. /\ DOMAIN stack = 1 .. len /\ len = Len(stack)
    BY <1>2
  <2> QED BY ONLY <2>1, <2>2, <2>3 DEF Parsing
<1>9. /\ \A a \in Loads : a = Top \/ a \in Loads'
      /\ \A c \in Loads' : c \in Loads \/ \E k \in len .. Len(stack') : c = stack'[k] /\ c.does # "run"
  <2>1. len - 1 <= Len(stack')
    BY <1>4
  <2> QED BY <1>2, <1>4, <2>1, LoadsAbove
<1>10. /\ \A c \in Loads' : c \in Loads \/ c = b
       /\ b \in Loads'
  <2>1. ASSUME NEW k \in len .. Len(stack') PROVE stack'[k] = b
    BY <1>4
  <2>2. b \in Loads'
    BY <1>4 DEF Loads
  <2> QED BY <1>9, <2>1, <2>2
<1> QED BY <1>4, <1>7, <1>8, <1>9, <1>10

(* The class list when the methods of a class are attached.                *)
LEMMA ListAttached ==
  ASSUME class_list \in Seq(Entry), NEW id \in DOMAIN class_list, class_list' = Attached(id)
  PROVE  /\ class_list' \in Seq(Entry) /\ DOMAIN class_list' = DOMAIN class_list
         /\ Len(class_list') = Len(class_list)
         /\ \A i \in DOMAIN class_list :
              /\ class_list'[i].name = class_list[i].name /\ class_list'[i].super = class_list[i].super
              /\ class_list[i].methods => class_list'[i].methods
         /\ class_list'[id].methods
<1>1. DOMAIN class_list = 1 .. Len(class_list) /\ Len(class_list) \in Nat
  OBVIOUS
<1>2. \A i \in DOMAIN class_list : class_list[i] \in Entry
  BY <1>1
<1>3. class_list' = [i \in 1 .. Len(class_list) |->
                       IF i = id THEN [class_list[i] EXCEPT !.methods = TRUE] ELSE class_list[i]]
  BY <1>1 DEF Attached
<1>4. \A i \in DOMAIN class_list : [class_list[i] EXCEPT !.methods = TRUE] \in Entry
  BY <1>2 DEF Entry
<1>5. /\ DOMAIN class_list' = DOMAIN class_list
      /\ \A i \in DOMAIN class_list :
           class_list'[i] = IF i = id THEN [class_list[i] EXCEPT !.methods = TRUE] ELSE class_list[i]
  BY <1>1, <1>3
<1>6. class_list' \in Seq(Entry) /\ Len(class_list') = Len(class_list)
  BY <1>1, <1>2, <1>3, <1>4
<1> QED BY <1>1, <1>2, <1>5, <1>6 DEF Entry

(* The class list when a super pointer is set.                             *)
LEMMA ListLinked ==
  ASSUME class_list \in Seq(Entry), NEW at \in DOMAIN class_list, NEW f \in Nat,
         class_list' = [class_list EXCEPT ![at].super = f]
  PROVE  /\ class_list' \in Seq(Entry) /\ DOMAIN class_list' = DOMAIN class_list
         /\ Len(class_list') = Len(class_list)
         /\ \A i \in DOMAIN class_list :
              /\ class_list'[i].name = class_list[i].name
              /\ class_list'[i].methods = class_list[i].methods
              /\ i # at => class_list'[i].super = class_list[i].super
         /\ class_list'[at].super = f
<1>1. DOMAIN class_list = 1 .. Len(class_list) /\ Len(class_list) \in Nat
  OBVIOUS
<1>2. class_list' = [i \in 1 .. Len(class_list) |->
                       IF i = at THEN [class_list[i] EXCEPT !.super = f] ELSE class_list[i]]
  BY <1>1
<1>3. \A i \in DOMAIN class_list :
        class_list[i] \in Entry /\ [class_list[i] EXCEPT !.super = f] \in Entry
  <2>1. \A i \in DOMAIN class_list : class_list[i] \in Entry
    BY <1>1
  <2>2. \A x \in Entry : [x EXCEPT !.super = f] \in Entry
    BY DEF Entry
  <2> QED BY <2>1, <2>2
<1>4. class_list' \in Seq(Entry) /\ Len(class_list') = Len(class_list)
  BY <1>1, <1>2, <1>3
<1>5. /\ DOMAIN class_list' = DOMAIN class_list
      /\ \A i \in DOMAIN class_list :
           class_list'[i] = IF i = at THEN [class_list[i] EXCEPT !.super = f] ELSE class_list[i]
  BY <1>1, <1>2
<1> QED BY <1>1, <1>3, <1>4, <1>5 DEF Entry

(* The file is parsed to its end and linking begins.                       *)
LEMMA ClassParsedInv ==
  ASSUME IInv, parse_class_attr
  PROVE  IInv'
<1>1. TypeOK /\ status = "run" /\ stack # << >> /\ Top.does = "parse" /\ cursor # "misread"
  BY DEF IInv, parse_class_attr, Does, Nested
<1>2. /\ Top.id \in ClassEntries /\ class_list[Top.id].name = Top.class
      /\ Top.class \in Classes /\ File(Top.class) \in ClassFile
  BY <1>1, LoadFacts
<1> PICK id : id = Top.id
  OBVIOUS
<1> DEFINE b == [does |-> "link", class |-> Top.class, id |-> id, at |-> id]
<1>3. /\ class_list \in Seq(Entry) /\ DOMAIN class_list = 1 .. Len(class_list)
      /\ id \in DOMAIN class_list /\ id \in Nat /\ Len(class_list) \in Nat
      /\ open \in Nat /\ FdLimit \in Nat /\ open <= FdLimit
  BY <1>1, <1>2, LimitAssumption DEF TypeOK, ClassEntries
<1>4. /\ b \in Activation /\ b.does = "link" /\ b.id = id /\ b.class = Top.class /\ b.at = id
  BY <1>2, <1>3 DEF Activation
<1>5. stack' = Append(Rest, b) /\ class_list' = [class_list EXCEPT ![id].methods = TRUE]
      /\ open' = open - 1 /\ path' = path
  BY DEF parse_class_attr, Attached
<1> HIDE DEF b
<1>6. /\ class_list' \in Seq(Entry) /\ DOMAIN class_list' = DOMAIN class_list
      /\ Len(class_list') = Len(class_list)
      /\ \A i \in DOMAIN class_list :
           /\ class_list'[i].name = class_list[i].name /\ class_list'[i].super = class_list[i].super
           /\ class_list[i].methods => class_list'[i].methods
      /\ class_list'[id].methods
  <2>1. class_list' = Attached(id)
    BY <1>5 DEF Attached
  <2> QED BY <1>3, <2>1, ListAttached
<1>7. Extended
  BY <1>3, <1>5, <1>6 DEF Extended
<1>8. /\ stack' \in Seq(Activation)
      /\ \A k \in DOMAIN stack' : Stands(stack[k])'
      /\ \A k \in 1 .. Len(stack') - 1 : Inside(stack[k + 1], stack[k])'
      /\ Parsing' = Parsing \ {Len(stack)}
      /\ \A a \in Loads : a = Top \/ a \in Loads'
      /\ \A c \in Loads' : c \in Loads \/ c = b
      /\ b \in Loads'
  BY <1>1, <1>3, <1>4, <1>5, <1>7, LinkStack
<1>9. Len(stack) \in Parsing
  BY <1>1, TopFacts DEF Parsing
<1>10. /\ Cardinality(Parsing) \in Nat /\ Cardinality(Parsing') = Cardinality(Parsing) - 1
       /\ Cardinality(Parsing') \in Nat
  <2>1. IsFiniteSet(Parsing) /\ Cardinality(Parsing) \in Nat
    BY <1>1, ParsingFinite
  <2>2. IsFiniteSet(Parsing \ {Len(stack)}) /\ Cardinality(Parsing \ {Len(stack)}) = Cardinality(Parsing) - 1
    BY <1>9, <2>1, FS_RemoveElement
  <2> QED BY <1>8, <2>1, <2>2, FS_CardinalityType
<1>11. open' \in 0 .. FdLimit /\ Counted'
  <2>1. /\ open >= Len(class_list) + Cardinality(Parsing)
        /\ NoArrays => open = Len(class_list) + Cardinality(Parsing)
    BY DEF IInv, Counted
  <2>2. NoArrays' <=> NoArrays
    BY <1>5, ProgramKept
  <2> QED BY <1>3, <1>5, <1>6, <1>10, <2>1, <2>2 DEF Counted
<1>12. cursor' \in Positions /\ status' \in {"run", "misread", "segv"}
       /\ (status' = "run" => cursor' # "misread")
  <2>1. File(Top.class).attrs \in Seq(STRING)
    BY <1>2 DEF ClassFile
  <2>2. ReadAll(File(Top.class).attrs, ClassAttributes) \in {"aligned", "shifted", "misread"}
    BY <2>1, ReadAllPosition
  <2>3. FileEnd(File(Top.class), ReadAll(File(Top.class).attrs, ClassAttributes)) \in Positions
    BY <2>2 DEF FileEnd, Positions
  <2>4. cursor \in {"aligned", "shifted", "junk", "end", "beyond"}
    BY <1>1 DEF TypeOK, Positions
  <2>5. CASE cursor = "aligned"
    BY <2>3, <2>5 DEF parse_class_attr, ReadsTo
  <2>6. CASE cursor # "aligned"
    BY <2>4, <2>6 DEF parse_class_attr, ReadsTo, Positions
  <2> QED BY <2>5, <2>6
<1>13. TypeOK'
  <2>1. \A i \in DOMAIN class_list' :
          /\ class_list'[i].super \in 0 .. Len(class_list')
          /\ class_list'[i].name \in Classes => File(class_list[i].name)' # NOFILE
    BY <1>1, <1>5, <1>6 DEF TypeOK, File
  <2> QED BY <1>1, <1>5, <1>6, <1>8, <1>11, <1>12, <2>1 DEF TypeOK
<1>14. Nested'
  BY <1>3, <1>6, <1>8, <1>12 DEF Nested
<1>15. Superclasses' /\ Halfway' /\ Complete'
  <2>1. \A i \in DOMAIN class_list' : i \in DOMAIN class_list /\ class_list'[i].super = class_list[i].super
    BY <1>6
  <2>2. \A i \in ClassEntries' : i \in DOMAIN class_list
    BY <1>6 DEF ClassEntries
  <2>3. \A c \in Loads : \E a \in Loads' : a.id = c.id
    BY <1>4, <1>8
  <2>4. id \in ClassEntries' /\ {id} \in SUBSET ClassEntries'
    BY <1>2, <1>6 DEF ClassEntries
  <2>5. \E chain \in SUBSET ClassEntries' :
          b.id \in chain /\ b.at \in chain /\ \A j \in chain \ {b.at} : Closed(j, chain)'
    <3>1. b.id \in {id} /\ b.at \in {id} /\ \A j \in {id} \ {b.at} : Closed(j, {id})'
      BY <1>4
    <3> QED BY <2>4, <3>1
  <2>6. \A c \in Loads' : c.does = "link" =>
           \/ c \in Loads
           \/ /\ class_list'[c.id].methods
              /\ \E chain \in SUBSET ClassEntries' :
                   c.id \in chain /\ c.at \in chain /\ \A j \in chain \ {c.at} : Closed(j, chain)'
    BY <1>4, <1>6, <1>8, <2>5
  <2> QED BY <1>7, <2>1, <2>2, <2>3, <2>6, ListChanges
<1>16. Spare' /\ Unique'
  <2>1. open' < FdLimit
    BY <1>3, <1>5
  <2> QED BY <1>5, <1>6, <2>1, UniqueKept DEF IInv, Spare
<1> QED BY <1>11, <1>13, <1>14, <1>15, <1>16 DEF IInv

(* Linking has come along a chain of superclasses that is closed but for   *)
(* the place it has reached.                                               *)
LEMMA LinkFacts ==
  ASSUME IInv, Does("link")
  PROVE  /\ Top \in Loads /\ class_list[Top.id].methods /\ Top.at \in ClassEntries
         /\ \E chain \in SUBSET ClassEntries :
              Top.id \in chain /\ Top.at \in chain /\ \A j \in chain \ {Top.at} : Closed(j, chain)
<1>1. TypeOK /\ stack # << >> /\ Top.does = "link"
  BY DEF IInv, Does
<1>2. Top \in Loads
  BY <1>1, TopFacts DEF Loads
<1>3. /\ class_list[Top.id].methods
      /\ \E chain \in SUBSET ClassEntries :
           Top.id \in chain /\ Top.at \in chain /\ \A j \in chain \ {Top.at} : Closed(j, chain)
  BY <1>1, <1>2 DEF IInv, Halfway
<1> QED BY <1>2, <1>3

(* Linking has reached a class that extends Object.                        *)
LEMMA LinkEndInv ==
  ASSUME IInv, LinkEnd
  PROVE  IInv'
<1>1. /\ TypeOK /\ status = "run" /\ stack # << >> /\ Top.does = "link" /\ SuperName = OBJECT
      /\ stack' = Rest /\ UNCHANGED <<path, class_list, cursor, open, status>>
  BY DEF IInv, LinkEnd, Does
<1> PICK len \in Nat \ {0} : len = Len(stack)
  BY <1>1, TopFacts
<1>2. /\ stack \in Seq(Activation) /\ DOMAIN stack = 1 .. len /\ Top = stack[len]
      /\ stack' \in Seq(Activation) /\ Len(stack') = len - 1
      /\ \A k \in 1 .. len - 1 : stack'[k] = stack[k]
  BY <1>1, TopFacts
<1>3. Extended
  BY <1>1 DEF Extended, TypeOK
<1> PICK m \in Nat : m = len - 1
  OBVIOUS
<1>4. /\ \A k \in DOMAIN stack' : Stands(stack[k])'
      /\ \A k \in 1 .. Len(stack') - 1 : Inside(stack[k + 1], stack[k])'
  <2>1. \A k \in m + 1 .. Len(stack') : FALSE
    BY <1>2
  <2>2. m <= Len(stack) /\ m <= Len(stack') /\ \A k \in 1 .. m : stack'[k] = stack[k]
    BY <1>2
  <2> QED BY <1>2, <1>3, <2>1, <2>2, StackChanges
<1>5. TypeOK' /\ Nested'
  BY <1>1, <1>2, <1>4 DEF TypeOK, File, IInv, Nested
<1>6. Parsing' = Parsing
  <2>1. DOMAIN stack' = 1 .. len - 1
    BY <1>2
  <2> QED BY <1>1, <1>2, <2>1 DEF Parsing
<1>7. Counted'
  BY <1>1, <1>6, ProgramKept DEF IInv, Counted
<1>8. /\ \A a \in Loads : a = Top \/ a \in Loads'
      /\ \A c \in Loads' : c \in Loads
  <2>1. \A k \in len .. Len(stack') : FALSE
    BY <1>2
  <2>2. len - 1 <= Len(stack')
    BY <1>2
  <2>3. /\ \A a \in Loads : a = Top \/ a \in Loads'
        /\ \A c \in Loads' : c \in Loads \/ \E k \in len .. Len(stack') : c = stack'[k] /\ c.does # "run"
    BY <1>2, <2>2, LoadsAbove
  <2> QED BY <2>1, <2>3
<1>9. class_list[Top.id].methods /\ Linked(Top.id)
  <2>1. Does("link")
    BY <1>1 DEF Does
  <2>2. PICK chain \in SUBSET ClassEntries :
          Top.id \in chain /\ Top.at \in chain /\ \A j \in chain \ {Top.at} : Closed(j, chain)
    BY <2>1, LinkFacts
  <2>3. class_list[Top.id].methods /\ Top.at \in ClassEntries
    BY <2>1, LinkFacts
  <2>4. class_list[Top.at].super = 0
    <3>1. SUFFICES ASSUME class_list[Top.at].super # 0 PROVE FALSE
      OBVIOUS
    <3>2. Listed(OBJECT)
      BY <1>1, <2>3, <3>1 DEF IInv, Superclasses, SuperName, ClassEntries
    <3>3. OBJECT \in Classes
      BY <1>1, <3>2, FoundHasFile
    <3> QED BY <3>3, NamesAssumption
  <2>5. Closed(Top.at, chain)
    BY <1>1, <2>4 DEF Closed, SuperName
  <2>6. \A j \in chain : Closed(j, chain)
    BY <2>2, <2>5
  <2> QED BY <2>2, <2>3, <2>6 DEF Linked, Closed
<1>10. Superclasses' /\ Halfway' /\ Complete'
  <2>1. \A i \in DOMAIN class_list' : i \in DOMAIN class_list /\ class_list'[i].super = class_list[i].super
    BY <1>1
  <2>2. \A i \in ClassEntries' : i \in DOMAIN class_list
    BY <1>1 DEF ClassEntries
  <2>3. \A a \in Loads : \/ \E b \in Loads' : b.id = a.id
                         \/ class_list[a.id].methods /\ Linked(a.id)
    BY <1>8, <1>9
  <2> QED BY <1>3, <1>8, <2>1, <2>2, <2>3, ListChanges
<1>11. Spare' /\ Unique'
  BY <1>1, <1>6, SpareKept, UniqueKept DEF IInv
<1> QED BY <1>5, <1>7, <1>10, <1>11 DEF IInv

(* Linking loads or finds the superclass and goes on from it.              *)
LEMMA LinkSuperInv ==
  ASSUME IInv, LinkSuper
  PROVE  IInv'
<1>1. /\ TypeOK /\ status = "run" /\ stack # << >> /\ Top.does = "link" /\ SuperName # OBJECT
      /\ Does("link")
  BY DEF IInv, LinkSuper, Does
<1>2. /\ Top.id \in ClassEntries /\ class_list[Top.id].name = Top.class
      /\ Top.class \in Classes /\ Top.at \in ClassEntries
  BY <1>1, LoadFacts, LinkFacts
<1>3. CASE Stops("segv")
  BY <1>3, StopsInv DEF Stops
<1>4. CASE Load(SuperName, stack) /\ ~Listed(SuperName)
  <2> PICK below \in Seq(Activation) : below = stack
    BY <1>1, TopFacts
  <2> PICK s : s = SuperName
    OBVIOUS
  <2> PICK held \in Nat : held = open
    BY <1>1 DEF TypeOK
  <2>1. Begins(s, below, held) /\ open <= held /\ held = open
    BY <1>4 DEF Load
  <2>2. MayLoad(below)
    <3>1. ASSUME NEW k \in DOMAIN stack
          PROVE  Stands(below[k]) /\ (k > 1 => Inside(below[k], below[k - 1]))
      <4>1. ASSUME k > 1 PROVE k - 1 \in 1 .. Len(stack) - 1 /\ (k - 1) + 1 = k
        BY <1>1, <4>1, TopFacts
      <4> QED BY <1>1, <4>1 DEF IInv, Nested, TypeOK
    <3> QED BY <1>1, <3>1, TopFacts DEF MayLoad
  <2>3. ~Listed(s)
    BY <1>4
  <2> QED BY <1>1, <2>1, <2>2, <2>3, BeginsInv
<1> PICK name, f : name = SuperName /\ f = find_class(name)
  OBVIOUS
<1> PICK at : at = Top.at
  OBVIOUS
<1> DEFINE b == [Top EXCEPT !.at = f]
<1>5. CASE /\ Listed(name)
           /\ class_list' = [class_list EXCEPT ![at].super = f]
           /\ stack' = Append(Rest, b)
           /\ UNCHANGED <<path, cursor, open, status>>
  <2>1. f \in Entries(name)
    BY <1>1, <1>5, FirstEntry DEF TypeOK
  <2>2. name \in Classes
    <3>1. File(class_list[Top.at].name) \in ClassFile
      <4>1. class_list[Top.at].name \in Classes /\ File(class_list[Top.at].name) # NOFILE
        BY <1>1, <1>2 DEF ClassEntries, TypeOK
      <4> QED BY <1>1, <4>1, FileFacts DEF TypeOK
    <3> QED BY <1>1, <3>1 DEF SuperName, ClassFile
  <2>3. /\ class_list \in Seq(Entry) /\ DOMAIN class_list = 1 .. Len(class_list)
        /\ at \in DOMAIN class_list /\ Len(class_list) \in Nat
        /\ f \in ClassEntries /\ f \in DOMAIN class_list /\ f \in Nat /\ f # 0
        /\ class_list[at].name \in Classes
    BY <1>1, <1>2, <2>1, <2>2 DEF TypeOK, ClassEntries, Entries
  <2>4. /\ b \in Activation /\ b.does = "link" /\ b.id = Top.id /\ b.class = Top.class /\ b.at = f
    <3> PICK t \in Activation : t = Top
      BY <1>1, TopFacts
    <3>1. t.does # "run"
      BY <1>1
    <3> QED BY <1>1, <2>3, <3>1, Moved
  <2> HIDE DEF b
  <2>5. /\ class_list' \in Seq(Entry) /\ DOMAIN class_list' = DOMAIN class_list
        /\ Len(class_list') = Len(class_list)
        /\ \A i \in DOMAIN class_list :
             /\ class_list'[i].name = class_list[i].name
             /\ class_list'[i].methods = class_list[i].methods
             /\ i # at => class_list'[i].super = class_list[i].super
        /\ class_list'[at].super = f
    <3>1. /\ class_list \in Seq(Entry) /\ at \in DOMAIN class_list /\ f \in Nat
          /\ class_list' = [class_list EXCEPT ![at].super = f]
      BY <1>5, <2>3
    <3> QED BY ONLY <3>1, ListLinked
  <2>6. Extended
    BY <1>5, <2>3, <2>5 DEF Extended
  <2>7. /\ stack' \in Seq(Activation)
        /\ \A k \in DOMAIN stack' : Stands(stack[k])'
        /\ \A k \in 1 .. Len(stack') - 1 : Inside(stack[k + 1], stack[k])'
        /\ Parsing' = Parsing \ {Len(stack)}
        /\ \A a \in Loads : a = Top \/ a \in Loads'
        /\ \A c \in Loads' : c \in Loads \/ c = b
        /\ b \in Loads'
    BY <1>1, <1>5, <2>3, <2>4, <2>6, LinkStack
  <2>8. Parsing' = Parsing
    BY <1>1, <2>7, TopFacts DEF Parsing
  <2>9. TypeOK'
    <3>1. \A i \in DOMAIN class_list' :
            /\ class_list'[i].super \in 0 .. Len(class_list')
            /\ class_list'[i].name \in Classes => File(class_list[i].name)' # NOFILE
      BY <1>1, <1>5, <2>3, <2>5 DEF TypeOK, File
    <3> QED BY <1>1, <1>5, <2>5, <2>7, <3>1 DEF TypeOK
  <2>10. Nested'
    BY <1>5, <2>3, <2>5, <2>7 DEF IInv, Nested
  <2>11. Counted'
    BY <1>5, <2>5, <2>8, ProgramKept DEF IInv, Counted
  <2>12. Superclasses' /\ Halfway' /\ Complete'
    <3>1. \A i \in DOMAIN class_list' :
           \/ i \in DOMAIN class_list /\ class_list'[i].super = class_list[i].super
           \/ LET s == File(class_list[i].name).super IN
                /\ i \in ClassEntries /\ s # OBJECT
                /\ Listed(s) /\ class_list'[i].super = find_class(s)
      BY <1>1, <1>2, <1>5, <2>5 DEF SuperName
    <3>2. \A i \in ClassEntries' : i \in DOMAIN class_list
      BY <2>5 DEF ClassEntries
    <3>3. \A c \in Loads : \E a \in Loads' : a.id = c.id
      BY <2>4, <2>7
    <3>4. class_list'[b.id].methods
      BY <1>1, <1>2, <2>4, <2>5, LinkFacts DEF ClassEntries
    <3>5. \E chain \in SUBSET ClassEntries' :
            b.id \in chain /\ b.at \in chain /\ \A j \in chain \ {b.at} : Closed(j, chain)'
      <4>1. PICK chain \in SUBSET ClassEntries :
              Top.id \in chain /\ Top.at \in chain /\ \A j \in chain \ {Top.at} : Closed(j, chain)
        BY <1>1, LinkFacts
      <4> PICK longer : longer = chain \cup {f}
        OBVIOUS
      <4>2. longer \in SUBSET ClassEntries'
        BY <2>3, <2>5, <4>1 DEF ClassEntries
      <4>3. ASSUME NEW j \in longer \ {f} PROVE Closed(j, longer)'
        <5>1. j \in chain /\ j \in DOMAIN class_list
          BY <4>1 DEF ClassEntries
        <5>2. CASE j = at
          BY <2>3, <2>5, <5>2 DEF Closed
        <5>3. CASE j # at
          <6>1. Closed(j, chain) /\ class_list'[j].super = class_list[j].super
                /\ class_list'[j].name = class_list[j].name
            BY <2>5, <4>1, <5>1, <5>3
          <6> QED BY <1>5, <6>1 DEF Closed, File
        <5> QED BY <5>2, <5>3
      <4> QED BY <2>4, <4>1, <4>2, <4>3
    <3>6. \A c \in Loads' : c.does = "link" =>
             \/ c \in Loads
             \/ /\ class_list'[c.id].methods
                /\ \E chain \in SUBSET ClassEntries' :
                     c.id \in chain /\ c.at \in chain /\ \A j \in chain \ {c.at} : Closed(j, chain)'
      BY <2>7, <3>4, <3>5
    <3> QED BY <2>6, <3>1, <3>2, <3>3, <3>6, ListChanges
  <2>13. Spare' /\ Unique'
    <3>1. class_list # << >>
      BY <2>3, <2>5
    <3> QED BY <1>5, <2>5, <2>8, <3>1, SpareKept, UniqueKept DEF IInv
  <2> QED BY <2>9, <2>10, <2>11, <2>12, <2>13 DEF IInv
<1> QED BY <1>3, <1>4, <1>5 DEF LinkSuper, Linking

-----------------------------------------------------------------------------
(* The theorems.                                                           *)

(* The invariant holds at the start.                                       *)
LEMMA InitInv ==
  ASSUME Init
  PROVE  IInv
<1>1. /\ path \in [Classes -> {NOFILE} \cup ClassFile] /\ stack = << >> /\ class_list = << >>
      /\ cursor = "end" /\ open = 0 /\ status = "run"
  BY PathAssumption DEF Init
<1>2. DOMAIN stack = {} /\ DOMAIN class_list = {} /\ Len(class_list) = 0 /\ Len(stack) = 0
  BY <1>1
<1>3. TypeOK
  BY <1>1, <1>2, LimitAssumption DEF TypeOK, Positions
<1>4. Nested
  BY <1>1, <1>2 DEF Nested
<1>5. Parsing = {} /\ Loads = {} /\ ClassEntries = {}
  BY <1>2 DEF Parsing, Loads, ClassEntries
<1>6. Counted
  BY <1>1, <1>2, <1>5, FS_EmptySet DEF Counted
<1>7. Superclasses /\ Halfway /\ Complete /\ Unique
  BY <1>2, <1>5 DEF Superclasses, Halfway, Complete, Unique
<1>8. Spare
  BY <1>1 DEF Spare
<1> QED BY <1>3, <1>4, <1>6, <1>7, <1>8 DEF IInv

(* Every action keeps the invariant.                                       *)
LEMMA NextInv ==
  ASSUME IInv, [Next]_vars
  PROVE  IInv'
<1>1. CASE jvm_init \/ jvm_run
  BY <1>1, StartInv
<1>2. CASE parse_class_method
  BY <1>2, MethodParsedInv
<1>3. CASE ExceptionTableFails
  BY <1>3, StopsInv DEF ExceptionTableFails, Stops
<1>4. CASE parse_class_attr
  BY <1>4, ClassParsedInv
<1>5. CASE LinkSuper
  BY <1>5, LinkSuperInv
<1>6. CASE LinkEnd
  BY <1>6, LinkEndInv
<1>7. CASE LoadClass \/ LoadPrimitive \/ LoadArray
  BY <1>7, LoadClassInv, LoadPrimitiveInv, LoadArrayInv
<1>8. CASE NewFails \/ UNCHANGED vars
  <2>1. UNCHANGED vars
    BY <1>8 DEF NewFails
  <2>2. Loads' = Loads /\ Parsing' = Parsing
    BY <2>1 DEF vars, Loads, Parsing
  <2>3. TypeOK' /\ Nested' /\ Counted'
    BY <2>1, <2>2, ProgramKept DEF vars, IInv, TypeOK, Stands, File, MethodsOf, Nested, Inside, Body, NameOf,
                                    Counted
  <2>4. Superclasses' /\ Halfway' /\ Complete'
    BY <2>1, <2>2, ListKept DEF vars, IInv
  <2>5. Spare' /\ Unique'
    BY <2>1, <2>2, SpareKept, UniqueKept DEF vars, IInv
  <2> QED BY <2>3, <2>4, <2>5 DEF IInv
<1>9. CASE HasClass
  BY <1>9, HasClassInv
<1>10. CASE WithoutClass
  BY <1>10, WithoutClassInv
<1>11. CASE Invoke
  BY <1>11, InvokeInv
<1>12. CASE InvokeUninitialised
  BY <1>12, StopsInv DEF InvokeUninitialised, Stops
<1>13. CASE InvokeLoads
  BY <1>13, InvokeLoadsInv
<1>14. CASE InvokeNothing
  BY <1>14, InvokeNothingInv
<1>15. CASE Return
  BY <1>15, ReturnInv
<1> QED BY <1>1, <1>2, <1>3, <1>4, <1>5, <1>6, <1>7, <1>8, <1>9, <1>10, <1>11, <1>12, <1>13, <1>14,
           <1>15 DEF Next

(* Every behaviour of the loader keeps the inductive invariant.            *)
THEOREM Invariance == Spec => []IInv
<1>1. Init => IInv
  BY InitInv
<1>2. IInv /\ [Next]_vars => IInv'
  BY NextInv
<1> QED BY <1>1, <1>2, PTL DEF Spec

(* No index of the loader leaves the file, the list or the method it is    *)
(* into, and no super pointer the list; no more descriptors are open than  *)
(* the process may have.                                                   *)
THEOREM TypeCorrect == Spec => []TypeOK
<1>1. IInv => TypeOK
  BY DEF IInv
<1> QED BY <1>1, Invariance, PTL

(* A class that is in the list and not being loaded has its methods and an *)
(* unbroken chain of superclasses, whatever initialisers ran on the way.   *)
THEOREM LoadedIsComplete == Spec => []CompleteOrLoading
<1>1. IInv => CompleteOrLoading
  <2>1. SUFFICES ASSUME IInv, NEW i \in DOMAIN class_list, class_list[i].name \in Classes, ~Loading(i)
        PROVE  class_list[i].methods /\ Linked(i)
    BY DEF CompleteOrLoading
  <2>2. \A a \in Loads : a.id # i
    BY <2>1 DEF Loads, Loading
  <2>3. i \in ClassEntries
    BY <2>1 DEF ClassEntries
  <2> QED BY <2>1, <2>2, <2>3 DEF IInv, Complete
<1> QED BY <1>1, Invariance, PTL

(* A class is listed once if methods are called by the name of the class   *)
(* that declares them.                                                     *)
THEOREM ListedAtMostOnce == Spec => []ListedOnce
<1>1. IInv => ListedOnce
  <2>1. SUFFICES ASSUME IInv, Direct, NEW c \in Classes
        PROVE  Cardinality(Entries(c)) <= 1
    BY DEF ListedOnce
  <2>2. \A i, j \in Entries(c) : i = j
    BY <2>1 DEF IInv, Unique, ClassEntries, Entries
  <2>3. CASE Entries(c) = {}
    BY <2>3, FS_EmptySet
  <2>4. CASE Entries(c) # {}
    <3>1. PICK i : Entries(c) = {i}
      BY <2>2, <2>4
    <3> QED BY <3>1, FS_Singleton
  <2> QED BY <2>3, <2>4
<1> QED BY <1>1, Invariance, PTL

(* A new is repeated for ever only in a program that names the class of an *)
(* array, or inside of a load.                                             *)
THEOREM StuckByLeak == Spec => []StuckNeedsLeak
<1>1. IInv => StuckNeedsLeak
  <2>1. SUFFICES ASSUME IInv, Stuck, NoArrays
        PROVE  \E i \in DOMAIN class_list : Loading(i)
    BY DEF StuckNeedsLeak, NoArrays
  <2>2. stack # << >> /\ ~(open < FdLimit)
    BY <2>1 DEF Stuck, Executes, Does, HasDirectory
  <2>3. Parsing # {}
    BY <2>1, <2>2 DEF IInv, Nested, Spare
  <2>4. PICK k \in DOMAIN stack : stack[k].does = "parse"
    BY <2>3 DEF Parsing
  <2>5. Stands(stack[k])
    BY <2>1 DEF IInv, TypeOK
  <2>6. stack[k].id \in DOMAIN class_list
    BY <2>4, <2>5 DEF Stands
  <2> QED BY <2>4, <2>6 DEF Loading
<1> QED BY <1>1, Invariance, PTL

(* A call goes through an uninitialised pointer only if it looks into a    *)
(* class that is being loaded, or for the code of a method without any.    *)
THEOREM WildIsEarly == Spec => WildOnlyWhileLoading
<1>1. ASSUME IInv, Next, status' = "wild"
      PROVE  WildStep
  <2>1. ASSUME NEW name, NEW below, NEW held, Begins(name, below, held) PROVE status' # "wild"
    BY <2>1 DEF Begins, Stops, ReadsTo
  <2>2. status = "run"
    <3>1. CASE NewFails
      BY <3>1 DEF NewFails, Stuck, Executes, Does
    <3>2. CASE ~NewFails
      BY <1>1, <3>2 DEF Next, jvm_init, jvm_run, parse_class_method, ExceptionTableFails, parse_class_attr,
           LinkSuper, LinkEnd, LoadClass, LoadPrimitive, LoadArray, Obtains, HasClass, WithoutClass,
           Invoke, InvokeUninitialised, InvokeLoads, InvokeNothing, Unresolved, Return, Executes, Does
    <3> QED BY <3>1, <3>2
  <2>3. ~(jvm_init \/ jvm_run)
    BY <1>1, <2>1, <2>2 DEF jvm_init, jvm_run, Load, Stops
  <2>4. ~(parse_class_method \/ ExceptionTableFails \/ parse_class_attr)
    <3>1. ~parse_class_method
      <4>1. \A end : ReadsTo(end) => status' # "wild"
        BY DEF ReadsTo
      <4>2. \A how \in {"misread", "segv"} : Stops(how) => status' # "wild"
        BY DEF Stops
      <4> QED BY <1>1, <4>1, <4>2 DEF parse_class_method
    <3>2. ~ExceptionTableFails
      BY <1>1 DEF ExceptionTableFails, Stops
    <3>3. ~parse_class_attr
      <4>1. \A end : ReadsTo(end) => status' # "wild"
        BY DEF ReadsTo
      <4>2. cursor \in Positions /\ cursor # "misread"
        BY <1>1, <2>2 DEF IInv, TypeOK, Nested
      <4> QED BY <1>1, <4>1, <4>2 DEF parse_class_attr, Positions
    <3> QED BY <3>1, <3>2, <3>3
  <2>5. ~(LinkSuper \/ LinkEnd)
    BY <1>1, <2>1, <2>2 DEF LinkSuper, LinkEnd, Load, Stops
  <2>6. ~(LoadClass \/ LoadPrimitive \/ LoadArray \/ HasClass \/ WithoutClass \/ NewFails)
    BY <1>1, <2>1, <2>2 DEF LoadClass, LoadPrimitive, LoadArray, HasClass, WithoutClass, NewFails,
                            Load, Completes, Stops, vars
  <2>7. ~(InvokeLoads \/ InvokeNothing \/ Return)
    BY <1>1, <2>1, <2>2 DEF InvokeLoads, InvokeNothing, Return, Load, Completes, Stops
  <2>8. TypeOK
    BY <1>1 DEF IInv
  <2>9. ASSUME NEW name, NEW i \in Entries(name), name \in Classes, ~class_list[i].methods
        PROVE  i \in DOMAIN class_list /\ Loading(i) /\ class_list[i].name = name
    <3>1. i \in DOMAIN class_list /\ class_list[i].name = name
      BY DEF Entries
    <3>2. PICK a \in Loads : a.id = i
      BY <1>1, <2>9, <3>1 DEF IInv, Complete, ClassEntries
    <3> QED BY <3>1, <3>2 DEF Loads, Loading
  <2>10. CASE Invoke
    <3>1. /\ Does("run") /\ Top.at <= Len(Method.body) /\ Op.op \in Calls
          /\ find_class_method(Op.class, Op.method) = "found"
          /\ Op.op = "invokeinterface" => Listed(Op.of)
      BY <2>10 DEF Invoke, Executes
    <3>2. Op \in Instruction
      BY <2>8, <3>1, RunFacts
    <3>3. Op.class \in Classes \cup {OBJECT} /\ Op.of \in Classes \cup {OBJECT}
      BY <3>1, <3>2 DEF Instruction, Calls
    <3>4. CASE Op.op = "invokeinterface" /\ ~class_list[find_class(Op.of)].methods
      <4>1. find_class(Op.of) \in Entries(Op.of)
        BY <2>8, <3>1, <3>4, FirstEntry DEF TypeOK
      <4>2. Op.of \in Classes
        BY <2>8, <3>1, <3>3, <3>4, FoundHasFile
      <4> QED BY <2>9, <3>4, <4>1, <4>2 DEF WildStep
    <3>5. CASE ~(Op.op = "invokeinterface" /\ ~class_list[find_class(Op.of)].methods)
      <4>1. Declares(File(Target), Op.method) # {}
        BY <3>1 DEF find_class_method, Target
      <4> PICK i : i = CHOOSE k \in Declares(File(Target), Op.method) : TRUE
        OBVIOUS
      <4>2. i \in Declares(File(Target), Op.method)
        BY <4>1
      <4>3. ~HasCode(File(Target).methods[i])
        BY <1>1, <2>2, <2>10, <3>5 DEF Invoke
      <4> QED BY <4>2, <4>3 DEF WildStep
    <3> QED BY <3>4, <3>5
  <2>11. CASE InvokeUninitialised
    <3>1. /\ Does("run") /\ Top.at <= Len(Method.body) /\ Op.op \in Calls
          /\ find_class_method(Op.class, Op.method) = "wild"
      BY <2>11 DEF InvokeUninitialised, Executes
    <3>2. Op \in Instruction
      BY <2>8, <3>1, RunFacts
    <3>3. Op.class \in Classes \cup {OBJECT}
      BY <3>1, <3>2 DEF Instruction, Calls
    <3>4. Listed(Op.class)
      BY <3>1 DEF find_class_method
    <3>5. Op.class \in Classes /\ find_class(Op.class) \in Entries(Op.class)
      BY <2>8, <3>3, <3>4, FoundHasFile, FirstEntry DEF TypeOK
    <3>6. PICK i \in Entries(Op.class) : ~class_list[i].methods
      BY <3>1, <3>4, <3>5 DEF find_class_method
    <3> QED BY <2>9, <3>5, <3>6 DEF WildStep
  <2> QED BY <1>1, <2>3, <2>4, <2>5, <2>6, <2>7, <2>10, <2>11 DEF Next
<1>2. IInv /\ [Next]_vars => [WildStep]_vars
  BY <1>1 DEF WildStep
<1> QED BY <1>2, Invariance, PTL DEF Spec, WildOnlyWhileLoading

-----------------------------------------------------------------------------
(* Supported programs.                                                     *)

(* Either initialisers have nothing to do, or only the main class has one. *)
Quiet == /\ OpsOf(Initialisers) = {}
         /\ \A cm \in Initialisers : cm[1] \in SupersOf(MAIN)

(* The classes with initialisers are loaded before any code runs that      *)
(* could load them.                                                        *)
Early == IF Quiet THEN SupersOf(MAIN) ELSE {MAIN}
EarlyListed == \A d \in Early : Listed(d)

Initialises(a) == a.does = "run" /\ NameOf(a) = "clinit"
Asked(a)       == a.at <= Len(Body(a)) /\ Listed(Body(a)[a.at].class)

(* What a method needs to run.                                             *)
Prepared(a) ==
  a.does = "run" => /\ EarlyListed \/ (Quiet /\ Initialises(a))
                    /\ a.loaded => Asked(a)

(* What may be under way somewhere inside of what, and directly inside.    *)
Above(a, b) ==
  /\ b.does = "run" => ~Initialises(a) /\ (a.does = "parse" => a.class \notin Early)
  /\ Initialises(b) => ~Quiet
  /\ b.does = "parse" /\ b.class = MAIN /\ a.does = "run" => Quiet \/ Initialises(a) \/ a.class # MAIN
Upon(a, b) == b.does = "parse" => b.at > Len(MethodsOf(b)) /\ a.class = b.class

Fits(k) == /\ Prepared(stack[k])
           /\ \A j \in 1 .. k - 1 : Above(stack[k], stack[j])
           /\ k > 1 => Upon(stack[k], stack[k - 1])
Disciplined == \A k \in DOMAIN stack : Fits(k)

(* A parse that needs the cursor where the last one left it.               *)
Reads(a) == /\ a.does = "parse"
            /\ a.at <= Len(MethodsOf(a)) \/ (~Quiet /\ a.class # MAIN)
AtHand == /\ Parsing # {} => cursor \in {"aligned", "shifted", "end"}
          /\ stack # << >> /\ Reads(Top) => cursor = "aligned"

Listing == /\ class_list # << >> => class_list[1].name = MAIN
           /\ \A i \in DOMAIN class_list : class_list[i].name \in Classes

Unfailing == status \in {"run", "exit"} /\ Listing /\ Disciplined /\ AtHand

(* What a supported program is, in the loader's own terms.                 *)
LEMMA SupportedFacts ==
  ASSUME TypeOK, Supported
  PROVE  /\ NoArrays /\ Direct /\ FdLimit >= 2 * Cardinality(Classes)
         /\ Declares(File(MAIN), "main") # {}
         /\ \A c \in Classes :
              /\ File(c) = path[c] /\ File(c) \in ClassFile /\ File(c) # NOFILE
              /\ ~File(c).corrupt /\ Parses(File(c)) /\ File(c).super \in Classes \cup {OBJECT}
              /\ \A i \in DOMAIN File(c).methods : HasCode(File(c).methods[i])
              /\ ~Quiet => Tidy(File(c))
<1>1. Files = Classes /\ MAIN \in Classes
  BY NamesAssumption DEF Supported
<1>2. \A c \in Classes : File(c) = path[c] /\ File(c) # NOFILE
  BY <1>1 DEF Files, File
<1>3. \A c \in Classes : File(c) \in ClassFile
  BY <1>2 DEF TypeOK
<1>4. ASSUME NEW c \in Classes, NEW i \in DOMAIN File(c).methods
      PROVE  HasCode(File(c).methods[i])
  <2> DEFINE cm == <<c, i>>
  <2>1. cm \in MethodsIn(Classes)
    BY <1>1, <1>2, <1>4 DEF MethodsIn
  <2>2. HasCode(path[cm[1]].methods[cm[2]])
    BY <2>1 DEF Supported
  <2> QED BY <1>2, <2>2
<1>5. NoArrays
  BY NamesAssumption, ArraysAssumption DEF Supported, NoArrays
<1>6. ~Quiet => \A c \in Classes : Tidy(path[c])
  BY DEF Supported, Quiet
<1> QED BY <1>1, <1>2, <1>3, <1>4, <1>5, <1>6 DEF Supported

(* Where an initialiser can be, and what it does.                          *)
LEMMA InitialiserFacts ==
  ASSUME TypeOK, Supported, NEW c \in Classes, NEW i \in DOMAIN File(c).methods,
         File(c).methods[i].name = "clinit"
  PROVE  /\ <<c, i>> \in Initialisers /\ c \in Early /\ i = Len(File(c).methods)
         /\ ~Quiet => c = MAIN
         /\ Quiet => Len(File(c).methods[i].body) = 0
<1> PICK cm : cm = <<c, i>>
  OBVIOUS
<1>1. File(c) = path[c] /\ File(c) \in ClassFile /\ File(c) # NOFILE
  BY SupportedFacts
<1>2. cm \in MethodsIn(Classes) /\ cm[1] = c /\ cm[2] = i
  BY <1>1 DEF MethodsIn, Files
<1>3. cm \in Initialisers
  BY <1>1, <1>2 DEF Initialisers
<1>4. i = Len(File(c).methods)
  <2>1. cm[2] = Len(path[cm[1]].methods)
    BY <1>3 DEF Supported
  <2> QED BY <1>1, <1>2, <2>1
<1>5. CASE Quiet
  <2>1. c \in Early
    BY <1>2, <1>3, <1>5 DEF Quiet, Early
  <2>2. BodyOf(cm) = File(c).methods[i].body /\ BodyOf(cm) \in Seq(Instruction)
    BY <1>1, <1>2, MethodFacts DEF BodyOf
  <2>3. ASSUME Len(BodyOf(cm)) # 0
        PROVE  FALSE
    <3>1. 1 \in DOMAIN BodyOf(cm)
      BY <2>2, <2>3
    <3>2. BodyOf(cm)[1] \in OpsOf(Initialisers)
      BY <1>3, <3>1 DEF OpsOf
    <3> QED BY <1>5, <3>2 DEF Quiet
  <2> QED BY <1>2, <1>3, <1>4, <1>5, <2>1, <2>2, <2>3
<1>6. CASE ~Quiet
  <2>1. cm[1] = MAIN
    BY <1>3, <1>6 DEF Supported, Quiet
  <2> QED BY <1>2, <1>3, <1>4, <1>6, <2>1 DEF Early
<1> QED BY <1>5, <1>6

(* The same of an initialiser that is under way.                           *)
LEMMA InitialisesFacts ==
  ASSUME TypeOK, Supported, NEW a \in Activation, Stands(a), Initialises(a)
  PROVE  /\ a.class \in Early
         /\ ~Quiet => a.class = MAIN
         /\ a.at <= Len(Body(a)) => ~Quiet
<1>1. a.class \in Classes /\ a.method \in DOMAIN File(a.class).methods /\ a.at \in Nat
  BY ActivationFacts DEF Stands, Initialises, MethodsOf
<1>2. File(a.class).methods[a.method].name = "clinit"
  BY DEF Initialises, NameOf, MethodsOf
<1>3. /\ a.class \in Early
      /\ ~Quiet => a.class = MAIN
      /\ Quiet => Len(Body(a)) = 0
  BY <1>1, <1>2, InitialiserFacts DEF Body, MethodsOf
<1>4. a.at > 0
  BY <1>1, SupportedFacts, MethodFacts DEF Stands, Initialises, MethodsOf
<1> QED BY <1>1, <1>3, <1>4

(* An instruction of a method is one of the program.                       *)
LEMMA OpOf ==
  ASSUME NEW cms, NEW cm \in cms, NEW n \in DOMAIN BodyOf(cm)
  PROVE  BodyOf(cm)[n] \in OpsOf(cms)
  BY DEF OpsOf

(* The instructions of a supported program.                                *)
LEMMA SupportedOp ==
  ASSUME TypeOK, Supported, Does("run"), Top.at <= Len(Method.body)
  PROVE  /\ Op.op # "instanceof" /\ Op.class \notin Primitives \cup Arrays
         /\ Op.class \in Classes \/ (Op.class = OBJECT /\ Op.op = "invokespecial")
         /\ ~Quiet /\ Op.op \in Calls /\ (Initialises(Top) \/ Top.class # MAIN) =>
              MAIN \notin {Op.class, Op.of}
         /\ Op.op \in Calls /\ Op.class \in Classes => Declares(File(Op.class), Op.method) # {}
<1>1. Op \in AllOps /\ (Op.op \in Calls => Op \in CallsOf(MethodsIn(Classes)))
  BY OpFacts
<1>2. /\ Op.op # "instanceof" /\ Op.class \notin Primitives \cup Arrays
      /\ Op.class \in Classes \/ (Op.class = OBJECT /\ Op.op = "invokespecial")
  BY <1>1, NamesAssumption, ArraysAssumption DEF Supported
<1>3. Op.op \in Calls /\ Op.class \in Classes => Declares(File(Op.class), Op.method) # {}
  BY <1>1, NamesAssumption, SupportedFacts DEF Direct
<1>4. ASSUME ~Quiet, Op.op \in Calls, Initialises(Top) \/ Top.class # MAIN
      PROVE  MAIN \notin {Op.class, Op.of}
  <2> PICK cm : cm = <<Top.class, Top.method>>
    OBVIOUS
  <2>1. /\ Top.class \in Classes /\ Top.method \in DOMAIN File(Top.class).methods
        /\ Method = File(Top.class).methods[Top.method] /\ NameOf(Top) = Method.name
        /\ Method.body \in Seq(Instruction) /\ Top.at \in 1 .. Len(Method.body) + 1
        /\ Len(Method.body) \in Nat
    BY RunFacts DEF MethodsOf
  <2>2. File(Top.class) = path[Top.class] /\ File(Top.class) # NOFILE
    BY <2>1, SupportedFacts
  <2>3. cm \in Initialisers \cup MethodsIn(Classes \ {MAIN})
    <3>1. CASE Initialises(Top)
      BY <2>1, <3>1, InitialiserFacts DEF Initialises
    <3>2. CASE Top.class # MAIN
      BY <2>1, <2>2, <3>2 DEF MethodsIn, Files
    <3> QED BY <1>4, <3>1, <3>2
  <2>4. BodyOf(cm) = Method.body /\ Top.at \in DOMAIN BodyOf(cm) /\ Op = BodyOf(cm)[Top.at]
    BY <2>1, <2>2 DEF BodyOf, Op
  <2> PICK cms : cms = Initialisers \cup MethodsIn(Classes \ {MAIN})
    OBVIOUS
  <2>5. Op \in OpsOf(cms)
    <3>1. cm \in cms
      BY <2>3
    <3> QED BY <2>4, <3>1, OpOf
  <2>6. \A o \in CallsOf(Initialisers \cup MethodsIn(Classes \ {MAIN})) : MAIN \notin {o.class, o.of}
    BY <1>4 DEF Supported, Quiet
  <2> QED BY <1>4, <2>5, <2>6 DEF CallsOf
<1> QED BY <1>2, <1>3, <1>4

(* Nothing of this changes when the program runs.                          *)
LEMMA SupportedKept ==
  ASSUME path' = path
  PROVE  /\ Supported' <=> Supported
         /\ Quiet' <=> Quiet
         /\ Early' = Early
<1>1. Files' = Files /\ Initialisers' = Initialisers /\ AllOps' = AllOps
      /\ OpsOf(Initialisers)' = OpsOf(Initialisers)
  BY DEF Files, Initialisers, AllOps, OpsOf, MethodsIn, BodyOf
<1>2. SupersOf(MAIN)' = SupersOf(MAIN)
  BY <1>1 DEF SupersOf
<1>3. Direct' <=> Direct
  BY ProgramKept
<1>4. Quiet' <=> Quiet
  BY <1>1, <1>2 DEF Quiet
<1>5. MethodsIn(Classes)' = MethodsIn(Classes)
      /\ CallsOf(Initialisers \cup MethodsIn(Classes \ {MAIN}))'
         = CallsOf(Initialisers \cup MethodsIn(Classes \ {MAIN}))
  BY <1>1 DEF MethodsIn, CallsOf, OpsOf, BodyOf, Files
<1>6. Supported' <=> Supported
  BY <1>1, <1>2, <1>3, <1>5 DEF Supported
<1> QED BY <1>2, <1>4, <1>6 DEF Early

(* What fits inside of what depends on the activations and the files.      *)
LEMMA AboveKept ==
  ASSUME path' = path, NEW a, NEW b
  PROVE  /\ Above(a, b)' <=> Above(a, b)
         /\ Upon(a, b)' <=> Upon(a, b)
         /\ Initialises(a)' <=> Initialises(a)
         /\ NameOf(a)' = NameOf(a) /\ Body(a)' = Body(a) /\ MethodsOf(a)' = MethodsOf(a)
<1>1. NameOf(a)' = NameOf(a) /\ Body(a)' = Body(a) /\ MethodsOf(a)' = MethodsOf(a)
      /\ NameOf(b)' = NameOf(b) /\ MethodsOf(b)' = MethodsOf(b)
  BY DEF NameOf, Body, MethodsOf, File
<1>2. (Initialises(a)' <=> Initialises(a)) /\ (Initialises(b)' <=> Initialises(b))
  BY <1>1 DEF Initialises
<1>3. (Quiet' <=> Quiet) /\ Early' = Early
  BY SupportedKept
<1>4. Above(a, b)' <=> Above(a, b)
  BY <1>2, <1>3 DEF Above
<1>5. Upon(a, b)' <=> Upon(a, b)
  BY <1>1 DEF Upon
<1> QED BY <1>1, <1>2, <1>4, <1>5

(* Classes stay listed.                                                    *)
LEMMA ListedKept ==
  ASSUME class_list \in Seq(Entry), Extended
  PROVE  /\ \A name : Listed(name) => Listed(name)'
         /\ EarlyListed => EarlyListed'
<1>1. ASSUME NEW name, Listed(name) PROVE Listed(name)'
  BY <1>1, FoundKept
<1>2. Early' = Early
  BY SupportedKept DEF Extended
<1> QED BY <1>1, <1>2 DEF EarlyListed

(* An instruction stays one, with its class listed.                        *)
LEMMA AskedKept ==
  ASSUME class_list \in Seq(Entry), Extended, NEW a, Asked(a)
  PROVE  Asked(a)'
<1>1. Body(a)' = Body(a)
  BY AboveKept DEF Extended
<1> PICK name : name = Body(a)[a.at].class
  OBVIOUS
<1>2. Listed(name)'
  BY ListedKept DEF Asked
<1> QED BY <1>1, <1>2 DEF Asked

(* An activation goes on where it fits, as long as what it is inside of    *)
(* stays: also when a parse turns into a linking.                          *)
LEMMA FitsKept ==
  ASSUME class_list \in Seq(Entry), Extended, NEW k \in Nat, Fits(k),
         \A j \in 1 .. k - 1 : stack'[j] = stack[j],
         NEW a, NEW b, a = stack[k], b = stack'[k], b.class = a.class,
         b.does = "parse" => a.does = "parse",
         b.does = "run" => a.does = "run" /\ NameOf(b) = NameOf(a),
         b = a \/ (b.does = "run" /\ b.loaded => Asked(b)')
  PROVE  Fits(k)'
<1>1. Initialises(b) => Initialises(a)
  BY DEF Initialises
<1>1a. a.does = "run" /\ b.does = "run" => (Initialises(a) <=> Initialises(b))
  BY DEF Initialises
<1>2. Prepared(a) /\ (\A j \in 1 .. k - 1 : Above(a, stack[j])) /\ (k > 1 => Upon(a, stack[k - 1]))
  BY DEF Fits
<1>3. (EarlyListed => EarlyListed') /\ (Quiet' <=> Quiet) /\ (Initialises(b)' <=> Initialises(b))
  BY ListedKept, SupportedKept, AboveKept DEF Extended
<1>4. b.does = "run" /\ b.loaded => Asked(b)'
  BY <1>2, AskedKept DEF Prepared
<1>5. Prepared(b)'
  BY <1>1a, <1>2, <1>3, <1>4 DEF Prepared
<1>6. ASSUME NEW j \in 1 .. k - 1
      PROVE  Above(stack[k], stack[j])'
  <2> PICK c : c = stack[j]
    OBVIOUS
  <2>1. Above(a, c)
    BY <1>2
  <2>2. Above(b, c)
    BY <1>1, <1>1a, <2>1 DEF Above
  <2>3. Above(b, c)' /\ stack'[j] = c
    BY <2>2, AboveKept DEF Extended
  <2> QED BY <2>3
<1>7. ASSUME k > 1
      PROVE  Upon(stack[k], stack[k - 1])'
  <2> PICK c : c = stack[k - 1]
    OBVIOUS
  <2>1. k - 1 \in 1 .. k - 1
    BY <1>7
  <2>2. Upon(b, c) /\ stack'[k - 1] = c
    BY <1>2, <1>7, <2>1 DEF Upon
  <2>3. Upon(b, c)'
    BY <2>2, AboveKept DEF Extended
  <2> QED BY <2>2, <2>3
<1>8. Prepared(stack[k])'
  BY <1>5
<1> QED BY <1>6, <1>7, <1>8 DEF Fits

(* The names in the class list.                                            *)
LEMMA ListingKept ==
  ASSUME Listing, DOMAIN class_list' = DOMAIN class_list, class_list \in Seq(Entry),
         class_list' \in Seq(Entry),
         \A i \in DOMAIN class_list : class_list'[i].name = class_list[i].name
  PROVE  Listing'
<1>1. class_list' # << >> => class_list # << >> /\ 1 \in DOMAIN class_list
  OBVIOUS
<1> QED BY <1>1 DEF Listing

-----------------------------------------------------------------------------
(* The state in which an activation goes on.                               *)

(* All activations below fit.                                              *)
LEMMA BelowTop ==
  ASSUME TypeOK, Disciplined, stack # << >>
  PROVE  /\ Prepared(Top)
         /\ \A j \in 1 .. Len(stack) - 1 : Above(Top, stack[j])
         /\ Len(stack) > 1 => Upon(Top, stack[Len(stack) - 1])
<1>1. Len(stack) \in DOMAIN stack /\ Top = stack[Len(stack)]
  BY TopFacts
<1> QED BY <1>1 DEF Disciplined, Fits

(* A class whose initialiser runs under its parse is the main class of a   *)
(* program with one initialiser, once something is under way inside of it. *)
LEMMA ParsingBelow ==
  ASSUME IInv, Supported, Disciplined, NEW k \in Parsing, k < Len(stack),
         Top.does # "run" \/ Top.at <= Len(Body(Top))
  PROVE  ~Quiet /\ stack[k].class = MAIN /\ Initialises(stack[k + 1])
<1> PICK len \in Nat : len = Len(stack)
  BY DEF IInv, TypeOK
<1>1. /\ TypeOK /\ stack \in Seq(Activation) /\ k \in 1 .. len - 1 /\ k + 1 \in DOMAIN stack
      /\ stack # << >> /\ stack[k].does = "parse" /\ Top = stack[len]
      /\ k + 1 \in 1 .. len
  <2>1. TypeOK /\ stack \in Seq(Activation) /\ k \in 1 .. len /\ stack[k].does = "parse"
    BY DEF IInv, TypeOK, Parsing
  <2>2. stack # << >>
    BY <2>1
  <2> QED BY <2>1, <2>2, TopFacts
<1> PICK a \in Activation : a = stack[k + 1]
  BY <1>1
<1>2. Inside(a, stack[k])
  BY <1>1 DEF IInv, Nested
<1>3. Initialises(a)
  BY <1>1, <1>2 DEF Inside, Initialises
<1>4. Fits(k + 1) /\ Stands(a) /\ (k + 1) - 1 = k /\ k + 1 > 1
  BY <1>1 DEF Disciplined, TypeOK
<1>5. a.class = stack[k].class
  BY <1>1, <1>4 DEF Fits, Upon
<1>6. ~Quiet
  <2>1. CASE k + 1 = len
    BY <1>1, <1>3, <1>4, <2>1, InitialisesFacts DEF Initialises
  <2>2. CASE k + 1 # len
    <3>1. k + 1 \in 1 .. len - 1
      BY <1>1, <2>2
    <3>2. Above(Top, stack[k + 1])
      BY <1>1, <3>1, BelowTop
    <3> QED BY <1>3, <3>2 DEF Above
  <2> QED BY <2>1, <2>2
<1> QED BY <1>1, <1>3, <1>4, <1>5, <1>6, InitialisesFacts

(* Before a load begins at most one class is being parsed.                 *)
LEMMA ParsesOne ==
  ASSUME IInv, Supported, Disciplined, stack # << >>,
         Top.does = "link" \/ (Top.does = "run" /\ Top.at <= Len(Body(Top)))
  PROVE  Cardinality(Parsing) <= 1
<1> PICK len \in Nat : len = Len(stack)
  BY DEF IInv, TypeOK
<1>1. TypeOK /\ Top = stack[len] /\ DOMAIN stack = 1 .. len
  BY TopFacts DEF IInv
<1>2. ASSUME NEW k \in Parsing
      PROVE  k \in 1 .. len - 1 /\ ~Quiet /\ stack[k].class = MAIN /\ Initialises(stack[k + 1])
             /\ stack[k].does = "parse"
  <2>1. k \in 1 .. len /\ stack[k].does = "parse"
    BY <1>1 DEF Parsing
  <2>2. k # len
    BY <1>1, <2>1
  <2>3. k < Len(stack)
    BY <2>1, <2>2
  <2> QED BY <2>1, <2>2, <2>3, ParsingBelow
<1>3. ASSUME NEW j \in Parsing, NEW k \in Parsing, j < k
      PROVE  FALSE
  <2>1. j + 1 < k
    <3>1. stack[j + 1].does = "run" /\ stack[k].does = "parse"
      BY <1>2 DEF Initialises
    <3>2. j + 1 # k
      BY <3>1
    <3> QED BY <1>2, <1>3, <3>2
  <2>2. j + 1 \in 1 .. k - 1 /\ k \in DOMAIN stack
    BY <1>1, <1>2, <2>1
  <2>3. Above(stack[k], stack[j + 1])
    BY <2>2 DEF Disciplined, Fits
  <2>4. MAIN \notin Early
    BY <1>2, <2>3 DEF Above, Initialises
  <2> QED BY <1>2, <2>4 DEF Early
<1>4. \A j, k \in Parsing : j = k
  <2>1. \A j \in Parsing : j \in 1 .. len - 1
    BY <1>2
  <2>2. ASSUME NEW j \in Parsing, NEW k \in Parsing, j # k
        PROVE  FALSE
    <3>1. j < k \/ k < j
      BY <2>1, <2>2
    <3> QED BY <1>3, <3>1
  <2> QED BY <2>2
<1>5. CASE Parsing = {}
  BY <1>5, FS_EmptySet
<1>6. CASE Parsing # {}
  <2> PICK k : k \in Parsing
    BY <1>6
  <2>1. Parsing = {k}
    BY <1>4
  <2>2. Cardinality({k}) = 1
    BY FS_Singleton
  <2> QED BY <2>1, <2>2
<1> QED BY <1>5, <1>6
(* An instruction under way knows of the classes with initialisers.        *)
LEMMA RunningFacts ==
  ASSUME TypeOK, Supported, Disciplined, Does("run"), Top.at <= Len(Method.body)
  PROVE  /\ EarlyListed /\ (Initialises(Top) => ~Quiet)
         /\ Top.loaded => Listed(Op.class)
<1>1. stack # << >> /\ Top \in Activation /\ Top.does = "run" /\ Body(Top) = Method.body
      /\ Method = MethodsOf(Top)[Top.method]
  BY RunFacts
<1>2. Stands(Top)
  BY <1>1, TopFacts
<1>3. Initialises(Top) => ~Quiet
  BY <1>1, <1>2, InitialisesFacts
<1>4. Prepared(Top)
  BY <1>1, BelowTop
<1>5. Body(Top)[Top.at] = Op
  BY <1>1 DEF Op
<1> QED BY <1>1, <1>3, <1>4, <1>5 DEF Prepared, Asked

(* A class that an instruction calls into has its methods.                 *)
LEMMA CalledAttached ==
  ASSUME IInv, Supported, Disciplined, Listing, Does("run"), Top.at <= Len(Method.body),
         Op.op \in Calls, NEW j \in DOMAIN class_list, class_list[j].name \in {Op.class, Op.of}
  PROVE  class_list[j].methods
<1>1. /\ TypeOK /\ stack # << >> /\ Top.does = "run" /\ Body(Top) = Method.body
      /\ j \in ClassEntries
  BY RunFacts DEF IInv, Listing, ClassEntries
<1>2. /\ Len(stack) \in Nat /\ Top = stack[Len(stack)] /\ DOMAIN stack = 1 .. Len(stack)
      /\ stack \in Seq(Activation) /\ \A k \in DOMAIN stack : Stands(stack[k])
  BY <1>1, TopFacts DEF TypeOK
<1>3. SUFFICES ASSUME ~class_list[j].methods PROVE FALSE
  OBVIOUS
<1>4. PICK k \in DOMAIN stack : stack[k].does # "run" /\ stack[k].id = j
  BY <1>1, <1>3 DEF IInv, Complete, Loads
<1> PICK a \in Activation : a = stack[k]
  BY <1>2
<1>5. a \in Loads
  BY <1>4 DEF Loads
<1>6. a.does = "parse"
  BY <1>3, <1>4, <1>5, ActivationFacts DEF IInv, Halfway
<1>7. k \in Parsing /\ k \in 1 .. Len(stack) - 1
  BY <1>1, <1>2, <1>6 DEF Parsing
<1>8. ~Quiet /\ a.class = MAIN
  BY <1>1, <1>7, ParsingBelow
<1>9. class_list[j].name = MAIN
  BY <1>2, <1>4, <1>6, <1>8 DEF Stands
<1>10. ~Initialises(Top) /\ Top.class = MAIN
  BY <1>1, <1>8, <1>9, SupportedOp
<1>11. Above(Top, a)
  BY <1>1, <1>7, BelowTop
<1> QED BY <1>1, <1>6, <1>8, <1>10, <1>11 DEF Above

(* There are descriptors left to load a class with.                        *)
LEMMA Room ==
  ASSUME IInv, Supported, Disciplined, Listing, NEW name \in Classes, ~Listed(name),
         \/ stack = << >>
         \/ Top.does = "link"
         \/ Top.does = "run" /\ Top.at <= Len(Body(Top))
  PROVE  open + 2 <= FdLimit /\ HasDirectory /\ ~Exhausted(open)
<1> PICK L \in Nat : L = Len(class_list)
  BY DEF IInv, TypeOK
<1>1. /\ TypeOK /\ FdLimit \in Nat /\ open \in Nat /\ DOMAIN class_list = 1 .. L
      /\ Cardinality(Parsing) \in Nat /\ Cardinality(Classes) \in Nat
      /\ IsFiniteSet(Classes) /\ FdLimit >= 2 * Cardinality(Classes) /\ Direct
  BY LimitAssumption, NamesAssumption, SupportedFacts, ParsingFinite, FS_CardinalityType
     DEF IInv, TypeOK
<1>2. open = L + Cardinality(Parsing)
  BY SupportedFacts DEF IInv, Counted
<1>3. L + 1 <= Cardinality(Classes)
  <2> PICK T : T = Classes \ {name}
    OBVIOUS
  <2> DEFINE f == [i \in 1 .. L |-> class_list[i].name]
  <2>1. f \in [1 .. L -> T]
    BY <1>1 DEF Listing, Listed, Entries
  <2>2. IsFiniteSet(T) /\ Cardinality(T) = Cardinality(Classes) - 1
    BY <1>1, FS_RemoveElement
  <2>3. IsFiniteSet(1 .. L) /\ Cardinality(1 .. L) = L
    <3>1. 1 \in Int /\ L \in Int /\ (IF 1 > L THEN 0 ELSE L - 1 + 1) = L
      OBVIOUS
    <3>2. /\ IsFiniteSet(1 .. L)
          /\ Cardinality(1 .. L) = IF 1 > L THEN 0 ELSE L - 1 + 1
      BY <3>1, FS_Interval, Zenon
    <3> QED BY <3>1, <3>2
  <2>4. \A i, j \in 1 .. L : f[i] = f[j] => i = j
    BY <1>1 DEF IInv, Unique, Listing, ClassEntries
  <2> HIDE DEF f
  <2>5. ~(Cardinality(T) < Cardinality(1 .. L))
    BY <2>1, <2>2, <2>3, <2>4, FS_PigeonHole
  <2> QED BY <1>1, <2>2, <2>3, <2>5
<1>4. Cardinality(Parsing) <= 1 /\ (Parsing # {} => L >= 1)
  <2>1. CASE stack = << >>
    <3>1. Parsing = {}
      BY <2>1 DEF Parsing
    <3>2. Cardinality({}) = 0
      BY FS_EmptySet
    <3> QED BY <3>1, <3>2
  <2>2. CASE stack # << >>
    <3>1. class_list # << >> /\ class_list \in Seq(Entry)
      BY <1>1, <2>2 DEF IInv, Nested, TypeOK
    <3> QED BY <2>2, <3>1, ParsesOne
  <2> QED BY <2>1, <2>2
<1>5. Parsing = {} => Cardinality(Parsing) = 0
  BY FS_EmptySet
<1> QED BY <1>1, <1>2, <1>3, <1>4, <1>5 DEF HasDirectory, Exhausted

(* Between the loads all superclasses of the main class are listed.        *)
LEMMA SupersListed ==
  ASSUME IInv, Supported, Listing, class_list # << >>, Loads = {}
  PROVE  EarlyListed
<1>1. TypeOK /\ 1 \in DOMAIN class_list /\ class_list[1].name = MAIN /\ MAIN \in Classes
  BY NamesAssumption DEF IInv, TypeOK, Listing
<1>2. Listed(MAIN) /\ 1 \in ClassEntries /\ class_list \in Seq(Entry)
  BY <1>1 DEF Listed, Entries, ClassEntries, TypeOK
<1>3. Linked(1)
  BY <1>2 DEF IInv, Complete
<1>4. PICK chain \in SUBSET ClassEntries : 1 \in chain /\ \A j \in chain : Closed(j, chain)
  BY <1>3 DEF Linked, Closed
<1>5. ASSUME NEW j \in chain, NEW d, d = File(class_list[j].name).super, d \in Classes
      PROVE  \E i \in chain : class_list[i].name = d /\ Listed(d)
  <2>1. class_list[j].super # 0 /\ class_list[j].super \in chain /\ j \in DOMAIN class_list
    BY <1>4, <1>5, NamesAssumption DEF Closed, ClassEntries
  <2>2. Listed(d) /\ class_list[j].super = find_class(d)
    BY <1>5, <2>1 DEF IInv, Superclasses
  <2>3. class_list[find_class(d)].name = d
    BY <1>2, <2>2, FirstEntry DEF Entries
  <2> QED BY <2>1, <2>2, <2>3
<1>6. ASSUME NEW d \in SupersOf(MAIN)
      PROVE  Listed(d)
  <2> PICK s : s = File(MAIN).super
    OBVIOUS
  <2>1. \A c \in Classes : File(c) = path[c]
    BY <1>1, SupportedFacts
  <2>2. /\ d \in Classes
        /\ d = MAIN \/ d = s \/ (s \in Classes /\ d = File(s).super)
    BY <1>1, <1>6, <2>1 DEF SupersOf, Files
  <2>3. CASE s \in Classes
    <3>1. PICK i \in chain : class_list[i].name = s /\ Listed(s)
      BY <1>1, <1>4, <1>5, <2>3
    <3>2. ASSUME d = File(s).super PROVE Listed(d)
      BY <1>5, <2>2, <3>1, <3>2
    <3> QED BY <1>2, <2>2, <3>1, <3>2
  <2> QED BY <1>2, <2>2, <2>3
<1> QED BY <1>2, <1>6 DEF EarlyListed, Early
-----------------------------------------------------------------------------
(* What a step changes for activations and cursor.                         *)

(* Activations that a step leaves alone still fit.                         *)
LEMMA PrefixFits ==
  ASSUME class_list \in Seq(Entry), Extended, Disciplined, NEW m \in Nat,
         \A k \in 1 .. m : k \in DOMAIN stack /\ stack'[k] = stack[k]
  PROVE  \A k \in 1 .. m : Fits(k)'
<1> SUFFICES ASSUME NEW k \in 1 .. m PROVE Fits(k)'
  OBVIOUS
<1> PICK a : a = stack[k]
  OBVIOUS
<1>1. k \in Nat /\ Fits(k) /\ stack'[k] = a
  BY DEF Disciplined
<1>2. \A j \in 1 .. k - 1 : stack'[j] = stack[j]
  OBVIOUS
<1> QED BY <1>1, <1>2, FitsKept

(* The activation that goes on fits where it was.                          *)
LEMMA TopFits ==
  ASSUME IInv, Extended, Disciplined, stack # << >>, NEW b,
         Len(stack) <= Len(stack'), stack'[Len(stack)] = b,
         \A k \in 1 .. Len(stack) - 1 : stack'[k] = stack[k],
         b.class = Top.class, b.does = "parse" => Top.does = "parse",
         b.does = "run" => Top.does = "run" /\ NameOf(b) = NameOf(Top),
         b.does = "run" /\ b.loaded => Asked(b)'
  PROVE  \A k \in 1 .. Len(stack) : Fits(k)'
<1>1. /\ class_list \in Seq(Entry) /\ Len(stack) \in Nat \ {0} /\ DOMAIN stack = 1 .. Len(stack)
      /\ Top = stack[Len(stack)]
  BY TopFacts DEF IInv, TypeOK
<1> PICK n \in Nat \ {0} : n = Len(stack)
  BY <1>1
<1>0. n - 1 \in Nat
  OBVIOUS
<1> PICK m \in Nat : m = n - 1
  BY <1>0
<1> PICK a : a = Top
  OBVIOUS
<1>2. \A k \in 1 .. m : Fits(k)'
  <2>1. \A k \in 1 .. m : k \in DOMAIN stack /\ stack'[k] = stack[k]
    BY <1>1
  <2> QED BY <1>1, <2>1, PrefixFits
<1>3. Fits(n)'
  <2>1. n \in Nat /\ Fits(n) /\ a = stack[n] /\ b = stack'[n]
    BY <1>1 DEF Disciplined
  <2>2. \A j \in 1 .. n - 1 : stack'[j] = stack[j]
    OBVIOUS
  <2> QED BY <1>1, <2>1, <2>2, FitsKept
<1>4. \A k \in 1 .. n : k \in 1 .. m \/ k = n
  OBVIOUS
<1> QED BY <1>2, <1>3, <1>4

(* A step that leaves cursor and class names alone, ends no parse and goes *)
(* on with no activation that reads.                                       *)
LEMMA StillUnfailing ==
  ASSUME IInv, Unfailing, UNCHANGED <<path, class_list, cursor, status>>,
         Parsing' \subseteq Parsing, (stack # << >> => ~Reads(Top))',
         (\A k \in DOMAIN stack : Fits(k))'
  PROVE  Unfailing'
<1>1. Listing'
  BY ListingKept DEF Unfailing, IInv, TypeOK
<1>2. AtHand'
  BY DEF Unfailing, AtHand
<1> QED BY <1>1, <1>2 DEF Unfailing, Disciplined

(* A process that ends as it should.                                       *)
LEMMA ExitUnfailing ==
  ASSUME Unfailing, UNCHANGED <<path, stack, class_list, cursor>>, status' = "exit"
  PROVE  Unfailing'
<1>1. (Quiet' <=> Quiet) /\ Early' = Early
  BY SupportedKept
<1>2. AtHand'
  BY <1>1 DEF Unfailing, AtHand, Parsing, Reads, Top, MethodsOf, File
<1>3. Disciplined'
  <2>1. SUFFICES ASSUME NEW k \in DOMAIN stack PROVE Fits(k)'
    BY DEF Disciplined
  <2>2. Fits(k)
    BY DEF Unfailing, Disciplined
  <2> QED BY <1>1, <2>2 DEF Fits, Prepared, Above, Upon, Initialises, Asked, EarlyListed, Listed,
                            Entries, NameOf, Body, MethodsOf, File
<1> QED BY <1>2, <1>3 DEF Unfailing, Listing

(* A load of a supported program that has room to begin begins.            *)
LEMMA BeginsFacts ==
  ASSUME IInv, Supported, status = "run", NEW name \in Classes, NEW below \in Seq(Activation),
         ~Exhausted(open), Begins(name, below, open)
  PROVE  /\ class_list' = Append(class_list, [name |-> name, methods |-> FALSE, super |-> 0])
         /\ stack' = Append(below, [does |-> "parse", class |-> name,
                                    id |-> Len(class_list) + 1, at |-> 1])
         /\ cursor' = "aligned" /\ status' = "run"
         /\ Extended /\ Listed(name)'
<1>1. TypeOK /\ class_list \in Seq(Entry)
  BY DEF IInv, TypeOK
<1>2. File(name) # NOFILE /\ ~File(name).corrupt /\ Parses(File(name))
  BY <1>1, SupportedFacts
<1> DEFINE e == [name |-> name, methods |-> FALSE, super |-> 0]
<1>3. /\ class_list' = Append(class_list, e)
      /\ stack' = Append(below, [does |-> "parse", class |-> name, id |-> Len(class_list'), at |-> 1])
      /\ ReadsTo(FieldsEnd(File(name))) /\ path' = path
  BY <1>2 DEF Begins
<1>4. FieldsEnd(File(name)) = "aligned"
  BY <1>2 DEF Parses
<1>5. e \in Entry
  BY DEF Entry
<1>6. /\ class_list' \in Seq(Entry) /\ Len(class_list') = Len(class_list) + 1
      /\ \A i \in DOMAIN class_list : class_list'[i] = class_list[i]
      /\ Len(class_list') \in DOMAIN class_list' /\ class_list'[Len(class_list')] = e
      /\ Len(class_list) \in Nat
  BY <1>1, <1>3, <1>5
<1>7. Extended
  BY <1>3, <1>6 DEF Extended
<1>8. Listed(name)'
  BY <1>6 DEF Listed, Entries
<1> QED BY <1>3, <1>4, <1>6, <1>7, <1>8 DEF ReadsTo

(* It finds the cursor where it needs it, and fits inside of activations   *)
(* that may load.                                                          *)
LEMMA BeginsUnfailing ==
  ASSUME IInv, Supported, Unfailing, status = "run",
         NEW name \in Classes, ~Listed(name), class_list = << >> => name = MAIN,
         NEW below \in Seq(Activation), ~Exhausted(open), Begins(name, below, open),
         \A k \in 1 .. Len(below) : /\ Fits(k)'
                                    /\ below[k].does = "run" => EarlyListed
                                    /\ Initialises(below[k]) => ~Quiet,
         Len(below) > 0 => below[Len(below)].does # "parse"
  PROVE  Unfailing'
<1> DEFINE new == [does |-> "parse", class |-> name, id |-> Len(class_list) + 1, at |-> 1]
<1>1. /\ class_list' = Append(class_list, [name |-> name, methods |-> FALSE, super |-> 0])
      /\ stack' = Append(below, new)
      /\ cursor' = "aligned" /\ status' = "run" /\ path' = path
  BY BeginsFacts DEF Extended
<1>2. class_list \in Seq(Entry) /\ Len(class_list) \in Nat
  BY DEF IInv, TypeOK
<1>3. Listing'
  <2>1. /\ DOMAIN class_list' = 1 .. Len(class_list) + 1 /\ DOMAIN class_list = 1 .. Len(class_list)
        /\ \A i \in DOMAIN class_list : class_list'[i] = class_list[i]
        /\ class_list'[Len(class_list) + 1].name = name
    BY <1>1, <1>2
  <2>2. class_list # << >> => 1 \in DOMAIN class_list
    BY <1>2
  <2>3. class_list = << >> => Len(class_list) + 1 = 1
    BY <1>2
  <2>4. class_list'[1].name = MAIN
    BY <2>1, <2>2, <2>3 DEF Unfailing, Listing
  <2>5. \A i \in DOMAIN class_list' : class_list'[i].name \in Classes
    BY <1>2, <2>1 DEF Unfailing, Listing
  <2> QED BY <2>4, <2>5 DEF Listing
<1>4. AtHand'
  BY <1>1 DEF AtHand
<1> PICK n \in Nat : n = Len(below)
  OBVIOUS
<1>5. new.does = "parse" /\ new.class = name /\ new \in Activation
  BY <1>2 DEF Activation
<1> PICK c \in Activation : c = new
  BY <1>5
<1> HIDE DEF new
<1>6. /\ Len(stack') = n + 1 /\ DOMAIN stack' = 1 .. n + 1 /\ stack'[n + 1] = c
      /\ \A k \in 1 .. n : stack'[k] = below[k]
  BY <1>1
<1>7. Fits(n + 1)'
  <2>1. Prepared(stack[n + 1])'
    BY <1>5, <1>6 DEF Prepared
  <2>2. ASSUME NEW j \in 1 .. (n + 1) - 1
        PROVE  Above(stack[n + 1], stack[j])'
    <3> PICK b : b = below[j]
      OBVIOUS
    <3>1. b.does = "run" => name \notin Early
      BY DEF EarlyListed
    <3>2. Above(c, b)
      BY <1>5, <3>1 DEF Above, Initialises
    <3>3. Above(c, b)' /\ stack'[j] = b
      BY <1>1, <1>6, <3>2, AboveKept
    <3> QED BY <1>6, <3>3
  <2>3. ASSUME n + 1 > 1
        PROVE  Upon(stack[n + 1], stack[(n + 1) - 1])'
    <3> PICK b : b = below[n]
      OBVIOUS
    <3>1. Upon(c, b)
      BY <2>3 DEF Upon
    <3>2. Upon(c, b)' /\ stack'[n] = b /\ (n + 1) - 1 = n
      BY <1>1, <1>6, <2>3, <3>1, AboveKept
    <3> QED BY <1>6, <3>2
  <2> QED BY <2>1, <2>2, <2>3 DEF Fits
<1>8. Disciplined'
  <2>1. \A k \in 1 .. n + 1 : k \in 1 .. n \/ k = n + 1
    OBVIOUS
  <2>2. \A k \in 1 .. n : Fits(k)'
    OBVIOUS
  <2> QED BY <1>6, <1>7, <2>1, <2>2 DEF Disciplined
<1> QED BY <1>1, <1>3, <1>4, <1>8 DEF Unfailing
-----------------------------------------------------------------------------
(* The steps of a supported program.                                       *)

(* jvm_init: the main class is loaded first.                               *)
LEMMA InitUnfailing ==
  ASSUME IInv, Supported, Unfailing, jvm_init
  PROVE  Unfailing'
<1>1. /\ status = "run" /\ stack = << >> /\ class_list = << >>
      /\ IF HasDirectory THEN Begins(MAIN, << >>, open) ELSE Stops("failed")
  BY DEF jvm_init, Load
<1>2. MAIN \in Classes /\ ~Listed(MAIN)
  BY <1>1, NamesAssumption DEF Listed, Entries
<1>3. HasDirectory /\ ~Exhausted(open)
  BY <1>1, <1>2, Room DEF Unfailing
<1>4. << >> \in Seq(Activation) /\ Len(<< >>) = 0
  BY EmptySeq
<1> PICK below \in Seq(Activation) : below = << >>
  BY <1>4
<1>5. Len(below) = 0
  BY <1>4
<1>6. Begins(MAIN, below, open)
  BY <1>1, <1>3, Zenon
<1>7. /\ \A k \in 1 .. Len(below) :
           /\ Fits(k)'
           /\ below[k].does = "run" => EarlyListed
           /\ Initialises(below[k]) => ~Quiet
      /\ Len(below) > 0 => below[Len(below)].does # "parse"
  <2>1. (\A k \in 1 .. Len(below) : FALSE) /\ ~(Len(below) > 0)
    BY <1>5
  <2> QED BY <2>1
<1> QED BY <1>1, <1>2, <1>3, <1>6, <1>7, BeginsUnfailing

(* jvm_run: main is there, in a class that is complete.                    *)
LEMMA MainUnfailing ==
  ASSUME IInv, Supported, Unfailing, jvm_run
  PROVE  Unfailing'
<1>1. TypeOK /\ status = "run" /\ stack = << >> /\ class_list # << >> /\ class_list \in Seq(Entry)
  BY DEF jvm_run, IInv, TypeOK
<1>2. 1 \in DOMAIN class_list /\ class_list[1].name = MAIN
  BY <1>1 DEF Unfailing, Listing
<1>3. Listed(MAIN) /\ Loads = {} /\ Parsing = {}
  BY <1>1, <1>2 DEF Listed, Entries, Loads, Parsing
<1>4. EarlyListed
  BY <1>1, <1>3, SupersListed DEF Unfailing
<1>5. class_list[find_class(MAIN)].methods
  <2>1. find_class(MAIN) \in ClassEntries
    BY <1>1, <1>3, FirstEntry, NamesAssumption DEF Entries, ClassEntries
  <2> QED BY <1>3, <2>1 DEF IInv, Complete
<1>6. find_class_method(MAIN, "main") = "found"
  <2>1. find_class(MAIN) \in Entries(MAIN) /\ Declares(File(MAIN), "main") # {}
    BY <1>1, <1>3, FirstEntry, SupportedFacts
  <2> QED BY <1>3, <1>5, <2>1 DEF find_class_method
<1> PICK i : i = (CHOOSE k \in Declares(File(MAIN), "main") : TRUE)
  OBVIOUS
<1> DEFINE b == Runs(MAIN, i)
<1>7. stack' = << b >> /\ UNCHANGED <<path, class_list, cursor, open, status>>
  BY <1>6 DEF jvm_run
<1>8. b.does = "run" /\ ~b.loaded
  BY DEF Runs
<1> HIDE DEF b
<1>9. DOMAIN stack' = {1} /\ stack'[1] = b /\ Last(stack') = b
  BY <1>7 DEF Last
<1>10. EarlyListed'
  BY <1>1, <1>4, <1>7, ListedKept DEF Extended
<1>11. Fits(1)'
  BY <1>8, <1>9, <1>10 DEF Fits, Prepared
<1>12. (\A k \in DOMAIN stack : Fits(k))'
  BY <1>9, <1>11
<1>13. Parsing' \subseteq Parsing /\ ~Reads(Top)'
  BY <1>8, <1>9 DEF Parsing, Reads, Top
<1> QED BY <1>7, <1>12, <1>13, StillUnfailing

(* An instruction that completes.                                          *)
LEMMA CompletesUnfailing ==
  ASSUME IInv, Unfailing, Does("run"), Top.at <= Len(Method.body), Completes
  PROVE  Unfailing'
<1>1. /\ TypeOK /\ stack # << >> /\ Top \in Activation /\ Top.does = "run"
      /\ Top.at \in 1 .. Len(Method.body) + 1 /\ Len(Method.body) \in Nat /\ NameOf(Top) = Method.name
  BY RunFacts DEF IInv
<1> PICK n \in 1 .. Len(Method.body) + 1 : n = Top.at + 1
  BY <1>1
<1> DEFINE b == [Top EXCEPT !.at = n, !.loaded = FALSE]
<1>2. /\ b \in Activation /\ b.does = "run" /\ NameOf(b) = Method.name
  BY <1>1, TopRunMoved
<1>3. b.class = Top.class /\ b.loaded = FALSE
  <2> PICK a \in Activation : a = Top
    BY <1>1
  <2>1. a.does = "run"
    BY <1>1
  <2> QED BY <2>1 DEF Activation
<1>4. stack' = Append(Rest, b) /\ UNCHANGED <<path, class_list, cursor, open, status>>
  BY DEF Completes, Past
<1> HIDE DEF b
<1> PICK c \in Activation : c = b
  BY <1>2
<1>5. /\ stack' \in Seq(Activation) /\ Len(stack') = Len(stack) /\ stack'[Len(stack)] = c
      /\ \A k \in 1 .. Len(stack) - 1 : stack'[k] = stack[k]
  BY <1>1, <1>4, Replaced
<1>6. /\ Len(stack) \in Nat \ {0} /\ Top = stack[Len(stack)] /\ Extended
      /\ DOMAIN stack = 1 .. Len(stack) /\ DOMAIN stack' = 1 .. Len(stack)
  BY <1>1, <1>4, <1>5, TopFacts DEF TypeOK, Extended
<1>7. (\A k \in DOMAIN stack : Fits(k))'
  <2>1. Len(stack) <= Len(stack')
    BY <1>5, <1>6
  <2> QED BY <1>1, <1>2, <1>3, <1>5, <1>6, <2>1, TopFits DEF Unfailing
<1>8. Parsing' \subseteq Parsing
  <2>1. ASSUME NEW k \in Parsing' PROVE k \in Parsing
    <3>1. k \in 1 .. Len(stack) /\ stack'[k].does = "parse"
      BY <1>6 DEF Parsing
    <3>2. k # Len(stack)
      BY <1>2, <1>5, <3>1
    <3> QED BY <1>5, <1>6, <3>1, <3>2 DEF Parsing
  <2> QED BY <2>1
<1>9. stack' # << >> /\ ~Reads(Top)'
  <2>1. stack' # << >>
    BY <1>5, <1>6
  <2>2. Last(stack') = c
    BY <1>5, <2>1, StackFacts
  <2> QED BY <1>2, <2>1, <2>2 DEF Reads, Top
<1> QED BY <1>4, <1>7, <1>8, <1>9, StillUnfailing

(* An instruction that loads the class it names.                           *)
LEMMA RetriedUnfailing ==
  ASSUME IInv, Supported, Unfailing, Does("run"), Top.at <= Len(Method.body),
         Op.class \in Classes, ~Listed(Op.class), Begins(Op.class, Retried, open)
  PROVE  Unfailing'
<1>1. /\ TypeOK /\ status = "run" /\ stack # << >> /\ Top \in Activation /\ Top.does = "run"
      /\ Body(Top) = Method.body /\ Method = MethodsOf(Top)[Top.method]
  BY RunFacts DEF IInv
<1> PICK name \in Classes : name = Op.class
  OBVIOUS
<1> DEFINE b == [Top EXCEPT !.loaded = TRUE]
<1>2. /\ b \in Activation /\ b.does = "run" /\ b.class = Top.class /\ b.method = Top.method
      /\ b.at = Top.at
  <2> PICK a \in Activation : a = Top
    BY <1>1
  <2>1. a.does = "run"
    BY <1>1
  <2> QED BY <2>1 DEF Activation
<1>3. Retried = Append(Rest, b)
  BY DEF Retried
<1> HIDE DEF b
<1>4. NameOf(b) = NameOf(Top) /\ Body(b) = Body(Top) /\ Body(b)[b.at].class = name
  BY <1>1, <1>2 DEF NameOf, Body, MethodsOf, Op
<1> PICK c \in Activation : c = b
  BY <1>2
<1> PICK below : below = Retried
  OBVIOUS
<1>5. /\ below \in Seq(Activation) /\ Len(below) = Len(stack) /\ below[Len(stack)] = c
      /\ \A k \in 1 .. Len(stack) - 1 : below[k] = stack[k]
  BY <1>1, <1>2, <1>3, Replaced
<1>6. Len(stack) \in Nat \ {0} /\ Top = stack[Len(stack)] /\ DOMAIN stack = 1 .. Len(stack)
  BY <1>1, TopFacts
<1>7. ~Exhausted(open)
  BY <1>1, Room DEF Unfailing
<1>8. /\ Extended /\ Listed(name)'
      /\ stack' = Append(below, [does |-> "parse", class |-> name,
                                 id |-> Len(class_list) + 1, at |-> 1])
  BY <1>1, <1>5, <1>7, BeginsFacts
<1>9. /\ Len(stack) <= Len(stack') /\ stack'[Len(stack)] = c
      /\ \A k \in 1 .. Len(stack) - 1 : stack'[k] = stack[k]
  <2> PICK n \in Nat \ {0} : n = Len(stack)
    BY <1>6
  <2>1. Len(stack') = n + 1 /\ \A k \in 1 .. n : stack'[k] = below[k]
    BY <1>5, <1>8
  <2>2. n <= Len(stack') /\ n \in 1 .. n /\ \A k \in 1 .. n - 1 : k \in 1 .. n
    BY <2>1
  <2>3. stack'[n] = below[n] /\ \A k \in 1 .. n - 1 : stack'[k] = below[k]
    BY ONLY <2>1, <2>2
  <2> QED BY ONLY <1>5, <2>2, <2>3, n = Len(stack)
<1>10. Asked(c)'
  <2>1. Body(c)' = Body(c)
    BY <1>8, AboveKept DEF Extended
  <2>2. c.at <= Len(Body(c)) /\ Body(c)[c.at].class = name
    BY <1>1, <1>2, <1>4
  <2> QED BY <1>8, <2>1, <2>2 DEF Asked
<1>11. \A k \in 1 .. Len(stack) : Fits(k)'
  BY <1>1, <1>2, <1>4, <1>8, <1>9, <1>10, TopFits DEF Unfailing
<1>12. EarlyListed /\ (Initialises(Top) => ~Quiet)
  BY <1>1, RunningFacts DEF Unfailing
<1>13. ASSUME NEW k \in 1 .. Len(below)
       PROVE  Initialises(below[k]) => ~Quiet
  <2>1. CASE k = Len(stack)
    BY <1>1, <1>4, <1>5, <1>12, <2>1 DEF Initialises
  <2>2. CASE k # Len(stack)
    <3>1. k \in 1 .. Len(stack) - 1
      BY <1>5, <1>6, <2>2
    <3>2. Above(Top, stack[k])
      BY <1>1, <3>1, BelowTop DEF Unfailing
    <3> QED BY <1>5, <3>1, <3>2 DEF Above
  <2> QED BY <2>1, <2>2
<1>14. below[Len(below)].does # "parse" /\ class_list # << >>
  BY <1>1, <1>2, <1>5 DEF IInv, Nested
<1> QED BY <1>1, <1>5, <1>7, <1>11, <1>12, <1>13, <1>14, BeginsUnfailing
(* The instructions of a supported program name classes and no arrays.     *)
LEMMA NamesUnfailing ==
  ASSUME IInv, Supported, Unfailing,
         LoadClass \/ LoadPrimitive \/ LoadArray \/ HasClass \/ WithoutClass
  PROVE  Unfailing'
<1>1. /\ TypeOK /\ Does("run") /\ Top.at <= Len(Method.body) /\ Op.op \in NamesClass
      /\ Op \in Instruction
  <2>1. Executes(NamesClass)
    BY DEF LoadClass, LoadPrimitive, LoadArray, HasClass, WithoutClass, Obtains, Executes
  <2> QED BY <2>1, NamesFacts
<1>2. /\ Op.op # "instanceof" /\ Op.class \notin Primitives \cup Arrays
      /\ Op.class \in Classes \/ Op.op = "invokespecial"
  BY <1>1, SupportedOp
<1>3. Op.class \in Classes /\ Op.op # "multianewarray"
  <2>1. Op.op # "invokespecial"
    BY <1>1 DEF NamesClass
  <2>2. Op.op = "multianewarray" => Op.class \in Primitives \cup Arrays
    BY <1>1 DEF Instruction, Calls
  <2> QED BY <1>2, <2>1, <2>2
<1>4. CASE Completes
  BY <1>1, <1>4, CompletesUnfailing
<1>5. CASE LoadClass
  BY <1>1, <1>3, <1>5, RetriedUnfailing DEF LoadClass, Obtains, Lacks, Load
<1> QED BY <1>2, <1>3, <1>4, <1>5 DEF LoadPrimitive, LoadArray, HasClass, WithoutClass

(* In a supported program a class that is listed is one that a method is   *)
(* found in.                                                               *)
LEMMA ResolveFacts ==
  ASSUME IInv, Supported, Unfailing, Does("run"), Top.at <= Len(Method.body), Op.op \in Calls
  PROVE  find_class_method(Op.class, Op.method) = IF Listed(Op.class) THEN "found" ELSE "none"
<1>1. CASE ~Listed(Op.class)
  BY <1>1 DEF find_class_method
<1>2. CASE Listed(Op.class)
  <2>1. TypeOK /\ class_list \in Seq(Entry)
    BY DEF IInv, TypeOK
  <2>2. PICK j \in DOMAIN class_list : j = find_class(Op.class) /\ class_list[j].name = Op.class
    BY <1>2, <2>1, FirstEntry DEF Entries
  <2>3. class_list[j].methods /\ j \in Entries(Op.class)
    BY <2>2, CalledAttached DEF Unfailing, Entries
  <2>4. Op.class \in Classes
    BY <2>2 DEF Unfailing, Listing
  <2>5. Declares(File(Op.class), Op.method) # {}
    BY <2>1, <2>4, SupportedOp
  <2> QED BY <1>2, <2>2, <2>3, <2>5 DEF find_class_method
<1> QED BY <1>1, <1>2

(* A method is entered that is no initialiser, nor one of the main class   *)
(* while that is being parsed.                                             *)
LEMMA InvokeUnfailing ==
  ASSUME IInv, Supported, Unfailing, Invoke
  PROVE  Unfailing'
<1>1. /\ Does("run") /\ Top.at <= Len(Method.body) /\ Op.op \in Calls
      /\ find_class_method(Op.class, Op.method) = "found"
      /\ Op.op = "invokeinterface" => Listed(Op.of)
  BY DEF Invoke, Executes
<1>2. TypeOK /\ class_list \in Seq(Entry) /\ stack \in Seq(Activation)
  BY DEF IInv, TypeOK
<1>3. Op \in Instruction /\ status = "run" /\ stack # << >> /\ Top.does = "run"
  BY <1>1, <1>2, RunFacts
<1>4. /\ Op.class \in Classes \cup {OBJECT} /\ Op.of \in Classes \cup {OBJECT}
      /\ Op.method # "clinit"
  BY <1>1, <1>3 DEF Instruction, Calls
<1>5. Listed(Op.class) /\ Declares(File(Op.class), Op.method) # {}
  BY <1>1 DEF find_class_method
<1>6. Target \in Classes /\ File(Target) \in ClassFile
      /\ Declares(File(Target), Op.method) # {} /\ Target \in {Op.class, Op.of}
  BY <1>1, <1>2, <1>4, <1>5, FoundHasFile DEF Target
<1> PICK c, i : c = Target /\ i = (CHOOSE k \in Declares(File(Target), Op.method) : TRUE)
  OBVIOUS
<1>7. i \in DOMAIN File(c).methods /\ File(c).methods[i].name = Op.method
  BY <1>6 DEF Declares
<1>8. HasCode(File(c).methods[i])
  BY <1>2, <1>6, <1>7, SupportedFacts
<1>9. Op.op = "invokeinterface" => class_list[find_class(Op.of)].methods
  <2>1. SUFFICES ASSUME Listed(Op.of) PROVE class_list[find_class(Op.of)].methods
    BY <1>1
  <2>2. find_class(Op.of) \in DOMAIN class_list /\ class_list[find_class(Op.of)].name = Op.of
    BY <1>2, <2>1, FirstEntry DEF Entries
  <2> QED BY <1>1, <2>2, CalledAttached DEF Unfailing
<1> DEFINE b == Runs(c, i)
<1>10. stack' = Append(stack, b) /\ UNCHANGED <<path, class_list, cursor, open, status>>
  BY <1>8, <1>9 DEF Invoke
<1>11. /\ b \in Activation /\ b.does = "run" /\ b.class = c /\ b.method = i /\ b.loaded = FALSE
       /\ ~Initialises(b)
  <2>1. b \in Activation /\ b.does = "run" /\ b.class = c /\ b.method = i /\ b.loaded = FALSE
    BY <1>6, <1>7, MethodFacts DEF Runs, Activation
  <2> HIDE DEF b
  <2> QED BY <1>4, <1>7, <2>1 DEF Initialises, NameOf, MethodsOf
<1> HIDE DEF b
<1> PICK a \in Activation : a = b
  BY <1>11
<1> PICK n \in Nat \ {0} : n = Len(stack)
  BY <1>2, <1>3, TopFacts
<1>12. /\ Len(stack') = n + 1 /\ DOMAIN stack' = 1 .. n + 1 /\ stack'[n + 1] = a /\ stack' # << >>
       /\ Last(stack') = a /\ \A k \in 1 .. n : stack'[k] = stack[k]
       /\ DOMAIN stack = 1 .. n /\ Top = stack[n]
  <2>1. /\ stack' \in Seq(Activation) /\ Len(stack') = n + 1 /\ stack'[n + 1] = a
        /\ \A k \in 1 .. n : stack'[k] = stack[k]
    BY <1>2, <1>10
  <2>2. stack' # << >>
    BY <2>1
  <2>3. Last(stack') = a
    BY <2>1, <2>2, StackFacts
  <2>4. DOMAIN stack = 1 .. n /\ Top = stack[n]
    BY <1>2, <1>3, TopFacts
  <2>5. DOMAIN stack' = 1 .. n + 1
    BY <2>1
  <2> QED BY <2>1, <2>2, <2>3, <2>4, <2>5
<1>13. Extended
  BY <1>2, <1>10 DEF Extended
<1>14. EarlyListed /\ (Initialises(Top) => ~Quiet)
  BY <1>1, <1>2, RunningFacts DEF Unfailing
<1>15. ASSUME NEW j \in 1 .. n
       PROVE  Above(a, stack[j])
  <2>1. CASE j = n
    BY <1>3, <1>11, <1>12, <1>14, <2>1 DEF Above
  <2>2. CASE j # n
    <3>1. j \in 1 .. Len(stack) - 1
      BY <2>2
    <3>2. Above(Top, stack[j])
      BY <1>2, <1>3, <3>1, BelowTop DEF Unfailing
    <3>3. ~Quiet /\ (Initialises(Top) \/ Top.class # MAIN) => c # MAIN
      BY <1>1, <1>2, <1>6, SupportedOp
    <3> QED BY <1>3, <1>11, <3>2, <3>3 DEF Above
  <2> QED BY <2>1, <2>2
<1>16. Fits(n + 1)'
  <2>1. Prepared(stack[n + 1])'
    <3>1. EarlyListed'
      BY <1>2, <1>13, <1>14, ListedKept
    <3> QED BY <1>11, <1>12, <3>1 DEF Prepared
  <2>2. ASSUME NEW j \in 1 .. (n + 1) - 1
        PROVE  Above(stack[n + 1], stack[j])'
    <3> PICK x : x = stack[j]
      OBVIOUS
    <3>1. j \in 1 .. n
      OBVIOUS
    <3>2. Above(a, x)' /\ stack'[j] = x
      BY <1>10, <1>12, <1>15, <3>1, AboveKept
    <3> QED BY <1>12, <3>2
  <2>3. Upon(stack[n + 1], stack[(n + 1) - 1])'
    <3>1. stack'[(n + 1) - 1].does = "run"
      BY <1>3, <1>12
    <3> QED BY <3>1 DEF Upon
  <2> QED BY <2>1, <2>2, <2>3 DEF Fits
<1>17. (\A k \in DOMAIN stack : Fits(k))'
  <2>1. \A k \in 1 .. n : Fits(k)'
    BY <1>2, <1>12, <1>13, PrefixFits DEF Unfailing
  <2>2. \A k \in 1 .. n + 1 : k \in 1 .. n \/ k = n + 1
    OBVIOUS
  <2> QED BY <1>12, <1>16, <2>1, <2>2
<1>18. Parsing' \subseteq Parsing
  <2>1. ASSUME NEW k \in Parsing' PROVE k \in Parsing
    <3>1. k \in 1 .. n + 1 /\ stack'[k].does = "parse"
      BY <1>12 DEF Parsing
    <3>2. k \in 1 .. n
      BY <1>11, <1>12, <3>1
    <3> QED BY <1>12, <3>1, <3>2 DEF Parsing
  <2> QED BY <2>1
<1>19. ~Reads(Top)'
  BY <1>11, <1>12 DEF Reads, Top
<1> QED BY <1>10, <1>17, <1>18, <1>19, StillUnfailing

(* A call loads its class.                                                 *)
LEMMA InvokeLoadsUnfailing ==
  ASSUME IInv, Supported, Unfailing, InvokeLoads
  PROVE  Unfailing'
<1>1. /\ TypeOK /\ Does("run") /\ Top.at <= Len(Method.body) /\ Op.op \in Calls
      /\ find_class_method(Op.class, Op.method) = "none"
      /\ ~NotLooked /\ Begins(Op.class, Retried, open)
  BY DEF IInv, InvokeLoads, Unresolved, Executes, Load
<1>2. ~Listed(Op.class)
  BY <1>1, ResolveFacts
<1>3. Op.class \in Classes
  BY <1>1, SupportedOp DEF NotLooked
<1> QED BY <1>1, <1>2, <1>3, RetriedUnfailing

(* Only the constructor of Object is not found.                            *)
LEMMA InvokeNothingUnfailing ==
  ASSUME IInv, Supported, Unfailing, InvokeNothing
  PROVE  Unfailing'
<1>1. /\ TypeOK /\ Does("run") /\ Top.at <= Len(Method.body) /\ Op.op \in Calls
      /\ find_class_method(Op.class, Op.method) = "none"
      /\ Top.loaded \/ NotLooked \/ ~HasDirectory
  BY DEF IInv, InvokeNothing, Unresolved, Executes
<1>2. ~Listed(Op.class) /\ ~Top.loaded
  BY <1>1, ResolveFacts, RunningFacts DEF Unfailing
<1>3. Op.class = OBJECT /\ Op.op = "invokespecial"
  <2>1. SUFFICES ASSUME Op.class \in Classes PROVE FALSE
    BY <1>1, SupportedOp
  <2>2. ~NotLooked
    BY <2>1, NamesAssumption DEF NotLooked
  <2>3. Top.does = "run" /\ Top.at <= Len(Body(Top))
    BY <1>1, RunFacts
  <2>4. HasDirectory
    BY <1>2, <2>1, <2>3, Room DEF Unfailing
  <2> QED BY <1>1, <1>2, <2>2, <2>4
<1>4. Completes
  BY <1>2, <1>3 DEF InvokeNothing
<1> QED BY <1>1, <1>4, CompletesUnfailing
(* What ends leaves the activation it was inside of to go on.              *)
LEMMA PopsUnfailing ==
  ASSUME IInv, Unfailing, stack # << >>, Top.does # "parse", stack' = Rest,
         UNCHANGED <<path, class_list, cursor, open, status>>,
         Len(stack) > 1 => ~Reads(stack[Len(stack) - 1])
  PROVE  Unfailing'
<1>1. TypeOK /\ class_list \in Seq(Entry)
  BY DEF IInv, TypeOK
<1> PICK n \in Nat \ {0} : n = Len(stack)
  BY <1>1, TopFacts
<1>2. n - 1 \in Nat
  OBVIOUS
<1> PICK m \in Nat : m = n - 1
  BY <1>2
<1>3. /\ stack' \in Seq(Activation) /\ Len(stack') = m /\ DOMAIN stack' = 1 .. m
      /\ DOMAIN stack = 1 .. n /\ Top = stack[n]
      /\ \A k \in 1 .. m : stack'[k] = stack[k]
  BY <1>1, TopFacts
<1>4. Extended
  BY <1>1 DEF Extended
<1>5. (\A k \in DOMAIN stack : Fits(k))'
  <2>1. \A k \in 1 .. m : k \in DOMAIN stack /\ stack'[k] = stack[k]
    BY <1>3
  <2> QED BY <1>1, <1>3, <1>4, <2>1, PrefixFits DEF Unfailing
<1>6. Parsing' \subseteq Parsing
  <2>1. ASSUME NEW k \in Parsing' PROVE k \in Parsing
    <3>1. k \in 1 .. m /\ stack'[k].does = "parse"
      BY <1>3 DEF Parsing
    <3> QED BY <1>3, <3>1 DEF Parsing
  <2> QED BY <2>1
<1>7. ASSUME stack' # << >>
      PROVE  ~Reads(Top)'
  <2>1. Last(stack') = stack'[m] /\ m > 0
    <3>1. Len(stack') \in Nat \ {0} /\ Last(stack') = stack'[Len(stack')]
      BY <1>3, <1>7, StackFacts
    <3> QED BY <1>3, <3>1
  <2> PICK a : a = stack[m]
    OBVIOUS
  <2>2. stack'[m] = a /\ ~Reads(a)
    BY <1>3, <2>1
  <2>3. (Quiet' <=> Quiet) /\ MethodsOf(a)' = MethodsOf(a)
    BY SupportedKept, AboveKept
  <2>4. ~Reads(a)'
    BY <2>2, <2>3 DEF Reads
  <2> QED BY <2>1, <2>2, <2>4 DEF Reads, Top
<1> QED BY <1>5, <1>6, <1>7, StillUnfailing

(* What an activation is inside of where nothing may be inside of a parse  *)
(* but its initialiser.                                                    *)
LEMMA InsideTop ==
  ASSUME IInv, stack # << >>, Len(stack) > 1
  PROVE  Inside(Top, stack[Len(stack) - 1])
<1>1. TypeOK
  BY DEF IInv
<1> PICK n \in Nat \ {0} : n = Len(stack)
  BY <1>1, TopFacts
<1>2. Top = stack[n] /\ n - 1 \in 1 .. Len(stack) - 1 /\ (n - 1) + 1 = n
  BY <1>1, TopFacts
<1> QED BY <1>2 DEF IInv, Nested

(* Nothing that runs is under an initialiser: it returns to its parser.    *)
LEMMA ReturnUnfailing ==
  ASSUME IInv, Supported, Unfailing, Return
  PROVE  Unfailing'
<1>1. TypeOK /\ Does("run") /\ Top.at > Len(Method.body)
  BY DEF IInv, Return
<1>2. /\ status = "run" /\ stack # << >> /\ Top \in Activation /\ Top.does = "run"
      /\ NameOf(Top) = Method.name /\ Stands(Top)
  BY <1>1, RunFacts, TopFacts
<1> PICK n \in Nat \ {0} : n = Len(stack)
  BY <1>1, <1>2, TopFacts
<1>3. /\ stack \in Seq(Activation) /\ DOMAIN stack = 1 .. n /\ Top = stack[n]
      /\ Rest \in Seq(Activation) /\ Len(Rest) = n - 1
      /\ \A k \in 1 .. n - 1 : Rest[k] = stack[k]
  BY <1>1, <1>2, TopFacts
<1>4. HasCaller => n > 1 /\ \E k \in 1 .. n - 1 : stack[k].does = "run"
  <2>1. SUFFICES ASSUME \A k \in 1 .. n - 1 : stack[k].does # "run" PROVE ~HasCaller
    BY <1>3
  <2> DEFINE runs == {k \in DOMAIN stack : stack[k].does = "run"}
  <2>2. runs = {n}
    BY <1>2, <1>3, <2>1
  <2> HIDE DEF runs
  <2>3. Cardinality(runs) = 1
    <3>1. Cardinality({n}) = 1
      BY FS_Singleton
    <3> QED BY <2>2, <3>1
  <2> QED BY <2>3 DEF HasCaller, Depth, runs
<1>5. CASE Method.name = "clinit"
  <2>1. Initialises(Top)
    BY <1>2, <1>5 DEF Initialises
  <2>2. ~HasCaller
    <3>1. \A k \in 1 .. n - 1 : Above(Top, stack[k])
      BY <1>1, <1>2, BelowTop DEF Unfailing
    <3> QED BY <1>4, <2>1, <3>1 DEF Above
  <2>3. stack' = Rest /\ UNCHANGED <<path, class_list, cursor, open, status>>
    BY <1>5, <2>2 DEF Return
  <2>4. ASSUME Len(stack) > 1
        PROVE  ~Reads(stack[Len(stack) - 1])
    <3>1. Upon(Top, stack[Len(stack) - 1])
      BY <1>1, <1>2, <2>4, BelowTop DEF Unfailing
    <3>2. ~Quiet => Top.class = MAIN
      BY <1>1, <1>2, <2>1, InitialisesFacts
    <3> PICK a \in Activation : a = stack[Len(stack) - 1]
      BY <1>3, <2>4
    <3>3. a.does = "parse" => ~(a.at <= Len(MethodsOf(a)))
      <4>1. SUFFICES ASSUME a.does = "parse" PROVE ~(a.at <= Len(MethodsOf(a)))
        OBVIOUS
      <4>2. a.at > Len(MethodsOf(a)) /\ a.at \in Nat
        BY <3>1, <4>1, ActivationFacts DEF Upon
      <4>3. Len(MethodsOf(a)) \in Nat
        <5>1. a.class \in Classes
          BY ActivationFacts
        <5>2. File(a.class) \in ClassFile
          BY <1>1, <5>1, SupportedFacts
        <5> QED BY <5>2 DEF ClassFile, MethodsOf
      <4> QED BY <4>2, <4>3
    <3> QED BY <3>1, <3>2, <3>3 DEF Reads, Upon
  <2> QED BY <1>2, <2>3, <2>4, PopsUnfailing
<1>6. CASE Method.name # "clinit" /\ ~HasCaller
  <2>1. status' = "exit" /\ UNCHANGED <<path, stack, class_list, cursor, open>>
    BY <1>6 DEF Return, Stops
  <2> QED BY <2>1, ExitUnfailing
<1>7. CASE Method.name # "clinit" /\ HasCaller
  <2>1. /\ stack' = Append(Front(Rest), [Last(Rest) EXCEPT !.at = @ + 1, !.loaded = FALSE])
        /\ UNCHANGED <<path, class_list, cursor, open, status>>
    BY <1>7 DEF Return
  <2>2. n > 1
    BY <1>4, <1>7
  <2> PICK m \in Nat : m + 2 = n
    BY <2>2
  <2> PICK a \in Activation : a = stack[m + 1]
    BY <1>3
  <2>3. a.does = "run"
    <3>1. Inside(Top, a)
      <4>1. Len(stack) > 1 /\ Len(stack) - 1 = m + 1
        BY <2>2
      <4> QED BY <1>2, <4>1, InsideTop
    <3> QED BY <1>2, <1>7, <3>1 DEF Inside
  <2> PICK r \in Seq(Activation) : r = Rest
    BY <1>3
  <2>4. r # << >> /\ Last(r) = a /\ Len(r) = m + 1
    <3>1. Len(r) = m + 1 /\ r[m + 1] = a
      BY <1>3
    <3>2. r # << >>
      BY <3>1
    <3> QED BY <3>1, <3>2, StackFacts
  <2>5. Front(r) \in Seq(Activation) /\ Len(Front(r)) = m
        /\ \A k \in 1 .. m : Front(r)[k] = stack[k]
    <3>1. /\ Front(r) \in Seq(Activation) /\ Len(Front(r)) = Len(r) - 1
          /\ \A k \in 1 .. Len(r) - 1 : Front(r)[k] = r[k]
      BY <2>4, StackFacts
    <3>2. Len(r) - 1 = m
      BY <2>4
    <3>3. \A k \in 1 .. m : r[k] = stack[k]
      BY <1>3
    <3> QED BY <3>1, <3>2, <3>3
  <2> PICK x : x = a.at + 1
    OBVIOUS
  <2> DEFINE b == [a EXCEPT !.at = x, !.loaded = FALSE]
  <2>6. /\ b.does = "run" /\ b.class = a.class /\ b.method = a.method /\ b.loaded = FALSE
        /\ b \in Activation
    <3>1. x \in Nat
      BY ActivationFacts
    <3> QED BY <2>3, <3>1 DEF Activation
  <2>7. stack' = Append(Front(r), b)
    BY <2>1, <2>4
  <2> HIDE DEF b
  <2> PICK c \in Activation : c = b
    BY <2>6
  <2> PICK f \in Seq(Activation) : f = Front(r)
    BY <2>5
  <2>8. /\ stack' \in Seq(Activation) /\ Len(stack') = m + 1 /\ stack'[m + 1] = c
        /\ \A k \in 1 .. m : stack'[k] = stack[k]
        /\ DOMAIN stack' = 1 .. m + 1
    <3>1. stack' = Append(f, c)
      BY <2>7
    <3>2. Len(f) = m /\ \A k \in 1 .. m : f[k] = stack[k]
      BY <2>5
    <3> QED BY <3>1, <3>2
  <2>9. stack' # << >> /\ Last(stack') = c
    <3>1. stack' # << >>
      BY <2>8
    <3> QED BY <2>8, <3>1, StackFacts
  <2>10. Extended
    BY <1>1, <2>1 DEF Extended, TypeOK
  <2>11. class_list \in Seq(Entry)
    BY <1>1 DEF TypeOK
  <2>12. Fits(m + 1)'
    <3>1. m + 1 \in Nat /\ Fits(m + 1) /\ \A j \in 1 .. (m + 1) - 1 : stack'[j] = stack[j]
      BY <1>3, <2>8 DEF Unfailing, Disciplined
    <3>2. NameOf(c) = NameOf(a)
      BY <2>6 DEF NameOf, MethodsOf
    <3> PICK k \in Nat : k = m + 1
      BY <3>1
    <3>3. Fits(k) /\ (\A j \in 1 .. k - 1 : stack'[j] = stack[j]) /\ a = stack[k] /\ c = stack'[k]
      BY <2>8, <3>1
    <3>4. Fits(k)'
      BY <2>3, <2>6, <2>10, <2>11, <3>2, <3>3, FitsKept
    <3> QED BY <3>4
  <2>13. (\A k \in DOMAIN stack : Fits(k))'
    <3>1. \A k \in 1 .. m : k \in DOMAIN stack /\ stack'[k] = stack[k]
      BY <1>3, <2>8
    <3>2. \A k \in 1 .. m : Fits(k)'
      BY <2>10, <2>11, <3>1, PrefixFits DEF Unfailing
    <3>3. \A k \in 1 .. m + 1 : k \in 1 .. m \/ k = m + 1
      OBVIOUS
    <3> QED BY <2>8, <2>12, <3>2, <3>3
  <2>14. Parsing' \subseteq Parsing
    <3>1. ASSUME NEW k \in Parsing' PROVE k \in Parsing
      <4>1. k \in 1 .. m + 1 /\ stack'[k].does = "parse"
        BY <2>8 DEF Parsing
      <4>2. k \in 1 .. m
        BY <2>6, <2>8, <4>1
      <4> QED BY <1>3, <2>8, <4>1, <4>2 DEF Parsing
    <3> QED BY <3>1
  <2>15. ~Reads(Top)'
    BY <2>6, <2>9 DEF Reads, Top
  <2> QED BY <2>1, <2>13, <2>14, <2>15, StillUnfailing
<1> QED BY <1>5, <1>6, <1>7
-----------------------------------------------------------------------------
(* Parsing and linking.                                                    *)

(* A method of a supported file is parsed where the cursor is expected;    *)
(* only what is left behind the last is not.                               *)
LEMMA MethodParsedUnfailing ==
  ASSUME IInv, Supported, Unfailing, parse_class_method
  PROVE  Unfailing'
<1>1. /\ TypeOK /\ status = "run" /\ stack # << >> /\ Top.does = "parse"
      /\ Top.at <= Len(MethodsOf(Top)) /\ class_list \in Seq(Entry)
  BY DEF IInv, TypeOK, parse_class_method, Does
<1> PICK n \in Nat \ {0} : n = Len(stack)
  BY <1>1, TopFacts
<1>2. /\ stack \in Seq(Activation) /\ DOMAIN stack = 1 .. n /\ Top = stack[n]
      /\ Top \in Activation /\ Top.at \in Nat
  BY <1>1, TopFacts, ActivationFacts
<1>3. /\ Top.class \in Classes /\ File(Top.class) \in ClassFile
      /\ Top.at \in 1 .. Len(MethodsOf(Top)) + 1
  BY <1>1, LoadFacts
<1>4. Top.at \in DOMAIN MethodsOf(Top) /\ Len(MethodsOf(Top)) \in Nat
  BY <1>1, <1>3 DEF MethodsOf, ClassFile
<1>5. cursor = "aligned"
  BY <1>1 DEF Unfailing, AtHand, Reads
<1> DEFINE m == MethodsOf(Top)[Top.at]
<1>6. /\ MethodEnd(m) \in {"aligned", "shifted"}
      /\ Top.at + 1 <= Len(MethodsOf(Top)) \/ ~Quiet => MethodEnd(m) = "aligned"
  <2>1. Parses(File(Top.class)) /\ (~Quiet => Tidy(File(Top.class)))
    BY <1>1, <1>3, SupportedFacts
  <2>2. MethodEnd(m) \in (IF Top.at = Len(MethodsOf(Top)) THEN {"aligned", "shifted"} ELSE {"aligned"})
    BY <1>4, <2>1 DEF Parses, MethodsOf
  <2>3. ~Quiet => MethodEnd(m) = "aligned"
    BY <1>4, <2>1 DEF Tidy, MethodsOf
  <2>4. Top.at + 1 <= Len(MethodsOf(Top)) => Top.at # Len(MethodsOf(Top))
    BY <1>2, <1>4
  <2> QED BY <2>2, <2>3, <2>4
<1> PICK s \in Nat : s = Top.at + 1
  BY <1>2
<1> DEFINE a    == [Top EXCEPT !.at = s]
           next == Append(Rest, a)
           r    == Runs(Top.class, Top.at)
<1>7. /\ cursor' = MethodEnd(m) /\ status' = "run"
      /\ stack' = IF m.name = "clinit" THEN Append(next, r) ELSE next
      /\ UNCHANGED <<path, class_list, open>>
  BY <1>5, <1>6 DEF parse_class_method, ReadsTo
<1>8. /\ a \in Activation /\ a.does = "parse" /\ a.at = s /\ a.class = Top.class
  <2> PICK t \in Activation : t = Top
    BY <1>2
  <2> QED BY <1>1, Moved
<1>9. r \in Activation /\ r.does = "run" /\ r.class = Top.class /\ r.method = Top.at /\ r.loaded = FALSE
  BY <1>2, <1>3 DEF Runs, Activation
<1> PICK b \in Activation : b = a
  BY <1>8
<1> PICK c \in Activation : c = r
  BY <1>9
<1> HIDE DEF a, r
<1>10. /\ next \in Seq(Activation) /\ Len(next) = n /\ next[n] = b
       /\ \A k \in 1 .. n - 1 : next[k] = stack[k]
  BY <1>1, Replaced
<1> HIDE DEF next, m
<1>11. /\ stack' \in Seq(Activation) /\ n <= Len(stack') /\ stack'[n] = b
       /\ \A k \in 1 .. n - 1 : stack'[k] = stack[k]
       /\ \/ Len(stack') = n
          \/ Len(stack') = n + 1 /\ stack'[n + 1] = c /\ m.name = "clinit"
  <2> PICK x \in Seq(Activation) : x = next
    BY <1>10
  <2>1. CASE stack' = x
    BY <1>10, <2>1
  <2>2. CASE stack' = Append(x, c) /\ m.name = "clinit"
    BY <1>10, <2>2
  <2> QED BY <1>7, <2>1, <2>2
<1>12. Extended
  BY <1>1, <1>7 DEF Extended
<1>13. \A k \in 1 .. n : Fits(k)'
  BY <1>1, <1>8, <1>11, <1>12, TopFits DEF Unfailing
<1>14. ASSUME m.name = "clinit"
       PROVE  /\ Initialises(c) /\ Top.class \in Early /\ Top.at = Len(MethodsOf(Top))
              /\ ~Quiet => EarlyListed
  <2>1. /\ <<Top.class, Top.at>> \in Initialisers /\ Top.class \in Early
        /\ Top.at = Len(File(Top.class).methods)
    BY <1>1, <1>3, <1>4, <1>14, InitialiserFacts DEF MethodsOf, m
  <2>2. Initialises(c)
    BY <1>9, <1>14 DEF Initialises, NameOf, MethodsOf, m
  <2>3. ASSUME ~Quiet PROVE EarlyListed
    <3>1. class_list # << >> /\ 1 \in DOMAIN class_list
      BY <1>1 DEF IInv, Nested
    <3>2. Listed(MAIN)
      BY <3>1 DEF Unfailing, Listing, Listed, Entries
    <3> QED BY <2>3, <3>2 DEF EarlyListed, Early
  <2> QED BY <2>1, <2>2, <2>3 DEF MethodsOf
<1>15. ASSUME Len(stack') = n + 1, stack'[n + 1] = c, m.name = "clinit"
       PROVE  Fits(n + 1)'
  <2>1. Prepared(stack[n + 1])'
    <3>1. ~Quiet => EarlyListed'
      BY <1>1, <1>12, <1>14, <1>15, ListedKept
    <3>2. (Quiet' <=> Quiet) /\ (Initialises(c)' <=> Initialises(c))
      BY <1>7, SupportedKept, AboveKept
    <3> QED BY <1>9, <1>14, <1>15, <3>1, <3>2 DEF Prepared
  <2>2. ASSUME NEW j \in 1 .. (n + 1) - 1
        PROVE  Above(stack[n + 1], stack[j])'
    <3> PICK x : x = stack'[j]
      OBVIOUS
    <3>1. Above(c, x)
      <4>1. CASE j = n
        BY <1>8, <1>11, <1>14, <1>15, <4>1 DEF Above, Initialises
      <4>2. CASE j # n
        <5>1. j \in 1 .. Len(stack) - 1 /\ x = stack[j]
          BY <1>11, <4>2
        <5>2. Above(Top, stack[j])
          BY <1>1, <5>1, BelowTop DEF Unfailing
        <5>3. x.does # "run"
          BY <1>1, <1>14, <1>15, <5>1, <5>2 DEF Above
        <5> QED BY <1>14, <1>15, <5>3 DEF Above, Initialises
      <4> QED BY <4>1, <4>2
    <3>2. Above(c, x)'
      BY <1>7, <3>1, AboveKept
    <3> QED BY <1>15, <3>2
  <2>3. Upon(stack[n + 1], stack[(n + 1) - 1])'
    <3>1. Upon(c, b)
      <4>1. MethodsOf(b) = MethodsOf(Top)
        BY <1>8 DEF MethodsOf
      <4> QED BY <1>2, <1>8, <1>9, <1>14, <1>15, <4>1 DEF Upon
    <3>2. Upon(c, b)' /\ stack'[(n + 1) - 1] = b
      BY <1>7, <1>11, <3>1, AboveKept
    <3> QED BY <1>15, <3>2
  <2> QED BY <2>1, <2>2, <2>3 DEF Fits
<1>16. Disciplined'
  <2>1. \A k \in DOMAIN stack' : k \in 1 .. n \/ (k = n + 1 /\ Len(stack') = n + 1)
    BY <1>11
  <2>2. Len(stack') = n + 1 => Fits(n + 1)'
    BY <1>11, <1>15
  <2> QED BY <1>13, <2>1, <2>2 DEF Disciplined
<1>17. AtHand'
  <2>1. cursor' \in {"aligned", "shifted"}
    BY <1>6, <1>7 DEF m
  <2>2. ASSUME Reads(Top)' PROVE cursor' = "aligned"
    <3>1. stack' # << >>
      BY <1>11
    <3>2. Last(stack') = stack'[Len(stack')]
      BY <1>11, <3>1, StackFacts
    <3>3. Last(stack') = b
      BY <1>9, <1>11, <2>2, <3>2 DEF Reads, Top
    <3>4. Reads(b)'
      BY <2>2, <3>3 DEF Reads, Top
    <3>5. (Quiet' <=> Quiet) /\ MethodsOf(b)' = MethodsOf(b)
      BY <1>7, SupportedKept, AboveKept
    <3>6. MethodsOf(b) = MethodsOf(Top)
      BY <1>8 DEF MethodsOf
    <3>7. Top.at + 1 <= Len(MethodsOf(Top)) \/ ~Quiet
      BY <1>8, <3>4, <3>5, <3>6 DEF Reads
    <3> QED BY <1>6, <1>7, <3>7 DEF m
  <2> QED BY <2>1, <2>2 DEF AtHand
<1>18. Listing'
  BY <1>7 DEF Unfailing, Listing
<1> QED BY <1>7, <1>16, <1>17, <1>18 DEF Unfailing

(* What is read behind the methods leaves the cursor for the parse around. *)
LEMMA ClassParsedUnfailing ==
  ASSUME IInv, Supported, Unfailing, parse_class_attr
  PROVE  Unfailing'
<1>1. /\ TypeOK /\ status = "run" /\ stack # << >> /\ Top.does = "parse"
      /\ class_list \in Seq(Entry) /\ stack \in Seq(Activation)
  BY DEF IInv, TypeOK, parse_class_attr, Does
<1> PICK n \in Nat \ {0} : n = Len(stack)
  BY <1>1, TopFacts
<1>2. /\ stack \in Seq(Activation) /\ DOMAIN stack = 1 .. n /\ Top = stack[n]
      /\ Top \in Activation /\ Top.id \in Nat
  BY <1>1, TopFacts, ActivationFacts
<1>3. Top.id \in DOMAIN class_list /\ Top.class \in Classes
  BY <1>1, LoadFacts DEF ClassEntries
<1>4. cursor \in {"aligned", "shifted", "end"}
  <2>1. n \in Parsing
    BY <1>1, <1>2 DEF Parsing
  <2> QED BY <2>1 DEF Unfailing, AtHand
<1> PICK end : end = FileEnd(File(Top.class), ReadAll(File(Top.class).attrs, ClassAttributes))
  OBVIOUS
<1>5. /\ end \in {"shifted", "beyond", "end"}
      /\ ~Quiet => end # "beyond"
  <2>1. Parses(File(Top.class)) /\ (~Quiet => Tidy(File(Top.class)))
    BY <1>1, <1>3, SupportedFacts
  <2>2. ReadAll(File(Top.class).attrs, ClassAttributes) \in {"aligned", "shifted"}
    BY <2>1 DEF Parses, ReadAll
  <2> QED BY <2>1, <2>2 DEF FileEnd, Tidy
<1> DEFINE a == [does |-> "link", class |-> Top.class, id |-> Top.id, at |-> Top.id]
<1>6. a \in Activation /\ a.does = "link" /\ a.class = Top.class
  BY <1>2, <1>3 DEF Activation
<1>7. /\ stack' = Append(Rest, a) /\ class_list' = Attached(Top.id) /\ path' = path
      /\ status' = "run"
      /\ cursor' = CASE cursor = "aligned" -> end
                     [] cursor = "end"     -> "end"
                     [] cursor = "shifted" -> "junk"
  BY <1>4, <1>5 DEF parse_class_attr, ReadsTo
<1> HIDE DEF a
<1> PICK b \in Activation : b = a
  BY <1>6
<1>8. /\ stack' \in Seq(Activation) /\ Len(stack') = n /\ stack'[n] = b
      /\ \A k \in 1 .. n - 1 : stack'[k] = stack[k]
      /\ DOMAIN stack' = 1 .. n
  <2>1. /\ Append(Rest, b) \in Seq(Activation) /\ Len(Append(Rest, b)) = n
        /\ Append(Rest, b)[n] = b
        /\ \A k \in 1 .. n - 1 : Append(Rest, b)[k] = stack[k]
    BY <1>1, Replaced
  <2> QED BY <1>7, <2>1
<1>9. /\ class_list' \in Seq(Entry) /\ DOMAIN class_list' = DOMAIN class_list
      /\ Len(class_list') = Len(class_list)
      /\ \A i \in DOMAIN class_list : /\ class_list'[i].name = class_list[i].name
                                      /\ class_list[i].methods => class_list'[i].methods
  BY <1>1, <1>3, <1>7, ListAttached
<1>10. Extended
  BY <1>1, <1>7, <1>9 DEF Extended
<1>11. Disciplined'
  <2>1. \A k \in 1 .. Len(stack) : Fits(k)'
    BY <1>1, <1>6, <1>8, <1>10, TopFits DEF Unfailing
  <2> QED BY <1>8, <2>1 DEF Disciplined
<1>12. ASSUME NEW k \in Parsing'
       PROVE  cursor' \in {"shifted", "end"}
  <2>1. k \in 1 .. n /\ stack'[k].does = "parse"
    BY <1>8 DEF Parsing
  <2>2. k \in 1 .. n - 1
    BY <1>6, <1>8, <2>1
  <2>3. k \in Parsing /\ k < Len(stack) /\ k + 1 \in 1 .. n
    BY <1>2, <1>8, <2>1, <2>2 DEF Parsing
  <2>4. ~Quiet /\ Initialises(stack[k + 1])
    BY <1>1, <2>3, ParsingBelow DEF Unfailing
  <2>5. k + 1 \in 1 .. Len(stack) - 1
    <3>1. k + 1 # n
      BY <1>1, <1>2, <2>4 DEF Initialises
    <3> QED BY <2>3, <3>1
  <2>6. Above(Top, stack[k + 1])
    BY <1>1, <2>5, BelowTop DEF Unfailing
  <2>7. Top.class # MAIN
    BY <1>1, <2>4, <2>6 DEF Above, Initialises, Early
  <2>8. cursor = "aligned"
    BY <1>1, <2>4, <2>7 DEF Unfailing, AtHand, Reads
  <2> QED BY <1>5, <1>7, <2>4, <2>8
<1>13. AtHand'
  <2>1. stack' # << >>
    BY <1>8
  <2>2. Last(stack') = b
    BY <1>8, <2>1, StackFacts
  <2>3. ~Reads(Top)'
    BY <1>6, <2>2 DEF Reads, Top
  <2> QED BY <1>12, <2>3 DEF AtHand
<1>14. Listing'
  BY <1>1, <1>9, ListingKept DEF Unfailing
<1> QED BY <1>7, <1>11, <1>13, <1>14 DEF Unfailing

(* The files do not change.                                                *)
LEMMA PathKept ==
  ASSUME [Next]_vars
  PROVE  path' = path
<1>1. ASSUME NEW how, Stops(how) PROVE path' = path
  BY <1>1 DEF Stops
<1>2. ASSUME NEW name, NEW below, NEW held, Begins(name, below, held) PROVE path' = path
  BY <1>1, <1>2 DEF Begins
<1>3. CASE jvm_init \/ jvm_run
  BY <1>1, <1>2, <1>3 DEF jvm_init, jvm_run, Load
<1>4. CASE parse_class_method \/ ExceptionTableFails \/ parse_class_attr
  BY <1>1, <1>4 DEF parse_class_method, ExceptionTableFails, parse_class_attr
<1>5. CASE LinkSuper \/ LinkEnd
  BY <1>1, <1>2, <1>5 DEF LinkSuper, LinkEnd, Load
<1>6. CASE \/ LoadClass \/ LoadPrimitive \/ LoadArray
           \/ HasClass \/ WithoutClass \/ NewFails \/ UNCHANGED vars
  BY <1>1, <1>2, <1>6 DEF LoadClass, LoadPrimitive, LoadArray, HasClass, WithoutClass, NewFails,
                          Completes, Load, vars
<1>7. CASE Invoke \/ InvokeUninitialised \/ InvokeLoads \/ InvokeNothing \/ Return
  BY <1>1, <1>2, <1>7 DEF Invoke, InvokeUninitialised, InvokeLoads, InvokeNothing, Return, Completes,
                          Load
<1> QED BY <1>3, <1>4, <1>5, <1>6, <1>7 DEF Next

(* Linking ends, or comes to a class that is listed, or loads it.          *)
LEMMA LinkUnfailing ==
  ASSUME IInv, Supported, Unfailing, LinkSuper \/ LinkEnd
  PROVE  Unfailing'
<1>1. /\ TypeOK /\ status = "run" /\ stack # << >> /\ Top.does = "link" /\ Does("link")
      /\ class_list \in Seq(Entry) /\ stack \in Seq(Activation)
  BY DEF IInv, TypeOK, LinkSuper, LinkEnd, Does
<1> PICK n \in Nat \ {0} : n = Len(stack)
  BY <1>1, TopFacts
<1>2. DOMAIN stack = 1 .. n /\ Top = stack[n] /\ Top \in Activation
  BY <1>1, TopFacts
<1>3. CASE LinkEnd
  <2>1. stack' = Rest /\ UNCHANGED <<path, class_list, cursor, open, status>>
    BY <1>3 DEF LinkEnd
  <2>2. ASSUME Len(stack) > 1
        PROVE  ~Reads(stack[Len(stack) - 1])
    BY <1>1, <2>2, InsideTop DEF Inside, Reads
  <2> QED BY <1>1, <2>1, <2>2, PopsUnfailing
<1> PICK name : name = SuperName
  OBVIOUS
<1>4. Top.at \in DOMAIN class_list /\ (name # OBJECT => name \in Classes)
  <2>1. Top.at \in DOMAIN class_list
    BY <1>1, LoadFacts
  <2>2. class_list[Top.at].name \in Classes
    BY <2>1 DEF Unfailing, Listing
  <2> QED BY <1>1, <2>1, <2>2, SupportedFacts DEF SuperName
<1>5. CASE LinkSuper /\ Listed(name)
  <2> PICK f : f = find_class(name)
    OBVIOUS
  <2>1. f \in DOMAIN class_list /\ f \in Nat
    BY <1>1, <1>5, FirstEntry DEF Entries
  <2> DEFINE a == [Top EXCEPT !.at = f]
  <2>2. /\ class_list' = [class_list EXCEPT ![Top.at].super = f]
        /\ stack' = Append(Rest, a) /\ UNCHANGED <<path, cursor, open, status>>
    BY <1>5 DEF LinkSuper, Linking
  <2>3. a \in Activation /\ a.does = "link" /\ a.class = Top.class
    <3> PICK t \in Activation : t = Top
      BY <1>2
    <3> QED BY <1>1, <2>1, Moved
  <2> HIDE DEF a
  <2> PICK b \in Activation : b = a
    BY <2>3
  <2>4. /\ stack' \in Seq(Activation) /\ Len(stack') = n /\ stack'[n] = b
        /\ \A k \in 1 .. n - 1 : stack'[k] = stack[k]
        /\ DOMAIN stack' = 1 .. n
    <3>1. /\ Append(Rest, b) \in Seq(Activation) /\ Len(Append(Rest, b)) = n
          /\ Append(Rest, b)[n] = b
          /\ \A k \in 1 .. n - 1 : Append(Rest, b)[k] = stack[k]
      BY <1>1, Replaced
    <3> QED BY <2>2, <3>1
  <2> PICK at \in DOMAIN class_list : at = Top.at
    BY <1>4
  <2>5. /\ class_list' \in Seq(Entry) /\ DOMAIN class_list' = DOMAIN class_list
        /\ Len(class_list') = Len(class_list)
        /\ \A i \in DOMAIN class_list : /\ class_list'[i].name = class_list[i].name
                                        /\ class_list'[i].methods = class_list[i].methods
    BY <1>1, <2>1, <2>2, ListLinked
  <2>6. Extended
    BY <1>1, <2>2, <2>5 DEF Extended
  <2>7. Disciplined'
    <3>1. \A k \in 1 .. Len(stack) : Fits(k)'
      BY <1>1, <2>3, <2>4, <2>6, TopFits DEF Unfailing
    <3> QED BY <2>4, <3>1 DEF Disciplined
  <2>8. AtHand'
    <3>1. ASSUME NEW k \in Parsing' PROVE k \in Parsing
      <4>1. k \in 1 .. n /\ stack'[k].does = "parse"
        BY <2>4 DEF Parsing
      <4>2. k \in 1 .. n - 1
        BY <2>3, <2>4, <4>1
      <4> QED BY <1>2, <2>4, <4>1, <4>2 DEF Parsing
    <3>2. stack' # << >>
      BY <2>4
    <3>3. Last(stack') = b
      BY <2>4, <3>2, StackFacts
    <3>4. ~Reads(Top)'
      BY <2>3, <3>3 DEF Reads, Top
    <3> QED BY <2>2, <3>1, <3>4 DEF Unfailing, AtHand
  <2>9. Listing'
    BY <1>1, <2>5, ListingKept DEF Unfailing
  <2> QED BY <2>2, <2>7, <2>8, <2>9 DEF Unfailing
<1>6. CASE LinkSuper /\ ~Listed(name)
  <2>1. name \in Classes
    BY <1>4, <1>6 DEF LinkSuper
  <2>2. HasDirectory /\ ~Exhausted(open)
    BY <1>1, <1>6, <2>1, Room DEF Unfailing
  <2> PICK below \in Seq(Activation) : below = stack
    BY <1>1
  <2>3. Begins(name, below, open)
    BY <1>6, <2>2 DEF LinkSuper, Load
  <2>4. /\ Extended
        /\ stack' = Append(below, [does |-> "parse", class |-> name,
                                   id |-> Len(class_list) + 1, at |-> 1])
    BY <1>1, <2>1, <2>2, <2>3, BeginsFacts
  <2>5. \A k \in 1 .. n : Fits(k)'
    <3>1. \A k \in 1 .. n : k \in DOMAIN stack /\ stack'[k] = stack[k]
      BY <1>2, <2>4
    <3> QED BY <1>1, <2>4, <3>1, PrefixFits DEF Unfailing
  <2>6. ASSUME NEW k \in 1 .. n
        PROVE  /\ stack[k].does = "run" => EarlyListed
               /\ Initialises(stack[k]) => ~Quiet
    <3>1. CASE k = n
      BY <1>1, <1>2, <3>1 DEF Initialises
    <3>2. CASE k # n
      <4>1. k \in 1 .. Len(stack) - 1 /\ k \in DOMAIN stack
        BY <1>2, <3>2
      <4>2. Above(Top, stack[k])
        BY <1>1, <4>1, BelowTop DEF Unfailing
      <4>3. Prepared(stack[k])
        BY <4>1 DEF Unfailing, Disciplined, Fits
      <4> QED BY <4>2, <4>3 DEF Above, Prepared
    <3> QED BY <3>1, <3>2
  <2>7. class_list # << >> /\ below[Len(below)].does # "parse" /\ Len(below) = n
    BY <1>1, <1>2 DEF IInv, Nested
  <2> QED BY <1>1, <1>6, <2>1, <2>2, <2>3, <2>5, <2>6, <2>7, BeginsUnfailing
<1> QED BY <1>3, <1>5, <1>6

(* Every action of a supported program keeps it going.                     *)
LEMMA NextUnfailing ==
  ASSUME IInv, Supported, Unfailing, [Next]_vars
  PROVE  Unfailing'
<1>1. TypeOK
  BY DEF IInv
<1>2. CASE jvm_init \/ jvm_run
  BY <1>2, InitUnfailing, MainUnfailing
<1>3. CASE parse_class_method
  BY <1>3, MethodParsedUnfailing
<1>4. CASE ExceptionTableFails
  <2>1. /\ stack # << >> /\ Top.does = "parse" /\ Top.at <= Len(MethodsOf(Top))
        /\ MethodsOf(Top)[Top.at].handlers
    BY <1>4 DEF ExceptionTableFails, Does
  <2>2. /\ Top.class \in Classes /\ File(Top.class) \in ClassFile
        /\ Top.at \in 1 .. Len(MethodsOf(Top)) + 1
    BY <1>1, <2>1, LoadFacts
  <2>3. Top.at \in DOMAIN File(Top.class).methods
    BY <2>1, <2>2 DEF MethodsOf, ClassFile
  <2>4. Parses(File(Top.class))
    BY <1>1, <2>2, SupportedFacts
  <2> QED BY <2>1, <2>3, <2>4 DEF Parses, MethodsOf
<1>5. CASE parse_class_attr
  BY <1>5, ClassParsedUnfailing
<1>6. CASE LinkSuper \/ LinkEnd
  BY <1>6, LinkUnfailing
<1>7. CASE LoadClass \/ LoadPrimitive \/ LoadArray \/ HasClass \/ WithoutClass
  BY <1>7, NamesUnfailing
<1>8. CASE NewFails \/ UNCHANGED vars
  <2>1. UNCHANGED <<path, stack, class_list, cursor, status>>
    BY <1>8 DEF NewFails, vars
  <2>2. class_list \in Seq(Entry) /\ stack \in Seq(Activation) /\ Extended
    <3>1. class_list \in Seq(Entry) /\ stack \in Seq(Activation)
      BY <1>1 DEF TypeOK
    <3> QED BY <2>1, <3>1 DEF Extended
  <2>3. Disciplined'
    <3>1. \A k \in 1 .. Len(stack) : k \in DOMAIN stack /\ stack'[k] = stack[k]
      BY <2>1, <2>2
    <3> PICK n \in Nat : n = Len(stack)
      BY <2>2
    <3>2. \A k \in 1 .. n : Fits(k)'
      BY <1>1, <2>2, <3>1, PrefixFits DEF Unfailing
    <3>3. DOMAIN stack' = 1 .. n
      BY <2>1, <2>2
    <3> QED BY <3>2, <3>3 DEF Disciplined
  <2>4. Parsing' = Parsing /\ Top' = Top
    BY <2>1 DEF Parsing, Top
  <2>5. (Quiet' <=> Quiet) /\ MethodsOf(Top)' = MethodsOf(Top)
    BY <2>1, <2>4, SupportedKept DEF MethodsOf, File
  <2>6. Reads(Top)' <=> Reads(Top)
    BY <2>4, <2>5 DEF Reads
  <2>7. AtHand'
    BY <1>1, <2>1, <2>4, <2>6 DEF Unfailing, AtHand
  <2>8. Listing'
    BY <1>1, <2>1 DEF Unfailing, Listing
  <2> QED BY <1>1, <2>1, <2>3, <2>7, <2>8 DEF Unfailing
<1>9. CASE Invoke
  BY <1>9, InvokeUnfailing
<1>10. CASE InvokeUninitialised
  <2>1. /\ Does("run") /\ Top.at <= Len(Method.body) /\ Op.op \in Calls
        /\ find_class_method(Op.class, Op.method) = "wild"
    BY <1>10 DEF InvokeUninitialised, Executes
  <2> QED BY <2>1, ResolveFacts
<1>11. CASE InvokeLoads
  BY <1>11, InvokeLoadsUnfailing
<1>12. CASE InvokeNothing
  BY <1>12, InvokeNothingUnfailing
<1>13. CASE Return
  BY <1>13, ReturnUnfailing
<1> QED BY <1>2, <1>3, <1>4, <1>5, <1>6, <1>7, <1>8, <1>9, <1>10, <1>11, <1>12, <1>13 DEF Next

(* A supported program runs to its end: initialisers, which share the      *)
(* cursor and the class list with the loads around them, take neither a    *)
(* descriptor nor a position nor a class from them.                        *)
THEOREM SupportedNeverFail == Spec => []SupportedRuns
<1> DEFINE SInv == IInv /\ (Supported => Unfailing)
<1>1. Init => SInv
  <2>1. SUFFICES ASSUME Init PROVE SInv
    OBVIOUS
  <2>2. IInv
    BY <2>1, InitInv
  <2>3. stack = << >> /\ class_list = << >> /\ status = "run"
    BY <2>1 DEF Init
  <2>4. Parsing = {}
    BY <2>3 DEF Parsing
  <2>5. Unfailing
    BY <2>3, <2>4 DEF Unfailing, Listing, Disciplined, AtHand
  <2> QED BY <2>2, <2>5
<1>2. SInv /\ [Next]_vars => SInv'
  <2>1. SUFFICES ASSUME SInv, [Next]_vars PROVE SInv'
    OBVIOUS
  <2>2. IInv'
    BY <2>1, NextInv
  <2>3. path' = path
    BY <2>1, PathKept
  <2>4. Supported' => Supported
    BY <2>3, SupportedKept
  <2>5. Supported => Unfailing'
    BY <2>1, NextUnfailing
  <2> QED BY <2>2, <2>4, <2>5
<1>3. SInv => SupportedRuns
  BY DEF SupportedRuns, Unfailing
<1> QED BY <1>1, <1>2, <1>3, PTL DEF Spec
=============================================================================
