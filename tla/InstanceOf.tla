----------------------------- MODULE InstanceOf -----------------------------
(***************************************************************************)
(* The instanceof instruction (interpreter.c) and the linking of super-    *)
(* classes it walks over (jvm_load_class).                                 *)
(*                                                                         *)
(* Types are numbers, and a type extends and implements only types with    *)
(* smaller numbers: a Java compiler accepts no cycle.  A CLASS record is a *)
(* name and its dimensions.  An array's header is the CLASS its object     *)
(* carries: multianewarray gives it the class of the array, anewarray the  *)
(* class of the component, and newarray a class it names itself, which is  *)
(* not that of the array for boolean, byte, short and long.                *)
(***************************************************************************)
EXTENDS Integers, FiniteSets, SequencesExt

CONSTANTS N,           \* types in the class path
          Primitives,  \* primitive types of the language, above N
          Known,       \* elements load_primitive_class makes array classes of
          newarray_class,  \* the element of the class newarray gives an array
          MaxDims,     \* bound: dimensions of a class
          MaxDirect    \* bound: interfaces a class file names

ASSUME SizeAssumption == N \in Nat \ {0} /\ MaxDims \in Nat \ {0} /\ MaxDirect \in Nat
ASSUME PrimitiveAssumption == /\ Primitives \cup Known \subseteq Nat \ 0 .. N
                              /\ newarray_class \in [Primitives -> Known]

OBJECT == 0        \* java/lang/Object, which has no file in the class path
NULL   == 0        \* a super pointer
Types  == 1 .. N
None   == << >>    \* no instanceof executed yet

VARIABLES
  files,   \* the class files: what each type is, extends and implements
  super,   \* the super pointer of the classes that are loaded
  asked,   \* the last question: an object and a class
  answer   \* "yes", "no", or "dead" when the process dereferenced null

vars == <<files, super, asked, answer>>

Numbers == Primitives \cup Known
Class   == [name : 0 .. N \cup Numbers, dims : 0 .. MaxDims]
Loaded  == DOMAIN super
IsInterface(n) == files[n].interface

(* What a class file may say after those of the types below it.            *)
Compiled(below) ==
  LET ifs == {i \in DOMAIN below : below[i].interface}
      direct == {w \in BoundedSeq(ifs, MaxDirect) : IsInjective(w)}
  IN [interface : {TRUE}, super : {OBJECT}, interfaces : direct]
     \cup [interface : {FALSE}, super : {OBJECT} \cup (DOMAIN below \ ifs), interfaces : direct]

ClassPaths ==
  LET path[n \in 0 .. N] ==
        IF n = 0 THEN {<< >>}
        ELSE UNION {{Append(below, f) : f \in Compiled(below)} : below \in path[n - 1]}
  IN path[N]

-----------------------------------------------------------------------------
(* What Java means.                                                        *)

(* All supertypes of a class or interface, itself included.                *)
Supertypes ==
  LET above[n \in 0 .. N] ==
        IF n = OBJECT THEN {OBJECT}
        ELSE {n} \cup above[files[n].super]
                 \cup UNION {above[files[n].interfaces[i]] : i \in DOMAIN files[n].interfaces}
  IN above

(* JLS 4.10.  An array of s with more dimensions than t is an array of     *)
(* arrays, and those are Objects.                                          *)
Subtype(s, t) ==
  \/ s = t
  \/ s.name \in Types /\ s.dims = t.dims /\ t.name \in Supertypes[s.name]
  \/ t.name = OBJECT /\ (s.dims > t.dims \/ (s.dims = t.dims /\ s.name <= N))

-----------------------------------------------------------------------------
(* Loading.                                                                *)

(* The superclasses that have a file: the loop of jvm_load_class.          *)
Chain(n) ==
  LET up[m \in 0 .. N] == IF m = OBJECT THEN {} ELSE {m} \cup up[files[m].super]
  IN up[n]

(* The types in ns whose class is still to be loaded.                      *)
Missing(known, ns) == ns \ (DOMAIN known \cup Numbers)
AllOf(known, ns)   == DOMAIN known \cup UNION {Chain(n) : n \in Missing(known, ns)}

(* Faulty: only the class itself is linked, and its superclass stays       *)
(* without one; a super pointer is off by one.                             *)
LinkedOnce(known, ns) ==
  [m \in AllOf(known, ns) |-> IF m \in DOMAIN known THEN known[m]
                              ELSE IF m \in Missing(known, ns) THEN files[m].super ELSE NULL]
LinkedToNext(known, ns) == [m \in AllOf(known, ns) |-> files[m].super + 1]

(* find_class or jvm_load_class of each type in ns: every class of the     *)
(* chain is linked.                                                        *)
Linked(known, ns) ==
  [m \in AllOf(known, ns) |-> IF m \in DOMAIN known THEN known[m] ELSE files[m].super]

-----------------------------------------------------------------------------
(* The test.                                                               *)

(* interface_instanceof: it returns in the first turn of its loop, so it   *)
(* follows the first interface of each type only.  A type without          *)
(* interfaces leaves its interfaces_count, 0, as the result.               *)
FirstInterfaces(n) ==
  LET first[m \in Types] ==
        IF files[m].interfaces = << >> THEN {}
        ELSE {files[m].interfaces[1]} \cup first[files[m].interfaces[1]]
  IN first[n]
InterfaceInstanceof(n, t) == t \in FirstInterfaces(n)

(* The classes met on the super pointers of the classes in known.          *)
Supers(known, n) ==
  LET up[m \in {NULL} \cup DOMAIN known] ==
        IF m = NULL THEN {} ELSE {m} \cup up[known[m]]
  IN up[n]

(* Both CLASS records are the same memory: those of reference arrays are   *)
(* made anew each time they are asked for.                                 *)
Same(c, t) == c = t /\ (t.dims = 0 \/ t.name \in Numbers)

(* Faulty: classes are compared by name, whatever their dimensions; the    *)
(* interfaces of superclasses are forgotten.                               *)
PlainByName(known, c, t) ==
  \/ t.name \in Supers(known, c.name)
  \/ \E s \in Supers(known, c.name) : InterfaceInstanceof(s, t.name)
PlainOwnInterfaces(known, c, t) ==
  t.dims = 0 /\ IF IsInterface(t.name) THEN InterfaceInstanceof(c.name, t.name)
                ELSE t.name \in Supers(known, c.name)

PlainInstanceof(known, c, t) ==
  /\ t.dims = 0
  /\ IF IsInterface(t.name)
     THEN \E s \in Supers(known, c.name) : InterfaceInstanceof(s, t.name)
     ELSE t.name \in Supers(known, c.name)

(* The array branch, which is always taken: cl->isArray = 1 assigns.       *)
SamePrimitive(c, t) == c.name = t.name /\ c.name \in Numbers
Comparable(c, t) == c.dims = t.dims \/ (c.dims = 0 /\ t.dims = 1)

(* Faulty: an array's element is not asked for its interfaces.             *)
ElementByClass(known, c, t) == t.name \in Supers(known, c.name)

ElementInstanceof(known, c, t) ==
  \/ t.name \in Supers(known, c.name)
  \/ \E s \in Supers(known, c.name) : InterfaceInstanceof(s, t.name)

(* The names whose file does not exist when they are asked for as classes: *)
(* jvm_load_class writes through the NULL it gets.  An array of a          *)
(* primitive that load_primitive_class does not know is loaded as a copy   *)
(* of its element, which has none.                                         *)
NoFile(name)  == name \notin Types
Unknown(name) == name = OBJECT \/ name \in Primitives \ Known

Outcome(known, o, t) ==
  LET c == o.class IN
    IF Unknown(t.name) THEN "dead"
    ELSE IF Same(c, t) THEN "yes"
    ELSE IF ~o.isArray THEN IF PlainInstanceof(known, c, t) THEN "yes" ELSE "no"
    ELSE IF SamePrimitive(c, t) \/ ~Comparable(c, t) THEN "no"
    ELSE IF NoFile(c.name) \/ NoFile(t.name) THEN "dead"
    ELSE IF ElementInstanceof(known, c, t) THEN "yes" ELSE "no"

(* The interfaces the test looks up, and so loads, until it finds t.       *)
LookedUp(known, c, t) ==
  LET walk == Supers(known, c.name)
      hit == {s \in walk : InterfaceInstanceof(s, t.name)}
      walked == {s \in walk : \A h \in hit : s >= h}
  IN UNION {{i \in FirstInterfaces(s) : s \in hit => i >= t.name} : s \in walked}

TestsInterfaces(known, o, t) ==
  /\ Outcome(known, o, t) # "dead" /\ ~Same(o.class, t)
  /\ IF o.isArray
     THEN /\ ~SamePrimitive(o.class, t) /\ Comparable(o.class, t)
          /\ t.name \notin Supers(known, o.class.name)
     ELSE t.dims = 0 /\ IsInterface(t.name)

-----------------------------------------------------------------------------
(* The classes the array instructions live to give an array, and those     *)
(* the source of a program may name.                                       *)
Headers == {c \in Class : \/ c.name \in Types
                          \/ c.name \in Primitives \cap Known /\ c.dims > 0}
Asked   == {c \in Class : \/ c.name \in 0 .. N
                          \/ c.name \in Primitives /\ c.dims > 0}

(* An object is the class its header carries, and the type it has.         *)
Plain == {[class |-> [name |-> n, dims |-> 0], isArray |-> FALSE,
           type |-> [name |-> n, dims |-> 0]] : n \in {m \in Types : ~IsInterface(m)}}
NewArrays == {[class |-> [name |-> newarray_class[p], dims |-> 1], isArray |-> TRUE,
               type |-> [name |-> p, dims |-> 1]] : p \in Primitives}
ANewArrays == {[class |-> c, isArray |-> TRUE, type |-> [c EXCEPT !.dims = @ + 1]] :
                 c \in {e \in Headers : e.dims < MaxDims}}
MultiArrays == {[class |-> c, isArray |-> TRUE, type |-> c] : c \in {e \in Headers : e.dims > 1}}
Objects == Plain \cup NewArrays \cup ANewArrays \cup MultiArrays

Init ==
  /\ files \in ClassPaths
  /\ super = << >> /\ asked = None /\ answer = "no"

(* new and the array instructions load what they make objects of.          *)
Make(n) ==
  /\ answer # "dead" /\ n \notin Loaded
  /\ super' = Linked(super, {n})
  /\ UNCHANGED <<files, asked, answer>>

Instanceof(o, t) ==
  /\ answer # "dead" /\ o.class.name \in Loaded \cup Numbers
  /\ LET known == IF Unknown(t.name) THEN super ELSE Linked(super, {t.name}) IN
       /\ answer' = Outcome(known, o, t)
       /\ super' = IF TestsInterfaces(known, o, t)
                   THEN Linked(known, LookedUp(known, o.class, t))
                   ELSE known
  /\ asked' = <<o, t>>
  /\ UNCHANGED files

Next == \/ \E n \in Types : Make(n)
        \/ \E o \in Objects, t \in Asked : Instanceof(o, t)

Spec == Init /\ [][Next]_vars

-----------------------------------------------------------------------------
(* Properties.                                                             *)

TypeOK ==
  /\ files \in ClassPaths
  /\ Loaded \subseteq Types /\ \A n \in Loaded : super[n] \in 0 .. n - 1
  /\ asked = None \/ asked \in Objects \X Asked
  /\ answer \in {"yes", "no", "dead"}

Answered == asked # None /\ answer # "dead"
Question == asked[1].type
Target   == asked[2]
Yes == answer = "yes"
IsSubtype == Subtype(Question, Target)

(* An object that is no array is an instance of a type only if Java says   *)
(* so.                                                                     *)
PlainSound == Answered /\ ~asked[1].isArray /\ Yes => IsSubtype

(* If no type names two interfaces, the answer about an object is Java's   *)
(* whatever was loaded before, and in whatever order.                      *)
SingleInterfaces == \A n \in Types : Len(files[n].interfaces) <= 1
PlainComplete == Answered /\ ~asked[1].isArray /\ SingleInterfaces => (Yes <=> IsSubtype)

(* The type an array's header stands for.  It is not the array's where     *)
(* newarray names another class, or anewarray's component is an array.     *)
Apparent(o) == [o.class EXCEPT !.dims = IF @ = 0 THEN 1 ELSE @]

(* And about every array asked about an array type the answer is Java's    *)
(* for the type its header stands for: where Java would answer otherwise,  *)
(* the header is what is wrong.                                            *)
ArrayByHeader ==
  Answered /\ asked[1].isArray /\ SingleInterfaces /\ Target.dims > 0
  => (Yes <=> Subtype(Apparent(asked[1]), Target))

(* Loading links the whole chain: no walk over super pointers ends early.  *)
Linking == \A n \in Loaded : super[n] = files[n].super /\ Chain(n) \subseteq Loaded

(* interpreter.c:2632: S must implement interface T.                       *)
EveryInterface ==
  Answered /\ ~asked[1].isArray /\ Target.dims = 0 /\ IsInterface(Target.name)
  => (Yes <=> IsSubtype)
=============================================================================
