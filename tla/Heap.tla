-------------------------------- MODULE Heap --------------------------------
(***************************************************************************)
(* Reference counts in czvm's interpreter (interpreter.c).                 *)
(*                                                                         *)
(* An object's ref_count is meant to say how many references hold it: one  *)
(* per entry of a frame's object list (where `new' and the like record     *)
(* it), one per static field, one per field of another object.  mem_alloc  *)
(* takes a count of 0 as leave to hand the memory out again; it clears     *)
(* nothing, and the handlers clear only part of it.                        *)
(*                                                                         *)
(* The head of the list is a field of the frame, so an invocation copies   *)
(* it: the copy that becomes current after the return and the method's     *)
(* static frame then both point to the list, and the copy's return frees   *)
(* it for both.                                                            *)
(***************************************************************************)
EXTENDS Paths

CONSTANTS Slots,      \* memory for objects, a set of positive integers
          Methods, Main,
          Statics,    \* static fields of reference type
          Fields,     \* instance fields of reference type
          MaxDepth,   \* bound: active methods
          MaxOps,     \* bound: instructions explored
          MaxSlipped  \* bound: the same, once the counting has gone wrong

NULL == 0
WILD == -1            \* not null, and no object: a char* or an int read as one

ASSUME SlotAssumption == Slots \subseteq Nat \ {0} /\ IsFiniteSet(Slots)
ASSUME FieldAssumption == IsFiniteSet(Statics) /\ IsFiniteSet(Fields)
ASSUME BoundAssumption == MaxDepth \in Nat \ {0} /\ MaxOps \in Nat
                          /\ MaxSlipped \in Nat /\ Main \in Methods

VARIABLES
  obj,      \* the memory of each slot, read as a jvm_obj
  node,     \* entries of the object lists that are malloc'ed now
  statics,  \* field_value of the static fields
  entry,    \* list of each method's static frame
  chain,    \* active methods, outermost first, each with the frame it runs in
  used,     \* slots handed out so far
  fault,    \* "none", or why the process is dead: "null", "wild" or "freed"
  slips,    \* history: where the counting has gone wrong, see Slips
  ops       \* instructions so far

vars == <<obj, node, statics, entry, chain, used, fault, slips, ops>>

(* The steps that break the counting discipline:                           *)
(*   "entry"     a method is entered whose static frame still has a list;  *)
(*   "reuse"     an object gets memory whose old contents it will read;    *)
(*   "field"     putfield or aastore stores a reference it does not count; *)
(*   "children"  an object keeps its fields, or loses them to the sweep,   *)
(*               and their counts do not follow;                           *)
(*   "value"     putstatic follows the value of something but an array;    *)
(*   "local"     a local still refers to an object whose count is 0        *)
(*               (operands and locals are not counted);                    *)
(*   "elements"  the elements of an array that is still referenced have    *)
(*               count 0 (putfield counts an array's header only);         *)
(*   "short"     the number in a field of type short or byte is taken for  *)
(*               an object.                                                *)
Slips == {"entry", "reuse", "field", "children", "value", "local", "elements", "short"}

Pointers == {NULL, WILD} \cup Slots
(* kind is what the compiler takes an object for; no handler reads it.     *)
Kinds == {"object", "string", "numbers", "references", "elements"}
Object == [kind : Kinds, count : Int, isArray : BOOLEAN, value : Pointers,
           fields : Seq([name : Fields, val : {NULL} \cup Slots])]
Nodes  == Nat \ {NULL}
Activation == [meth : Methods, copy : BOOLEAN, list : {WILD, NULL} \cup Nodes,
               held : SUBSET Slots]

(* Slabs are fresh when the interpreter starts: all zero.  The list of a   *)
(* static frame is what malloc left in it.                                 *)
Init ==
  /\ obj = [s \in Slots |-> [kind |-> "object", count |-> 0, isArray |-> FALSE, value |-> NULL, fields |-> << >>]]
  /\ node = << >> /\ used = {}
  /\ statics = [f \in Statics |-> NULL]
  /\ entry \in [Methods -> {NULL, WILD}]
  /\ chain = << [meth |-> Main, copy |-> FALSE, list |-> entry[Main], held |-> {}] >>
  /\ fault = "none" /\ ops = 0
  /\ slips = IF entry[Main] = NULL THEN {} ELSE {"entry"}

Top  == Last(chain)
Held == Top.held

(* What a handler works on; it ends early when it faults.                  *)
Memory == [obj |-> obj, node |-> node, list |-> Top.list, fault |-> "none", slips |-> slips]
Ok(m) == m.fault = "none"
Slip(m, cond, what) == IF cond THEN [m EXCEPT !.slips = @ \cup {what}] ELSE m
Dies(m, how) == [m EXCEPT !.fault = how]

-----------------------------------------------------------------------------
(* The lists.                                                              *)

(* The entries from p on, and what follows the last: NULL, or something    *)
(* that was never an entry or has been freed.                              *)
Following(m) == [n \in DOMAIN m.node |-> m.node[n].next]
Entries(m, p) == Front(Path(Following(m), p))
End(m, p) == Last(Path(Following(m), p))
Lost(m) == Dies(m, IF End(m, m.list) = WILD THEN "wild" ELSE "freed")

Times(w, s) == Cardinality({i \in DOMAIN w : w[i] = s})

(* Faulty: the last reference is never uncounted.                          *)
LessToOne(c, n) == IF c > n THEN c - n ELSE IF c > 1 THEN 1 ELSE c

(* A count after n decrements, each made if it is positive.                *)
Less(c, n) == IF c > n THEN c - n ELSE IF c > 0 THEN 0 ELSE c

(* The count of each object of w is decremented, in turn.                  *)
Uncount(m, w) ==
  [m EXCEPT !.obj = [s \in Slots |-> [m.obj[s] EXCEPT !.count = Less(@, Times(w, s))]]]
(* An object of w loses its last reference, and its fields keep theirs.    *)
Strands(m, w) == \E s \in Slots : m.obj[s].fields # << >> /\ m.obj[s].count \in 1 .. Times(w, s)
Freed(m, n) == [m EXCEPT !.node = [k \in DOMAIN m.node \ {n} |-> m.node[k]]]

(* Both functions that take objects off a list uncount the objects in      *)
(* their fields, and read a count at NULL for a field that holds null.     *)
UncountFields(m, o) ==
  LET w == [i \in DOMAIN m.obj[o].fields |-> m.obj[o].fields[i].val] IN
    IF NULL \in ToSet(w) THEN Dies(m, "null")
    ELSE Slip(Uncount(m, w), Strands(m, w), "children")

Relink(m, p, n) == [m EXCEPT !.node = [m.node EXCEPT ![p].next = n]]

(* add_object_to_cur_stack_list                                            *)
Record(m, o) ==
  LET Unused(n) == n \in Nodes \ DOMAIN m.node
      n == CHOOSE i \in 1 .. Cardinality(DOMAIN m.node) + 1 :
             Unused(i) /\ \A k \in 1 .. i - 1 : ~Unused(k)
      w == Entries(m, m.list)
      entries == [k \in DOMAIN m.node \cup {n} |->
                    IF k = n THEN [obj |-> o, next |-> NULL]
                    ELSE IF w # << >> /\ k = Last(w) THEN [m.node[k] EXCEPT !.next = n]
                    ELSE m.node[k]]
  IN IF End(m, m.list) # NULL THEN Lost(m)
     ELSE [obj |-> [m.obj EXCEPT ![o].count = @ + 1], node |-> entries,
           list |-> IF w = << >> THEN n ELSE m.list, fault |-> m.fault, slips |-> m.slips]

(* Faulty: the first entry is freed and stays the head of the list.        *)
UnlinkedKeepsHead(m, o) ==
  IF \E w \in {Entries(m, m.list)} : w # << >> /\ m.node[w[1]].obj = o
  THEN Freed(Uncount(m, <<o>>), m.list) ELSE m

(* remove_jvm_object_from_stack_list, on the object's first entry.         *)
Unlinked(m, o) ==
  LET w == Entries(m, m.list)
      at == {i \in DOMAIN w : m.node[w[i]].obj = o}
      i == CHOOSE j \in at : \A k \in at : j <= k
      next == m.node[w[i]].next
  IN IF at = {} THEN IF End(m, m.list) = NULL THEN m ELSE Lost(m)
     ELSE Freed(Uncount(IF i = 1 THEN [m EXCEPT !.list = next]
                        ELSE Relink(m, w[i - 1], next), <<o>>), w[i])

TakeOff(m, o) ==
  LET bare == UncountFields(m, o) IN
    IF Ok(bare) THEN Unlinked(Slip(bare, m.obj[o].fields # << >>, "children"), o) ELSE bare

(* remove_object_from_stack_list, called with the list of the frame that   *)
(* returns: an object whose count was positive loses one, and so do the    *)
(* objects in its fields.                                                  *)
Drop(m, n) ==
  LET o == m.node[n].obj IN
    IF ~Ok(m) THEN m
    ELSE IF m.obj[o].count > 0
    THEN UncountFields(Freed(Slip(Uncount(m, <<o>>), m.obj[o].count > 1 /\ m.obj[o].fields # << >>,
                                  "children"), n), o)
    ELSE Freed(m, n)
DropList(m) ==
  LET w == Entries(m, m.list)
      left[i \in 0 .. Len(w)] == IF i = 0 THEN m ELSE Drop(left[i - 1], w[i])
  IN IF End(m, m.list) # NULL THEN Lost(m) ELSE [left[Len(w)] EXCEPT !.list = NULL]

(* The slips after a handler, when the methods still active hold theirs.   *)
LosesElements(m, s) ==
  m.obj[s].isArray /\ m.obj[s].count > 0 /\ m.obj[s].value \in Slots
  /\ m.obj[m.obj[s].value].count = 0
Slipped(m, active) ==
  m.slips
  \cup (IF \E a \in ToSet(active) : \E o \in a.held : m.obj[o].count = 0 THEN {"local"} ELSE {})
  \cup (IF \E s \in Slots : LosesElements(m, s) THEN {"elements"} ELSE {})

-----------------------------------------------------------------------------
(* The instructions.                                                       *)

Running == fault = "none" /\ ops < IF slips = {} THEN MaxOps ELSE MaxSlipped

(* Stores what a handler did; it may have made references available.       *)
Commit(m, held) ==
  /\ obj' = m.obj /\ node' = m.node /\ fault' = m.fault
  /\ chain' = [chain EXCEPT ![Len(chain)].list = m.list, ![Len(chain)].held = held]
  /\ entry' = IF Top.copy THEN entry ELSE [entry EXCEPT ![Top.meth] = m.list]
  /\ slips' = Slipped(m, chain')
  /\ ops' = ops + 1

(* mem_alloc: memory never handed out (any will do, the first is taken),   *)
(* or that of an object with count 0 (the sweep that finds it is part of   *)
(* the step).                                                              *)
Free(s, out) == IF s \in out THEN obj[s].count = 0
                ELSE \A t \in Slots \ out : s <= t

(* new sets isArray, and neither value nor field_values.                   *)
New(s) ==
  /\ Running /\ Free(s, used)
  /\ LET old == obj[s]
         new == [kind |-> "object", count |-> 0, isArray |-> FALSE,
                 value |-> old.value, fields |-> old.fields]
     IN Commit(Record(Slip([Memory EXCEPT !.obj[s] = new],
                           old.fields # << >> \/ old.value # NULL, "reuse"), s),
               Held \cup {s})
  /\ used' = used \cup {s}
  /\ UNCHANGED statics

(* ldc of a string sets value, and neither isArray nor field_values.       *)
LoadString(s) ==
  /\ Running /\ Free(s, used)
  /\ LET old == obj[s]
         new == [kind |-> "string", count |-> 0, isArray |-> old.isArray,
                 value |-> WILD, fields |-> old.fields]
     IN Commit(Record(Slip([Memory EXCEPT !.obj[s] = new],
                           old.fields # << >> \/ old.isArray, "reuse"), s),
               Held \cup {s})
  /\ used' = used \cup {s}
  /\ UNCHANGED statics

(* Faulty: the header points past the elements.                            *)
HeaderOffByOne(s, t, kind) == [kind |-> kind, count |-> 0, isArray |-> TRUE, value |-> t + 1,
                               fields |-> obj[s].fields]

(* A header and its elements.  newarray clears the value of each element,  *)
(* and so of the memory read as an object; anewarray leaves it.            *)
Header(s, t, kind) == [kind |-> kind, count |-> 0, isArray |-> TRUE, value |-> t,
                       fields |-> obj[s].fields]
ElementsOf(t, kind) ==
  [kind |-> IF kind = "numbers" THEN "elements" ELSE "object", count |-> 0, isArray |-> FALSE,
   value |-> IF kind = "numbers" THEN NULL ELSE obj[t].value, fields |-> obj[t].fields]

(* newarray and anewarray.                                                 *)
NewArray(s, t, kind) ==
  /\ Running /\ s # t /\ Free(s, used) /\ Free(t, used \cup {s})
  /\ LET stale == \/ obj[s].fields # << >> \/ obj[t].fields # << >>
                  \/ kind = "references" /\ obj[t].value # NULL
         made == [Memory EXCEPT !.obj = [x \in Slots |-> IF x = s THEN Header(s, t, kind)
                                                         ELSE IF x = t THEN ElementsOf(t, kind)
                                                         ELSE obj[x]]]
     IN Commit(Record(Record(Slip(made, stale, "reuse"), s), t), Held \cup {s})
  /\ used' = used \cup {s, t}
  /\ UNCHANGED statics

(* Arrays are used at index 0, where the memory of the elements starts.    *)
HasElements(a, kind) == a \in Held /\ obj[a].kind = kind /\ obj[a].value \in Slots

(* iastore and the like, of 0 or of another number.                        *)
StoreNumber(a, v) ==
  /\ Running /\ HasElements(a, "numbers")
  /\ Commit([Memory EXCEPT !.obj[obj[a].value].value = v], Held)
  /\ UNCHANGED <<statics, used>>

(* aastore; neither the old element nor the new one is counted.            *)
StoreReference(a, v) ==
  /\ Running /\ HasElements(a, "references") /\ v \in Held \cup {NULL}
  /\ Commit(Slip([Memory EXCEPT !.obj[obj[a].value].value = v], v # NULL, "field"), Held)
  /\ UNCHANGED <<statics, used>>

(* aaload: the element itself, not the reference stored in it.             *)
LoadReference(a) ==
  /\ Running /\ HasElements(a, "references")
  /\ Commit(Memory, Held \cup {obj[a].value})
  /\ UNCHANGED <<statics, used>>

GetStatic(f) ==
  /\ Running /\ statics[f] # NULL
  /\ Commit(Memory, Held \cup {statics[f]})
  /\ UNCHANGED <<statics, used>>

(* The object in a static field, and what putstatic takes for the rest of  *)
(* an array when it releases it: it follows value whatever it is.          *)
Released(m, o) ==
  LET w == Path([s \in Slots |-> m.obj[s].value], o)
      less == Slip(Uncount(m, w), Strands(m, w), "children")
      astray == \E s \in ToSet(w) \cap Slots : ~m.obj[s].isArray /\ m.obj[s].value # NULL
  IN Slip(IF WILD \in ToSet(w) THEN Dies(less, "wild") ELSE less, astray, "value")

(* The parts of an object that putstatic moves from the list to the field. *)
Parts(m, o) ==
  IF m.obj[o].isArray /\ m.obj[o].value # NULL THEN <<o, m.obj[o].value>> ELSE <<o>>

(* Faulty: the object leaves the list and the static field does not count. *)
KeptUncounted(m, o) == IF m.obj[o].isArray THEN m ELSE TakeOff(m, o)

Kept(m, o) ==
  LET w == Parts(m, o)
      head == TakeOff(m, o)
      taken == IF ~Ok(head) \/ Len(w) = 1 THEN head
               ELSE IF w[2] \in Slots THEN TakeOff(head, w[2]) ELSE Dies(head, "wild")
  IN IF Ok(taken)
     THEN [taken EXCEPT !.obj = [s \in Slots |-> [taken.obj[s] EXCEPT !.count = @ + Times(w, s)]]]
     ELSE taken

PutStatic(f, v) ==
  /\ Running /\ v \in Held \cup {NULL}
  /\ LET old == statics[f]
         m == IF old = NULL THEN Memory ELSE Released(Memory, old)
     IN Commit(IF Ok(m) /\ v # NULL THEN Kept(m, v) ELSE m, Held)
  /\ statics' = [statics EXCEPT ![f] = v]
  /\ UNCHANGED used

Receiver(x) == x \in Held /\ obj[x].kind = "object"

(* The position of a field in the list of an object's fields, or 0.        *)
Position(x, n) ==
  IF \E i \in DOMAIN obj[x].fields : obj[x].fields[i].name = n
  THEN CHOOSE i \in DOMAIN obj[x].fields : obj[x].fields[i].name = n
  ELSE 0

(* putfield.  The first field counts what it stores (and cannot store      *)
(* null).  Overwriting a field releases what was there, whatever its       *)
(* count, and does not count what is stored.  Another field increments a   *)
(* word of its own record in place of the object's count.                  *)
FirstField(x, n, v) ==
  /\ Running /\ Receiver(x) /\ v \in Held /\ obj[x].fields = << >>
  /\ Commit([Memory EXCEPT !.obj[x].fields = <<[name |-> n, val |-> v]>>,
                           !.obj[v].count = @ + 1], Held)
  /\ UNCHANGED <<statics, used>>

NullField(x) ==
  /\ Running /\ Receiver(x) /\ obj[x].fields = << >>
  /\ Commit(Dies(Memory, "null"), Held)
  /\ UNCHANGED <<statics, used>>

OverwriteField(x, n, v) ==
  /\ Running /\ Receiver(x) /\ v \in Held \cup {NULL} /\ Position(x, n) # 0
  /\ LET i == Position(x, n)
         old == obj[x].fields[i].val
         m == Slip(Slip([Memory EXCEPT !.obj[old].count = @ - 1], Strands(Memory, <<old>>), "children"),
                   v # NULL, "field")
     IN Commit(IF old = NULL THEN Dies(Memory, "null")
               ELSE [m EXCEPT !.obj[x].fields[i].val = v], Held)
  /\ UNCHANGED <<statics, used>>

AnotherField(x, n, v) ==
  /\ Running /\ Receiver(x) /\ v \in Held \cup {NULL}
  /\ obj[x].fields # << >> /\ Position(x, n) = 0
  /\ Commit(Slip([Memory EXCEPT !.obj[x].fields = Append(@, [name |-> n, val |-> v])],
                 v # NULL, "field"), Held)
  /\ UNCHANGED <<statics, used>>

(* putstatic, and putfield of an object's first field, of a number in a    *)
(* field of type short or byte, which they (is_primitive_desc_type) take   *)
(* for an object.  putstatic skips a zero, putfield does not.              *)
StoreShort(v) ==
  /\ Running
  /\ v = NULL => \E x \in Slots : Receiver(x) /\ obj[x].fields = << >>
  /\ Commit(Slip(Dies(Memory, IF v = NULL THEN "null" ELSE "wild"), TRUE, "short"), Held)
  /\ UNCHANGED <<statics, used>>

(* getfield runs off the list when the field was never stored to.          *)
GetField(x, n) ==
  /\ Running /\ Receiver(x)
  /\ IF Position(x, n) = 0 THEN Commit(Dies(Memory, "null"), Held)
     ELSE Commit(Memory, Held \cup ({obj[x].fields[Position(x, n)].val} \ {NULL}))
  /\ UNCHANGED <<statics, used>>

(* The caller goes on in a copy of its frame, the callee starts in its     *)
(* static frame with whatever list that has.                               *)
Invoke(m) ==
  /\ Running /\ Len(chain) < MaxDepth
  /\ chain' = Append([chain EXCEPT ![Len(chain)].copy = TRUE],
                     [meth |-> m, copy |-> FALSE, list |-> entry[m], held |-> Held])
  /\ slips' = IF entry[m] # NULL THEN slips \cup {"entry"} ELSE slips
  /\ ops' = ops + 1
  /\ UNCHANGED <<obj, node, statics, entry, used, fault>>

(* jvm_interp_return                                                       *)
Return ==
  /\ Running
  /\ \E m \in {DropList(Memory)} :
       /\ obj' = m.obj /\ node' = m.node /\ fault' = m.fault
       /\ entry' = IF Top.copy THEN entry ELSE [entry EXCEPT ![Top.meth] = m.list]
       /\ chain' = IF Ok(m) THEN Front(chain) ELSE chain
       /\ slips' = Slipped(m, chain')
  /\ ops' = ops + 1
  /\ UNCHANGED <<statics, used>>

Active == chain # << >>

Next ==
  /\ Active
  /\ \/ \E s \in Slots : New(s) \/ LoadString(s)
     \/ \E s, t \in Slots, kind \in {"numbers", "references"} : NewArray(s, t, kind)
     \/ \E a \in Slots, v \in {NULL, WILD} : StoreNumber(a, v)
     \/ \E a \in Slots : LoadReference(a) \/ \E v \in Slots \cup {NULL} : StoreReference(a, v)
     \/ \E f \in Statics : GetStatic(f) \/ \E v \in Slots \cup {NULL} : PutStatic(f, v)
     \/ \E x \in Slots : NullField(x) \/ \E n \in Fields : GetField(x, n)
     \/ \E x, v \in Slots, n \in Fields : FirstField(x, n, v)
     \/ \E x \in Slots, n \in Fields, v \in Slots \cup {NULL} :
          OverwriteField(x, n, v) \/ AnotherField(x, n, v)
     \/ \E v \in {NULL, WILD} : StoreShort(v)
     \/ \E m \in Methods : Invoke(m)
     \/ Return

Spec == Init /\ [][Next]_vars

-----------------------------------------------------------------------------
(* Properties.                                                             *)

TypeOK ==
  /\ obj \in [Slots -> Object]
  /\ DOMAIN node \subseteq Nodes
  /\ \A n \in DOMAIN node : node[n] \in [obj : Slots, next : {NULL} \cup Nodes]
  /\ statics \in [Statics -> {NULL} \cup Slots]
  /\ entry \in [Methods -> {WILD, NULL} \cup Nodes]
  /\ chain \in Seq(Activation)
  /\ used \subseteq Slots
  /\ fault \in {"none", "null", "wild", "freed"}
  /\ slips \subseteq Slips
  /\ ops \in Nat

(* The references to an object: list entries, static fields (an array's    *)
(* elements are held with it), and fields of objects that are alive.       *)
References(s) ==
  Cardinality({n \in DOMAIN node : node[n].obj = s})
  + Cardinality({f \in Statics : statics[f] # NULL /\ s \in ToSet(Parts(Memory, statics[f]))})
  + Cardinality({p \in Slots \X (1 .. Cardinality(Fields)) :
                   /\ obj[p[1]].count > 0 /\ p[2] \in DOMAIN obj[p[1]].fields
                   /\ obj[p[1]].fields[p[2]].val = s})

(* ref_count is exact as long as none of the slips has happened:      *)
(* objects that move between lists, static fields and fields of others,    *)
(* through calls and returns, are counted once per reference.              *)
CountsExact ==
  Active /\ slips = {} /\ fault = "none" => \A s \in Slots : obj[s].count = References(s)

(* Until then, no handler follows a freed list entry or a word that is no  *)
(* pointer.                                                                *)
PointersValid == slips = {} => fault \notin {"freed", "wild"}

(* Until then, memory that a static field or a field of a live object      *)
(* still refers to is not handed out again.                                *)
ReachableKept ==
  Active /\ slips = {} /\ fault = "none" =>
    \A f \in Statics : statics[f] # NULL =>
      /\ ~Free(statics[f], used)
      /\ \A i \in DOMAIN obj[statics[f]].fields :
           obj[statics[f]].fields[i].val # NULL => ~Free(obj[statics[f]].fields[i].val, used)

(* czvm.h:313: a frame's list records the objects allocated in it, for     *)
(* ref_count.  So no recorded object has count 0, which lets the allocator *)
(* hand out its memory.                                                    *)
RecordedIsCounted == fault = "none" => \A n \in DOMAIN node : obj[node[n].obj].count > 0
=============================================================================
