----------------------------- MODULE ClassLoader -----------------------------
(***************************************************************************)
(* Loading, parsing, linking and initialising classes (classloader.c), and *)
(* the instructions that load them (interpreter.c).                        *)
(*                                                                         *)
(* The parser runs <clinit> as soon as it has read it, so loads and        *)
(* running methods nest in one control stack, while the parser has one     *)
(* cursor (mem_start) for all files.  What a file says is in path; of a    *)
(* method's instructions only those are kept that load classes or call.    *)
(***************************************************************************)
EXTENDS Integers, FiniteSets, SequencesExt

CONSTANTS
  Classes,    \* names of the classes on the class path
  OBJECT,     \* "java/lang/Object", which is not
  Primitives, \* names of arrays that load_primitive_class knows: "[I", "[[I"
  Arrays,     \* other names of arrays: "[LA;", "[J"
  ElementOf,  \* their element; OBJECT stands for those no file can have, as "J"
  MAIN,       \* the class the user starts
  NOFILE,     \* there is no such file
  ClassPaths, \* the contents of the class path that are explored
  FdLimit     \* how many files the process may have open

ASSUME NamesAssumption == MAIN \in Classes /\ OBJECT \notin Classes \cup Primitives
                          /\ Classes \cap Primitives = {} /\ IsFiniteSet(Classes)
ASSUME ArraysAssumption == /\ Arrays \cap (Classes \cup Primitives \cup {OBJECT}) = {}
                           /\ ElementOf \in [Arrays -> Classes \cup {OBJECT}]
ASSUME LimitAssumption == FdLimit \in Nat

(* What a file contains.  An object's class and a class that declares a    *)
(* method are no arrays; no instruction calls an initialiser.  newarray    *)
(* names the class the interpreter asks for: one of Primitives.            *)
Names == Classes \cup Primitives \cup Arrays \cup {OBJECT}
Calls == {"invokestatic", "invokespecial", "invokevirtual", "invokeinterface"}
Instruction ==
  [op : Calls, class : Classes \cup {OBJECT}, method : STRING \ {"clinit"},
   of : Classes \cup {OBJECT}]
  \cup [op : {"new"}, class : Classes \cup {OBJECT}, method : STRING, of : Names]
  \cup [op : {"anewarray", "instanceof"}, class : Names, method : STRING, of : Names]
  \cup [op : {"multianewarray"}, class : Primitives \cup Arrays, method : STRING, of : Names]
  \cup [op : {"newarray"}, class : Primitives, method : STRING, of : Names]
MethodInfo == [name : STRING, attrs : Seq(STRING), code : Seq(STRING), handlers : BOOLEAN,
               body : Seq(Instruction)]
ClassFile == [super : Classes \cup {OBJECT}, fields : Seq(Seq(STRING)), methods : Seq(MethodInfo),
              attrs : Seq(STRING), whole : BOOLEAN, corrupt : BOOLEAN]

ASSUME PathAssumption == /\ ClassPaths \subseteq [Classes -> {NOFILE} \cup ClassFile]
                         /\ NOFILE \notin ClassFile

VARIABLES
  path,        \* class name -> what its file contains, or NOFILE
  stack,       \* the loads and methods that are under way, the innermost last
  class_list,  \* the CLASS records in class_list_head
  cursor,      \* where mem_start points
  open,        \* open files and directories
  status       \* "run", "exit", "failed" (exit(1), -1), or how it went wrong

vars == <<path, stack, class_list, cursor, open, status>>

-----------------------------------------------------------------------------
(* Class files.  The parser compares the name of an attribute and reads    *)
(* those below to their end; of any other it reads the name only.          *)

CodeAttributes  == {"LineNumberTable"}
ClassAttributes == {"SourceFile"}
FieldAttributes == {"ConstantValue", "Synthetic", "Signature", "Deprecated"}

(* Where the parser stands after a table of attributes.  Behind the name of *)
(* one it does not read there is the upper half of its length, a zero; the *)
(* next attribute's name would be constant 0, which does not exist.        *)
ReadAll(kinds, known) ==
  LET unread == {i \in DOMAIN kinds : kinds[i] \notin known} IN
    CASE unread = {} -> "aligned"
      [] unread = {Len(kinds)} -> "shifted"
      [] OTHER -> "misread"

(* A zero count of methods would be followed by a length as the count of   *)
(* attributes.                                                             *)
FieldsEnd(file) ==
  IF \A i \in DOMAIN file.fields : ReadAll(file.fields[i], FieldAttributes) = "aligned"
  THEN "aligned" ELSE "misread"

(* Of a method's attributes only the first is looked at.                   *)
MethodEnd(m) ==
  IF m.attrs = << >> THEN "aligned"
  ELSE LET end == IF Head(m.attrs) = "Code" THEN ReadAll(m.code, CodeAttributes) ELSE "shifted"
       IN  IF end = "aligned" /\ Len(m.attrs) > 1 THEN "junk" ELSE end

HasCode(m) == m.attrs # << >> /\ Head(m.attrs) = "Code"

(* The end of a file is followed by zeros up to the end of its last page.  *)
FileEnd(file, end) == IF end # "aligned" THEN end ELSE IF file.whole THEN "beyond" ELSE "end"

Positions == {"aligned", "shifted", "junk", "end", "beyond", "misread"}

-----------------------------------------------------------------------------
(* The class list.                                                         *)

File(name) == IF name \in Classes THEN path[name] ELSE NOFILE
Entries(name) == {i \in DOMAIN class_list : class_list[i].name = name}
Listed(name) == Entries(name) # {}
find_class(name) == CHOOSE i \in Entries(name) : \A j \in Entries(name) : i <= j

Declares(file, method) == {i \in DOMAIN file.methods : file.methods[i].name = method}

(* find_class_method goes through all entries of a name.  The methods of a *)
(* class are attached to it after the last one is read: before, the        *)
(* pointer is what malloc left.                                            *)
find_class_method(name, method) ==
  LET ready == {i \in Entries(name) : class_list[i].methods} IN
    IF ~Listed(name) THEN "none"
    ELSE IF Declares(File(name), method) # {}
    THEN IF find_class(name) \in ready THEN "found" ELSE "wild"
    ELSE IF ready = Entries(name) THEN "none" ELSE "wild"

-----------------------------------------------------------------------------
Init ==
  /\ path \in ClassPaths
  /\ stack = << >> /\ class_list = << >>
  /\ cursor = "end" /\ open = 0 /\ status = "run"

Top  == Last(stack)
Rest == Front(stack)
Does(what) == status = "run" /\ stack # << >> /\ Top.does = what

Stops(how) == status' = how /\ UNCHANGED <<path, stack, class_list, cursor, open>>
ReadsTo(end) == /\ cursor' = end
                /\ status' = IF end = "misread" THEN "misread" ELSE "run"

HasDirectory == open < FdLimit

(* Faulty: the directory does not count.                                   *)
ExhaustedByFile(held) == held + 1 > FdLimit

Exhausted(held) == held + 2 > FdLimit

(* opendir, open, the constant pool, the entry in the class list, the      *)
(* interfaces and the fields.  That the file cannot be opened or parsed    *)
(* goes unnoticed until the result is written to.                          *)
Begins(name, below, held) ==
  IF File(name) = NOFILE \/ Exhausted(held) THEN Stops("segv")
  ELSE IF File(name).corrupt THEN Stops("segv")
  ELSE /\ class_list' = Append(class_list, [name |-> name, methods |-> FALSE, super |-> 0])
       /\ stack' = Append(below, [does |-> "parse", class |-> name,
                                  id |-> Len(class_list'), at |-> 1])
       /\ open' = held + 2
       /\ ReadsTo(FieldsEnd(File(name)))
       /\ UNCHANGED path

Load(name, below) == HasDirectory /\ Begins(name, below, open)

Runs(name, method) ==
  [does |-> "run", class |-> name, method |-> method, at |-> 1, loaded |-> FALSE]

-----------------------------------------------------------------------------
(* The rest of parse_class_file.                                           *)

MethodsOf(activation) == File(activation.class).methods

parse_class_method ==
  /\ Does("parse") /\ Top.at <= Len(MethodsOf(Top))
  /\ LET m    == MethodsOf(Top)[Top.at]
         next == Append(Rest, [Top EXCEPT !.at = @ + 1])
     IN IF cursor # "aligned"
        THEN \E how \in {"misread"} \cup (IF cursor = "beyond" THEN {"segv"} ELSE {}) : Stops(how)
        ELSE /\ ReadsTo(MethodEnd(m))
             /\ stack' = IF m.name = "clinit" /\ cursor' # "misread"
                         THEN Append(next, Runs(Top.class, Top.at)) ELSE next
             /\ UNCHANGED <<path, class_list, open>>

(* The reader of an exception table has no return statement: parsing fails *)
(* if what is in the register is not 0.                                    *)
ExceptionTableFails ==
  /\ Does("parse") /\ Top.at <= Len(MethodsOf(Top))
  /\ cursor = "aligned" /\ MethodsOf(Top)[Top.at].handlers
  /\ Stops("segv")

(* Faulty: not for a class without attributes.                             *)
AttachedIfMore(id) == [class_list EXCEPT ![id].methods = (cursor = "aligned")]

Attached(id) == [class_list EXCEPT ![id].methods = TRUE]

(* The methods are attached, the attributes of the class are read, and the *)
(* directory is closed.  The file stays open.                              *)
parse_class_attr ==
  /\ Does("parse") /\ Top.at > Len(MethodsOf(Top))
  /\ CASE cursor = "aligned" ->
            ReadsTo(FileEnd(File(Top.class), ReadAll(File(Top.class).attrs, ClassAttributes)))
       [] cursor = "end"     -> ReadsTo("end")
       [] cursor = "shifted" -> ReadsTo("junk")
       [] cursor = "junk"    -> ReadsTo("misread")
       [] cursor = "beyond"  -> cursor' = cursor /\ status' \in {"segv", "misread"}
  /\ class_list' = Attached(Top.id)
  /\ stack' = Append(Rest, [does |-> "link", class |-> Top.class, id |-> Top.id, at |-> Top.id])
  /\ open' = open - 1 /\ UNCHANGED path

-----------------------------------------------------------------------------
(* The loop over the superclasses at the end of jvm_load_class.            *)

SuperName == File(class_list[Top.at].name).super

(* Faulty: the loop stays at the first class.                              *)
LinkingSame(id) == Append(Rest, Top)

Linking(id) == Append(Rest, [Top EXCEPT !.at = id])

LinkSuper ==
  /\ Does("link") /\ SuperName # OBJECT
  /\ IF Listed(SuperName)
     THEN /\ class_list' = [class_list EXCEPT ![Top.at].super = find_class(SuperName)]
          /\ stack' = Linking(find_class(SuperName))
          /\ UNCHANGED <<path, cursor, open, status>>
     ELSE IF HasDirectory THEN Load(SuperName, stack) ELSE Stops("segv")

LinkEnd == /\ Does("link") /\ SuperName = OBJECT
           /\ stack' = Rest /\ UNCHANGED <<path, class_list, cursor, open, status>>

-----------------------------------------------------------------------------
(* Running methods.                                                        *)

Method == File(Top.class).methods[Top.method]
Op == Method.body[Top.at]
Executes(ops) == Does("run") /\ Top.at <= Len(Method.body) /\ Op.op \in ops

Past == Append(Rest, [Top EXCEPT !.at = @ + 1, !.loaded = FALSE])
Retried == Append(Rest, [Top EXCEPT !.loaded = TRUE])
Completes == stack' = Past /\ UNCHANGED <<path, class_list, cursor, open, status>>

(* The instructions that name a class look for it in the list, and load it *)
(* if they do not find it.                                                 *)
NamesClass == {"new", "newarray", "anewarray", "multianewarray", "instanceof"}

(* Faulty: whether the class is listed is not asked.                       *)
LacksUnasked == ~Top.loaded

Lacks == ~Listed(Op.class) /\ ~Top.loaded
Obtains == Executes(NamesClass) /\ Lacks /\ HasDirectory

LoadClass == Obtains /\ Op.class \in Classes \cup {OBJECT} /\ Load(Op.class, Retried)

(* A class of load_primitive_class is listed.  No load of an array closes  *)
(* its directory.                                                          *)
LoadPrimitive ==
  /\ Obtains /\ Op.class \in Primitives
  /\ class_list' = Append(class_list, [name |-> Op.class, methods |-> FALSE, super |-> 0])
  /\ stack' = Retried /\ open' = open + 1 /\ UNCHANGED <<path, cursor, status>>

(* Any other array is a copy of its element's CLASS and not listed: it is  *)
(* loaded again by each instruction that names it.                         *)
LoadArray ==
  /\ Obtains /\ Op.class \in Arrays
  /\ IF Listed(ElementOf[Op.class])
     THEN stack' = Retried /\ open' = open + 1 /\ UNCHANGED <<path, class_list, cursor, status>>
     ELSE IF open + 1 < FdLimit THEN Begins(ElementOf[Op.class], Retried, open + 1)
          ELSE Stops("segv")

(* With its class an instruction ends.  instanceof may meet a null pointer *)
(* first, or load an interface; files do not name theirs here, so it may   *)
(* be any class.                                                           *)
HasClass ==
  /\ Executes(NamesClass) /\ ~Lacks
  /\ \/ Completes
     \/ /\ Op.op = "instanceof"
        /\ Stops("segv") \/ \E name \in Classes : ~Listed(name) /\ Load(name, Retried)

(* Without it newarray and anewarray make an array of no class, the others *)
(* read through NULL, instanceof unless the object has no class either.    *)
WithoutClass ==
  /\ Executes(NamesClass \ {"new"}) /\ Lacks /\ ~HasDirectory
  /\ \/ Op.op # "multianewarray" /\ Completes
     \/ Op.op \in {"multianewarray", "instanceof"} /\ Stops("segv")

(* new returns -1 with vm_pc where it is: it is executed again.            *)
Stuck == Executes({"new"}) /\ Lacks /\ ~HasDirectory
NewFails == Stuck /\ UNCHANGED vars

(* invokeinterface looks for the method again in the class of the object,  *)
(* which was loaded when the object was made, and there only.              *)
Target ==
  IF Op.op = "invokeinterface" /\ Declares(File(Op.of), Op.method) # {} THEN Op.of ELSE Op.class

Invoke ==
  /\ Executes(Calls) /\ find_class_method(Op.class, Op.method) = "found"
  /\ Op.op = "invokeinterface" => Listed(Op.of)
  /\ LET i == CHOOSE i \in Declares(File(Target), Op.method) : TRUE IN
       IF \/ Op.op = "invokeinterface" /\ ~class_list[find_class(Op.of)].methods
          \/ ~HasCode(File(Target).methods[i])
       THEN Stops("wild")
       ELSE /\ stack' = Append(stack, Runs(Target, i))
            /\ UNCHANGED <<path, class_list, cursor, open, status>>

InvokeUninitialised ==
  Executes(Calls) /\ find_class_method(Op.class, Op.method) = "wild" /\ Stops("wild")

(* Without the method, the class is loaded, listed already or not.         *)
Unresolved == Executes(Calls) /\ find_class_method(Op.class, Op.method) = "none"
NotLooked  == Op.class = OBJECT /\ Op.op # "invokevirtual"

InvokeLoads == Unresolved /\ ~Top.loaded /\ ~NotLooked /\ Load(Op.class, Retried)

InvokeNothing ==
  /\ Unresolved /\ (Top.loaded \/ NotLooked \/ ~HasDirectory)
  /\ CASE Op.op = "invokestatic" -> Stops("failed")
       [] Op.op = "invokevirtual" /\ Top.loaded -> Stops("segv")
       [] OTHER -> Completes

Depth == Cardinality({k \in DOMAIN stack : stack[k].does = "run"})

(* Faulty: the depth is compared before it is counted down.                *)
AnyCaller == Depth > 0

HasCaller == Depth > 1

(* return.  A class initialiser has no caller to return to: its frame's    *)
(* return_address is NULL.  At depth 0 interpreter_byte_code ends, and the *)
(* parser goes on, or the process exits.                                   *)
Return ==
  /\ Does("run") /\ Top.at > Len(Method.body)
  /\ IF Method.name = "clinit"
     THEN IF HasCaller THEN Stops("segv")
          ELSE stack' = Rest /\ UNCHANGED <<path, class_list, cursor, open, status>>
     ELSE IF HasCaller
     THEN /\ stack' = Append(Front(Rest), [Last(Rest) EXCEPT !.at = @ + 1, !.loaded = FALSE])
          /\ UNCHANGED <<path, class_list, cursor, open, status>>
     ELSE Stops("exit")

-----------------------------------------------------------------------------
(* The start: jvm_init loads the main class, jvm_run runs its main.        *)
jvm_init ==
  /\ status = "run" /\ stack = << >> /\ class_list = << >>
  /\ IF HasDirectory THEN Load(MAIN, << >>) ELSE Stops("failed")

jvm_run ==
  /\ status = "run" /\ stack = << >> /\ class_list # << >>
  /\ IF find_class_method(MAIN, "main") = "found"
     THEN /\ stack' = << Runs(MAIN, CHOOSE i \in Declares(File(MAIN), "main") : TRUE) >>
          /\ UNCHANGED <<path, class_list, cursor, open, status>>
     ELSE Stops("failed")

Next ==
  \/ jvm_init \/ jvm_run
  \/ parse_class_method \/ ExceptionTableFails \/ parse_class_attr \/ LinkSuper \/ LinkEnd
  \/ LoadClass \/ LoadPrimitive \/ LoadArray \/ HasClass \/ WithoutClass \/ NewFails
  \/ Invoke \/ InvokeUninitialised \/ InvokeLoads \/ InvokeNothing \/ Return

(* A process with one thread, which never waits.                           *)
Spec == Init /\ [][Next]_vars /\ WF_vars(Next)

-----------------------------------------------------------------------------
(* Properties.                                                             *)

Activation ==
  [does : {"parse", "link"}, class : Classes, id : Nat, at : Nat]
  \cup [does : {"run"}, class : Classes, method : Nat, at : Nat, loaded : BOOLEAN]
Entry == [name : Classes \cup Primitives, methods : BOOLEAN, super : Nat]

(* Where an activation stands is in the file or the list it goes through.  *)
Stands(a) ==
  CASE a.does = "run" ->
         /\ File(a.class) # NOFILE /\ a.method \in DOMAIN MethodsOf(a)
         /\ a.at \in 1 .. Len(MethodsOf(a)[a.method].body) + 1
    [] OTHER ->
         /\ a.id \in DOMAIN class_list /\ class_list[a.id].name = a.class
         /\ a.at \in IF a.does = "parse" THEN 1 .. Len(MethodsOf(a)) + 1 ELSE DOMAIN class_list

TypeOK ==
  /\ path \in [Classes -> {NOFILE} \cup ClassFile]
  /\ stack \in Seq(Activation) /\ \A k \in DOMAIN stack : Stands(stack[k])
  /\ class_list \in Seq(Entry)
  /\ \A i \in DOMAIN class_list :
       /\ class_list[i].super \in 0 .. Len(class_list)
       /\ class_list[i].name \in Classes => File(class_list[i].name) # NOFILE
  /\ cursor \in Positions /\ open \in 0 .. FdLimit
  /\ status \in {"run", "exit", "failed", "segv", "misread", "wild"}

Loading(i) == \E k \in DOMAIN stack : stack[k].does # "run" /\ stack[k].id = i

(* The super pointers from class i on lead to a class that extends OBJECT. *)
ClassEntries == {i \in DOMAIN class_list : class_list[i].name \in Classes}
Linked(i) ==
  \E chain \in SUBSET ClassEntries :
    /\ i \in chain
    /\ \A j \in chain : IF class_list[j].super = 0 THEN File(class_list[j].name).super = OBJECT
                        ELSE class_list[j].super \in chain

(* A class can be found from the middle of its load on, by the code of     *)
(* initialisers.  Whoever finds one that is not being loaded finds all of  *)
(* it: its methods, and an unbroken chain of superclasses.                 *)
CompleteOrLoading ==
  status \in {"run", "exit", "failed"} =>
    \A i \in DOMAIN class_list :
      class_list[i].name \in Classes /\ ~Loading(i) => class_list[i].methods /\ Linked(i)

(* A call goes through an uninitialised pointer only to a method without   *)
(* code, or if it looks into a class that is being loaded further down the *)
(* stack (the idiom of a singleton: its <clinit> makes an instance).       *)
WildStep ==
  status' = "wild" =>
    \/ \E i \in DOMAIN class_list :
         /\ Loading(i)
         /\ class_list[i].name = Op.class \/ (Op.op = "invokeinterface" /\ class_list[i].name = Op.of)
    \/ \E i \in Declares(File(Target), Op.method) : ~HasCode(File(Target).methods[i])
WildOnlyWhileLoading == [][WildStep]_vars

-----------------------------------------------------------------------------
(* Programs.                                                               *)

Files == {c \in Classes : path[c] # NOFILE}
MethodsIn(cs) == UNION {{<<c, i>> : i \in DOMAIN path[c].methods} : c \in cs \cap Files}
BodyOf(cm) == path[cm[1]].methods[cm[2]].body
OpsOf(cms) == UNION {{BodyOf(cm)[n] : n \in DOMAIN BodyOf(cm)} : cm \in cms}
CallsOf(cms) == {o \in OpsOf(cms) : o.op \in Calls}
Initialisers == {cm \in MethodsIn(Classes) : path[cm[1]].methods[cm[2]].name = "clinit"}
AllOps == OpsOf(MethodsIn(Classes))

(* Every method is called by the name of the class that declares it.       *)
Direct == \A o \in CallsOf(MethodsIn(Classes)) :
            o.class = OBJECT \/ (o.class \in Files /\ Declares(path[o.class], o.method) # {})

(* The loader lists a class once, however loads nest: only the repeated    *)
(* load for an inherited method lists it again.                            *)
ListedOnce == Direct => \A c \in Classes : Cardinality(Entries(c)) <= 1

(* new is repeated for ever only in a program that names the class of an   *)
(* array, whose loads leave directories open, or inside of a load: where   *)
(* only the second descriptor is missing, the process ends before.         *)
StuckNeedsLeak ==
  Stuck => \/ \E o \in AllOps : o.class \in Primitives \cup Arrays
           \/ \E i \in DOMAIN class_list : Loading(i)

(* Unless a new is repeated for ever, the process ends: neither the link   *)
(* loop nor initialisers nor repeated loads go on for ever.                *)
Halts == <>[](status # "run" \/ Stuck)

SupersOf(c) == {d \in Files : d = c \/ d = path[c].super \/
                  (path[c].super \in Files /\ d = path[path[c].super].super)}

(* A file the parser reads to the end, and one that leaves zeros behind.   *)
Parses(f) ==
  /\ FieldsEnd(f) = "aligned" /\ ReadAll(f.attrs, ClassAttributes) # "misread"
  /\ \A i \in DOMAIN f.methods :
       /\ ~f.methods[i].handlers
       /\ MethodEnd(f.methods[i]) \in (IF i = Len(f.methods) THEN {"aligned", "shifted"} ELSE {"aligned"})
Tidy(f) == /\ ~f.whole /\ \A i \in DOMAIN f.methods : MethodEnd(f.methods[i]) = "aligned"

(* The programs the loader is good for: *)
Supported ==
  /\ Files = Classes /\ Direct /\ FdLimit >= 2 * Cardinality(Classes)
  /\ Declares(path[MAIN], "main") # {}
  /\ \A c \in Classes : /\ ~path[c].corrupt /\ Parses(path[c])
                        /\ path[c].super \in Classes \cup {OBJECT}
  /\ \A cm \in MethodsIn(Classes) : HasCode(path[cm[1]].methods[cm[2]])
  /\ \A o \in AllOps :
       /\ o.op # "instanceof"
       /\ o.class \in Classes \/ (o.class = OBJECT /\ o.op = "invokespecial")
  /\ \A cm \in Initialisers : cm[2] = Len(path[cm[1]].methods)
  /\ \/ /\ OpsOf(Initialisers) = {}
        /\ \A cm \in Initialisers : cm[1] \in SupersOf(MAIN)
     \/ /\ \A cm \in Initialisers : cm[1] = MAIN
        /\ \A c \in Classes : Tidy(path[c])
        /\ \A o \in CallsOf(Initialisers \cup MethodsIn(Classes \ {MAIN})) :
             MAIN \notin {o.class, o.of}

(* They run to their end: initialisers share the cursor, the registers and *)
(* the class list with the loads around them, and disturb none.            *)
SupportedRuns == Supported => status \in {"run", "exit"}
=============================================================================
