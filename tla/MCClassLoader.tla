---------------------------- MODULE MCClassLoader ----------------------------
(***************************************************************************)
(* A program of three classes.  Main has the code; A may extend B; what    *)
(* the initialisers do, the layout of the files and the code of main vary. *)
(***************************************************************************)
EXTENDS ClassLoader

MCElementOf == [c \in Arrays |-> CASE c = "[LA;" -> "A" [] c = "[LB;" -> "B" [] OTHER -> OBJECT]

Do(op, c)      == [op |-> op, class |-> c, method |-> "", of |-> c]
Call(op, c, m) == [op |-> op, class |-> c, method |-> m, of |-> c]
New1 == Do("new", "A")

Meth(name, body) == [name |-> name, attrs |-> <<"Code">>, code |-> <<"LineNumberTable">>,
                     handlers |-> FALSE, body |-> body]
Branching(m) == [m EXCEPT !.code = @ \o <<"StackMapTable">>]
Debug(m)     == [m EXCEPT !.code = @ \o <<"LocalVariableTable", "StackMapTable">>]
Catching(m)  == [m EXCEPT !.handlers = TRUE]
Annotated(m) == [m EXCEPT !.attrs = @ \o <<"Deprecated">>]
Abstract(m)  == [m EXCEPT !.attrs = << >>, !.code = << >>]

Class(super, methods) ==
  [super |-> super, fields |-> << <<"ConstantValue">> >>, methods |-> methods,
   attrs |-> <<"SourceFile">>, whole |-> FALSE, corrupt |-> FALSE]

Constructor == Meth("<init>", << Call("invokespecial", OBJECT, "<init>") >>)
Initialiser(body) == Meth("clinit", body)

(* The initialiser of Main.                                                *)
MainInits == { << >>, << Initialiser(<< >>) >>, << Initialiser(<< New1 >>) >>,
               << Initialiser(<< Call("invokestatic", "Main", "helper") >>) >>,
               << Initialiser(<< New1, Call("invokespecial", "A", "<init>") >>) >> }

(* What main does.                                                         *)
Mains == { << New1, Call("invokespecial", "A", "<init>"), Call("invokevirtual", "A", "m") >>,
           << Call("invokestatic", "A", "n"), Do("new", "B") >>,
           << Call("invokespecial", "A", "n"), Call("invokevirtual", "A", "n") >>,
           << New1, [Call("invokeinterface", "B", "n") EXCEPT !.of = "A"] >>,
           << Do("multianewarray", "[LA;"), Do("newarray", "[I"), Do("multianewarray", "[LB;"),
              Do("multianewarray", "[B"), Do("newarray", "[I"), Do("anewarray", "[LB;"),
              Do("multianewarray", "[LA;"), Do("new", "B") >>,
           << Do("anewarray", "[LB;"), Do("anewarray", "[B"), Do("instanceof", "[B"),
              Do("instanceof", "[LB;"), Do("anewarray", "[LB;"), Do("anewarray", "[LB;"),
              Do("anewarray", "A"), New1 >>,
           << New1, Do("instanceof", "A"), Do("instanceof", "[I"), Do("anewarray", "[J") >>,
           << Call("invokespecial", "A", "n"), Call("invokespecial", "A", "n"),
              Call("invokespecial", "A", "n"), Call("invokespecial", "A", "n"), Do("new", "B"),
              Call("invokespecial", "A", "n") >>,
           << Do("new", "B"), Call("invokevirtual", OBJECT, "hashCode") >> }

MainClass(super, main, inits) ==
  Class(super, << Meth("main", main), Meth("helper", << >>) >> \o inits)

AInits == { << >>, << Initialiser(<< >>) >>,
            << Initialiser(<< New1, Call("invokespecial", "A", "<init>") >>) >> }
AClass(super, inits) == Class(super, << Constructor, Meth("m", << >>) >> \o inits)
BClass(n) == Class(OBJECT, << n >>)
BMethods == { Meth("n", << >>), Branching(Meth("n", << >>)), Abstract(Meth("n", << >>)) }

Plain == [c \in {"Main", "A", "B"} |->
            CASE c = "Main" -> MainClass(OBJECT, << New1 >>, << >>)
              [] c = "A" -> AClass("B", << >>)
              [] c = "B" -> BClass(Meth("n", << >>))]

Structures ==
  { [Plain EXCEPT !["Main"] = MainClass(ms, main, mi), !["A"] = AClass(as, ai), !["B"] = BClass(n)] :
      ms \in {OBJECT, "A"}, main \in Mains, mi \in MainInits, as \in {OBJECT, "B"},
      ai \in AInits, n \in BMethods }

(* Files that differ from the rest in one way.                             *)
Layouts(file) ==
  LET last == Len(file.methods)
      Method1(i, F(_)) == [file EXCEPT !.methods[i] = F(@)]
  IN { [file EXCEPT !.whole = TRUE], [file EXCEPT !.corrupt = TRUE],
       [file EXCEPT !.attrs = << "SourceFile", "InnerClasses" >>],
       [file EXCEPT !.attrs = << "Signature", "SourceFile" >>],
       [file EXCEPT !.fields = << <<"Signature", "RuntimeVisibleAnnotations">> >>] }
     \cup UNION { { Method1(i, Branching), Method1(i, Debug), Method1(i, Catching),
                    Method1(i, Annotated) } : i \in {1, last} }

Variations ==
  UNION { { [p EXCEPT ![c] = f] : f \in Layouts(p[c]) \cup {NOFILE} } :
            c \in {"Main", "A", "B"},
            p \in { [Plain EXCEPT !["Main"] = MainClass(OBJECT, << New1 >>, mi)] : mi \in MainInits } }

(* A initialises Main: its superclass, which B extends or not.             *)
Inverted ==
  { [Plain EXCEPT !["Main"] = MainClass(ms, << New1 >>, mi), !["A"] = AClass("Main", << >>)] :
      ms \in {OBJECT, "B"}, mi \in MainInits }

MCClassPaths == Structures \cup Inverted \cup Variations
=============================================================================
