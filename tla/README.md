# Verification of czvm

czvm is a small Java virtual machine in C: it loads class files from a
directory, interprets their bytecode on one thread, and keeps its objects in a
slab allocator of its own. These TLA+ modules model the parts in which state is
shared, copied, relinked or counted; TLC checks them on small instances and
TLAPS proves the central invariants of the interpreter for every program, those
of the class loader and of `instanceof` for every class path, those of the
reference counts for any number of objects, fields and methods, those of
the allocator for any number of size classes, slots and allocations, and that
operands and locals are what Java says for all widths of the types.

## The system

| Component | State | Operations | Talks to |
|---|---|---|---|
| Start-up (`czvm.c`) | `jvmargs`, the root environment | `jvm_init`, `jvm_run`, `main` | loader, interpreter |
| Invocation and return (`interpreter.c`) | `vm_pc`, `cur_stack_frame`, `cur_interpreter_env`, `jvm_stack_depth`, one static frame per method, malloc'ed copies | the four invoke handlers, `return`, `interpreter_byte_code` | loader (on first use), object lists |
| Operand and arithmetic instructions | operands and locals of the current frame | one handler per opcode | - |
| Object creation, fields, object lists and counts | `ref_count`, `field_values`, the `list` of a frame, static `field_value` | `new`, the array instructions, `putstatic`, `putfield`, the two `remove_` functions | allocator |
| Allocator (`mem.c`) | 16 chunks with an empty and a used list each | `init_jvm_mem`, `mem_alloc` (sweep, merge, borrow) | reads `ref_count` |
| Class loading (`classloader.c`, `list.c`) | `class_list_head`, the parse cursor `mem_start`, superclass links | `jvm_load_class`, `parse_class_file`, `find_*` | interpreter (`<clinit>`), itself |
| Instanceof | - | subtype test over the class graph, loading on demand | loader |
| Descriptors (`get_arg_size`, `type.c`) | - | counting parameters, telling primitive types | invocation, fields |
| Decimal strings (`mymath.c`), log | - | string arithmetic, output | - |

There is one thread, so the hard behaviours are not interleavings of threads.
They are handlers that re-enter the interpreter (invocations, and class
initialisers that run in the middle of a handler), state that is shared where a
reader expects a copy (the static frames, their buffers, their object lists,
the parse cursor), lists that are relinked while they are walked (the sweep, the
merge), counts that are kept by hand, and limits nobody compares with (operand
stacks, C stack, empty lists). `PROJECT.json` lists them as hazards, each at its
line.

What makes each component correct:

* invocation: frame, constant pool and pc belong to one method at all times; a
  call and its return behave as push and pop on one stack of activations; the
  operands an instruction was verified to have are there; the program ends;
* allocator: the lists end and are disjoint, slots do not overlap, an object
  with a reference keeps its memory, and memory that can be lent is lent;
* object lists and counts: the count of an object says how many references
  hold it, and no list holds an entry that is freed;
* class loading: a class is linked and initialised once, and a nested load
  leaves the outer one undisturbed;
* instanceof: it is Java's subtype relation.

## The modules

| Module | What it is |
|---|---|
| `JvmStack` | abstract: one stack of activations; only the top one changes |
| `Frames` | detailed: static frames, copies, registers, the nested dispatch loops |
| `StackRefinement` | the refinement mapping from `Frames` to `JvmStack` |
| `MCFrames`, `MCRecursion` | program families for TLC |
| `FramesProofs`, `StackProofs` | proofs about `Frames`: the registers and the chain of frames; the refinement |
| `JvmOperands` | abstract: typed operands and locals, every instruction exact |
| `Operands` | detailed: slots of bytes, read and written by the macros, with what malloc and earlier values left in them |
| `TwosComplement` | integers of a fixed width, for both |
| `ClassLoader`, `MCClassLoader` | loads, initialisers and calls on one control stack, one parse cursor, one class list, descriptors that run out |
| `Paths` | what a loop over `next` pointers meets, for `Heap` and `SlabAllocator` |
| `SlabAllocator`, `MCSlab` | `mem.c`, pointer by pointer |
| `Heap` | objects, object lists and reference counts, across calls and returns |
| `InstanceOf`, `MCInstanceOf` | the instanceof instruction and the superclass links, against Java's subtypes |
| `HeapProofs` | proofs about `Heap`: its lists; what each handler does to the counts |
| `SlabProofs` | proofs about `SlabAllocator`: types; lists, memory and live objects up to the first wrong sweep or merge |
| `ClassLoaderProofs`, `InstanceOfProofs` | proofs about `ClassLoader` and `InstanceOf` |
| `OperandsProofs` | proofs about `Operands`: types, and the refinement of `JvmOperands` |
| `Foundations` | induction over numbers, recursion over intervals and walks along lists, for all proofs |

### Frames

A method has ONE static frame, made when its class is parsed
(`init_method_stack_frame`). An invoke handler copies the caller's frame struct
and environment, links the copies behind the callee's static frame and the
shared environment object, and overwrites the registers; `jvm_interp_return`
makes the COPY the current frame. Copies are never freed. The model numbers
them by the invocation that made them (`frame`, `env` are functions over
`Methods \cup 1..invokes`), and `buf` says whose operand and local buffers a
frame points to.

| Model | Code |
|---|---|
| `pc`, `cur`, `curEnv`, `depth` | `vm_pc.pc`, `cur_stack_frame`, `cur_interpreter_env`, `jvm_stack_depth` |
| `frame[x].off`, `.ret`, `.prev` | `operand_offset` (in items), `return_address`, `prev` |
| `env[e].cp`, `.prev` | `cp_info` (by its class), `prev` |
| `loops` | C activations of `interpreter_byte_code` |
| `locals[m]` | the content of `m`'s local buffer, tagged by the invocation that last wrote it |
| `Push` .. `IfEq`, `New` | handlers that stay in the method |
| `Invoke(m)` | `invokestatic`, `invokevirtual`, `invokespecial`, `invokeinterface`; `m` is the method found |
| `LazyClinit` | `jvm_load_class` inside a handler, up to `clinit_method` |
| `Return`, `Unwind` | `jvm_interp_return`; the end of each nested loop |
| `Start`, `StartWild`, `Exit` | `clinit_method` during `jvm_init`, `jvm_run`, the end of `main` |
| `Overrun`, `Underrun`, `StackOverflow`, `FetchNull`, `NullReceiver` | the ways the process stops early |

A program is data: `code[m]` gives the instructions of every method with the
operand height the class file was verified with. `WellFormed` says what a Java
compiler guarantees. Values are abstracted: a conditional branch goes either
way. The undefined contents of malloc'ed memory are choices in `Init`
(`Garbage` for `operand_offset`, `NULL` or `WILD` for the root environment's
`prev`). After a store or a push past a buffer the model stops (`overrun`,
`underrun`): what such a write hits is not modelled.

Programs are restricted to what the handlers implement: methods without result
(the value-returning instructions are empty handlers), forward branches (offsets
are read unsigned), none of the instructions whose handler forgets to push
(`aconst_null`, `iconst_m1`), and no `iload_0`, whose handler advances the pc twice
(`Operands` has it). Loading a class runs its own initialiser only: those of its
superclasses, and the loads by `instanceof` and the array instructions, are in
`ClassLoader`.

### Operands and JvmOperands

Every slot of a frame has room for a long. A macro is given a C type, and reads
or writes that many bytes; the others keep what was there. `Operands` has one
frame whose slots are integers below `LONG` (bytes count from the low end,
on a little-endian machine), and one action per instruction or family of
instructions that move operands in the same way. `types` and `localTypes` are
what the class file was verified with: they restrict which instruction may
come next and say how a slot is to be read in the refinement mapping, and no
handler reads them.

| Model | Code |
|---|---|
| `cur_stack_frame` | `operand_stacks`, `operand_offset` (in slots), `local_variables` |
| `Pushed`, `Popped`, `Stored`, `Loaded` | `push_operand_stack`, `pop_operand_stack`, `jvm_store_data`, `jvm_load_data` |
| `jump` | what a branch adds to `vm_pc.pc`, 0 when it adds the instruction's length |
| `Invoke(receiver, desc)` | `get_arg_size`, `get_invoke_args` and the loop over `set_local_table`, followed into the callee's frame |
| `GetStatic` .. `Instanceof` | the operands these instructions take and leave; what they do elsewhere is in `Heap`, `ClassLoader`, `InstanceOf` |
| `Unimplemented` | the 69 handlers that only advance `vm_pc`, and `dup_x1` |

A width is given by its number of values: 2^8, 2^16, 2^32 and 2^64 in the program. What the
handlers do depends on two properties of these numbers only, which `WidthAssumption` states: they are
even, and each is a larger multiple of the one before.

`JvmOperands` is written from the Java virtual machine specification. The
refinement `ImplementsJvm` says that every step of `Operands` is the step of
`JvmOperands` for the same instruction, as long as `status` is not `lost`. It
becomes `lost` in the step of a handler that is wrong on these operands, and
each such condition is spelled out in the handler's action: a negative
`bipush`, residue above a `sipush`, an `i2l` over residue, a backward jump that
is taken, a call with a short among its parameters or a long before the last
one, and so on. Everything else is right whatever the slots held before.
Floats and doubles are moved as ints and longs are; their values are not computed.
`operand_offset` starts at 0 here: what it is when a frame is entered again
is the subject of `Frames`.

### ClassLoader

`stack` is the C stack of loads and methods: a `parse` reads the methods of its
file one by one and starts `<clinit>` as soon as it has read it, a `link` goes
up the superclasses, a `run` executes those instructions of a method that load
classes or call. `cursor` says where the one `mem_start` is, relative to where
the innermost parser believes it to be: `aligned`; `shifted` and `junk` behind
attributes that were not read; `end` and `beyond` after a whole file, with zeros
up to the end of the page or nothing; `misread` once a length or an index has
been read from the wrong place, where the model stops. `path` is the class path,
chosen initially; `loaded` remembers that an instruction has already asked for
its class.

| Model | Code |
|---|---|
| `jvm_init`, `jvm_run` | the functions |
| `Begins` | `jvm_load_class` and `parse_class_file` up to the methods, with the entry in the class list |
| `parse_class_method`, `ExceptionTableFails` | one turn of `parse_class_methods` |
| `parse_class_attr` | the end of `parse_class_file` and of the directory |
| `LinkSuper`, `LinkEnd` | the loop over superclasses |
| `LoadClass`, `LoadPrimitive`, `LoadArray` | `jvm_load_class` for `new`, `newarray`, `anewarray`, `multianewarray` and `instanceof`, by the kind of name |
| `HasClass`, `WithoutClass`, `NewFails` | the rest of these five, with the class, or without it when no directory can be opened |
| `Invoke`, `InvokeLoads`, `InvokeNothing`, `InvokeUninitialised` | the lookups of the four invoke handlers |
| `Return` | `return`, at the end of methods and of initialisers |

Names of arrays are of two kinds: those `load_primitive_class` knows (`Primitives`),
which are listed, and the others (`Arrays`), whose CLASS is a copy of their element's
and is not listed, so that every instruction that names one loads it again. Neither load
closes its directory. What `instanceof` does with its classes is in `InstanceOf`; here it may
load any class, as an interface on its way, or follow a null pointer, because the files of this
module name no interfaces. `Supported` admits only programs
with neither arrays nor `instanceof`.

Undefined behaviour is a choice or an end: `_parse_class_method_ex_table` has
no `return` and its caller takes any nonzero register for a failure
(`ExceptionTableFails` may or may not happen); the parsers of field and class
attributes have none either, but their callers compare with -1 only, which the
build does not leave in the register; reading past the last page ends the
process or misreads; `klass->methods` before it is assigned is `wild`.

### SlabAllocator

The heap is a record of slots (by number), list heads, the signed byte counts
`empty_size` and `used_size`, and a `fault` field. The lists are followed through
`next` exactly as `mem.c` does: `Walk` stops at the end of a list, at a slot that
has been freed, or, on a cyclic list, where it would meet a slot again. `temp_slot` has
room for `MaxGroup` slots; a merge that fills it reads behind its end (`overread`), as
mem.c:202 does. With three classes no slot is made up of 256 smaller ones, so the
run has no such merge; the proofs have.
A slot knows the block it was cut from (`home`, `idx`) and the part of it
(`off`, `len`), so that overlap can be said. `Prepared(c)` is `mem_alloc` up to
the point where a slot is taken (sweep, merge, borrow), and `Alloc`,
`OutOfMemory` and `AllocFaults` are its three outcomes; `Release` is the
interpreter dropping the last reference. Sizes double from class to class, as
`slot_size_array` does, with the first entry as unit.

`tainted` is a history bit: a sweep has met two neighbouring dead slots
(mem.c:164 keeps the slot it has just moved as predecessor) or a merge has joined
slots that are not neighbours (mem.c:192 compares `slot_index_in_chunk` only).
What follows corrupts the lists, and the safety properties are stated up to
that point. The bit is never read by an action.

### Heap

One action per instruction that creates, stores, loads or releases a reference,
and `Invoke` and `Return` for what they do to the list of a frame. A handler works
on a record (`Memory`: objects, list entries, the current list, `fault`) and
`Commit` stores it, into the current frame and, unless that is a copy, into the
method's static frame (`entry`), because they are the same struct.

| Model | Code |
|---|---|
| `obj[s]` | the memory of slot `s`, read as `jvm_obj`; it keeps its contents when the slot is handed out again |
| `node` | the `jvm_stack_obj_list` entries that are malloc'ed now |
| `chain[i].list`, `entry[m]` | `list` of the frame an activation runs in; of `m`'s static frame |
| `statics`, `used` | `field_value`; the slots `mem_alloc` has handed out |
| `chain[i].held` | the references that operands and locals may hold (any of them may be used next) |
| `kind` | what a verified class file takes an object for; no handler reads it |
| `Record`, `TakeOff`, `DropList` | `add_object_to_cur_stack_list`, `remove_jvm_object_from_stack_list`, `remove_object_from_stack_list` |
| `Released`, `Kept` | the two halves of `putstatic` |
| `FirstField`, `NullField`, `OverwriteField`, `AnotherField` | the branches of `putfield` |

The code counts exactly only as long as a program avoids eight situations. The
history variable `slips` names them (`entry`, `reuse`, `field`, `children`,
`value`, `local`, `elements`, `short`; each is described at `Slips`), no action
reads it for what it does, and the safety properties are stated for `slips = {}`. Each one is a hazard
in `PROJECT.json` with its line. `mem_alloc` is reduced to what a handler sees of
it: fresh memory, or that of an object with count 0. Arrays are used at index 0.

### InstanceOf

`files` is an arbitrary class path (types extend and implement lower numbers),
`super` the links made so far. `Make` loads the class of a new object; `Instanceof`
answers one question and loads what it looks up. `Subtype` is the reference, written
from the language's rules. `interface_instanceof` has no `return` for a type without
interfaces; the build (`-O0`) leaves `interfaces_count`, 0, in the result register,
and the model takes that value. Asking about `java/lang/Object`, or comparing an
array of primitives with another array, loads a file that does not exist; the
process dies (`answer = "dead"`), and the properties are about the answers given.

An object has the class its header carries and the type it was made with, and for arrays the
two differ. `newarray` names a class itself (`newarray_class`): `[I` for boolean, byte,
short and int, `[L` for long; `anewarray` stores the class of the component; `multianewarray`
that of the array. `load_primitive_class` knows some element names only (`Known`):
`instanceof` of `[J` or `[Z` dies. `Apparent` is the type a header stands for, and
`ArrayByHeader` says of every array asked about an array type that, where no type names two
interfaces, the answer is Java's for that type: the array branch is right, and the headers are
what goes wrong. Two disagreements with the rules quoted at interpreter.c:2672 and 2674
follow: a `byte[]` is an instance of `int[]` (its header is that of int arrays, line 2412),
and an `A[][]` that `anewarray` made is an instance of `A[]` and not of `A[][]` (its header
carries `A[]`, line 2527).

| Model | Code |
|---|---|
| `Chain`, `Linked` | the loop over superclasses at the end of `jvm_load_class` |
| `InterfaceInstanceof`, `LookedUp` | `interface_instanceof`, and the classes it loads |
| `PlainInstanceof` | the branch for objects that are no array |
| `SamePrimitive`, `Comparable`, `ElementInstanceof` | the array branch |
| `NewArrays`, `ANewArrays`, `MultiArrays` | the headers `newarray`, `anewarray`, `multianewarray` give |

## The runs

| Run | Expectation | Shows |
|---|---|---|
| `frames` | pass | all programs with a `main` of up to 4 instructions, a constructor, a method both call, a `<clinit>` at start-up: coherent registers, no missing operands, depth counts frames, refinement of `JvmStack`, termination |
| `recursion` | pass | recursion, mutual recursion across classes, lazily initialised classes, `invokestatic` across classes, uninitialised offsets, a C stack that overflows |
| `offset` | violation | residue in `operand_offset` drives a push past `max_stack` |
| `locals` | violation | a recursive call overwrites its caller's locals |
| `operands` | pass | on slots with arbitrary residue, every instruction does what Java says to the typed operands and locals, up to the first of the instructions named as wrong |
| `class_loader` | pass | for 1816 class paths: complete classes after every load, uninitialised methods reached only from inside a load, no class listed twice but for inherited methods, an end or a named endless `new`, and clean runs of the programs `Supported` describes |
| `slab` | pass | disjoint lists, disjoint slots, live objects stay used, while untainted; no hang and no use of a freed slot before a taint |
| `borrow` | violation | the merge dereferences an empty smaller list although a larger chunk could lend |
| `heap` | pass | exact counts, valid list pointers and kept memory until the first slip |
| `recorded` | violation | `putfield` over a set field brings a recorded object to count 0 |
| `instanceof` | pass | no wrong yes on objects; Java's answer where no type names two interfaces, for arrays that of the type in the header; complete links |
| `interfaces` | violation | only the first interface of a type is compared |

Each violation run has an entry under `findings` with the line of the
repository it contradicts.

Bounds. `MainLength = 4` lets a `main` construct an object and call twice with
operands pending; the runs contain both `Return` cases, residue on a re-entered
frame and, in `recursion`, every fault action. `LoopLimit = 12` exceeds the calls
of any program of `frames`, so that only `recursion` (limit 5) overflows. `slab` uses
3 classes of 2 slots and 6 allocations: a class is exhausted after 2, merges
need a pair of smaller slots, lending splits into 2 and 4, and 6 allocations reach
a sweep of lent slots and both taints; 8 allocations (420 thousand states) give
the same results.

`heap` has 3 slots (an array takes 2), one static and two instance fields, two
methods, call depth 2 and 7 instructions: enough to move an object from a list to a
static field and on to another object's field across a call and a return, and to
reuse swept memory. `MaxSlipped` cuts behaviours 4 instructions in once they have
slipped, where the properties say nothing more. `instanceof` has all 46 class paths
of 3 types with up to 2 direct interfaces, classes of up to 2 dimensions (so that `anewarray`
makes arrays of up to 3), and any number of questions. Four primitive types are one of each kind: one
with its own class (int), one that is given another's and can be asked for (byte), and two that cannot,
with a class shared (boolean) or of their own (long).

`operands` scales char, short, int and long to 1, 2, 3 and 4 bits (2, 4, 8 and 16 values): each is
wider than the one before, has negative values and an overflow, and no handler
does anything at a particular bit, as the proof confirms. Two operands and a used local variable are
enough for residue to be left by one instruction and read by another; a
long there occupies a second local, and three locals hold the parameters of
every call with two operands. Malloc leaves all ones; zeros arise by pushing and
popping. Instructions with three operands (the stores into arrays) are left to
`Heap` and `Frames`. The view drops `instr`, `jump` and the unused locals, which no
action reads, and all of a state whose comparison is over.

`class_loader` has a main class, a class it uses and that class's superclass: the least
in which an initialiser loads a class whose superclass is being loaded, or
loads a class that the loop over superclasses would load next. The families
of class paths vary what initialisers and `main` do (`Structures`), the
inheritance upside down (`Inverted`), and the layout of one file at a time, absent and
corrupt included (`Variations`). Six descriptors are enough for three classes
(each file stays open, and its directory is open during the load), and too few
once loads of arrays, by any of the instructions that name one, or repeated loads leak more.

Fairness. `FairSpec` of `Frames` and `Spec` of `ClassLoader` assume weak fairness of
`Next` only: the interpreter and the loader are one thread that never blocks and
always goes on with the instruction at `vm_pc` or the next part of the file. A
terminated process of `Frames` stutters (`Stopped`), a `new` that is repeated for ever
in `ClassLoader` does (`NewFails`). The other runs state no liveness; `CHECK_DEADLOCK
FALSE` is for the bounds on allocations and instructions and for ends and
faults, after which the process does nothing more.

## The proofs

The theorems hold for every value of the constants that satisfies the named
assumptions of the module they are about, which TLC evaluates in the runs.

### Frames

`FramesProofs` proves, for all methods, classes, well-formed programs, boot
sequences and limits:

* `TypeCorrect`: `Spec => []TypeOK`;
* `RegistersCoherent`: `Spec => []CoherentRegisters`;
* `OperandsPresent`: `Spec => []NoUnderflow`.

They rest on `MethodAssumption`, `NameAssumption`, `LimitAssumption`, and
`ProgramAssumption` (every program is well-formed).

None of the three is inductive: what a return restores depends on what every
frame and environment of the chain holds. The invariant `IInv` therefore adds

* `Linked`: a copy's `prev` and an environment's `prev` point to older copies,
  and frames and environments of an activation move in step;
* `Suspended`: a copy made by an invocation points to the buffers of a method
  whose code has an invocation just before the return address, whose class is
  the environment's constant pool, and holds at least the operands that
  instruction leaves;
* `StaticFrames`: a static frame points to its own method's buffers;
* `ExecutionInv`: the registers agree, and the current frame has the operands the
  instruction was verified with.

`InitInv` and `NextInv` show it inductive. The second has a lemma per kind of
step: `LocalStep` (the instruction stays in the method), `HaltStep`, `EnterRoot` (start
and lazy initialisation), `InvokeStep` and `ReturnStep`. The key fact of the last one
is that a method the virtual machine starts (`Roots`) has no return address that
is followed as long as one executes: a class initialiser's frame was never
linked, so its return goes to NULL and the next step is a fault.

The second part of `FramesProofs` is about the chain that `prev` makes of the frames:

* `ChainBottom`: `Spec => []BottomIsRoot`;
* `DepthCounts`: `Spec /\ [][NoLazyClinit]_vars => []DepthCountsFrames`.

The links of ALL frames, reachable or not, form a forest (`Forest`: a copy links to an
older copy, a static frame to a copy), which makes the recursive `Walk` well
defined (`WalkUnfolds`); `InvokeChain`, `ReturnChain`, `RootChain` and `StartChain` say
what each step does to the chain. `BottomIsRoot`
needs `ChainInv`: besides the forest, the classes of what was started at depth 0
are loaded (so it is never entered again); the chain is no longer than the depth; and
the frame at its bottom belongs to the boot method in progress if the chain is as
long as the depth, otherwise to a root that was not started at depth 0.
`DepthCountsFrames` is false once a class initialiser has cut the chain, so its
theorem is about behaviours without a `LazyClinit` step; recursion is allowed.

`StackProofs` proves the refinement, step by step:

* `StackImplemented`: `Spec /\ [][NoLazyClinit]_vars /\ [][NoReentry]_vars =>
  ImplementsStack`.

The mapping reads the abstract stack off the chain. `CallStep`, `UncoverStep`, `AdvanceStep`,
`BootStep` and `QuietStep` show that an invocation is `Call`, a return `Return`, and so on.
A step writes into buffers that belong to a method, not to an activation, so the activations
below the top stay as they are only if no two of them belong to one method
(`DistinctInv`). Both hypotheses are what the code needs, not what the proof needs: the run
`locals` shows the refinement violated by a recursive call, and a lazy initialiser cuts the chain.
They are stated about steps, so the theorem also covers recursive programs up
to the first invocation of a method that is active. `Positions` and `Values` of the abstract
stack are any sets that contain the natural numbers.

### ClassLoader

`ClassLoaderProofs` proves, for every finite set of classes and every class path, about all
behaviours, however initialisers and loads nest:

* `TypeCorrect`: `Spec => []TypeOK`;
* `LoadedIsComplete`: `Spec => []CompleteOrLoading`;
* `ListedAtMostOnce`: `Spec => []ListedOnce`;
* `SupportedNeverFail`: `Spec => []SupportedRuns`;
* `StuckByLeak`: `Spec => []StuckNeedsLeak`;
* `WildIsEarly`: `Spec => [][WildOnlyWhileLoading]_vars`.

The invariant `IInv` relates the C stack to the class list: `Nested` (an activation
stands where it called what is above it), `Superclasses` (a `link` activation walks a
chain of listed entries), `Halfway` (an entry that is not complete is being loaded
further down the stack), `Complete` (an entry that is complete has linked superclasses
up to Object, or one of them is being loaded), `Counted` and `Spare` (there is a descriptor for
each class file opened; in a program that names no array a load of a class that is not
listed finds one free), and `Unique`. Each kind of step has a lemma that preserves all of them. They rest
on `PathAssumption` and the other assumptions of the module. `Linked`, the chain of
superclasses, is defined as membership in a closed set, which needs no
recursion.

`SupportedNeverFail` takes a second invariant, `Unfailing`, which supported programs
keep next to `IInv`:

* `Disciplined`: initialisers start only in the loads the process begins with. Above a running method
  there is no initialiser and no parse of a class that has one (`Early`), because those are
  listed before the first method runs (`Prepared`). What stands directly on a parse is of the same
  class, and the parse is behind its last method. On an initialiser nothing stands when
  initialisers have nothing to do (`Quiet`); otherwise the only one is the main class's, and what
  it calls and loads runs no other method of that class.
* `AtHand`: while anything is parsed the cursor is `aligned`, `shifted` or at an `end`, and it is
  `aligned` when the innermost parse has methods left to read, or is of a class that the main class's
  initialiser may have asked for. So a load out of an initialiser may leave the
  cursor in its own file only at the end, where the outer parse, which has read its last method, finds zeros.
* `Listing`: the main class is the first in the list, and no entry is a primitive.

The descriptors follow from `Counted`: each one open was opened for a class in the list or for a
directory of a parse under way, each class is in the list once, so two for each class are
enough (`Room`). Here the assumption is needed that there are finitely many classes.

### InstanceOf

`InstanceOfProofs` proves, for class paths of any size:

* `TypeCorrect`: `Spec => []TypeOK`;
* `ChainsLinked`: `Spec => []Linking`;
* `SoundOnObjects`: `Spec => []PlainSound`;
* `CompleteOnObjects`: `Spec => []PlainComplete`;
* `HeaderDecides`: `Spec => []ArrayByHeader`.

Its `IInv` is the conjunction of the five. A load leaves every class it touches linked to its
superclass, and its superclasses loaded (`Linking`); so the loop over superclasses meets exactly the
superclasses of the language. The loop over interfaces compares the first
interface of each type only: whatever it finds is a supertype (soundness), and
it finds all of them where no type names two.

### Heap

`HeapProofs` proves, for any slots, static and instance fields and methods, and any bounds:

* `TypeCorrect`: `Spec => []TypeOK`;
* `CountsStayExact`: `Spec => []CountsExact`;
* `PointersStayValid`: `Spec => []PointersValid`;
* `ReachableStaysKept`: `Spec => []ReachableKept`.

`CountsExact` alone is not inductive: whether a handler uncounts what it should
depends on the lists it walks and on what the objects look like. The invariant
`HeapInv` adds to the types, for states without a slip or a fault (`Clean`),

* `Exact`: each count is the sum of the list entries, static fields, elements of arrays in
  static fields and first fields of live objects that refer to the object;
* `Shaped`: a live object is an array with elements that are no array, or no array and its
  value no object, and only its first field holds an object, which is why `putstatic` follows
  exactly the two parts of an array;
* `KeepsElements` and `HeldAlive`: elements of live arrays and what active methods hold are alive;
* slots never handed out have count 0;
* `Lists`: every active method has a list of its own that ends in NULL, and no two share an entry.

The proof goes bottom up: what a walk meets (`ListIs`, `EndedIs`), what
`Record` and `Unlinked` do to a list and to the others (`RecordFacts`, `UnlinkedFacts`),
then that every handler yields a memory whatever has gone wrong (`TakeOffType`, `DropListType`, `ReleasedFacts`, `KeptType`), then what each does to the counts: `RecordExact`, `ReleasedExact`, `TakeOffExact`, `KeptExact` and `DropListExact` (a
return), each until a slip. One lemma per instruction (`NewHandled` to `StoreShortHandled`,
`InvokeInv`, `ReturnInv`) puts them together, and `HoldersCounted` and `FieldsCounted`
relate the sums of `Exact` to `References`.

The bounds of the run hide nothing here: the slip `elements` takes 4 slots and 9
instructions, more than the run explores; a reference count goes wrong there, and the proof
needs `KeepsElements` at every instruction that takes memory or moves an array.

### SlabAllocator

`SlabProofs` proves, for any number of size classes, slots per class, allocations and any length of
`temp_slot`:

* `TypeCorrect`: `Spec => []TypeOK`;
* `ListsApart`: `Spec => []ListsDisjoint`;
* `MemoryHandedOutOnce`: `Spec => []SlotsDisjoint`;
* `LiveObjectsKept`: `Spec => []LiveStaysUsed`;
* `FaultsExplained`: `Spec => []FaultsFollowTaint`.

The only assumption is `SizeAssumption`: the sizes double from class to class.

The types hold whatever a fault has done to the lists, so `TypeInv` supposes nothing about these; it
counts slots (`Counts`), because a split needs addresses that are not in use. For the rest, no
property is inductive alone, nor are all together: they say nothing of what a list looks like in the middle
of a sweep, nor of a slot that is in no list. The invariant is `Sound`: unless the heap is
tainted there is no hang and no use of a freed slot, and if there is no fault at all, there
are lists, one for each `Places` (class `c` has its empty list at `c` and its used list
at `-c`), that are `Whole`:

* `Shape`: the list of a place is the sequence of slots met from its head to NULL, without
  repetition, all of the length of the class (`ListAt`), and no slot is in two of them (`Apart`);
* `Fit`: every slot lies in its block, and no two overlap;
* `Kept`: every object with a reference has a slot in a used list.

`Sound` holds between any two stages of `mem_alloc`, not between calls only: `PreparedSound` composes
`SweepWhole`, `MergeSound` and `BorrowedSound`, and `TakenWhole` adds what `Alloc` does.

* The sweep: `TurnWhole` has a list `w` and the position of `pre` in it. As long as no
  dead slot follows a dead one, `pre` is still where the list has it, so a turn takes one slot out of
  the used list (`CuttingWhole`, `Unlinking`) and puts it into the empty one (`MovedWhole`). A slot that is
  taken is dead, so nothing live is lost.
* The merge: `Group` picks slots in the order of the list (`Grouping`). `remove_slot` forgets everything
  before the slot it removes; the slots still to be removed come later (`LaterNext`), so they are
  still in the list (`ThinningOn`), and what is lost is lost to lists that need not be complete. Slots that
  are neighbours form a row (`NeighboursRow`), which the one that grows covers exactly (`GrownFit`).
* The split: the pieces cover the slot that is split (`PiecesFit`), and fit since sizes are multiples of
  each other (`Multiples`).

`tainted` is what the code needs, not what the proof needs: it is set in the very step in which a
sweep keeps a slot it has moved as predecessor, or a merge joins slots that are not neighbours. An empty
smaller list makes the merge follow NULL; that is a fault (`segv`), but not a broken list.

### Operands

`OperandsProofs` proves, for all widths, all numbers of operands and locals, and whatever malloc
and the fields hold:

* `TypeCorrect`: `Spec => []TypeOK`;
* `JvmImplemented`: `Spec => ImplementsJvm`.

They rest on `WidthAssumption`, `FrameAssumption` and `WordAssumption` (residue, fields and addresses are
words). `TypeOK` is inductive, and it is all the refinement needs: what a slot holds above
the bytes of its type is arbitrary, so there is no invariant about residue to state. The proof
is about what the handlers write and read instead, from the bottom up.

* Numbers: `UnsignedTwice` and `SignedSame` say that cutting to a larger type first changes nothing, `WriteFacts`
  that a write changes its type's bytes and leaves the others, and `WriteValue` that a value is read
  back as it was written, over any residue; `WriteNarrow` is the one case in which a type
  wider than the one written is read.
* Frames: `PopMoves` and `PushMoves` describe each macro by the words of the frame. `Moved(f, n, g, nw)` says
  that `g` has the words `nw` where `f` has its `n` top operands, and that nothing else differs.
* Meaning: `StackOf` reads a frame as the refinement mapping does, and `Regrouped` shows that whoever exchanges words
  for words that mean `vs` (`Means`) exchanges the operands for `vs`.
* Instructions: `StepExchanges`, `StepReplaces` and `StepPushes` turn this into a step of `JvmOperands`, and a lemma
  per instruction (`BipushStep` to `InvokeStep`) shows that its condition for being faithful is sufficient.
  `NextFacts` collects them.

An invocation is the longest: the handler counts the arguments itself (`ArgSizeFacts`), takes as many words off
and gives them to local variables 0, 1, and so on. That is right if no argument is a
short and each takes the variable behind the one before (`ParametrisedIs`, `NewFrame`).

### Induction

The induction theorems of the library take an operator as a parameter, and cannot be used here.
`Foundations` states the same in first-order form: a set that contains a number whenever it
contains all smaller ones contains every number (`Induction`), and a step function that looks
at smaller arguments only has a function that satisfies the recursion on `0 .. n` (`Recursion`), or
one for every collection of cases (`Collection`). With these, what the recursive functions of
`Frames`, `InstanceOf`, `Heap` (paths along a list) and `SlabAllocator` (the sweep, the slots a merge
picks and removes) compute is proved for all inputs.

### Left to TLC

`Halts` of `Frames` and of `ClassLoader`, which is liveness under fairness. Every other property of a
passing run is a theorem.

## The plan

In order:

1. `VM`: `Frames` composed with `Heap` and `SlabAllocator`: `new` when memory is
   exhausted, operands and object lists in one frame.
2. `multianewarray`, whose arrays bypass allocator and counts, and array indexes
   above 0 in `Heap`.

## Not modelled

* The constant pool (`parse_constant_*`): a translation of bytes into records;
  in `ClassLoader` it is one step that succeeds or fails.
* `find_class_field`: a search without effects. A field whose class is not
  loaded is skipped by `getstatic`, which then pushes nothing; programs that do
  this are outside `Frames` and `Operands`.
* `mymath.c`: decimal strings, which no handler calls.
* The log and the command line: input and output only.
* Allocations above the largest slot size: `mem.c:124` leaves the index one past
  `chunk_array`, and what is read there is undefined.
* The values of floats and doubles. The stores into float and double arrays go
  through a long and lose the fraction.
* What a store past a buffer hits.
