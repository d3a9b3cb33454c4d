# A formal model of FZScheme

FZScheme (`src/`, about 2 800 lines of C) is a Scheme interpreter: a reader, a
compiler to the instructions of an SECD machine, the machine, and a copying
garbage collector under all of them. This directory holds TLA+ models of its
parts, TLC configurations that check them on small instances, and TLAPS proofs
for every size of heap, of the lists and of the symbol table, for whatever is
typed and for every program the compiler emits.

## The system

One thread runs a read-compile-run loop; nothing is persisted. What makes the
program hard is that **any allocation may move every object**: `fzscm_alloc`
runs the collector when the semispace is full, and every C local, register,
list or array that holds an object pointer across an allocation must be known
to the collector or be corrected afterwards.

| Component | State | Operations | What must hold |
|---|---|---|---|
| Copying collector (`gc.c`, constructors in `object.c`) | two semispaces, `free_ptr`, the RootNode list | `fzscm_alloc`, `fzscm_gc` and its passes, `CHECK_OBJ_MOVING` | live data and its sharing survive, garbage does not, `to_space` is never overrun, a collection ends |
| Side lists (`doubly_linked_list.h`, `string_list.c`, `vector_list.c`, also in `env.c` and `compiler.c`) | a main and a marked list per kind of node | new, push, remove, mark, clear, splice | links agree, each node in one list, only unmarked nodes are freed |
| Compiler (`compiler.c`) and environments (`env.c`) | instruction chains, compile-time and run-time frames | `compile`, `location`, `get_lvar`, `set_lvar` | the code finds its operands and means what the expression means |
| Virtual machine (`vm.c`) | stack, environment, code, dump, registered locals | one case of `vm_run` per instruction | dump and stack balance, everything in use is a root, right answers |
| Primitives (`primitive.c`) | none | one function each | checks before use, no overflow, nothing unrooted |
| Symbol table (`symbol_table.c`, `hash.c`) | 4099 hash chains of symbol, value | intern, insert, get, collect roots | a map; a name has one symbol |
| Reader (`parse.c`) | the parser's root list, three locals per open list | `parse_obj`, `parse_objs` | the tree of the tokens, also when collections interrupt it; no root left on a dead local |
| Tokenizer (`tokenize.c`) | none | `tokenize`, `free_token` | the longest lexemes and what they denote, within the line |
| REPL (`repl.c`) | buffer, tokens read so far, parenthesis level | one line at a time | complete forms only, tokens freed once |
| Process set-up (`fzscheme.c`), printing (`object.c`) | flags | init, deinit, print | what is printed can be printed |

Interactions: the reader and the machine call constructors, constructors call
`fzscm_alloc`, which may call `fzscm_gc`. The collector calls back into the
symbol table, the machine (`vm_collect_roots`), environments and code for
roots, marks their nodes, and finally has the side lists free the rest. It
empties the RootNode list, so that a caller learns from `roots_is_empty()` that
a collection has happened.

There are no concurrent threads, messages or crashes to recover from. The hard
behaviours are re-entrancy (a collection inside any allocation), order (what is
registered, forwarded, marked and freed when), limits (a full semispace) and
the error paths that leave in the middle of a call. `PROJECT.json` lists them
one by one under "hazards".

## Modules

| Module | Models | Checked or proved by |
|---|---|---|
| `CopyingGC` | `fzscm_gc`, `fzscm_alloc`, constructors, what the interpreter holds across a collection | `gc_cells`, `gc_closures`, `gc_graph`; `CopyingGCProofs` |
| `ObjectGraph` | abstract: what the constructors promise, a graph of objects that collections only rename | implemented by `CopyingGC` |
| `NodeSets` | abstract: nodes of a kind as two disjoint sets | implemented by `NodeList` |
| `NodeList` | the doubly linked lists, pointer by pointer | `node_lists`; `NodeListProofs` |
| `Words` | integers from `-LongMax - 1` to `LongMax`, C division | through `Primitives`, `Tokenizer` |
| `Primitives` | the objects and the eighteen functions of `primitive.c`; which values `print_obj` can print | through `Calls` and `VM` |
| `Calls` | a list of arguments built as `INST_ARGS` does, and the call of a primitive on it; extends `Primitives` | `primitives`; `CallsProofs` |
| `Compiler` | `compile_expr` and `location`, as operators from data to code | through `MC_VM` |
| `Code` | the programs of a session as data, and what is true of the code that `compiler.c` emits; extends `Primitives` | its assumptions, evaluated by every run of `VM` |
| `VM` | `vm_run` with the registered roots and a collection in every allocation; extends `Code` | `vm_sessions` and three runs with counterexamples; `VMProofs` |
| `Tokenizer` | `tokenize`, as a function of the buffer | through `Repl`; `ReplProofs` |
| `Lexemes` | abstract: the lexical grammar of a line and what its lexemes denote | what `tokenize` is compared with in `Repl` |
| `Reader` | `parse_obj`, `parse_objs`, a collection in every allocation | through `Repl`; `ReaderProofs` |
| `Repl` | the loop of `repl`; extends `Lexemes` (and so `Tokenizer`) and `Reader` | `reader`, `reader_dots`; `ReplProofs` |
| `GlobalEnv` | abstract: a map from names to symbols and values | implemented by `SymbolTable` |
| `SymbolTable` | the hash chains | `symbol_table`; `SymbolTableProofs` |
| `Induction` | no part of the program: lemmas on induction, finite sets and counting | used by `CallsProofs`, `ReplProofs`, `ReaderProofs`, `VMProofs` |
| `MC_CopyingGC`, `MC_VM`, `MC_Primitives`, `MC_Repl`, `MC_SymbolTable` | instances and references: code nesting; sessions and an evaluator; heaps and arguments; inputs and the grammar of data; colliding names | |

A definition whose name has a suffix, such as `FwdMem_MarkFirst`, is a mutated
form of the definition without it. No specification uses one; each documents a
bug that a property is able to detect (PROJECT.json, "mutants").

### CopyingGC

*State.* An address counts objects, so `sizeof(Object)` is 1 and `Extent` is
the `extent` of `gc.c`. An object is a tag and the two words of the C union:
`FORWARD` overwrites the tag and the first word and leaves the second, as in C.
`cell` holds every object pointer outside the heap: global values, stack items
and C locals (`Global`), the reader's locals (`PSlot`), the arguments of an
environment frame, the constant of a code node. `elem` holds the arrays of
vectors. `nodes` is what the side lists hold, `marked` what was moved to the
marked lists. `roots` is the RootNode list.

*Actions.* One action is one iteration of one loop: `StartGC` (memset, flip,
global roots), `CollectNode` (a node of `env_collect_roots` or
`code_collect_roots`), `ForwardRoot` (an iteration of `forward_parser_roots` or
`forward_roots`, with both exits), `ScanCar`, `ScanCdr`, `ScanClosure`,
`ScanVector`, `ScanElem`, `ScanString`, `ScanLeaf` (the cases of
`forward_non_roots`), `FinishGC` (the four list collections and the clearing of
the RootNodes). A closure's nested `env_collect_roots`, `code_collect_roots`
and `forward_roots` suspend the scan, exactly as in the code. `Alloc` is the
rest of `fzscm_alloc` and of the constructor with its `CHECK_OBJ_MOVING`.

*Abstractions.* A pass over a list visits its elements in any order, where the
code has one order: every order is a superset. A slot registered by several
RootNodes is one element of `roots`: a second visit finds a reference into
`to_space` and changes nothing, or finds the semispace full and ends the
program, which the scan then does for the same reason. Integers and characters carry no
value. The vectors of an instance have one length, and a code node has one
constant. The client keeps everything it uses in a registered slot; what the
machine really registers is the subject of `VM`, and what the reader registers
that of `Reader`. `Live`, what the program can reach, is the least set that
contains what the roots refer to and is closed under reference. No error objects occur here,
for `VM` shows they are never live during a collection.

### ObjectGraph

What the callers of `fzscm_alloc` rely on: objects with identities, a constructor
that adds one, and a collection inside a constructor (`Collect`) that happens only
if there are `Extent` objects, drops those the program does not reach and gives the
others new identities, everything that refers to them included. It ends the
program only if all are reached. It has no semispace, no order of copying
and no forwarding pointer. `CopyingGC` refines it (`ImplementsGraph`): until
`FinishGC` the graph is the one the collection started from, seen through the
forwarding pointers (`Origin`, `View`). There it is renamed, and the
arguments of the constructor that waits follow as `CHECK_OBJ_MOVING` finds them.
The client may change what refers to what, but must not reach an object
that it did not reach before.

### NodeSets and NodeList

`NodeList` has the `prev` and `next` words of each node and of the two
sentinels, and the words of a freed node read `FREED`. `Mark` is remove and
push, `ClearStep` one turn of the loop in `_clear`, `Splice` the end of
`*_list_gc`. Its refinement mapping is what lies on the `next` chain from a sentinel, or from
the local `cur` while the main list is being freed: the least set that contains
the start and the successor of each of its nodes. `CopyingGC` uses
the abstraction: `nodes = main \cup marked`.

### Primitives

A primitive is an operator from the list of arguments, as `INST_ARGS` builds
it, to what happens: a value, a new object, an error object, a store into a
vector, the end of the program, or a crash. `VM` does it, with the collection
that a new object or an error object may need; `Calls` does it
alone, on any heap (`Families`) and with what a call leaves behind. A cell refers to
older objects only: no primitive writes a cell.
Arithmetic wraps at every partial result, as signed overflow does in the build
of the Makefile, which passes no optimization flag; a quotient that overflows
traps, as it does on x86. The recursion of `equal` is the function `walk`, whose
value for a cell is a function of the other cell. The loop of the code stops at `()`
only and so goes on behind an improper end; `equal_ends` does that too: it reads the
words of the end objects as the car and the cdr of a cell (`first_word`: a symbol's
name, a primitive's symbol, the list node of a string, vector or closure). So
`(equal? '(1 . "a") '(1 . "a"))`, which compares the nodes of the two strings, is
`#f`, `(equal? '(a b . c) '(a . 1))` is `#f` as well, and a crash is a null pointer
dereferenced. What this takes for granted: a number or a size read as a pointer is no
address of the program, the first word behind such a pointer into text, a node or
machine code is not the tag of a cell or a string, and the words an object does not
use are null, as the `calloc` and the `memset` of `gc.c` leave them. Messages are one value, and
of `print_obj` only whether it prints, dereferences a null pointer or never
returns is kept.

### Tokenizer, Reader and Repl

Characters are strings of one letter; `StreamsAssumption` says that two values,
`NUL` and `Unknown`, are kept apart from what can be typed. `tokenize` is a
recursive function of the position in `repl`'s buffer, `lex` being one round of
its loop. The buffer keeps the text of earlier lines behind the
NUL and unknown values where nothing was written; a scan that meets an unknown
value returns `Stray`, and the run ends in `undefined`. Blanks are the space and
the tab, and bytes above 127 are left out. Of a token, what the reader uses is
kept; an identifier is its text, for `SymbolTable` shows that a name has one
symbol. `Lexemes` says the same of a line without a scan: which words are
lexemes, where a line splits when each is as long as it can be, and the text or
the number that each denotes.

`Reader` is a stack of activations. Its heap does not move, since `CopyingGC`
shows what moving does; a collection keeps exactly what the registered locals
reach, and using an object it did not keep, or collecting while a node points
into an activation that has returned, is `undefined`. So is a collection that
meets `RPAREN_FOUND` in a cell (as in `((') 1)`), for `obj_is_in_gc_heap` does
not know that object and `FORWARD` overwrites it. There is one action per exit
of the two functions.

`Repl` reads lines of at most `BufSize - 1` characters, links tokens, counts
parentheses with `get_paren_level`, hands the form to the reader, clears the
parser roots, runs and frees. `Run` stands for compiling and running and for
everything in `VM`: it collects or not and ends the program or not. It is one step, so
it assumes that `vm_run` returns, which a program that loops does not: what is shown of
later lines is shown of lines after programs that end. Between two
forms the reader's heap is empty, because nothing of it is used again.

### GlobalEnv and SymbolTable

`SymbolTable` has the chains, `nameOf` for the string in each symbol object and
values that carry the semispace they are in, so that a value a collection has
missed has the wrong type. `Hash` is any function from names to numbers and
`Size` any number of buckets; `str_hash` and 4099 are one choice. `Register`
is one `REGISTER_PRIMITIVE` (two `intern_name` and an insert). The refinement
mapping reads a symbol and a value off the first entry that matches a name.

### Compiler and VM

The compiler works on the data the reader returns: each test on `car` and
`cdr` is the one of the code, `get_args_len` and `compile_list` have their own
view of a dotted call, and a `define` without a value is an application. An
`if`, `lambda` or `define` whose list ends in something other than `()` is
outside the model. Code is a sequence of instructions and the null continuation is the empty
sequence. `Compiler` keeps the code's treatment of a sub-expression that fails
to compile: some callers test for NULL and others link it. `Code` has what
there is to say of its result: how each instruction moves what is on the stack,
how many frames it counts on, which constants and code nodes it refers to. `VM` has the
registers, the dump, the frames, the heap and the RootNodes on the locals of
`INST_APP` and `INST_ARGS`. A collection is atomic here, it happens inside an
allocation that finds `MaxObj` objects, and it keeps what the roots of the code
reach. `Load` stands for reading and compiling a line: its constants and any
number of list cells that are garbage once compiled enter the heap, so that the
following program may collect at any of its allocations.

Four values of `status` end a behaviour: `exit` (shortage of memory), `crash`
(a null pointer is dereferenced), `undefined` (an object that no root held is
used after a collection, a vector keeps its fill's old address, or a collection
follows RootNodes on the locals of a `vm_run` that has returned). An
`undefined` state is not continued, since what follows depends on the
compiler and on the memory's old contents. `idle` with no input left is the
normal end.

The two locals of `INST_APP` are taken to occupy the same stack words at each
execution of the case, apart from those of `INST_ARGS`: a stale node sees the
current call's values. Frames and code are freed by number, as `CopyingGC` and
`NodeList` show in detail.

## Runs

The passing runs take every action; `MC_VM*`, the collector and the VM may stop
(exit, abort, end of input), as do the repl, the table after it was cleared and
a sequence of calls, hence `CHECK_DEADLOCK FALSE` there. `NodeList` is checked
for deadlock.

| Run | Bounds | Shows |
|---|---|---|
| `gc_cells` | 3 objects per semispace, one global slot, one reader's local | every graph of cells and integers, with sharing and cycles: types and `free_ptr` in range (`TypeOK`), no internal error, survivors are exactly the live objects, a shortage is reported only for a semispace full of live objects, a collection makes room, the tri-colour invariant |
| `gc_closures` | 2 objects, two frames, two code nodes (one nested in the other), a string | no environment, code or string is freed while reachable, none is kept that is not; every collection ends, also over closures whose frames refer back to them |
| `gc_graph` | 3 objects, a vector of two elements, one global slot | with cells and a vector that contain themselves or each other, each step of a collection preserves the graph, seen through the forwarding pointers, and `CopyingGC` implements `ObjectGraph`: so the survivors are again exactly what is live, and a constructor finds its arguments after they moved |
| `node_lists` | four nodes | links agree, no leak, `NodeList` implements `NodeSets` with its fairness |
| `reader` | buffer of 10, words of 5 bits; about 23 000 inputs: lists of five tokens, all lines of up to five characters of syntax, all of up to four with quotes, escapes, digits and signs, numerals of two and three digits, a line over the text of another, lines that overflow the buffer, a line after one on which the reader went wrong | tokens are the longest lexemes; the level, the links and the pointers between lines agree; a form is one datum; it is read as the grammar's tree whichever allocations collect; what the reader holds is never collected; the ways to undefined behaviour are exactly the known ones; tokens are freed once and leak in one known way, on a line that goes on with a form and closes more parentheses than are open or has a token behind the end of the form; every input is read to its end |
| `reader_dots` | the lists of five tokens | counterexample, see below |
| `primitives` | words of 3 bits; heaps of up to eight integers, of two leaves and three cells in every arrangement, with strings, symbols and vectors, and with a number, a string, a vector, a symbol and a primitive as the ends of lists; up to three arguments, two calls in a row on vectors | arithmetic is exact modulo the word, division rounds as C says; `equal?` answers `#t` only for the same tree, and `#f` for the same tree only if both values hold a list that ends in a string; crashes have the listed causes; a call that keeps what the error messages demand is not refused, and every other one is, but for `car` and `cdr` without an argument and a negative size of `make-vector`, whose tests are missing or have no effect, and which crash (`car` and `cdr` do not count their arguments, so they demand no number of them) |
| `symbol_table` | four names, two with the same hash, three in one bucket of two; one heap object, one primitive | one symbol per name, no null head read, no value missed by a collection, each symbol freed once, the chains implement the map |
| `vm_sessions` | 22 sessions of one to six lines, 9 objects | operands, dump balance, references valid, error objects never stored, answers as the reference evaluator in `MC_VM` gives them, every session ends |
| `vm_second_gc`, `vm_first_gc`, `vm_negative_size` | as `vm_sessions` | counterexamples, see below |

The bounds: three objects are the least with which a shared object, a cycle and
a chain whose tail is copied after its head all fit in one semispace, and with
which the semispace is full at each point of the scan. One root per kind
suffices because roots act on the heap one at a time. Two code nodes and two
frames give nesting, sharing between closures and a frame reached both from a
closure and from a register. Four list nodes give a first, a middle and a last
one in one list and a node in the other. In a session, 9 objects hold the
constants and leave from none to all of the rest to the garbage of reading, so
each allocation is the one that collects in some behaviour. Five tokens inside
a list hold every order of two dots, a quote, a nested list and a datum after
it; with ten places in the buffer a line of eleven characters is cut in the
middle of a string, a symbol or a list. Three bits hold every sign, both ends of
the range and every product that wraps. Three names in one bucket give a chain
with a first, a middle and a last entry.

### Fairness

The program is a single thread and its calls return only when they are done.
`CopyingGC` assumes weak fairness of `Collector` (a collection that has begun
goes on), `NodeList` of `Collect` (so does `*_list_gc`), `VM` of `Next` (the
machine does not halt between two instructions), `Repl` of `Next` (as long as
there is input and the program has not stopped, it goes on). Nothing is assumed of what the
client does or in which order.

### What the counterexamples say

* `vm_second_gc`: the comment in `repl.c:98-100` says that a second collection
  before the next `reset_gc_state()` is not permitted, but the test at
  `gc.c:259-262` is commented out.
* `vm_first_gc`: the same comment blames the second collection, but already the
  first may leave the machine with a stale reference: the fill of `make-vector`
  (`object.c:75-83`), the item that `INST_ARGS` popped (`vm.c:272`), the
  RootNodes that a closure call leaves behind (`vm.c:179`, `vm.c:191`).
* `vm_negative_size`: `make-vector` tests `size < 0` on an unsigned `size`
  (`primitive.c:196-197`), so `(make-vector -1)` crashes where an error message
  was meant.

* `reader_dots`: `parse_objs` means to refuse a list with a dot in the wrong
  place ("bad dot syntax", `parse.c:58`, `parse.c:68`), but a second dot starts
  the count of what follows again (`parse.c:37-39`): `(a . b . c)` is read as
  `(a . b)`, after the second word of the symbol `b` was written, and
  `(a . () . c)` writes the second word of the object NIL itself, on which
  every walk of a list relies.

`ResultsCorrect` allows a crash only where the evaluator finds an error in the
program, such as a missing argument or `()` as a sub-expression: the interpreter
reports some of those and dereferences a null pointer for the others
(PROJECT.json, hazards at `env.c:93` and `compiler.c:300`).

## Proofs

Eight modules prove, for all values of the constants that satisfy the
assumptions of the modules (a positive extent and vector length, names that are
distinct, at least one global slot; a positive number of buckets, a hash that is
a natural number; a buffer of at least two characters, inputs that hold neither
of the two special values; code and data as `Code` describes them, at least one
object in a semispace, a word of any size):

| Module | Theorems |
|---|---|
| `CopyingGCProofs` | `Typed`, `ChecksNeverFire`, `RoomAfterCollection`, `ScannedIsBlack`: `TypeOK`, `NoInternalError`, `CollectionMakesRoom`, `NoRefBehindScan`; `CollectionKeepsGraph`, `CollectionIsExact`, `ShortageOnlyWhenFull`: `GraphPreserved`, `SurvivorsExact`, `ShortageIsReal`; `CollectorImplementsGraph`: `ImplementsGraph`, the refinement of `ObjectGraph` |
| `NodeListProofs` | `ListTyped`, `LinksAlwaysAgree`, `NothingLeaks`: `TypeOK`, `LinksAgree`, `NoLeak`; `LinksImplementSets`: `Spec => Sets!Spec`, the refinement of `NodeSets` without its fairness |
| `SymbolTableProofs` | `TableTyped`, `SymbolsUnique`, `TableNeverCrashes`, `SymbolsFreedOnce`: `TypeOK`, `OneSymbolPerName`, `NoCrash`, `FreedOnce`; `ChainsImplementMap`: `ImplementsMap`, the refinement of `GlobalEnv` |
| `ReplProofs` | `TypesHold`, `PendingStaysOpen`, `FormStaysOneDatum`, `TokensStayLexemes`, `FreedStays`, `LeaksOneWay`: `TypeOK`, `PendingIsOpen`, `FormIsOneDatum`, `TokensAreLexemes`, `FreedUntouched`, `LeaksExplained` |
| `ReaderProofs` | `HeldStaysAlive`, `UndefinedOnlySo`, `ParensStayInside`: `HeldAlive`, `UndefinedExplained`, `ParenStaysInside` |
| `VMProofs` | `MachineTypes`, `ReferencesValid`, `ErrorsUnstored`, `OperandsThere`: `TypeOK`, `RefsValid`, `ErrorsNeverStored`, `Operands` |
| `CallsProofs` | `ErrorsAreRefusals`, `ArithmeticIsExact`, `EqualComparesTrees`, `CrashesOnlySo`: `ContractKept`, `ArithmeticExact`, `EqualIsStructural`, `CrashesExplained` |
| `Induction` | lemmas only |

Each rests on an inductive invariant, which has a theorem of its own:
`Invariance` (`IInv`), `GraphInvariance` (`GInv`), `MarkingInvariance` (`LInv`),
`LinksInductive`, `TableInvariant`, `FormInvariance` (`FormInv`),
`HeapInvariance` (`HeapInv`), `MachineInvariant` (`VMInv`),
`CallsInvariant` (`CallsInv`).

*Room and order in the collector.* `TypeOK` is not inductive: the steps that copy
the fields of a scanned object, unlike the root passes, do not test for room
before each copy. What bounds them is counting. `IInv` says that forwarding pointers sit
in the old semispace only and lead below `free_ptr`, and that there are as many of
them as objects in the new one (`Counts`). An object that is about to be copied
is not yet forwarded, so at most `Extent - 1` are, and the copy has room
(`CopyHasRoom`). `ScanBounded` relates `scan_ptr` and `free_ptr`: a collection
whose copies filled the semispace has an object left to scan, because the test
precedes each scanned object, and ends in the shortage error; this gives
`RoomAfterCollection`. `Shaped` ties the words of an object to its tag.
`Black` and `BlackRoots` say what has been forwarded in the middle of an object,
of a vector and of a root pass, which `NoRefBehindScan` alone does not. The
module has one lemma per group of actions, and `Forwarding` states once what
forwarding one reference preserves. TLC checked `IInv` on the instances of the
collector's runs before it was proved.

*The graph of the heap.* `GraphPreserved` looks at the heap through the
forwarding pointers, so a step preserves it if no two objects share a copy and no
reference leads to what was never written. `GInv` adds both: every object of
`to_space` is the copy of exactly one of `from_space` (`Paired`), and every
reference, of a slot, an object or an array, leads to an allocated object of the
one or the other (`Tight`). It also says that the arguments of the constructor
that waits are held by a slot (`RequestHeld`) and that what is marked is rooted or
was scanned (`Rooted`), so that nothing else refers to the old semispace when it
is given up.

*What survives.* `LInv` is the marking argument. What was scanned or marked
refers only to what is marked or still to be walked (`Marks`), and what was
copied, marked or is to be walked is live (`Precise`). With nothing left to scan or
walk the copies and the marked nodes are closed under reference and contain what the
roots refer to; `Live`, being least, is inside them, and by `Precise` equal to
them. When memory runs out the same invariant says that the semispace is full of
live objects.

*The graph as the callers see it.* In the middle of a collection the graph and the
heap have different addresses for the same object. `Where` leads from the first to
the second, and a reference and what the graph shows for it lead to the same place
(`NamedLeads`), so an object of the graph refers to another exactly if the one in the
heap does (`RefersShown`); with that, what is reached in the graph and in the heap is
the same, before, during and after a collection (`LiveShown`). A step of the
collector leaves the graph alone by `GraphPreserved`. `FinishGC` is the step of
`Collect`, with the forwarding pointers as the renaming: by `LInv` they are those of
the reached objects (`FinishLive`), they undo `Origin` for every reference that is
kept (`RenamedShown`), and what is kept refers to no old address
(`FinishClean`). The client reaches nothing it did not reach before because it uses
only what it holds (`ClientReaches`, `LiveGrows`).

*Links and sets of the lists.* `LinksAgree` is extended by what holds outside of
`alloc` and of the chain `_clear` has detached (`Detached`): no link of a list
leads to the node freed next except through `cur`. `NoLeak` is then inductive:
the chains are disjoint and together hold every allocated node. Inserting and
removing a node changes the least set of one chain by that node, and splicing
joins two; each is a lemma that shows the candidate closed and contained in every
closed set, and gives the step of `NodeSets` at once.

*The symbol table.* `OneSymbolPerName` says nothing of the chains, so
it is not inductive. The invariant adds that each entry sits in the bucket of
its name's hash and carries that hash (`Placed`), and that each symbol is in
exactly one entry. From this a name has a hit exactly when it has a symbol, and
then only one (`SymbolFound`, `OneHit`): the walk of a lookup, the walk of an
insert and the first of several hits are the same entry. `GrowsMaps`,
`StoresMaps` and their companions say what each way of changing a chain does to
the two maps of `GlobalEnv`, and the refinement has one lemma per operation.
`FreedOnce` follows from the same uniqueness: two occurrences of a symbol in
the chains would be two entries.

*Lines and forms.* The tokens of a form are a row: consecutive numbers, each
linked to the next, none freed. `FormInv` gives a row a level before each token
that starts at 0 and, while the form is pending, returns to 0 only after
quotes; it says the same of the line that was just tokenized, of the two joined,
and of a form handed to the reader that it is balanced. `Tokenized` shows that the
tokens of a line have the right shape and that the only way past the end of
the line is the backslash of `UndefinedExplained`, `LevelRow` that
`get_paren_level` computes the level of a row and stops where it says. That a
form is one datum (`WholeForm`) follows from the levels: they return to 0 at the
last token and before it only after quotes, so the least place where the first
datum can end is the end.

*Tokens and lexemes.* `tokenize` and `Split` are both functions from the
positions of a line, and `LineRead` compares them from the end of the line to
its start. At a position both skip a blank, or both refuse what is there, or
`tokenize` takes a token and `Split` a word of the same length that denotes it
(`PieceRead`, by the first character). The length needs that no longer word is a
lexeme: there is one lemma per kind that tells which words begin with what was
read and are lexemes (`NumberRead`, `IdentRead`, `PunctuationRead`, `StringRead`).
For a number, `strtoul` and the numeral of the grammar count alike from
digit to digit until the value is too large for the word, and then both stay too
large (`Counted`, `NumberHeld`). For a string, the scan for the closing quote
jumps over what follows a backslash; `EndFound` shows that it stops at the first
quote that is not escaped, and `SameText` that the characters the tokenizer
copies are those of the grammar, up to an escaped `0`. The scan leaves the line
only if the line ends in a backslash that escapes its NUL (`OverrunIs`), which is
a case of the exception the property names.

*Objects of the reader.* `HeapInv` says that the heap is finite and closed, and
that what is returned and what activations hold is in it, at each point of the
two functions. `ReachInside` shows that the rounds of `Reach` find
everything: a round that adds nothing is the last, and there are as many
rounds as objects. `UndefinedExplained` follows step by step: an allocation
whose arguments are rooted is sound unless one of the listed reasons is
there already.

*Parentheses and lists.* For `ParenStaysInside` the proof counts. At every step
of the reader the lists open on its stack are at least as many as the level of
the tokens read so far, and one more for a `RPAREN_FOUND` that was just
returned, and one more if the heap holds one (`Nest`). A form is balanced,
so when it has been read to its end the level is 0 and the stack is empty: neither
mark is there.

*Operands and activations.* `Operands` says what the next instruction finds; that
it will find it depends on what the instructions before it left and on what a
call gives back. `Code` assigns to each position of a code node its *shape*, the
kinds of what is on the stack there: a value, or the list that `INST_ARGS` made.
`Balanced` says that the shapes follow from each other and that code ends with one
value above what it began with. In `VMInv` a running machine has a chain of
activations `A`: the first is at the position of `pc` and its shape is that of
the stack (`Runs`, `Typed`), the next is where the first entry of the dump will
return to, with the shape it will find when the result has been pushed (`Link`),
and so on to a code node that ends with `INST_STOP` and an empty dump (`Chain`).
A branch of `INST_SEL` has the stack of its caller under it and pushes no stack
to the dump; a call starts with an empty one. While `INST_ARGS` runs, the stack is
the shape without the arguments already taken (`Holding`).

*References of the machine.* `Sound` describes heap, frames and constants
together: a reference leads to an object that is no error object (`Good`); a
frame's arguments are a list whose cells never form a cycle (`Grounded`), so that
`get_lvar` and `get_list_length` end and a primitive finds arguments where it looks
for them; and each frame has as many frames below it as the code that runs in it
will count (`dep`, `Enters`). A collection keeps a set that is closed under
`Reached` (`SurvivorsClosed` and what follows it): all of the above restricts to
such a set. The step that loses a reference leads to `undefined`; the invariant
has that case as a disjunct of its own (`Broken`), with no more than the two
properties that are then still to be shown. Each instruction has its lemma, and
those of the primitives go through the record that `apply` returns: what it refers
to was reachable from its arguments.

*What the machine proofs assume.* `CodesAssumption` and `ProgramsAssumption`
(module `Code`) speak of any set of code nodes: that their instructions refer to
code, constants and enclosing frames that exist, that shapes follow from each
other, and that the data of a line are integers and cells without a cycle in
their cdrs. They are what `compiler.c` and the reader produce; TLC evaluates them
on every run of `VM`, where the code nodes are those that `Compiler` emits for all
sessions. Code whose compilation failed half way satisfies them too: it stops
short of an end, which `CodeEnds` answers with the crash.

*Calls of the primitives.* `CallsInv` keeps the heap one of `Objects` and the
list of the arguments behind it. `Chain` says what the walk along the cdrs of
a list finds, `ChainExists` that a walk from any cell ends, because cells refer to
older ones, and `LengthIs` and `ArgumentsAre` what `get_list_length` and the walks
of the primitives make of it. For `ContractKept` each primitive's answer is then
compared with the arguments (`ContractFine`), and after the call with what is left of
them (`ContractStays`). For `ArithmeticExact` the partial results of the code
and those of the reference are congruent modulo `Modulus` at every argument
(`SamePoints`, `Sums`, `Products`, `Differences`); `Division` shows that the
quotient of `Words` is the one the C standard asks for, for each combination of
signs. After the call the list of the arguments is gone and a vector may have
changed, so both properties need that neither the numbers nor the tags they speak of
have (`ValueStays`).

*equal? and trees.* The answer of `equal` for two cells depends on cells with
smaller numbers on the left, so the table of its answers exists
(`WalkedExists`), and so does the table of the trees (`TreesExist`). Values with
the same tree are of the same kind and, if they are lists, of the same length
(`SameKind`, `SameLength`): the comparison of lengths, which `equal` makes before it
walks two lists, refuses no equal pair. By induction on the number of the left
cell, an answer that is no crash is that of the trees unless both values hold a list
that ends in a string (`WalkSame`): behind two improper ends `equal` answers `#t` for
the same end only, and `#f` for ends with the same tree only if they are two strings
(`EndsSame`), and ends within a part of a value are within the value (`TwinsUp`). An
answer that is a crash comes from two lists of the same improper length (`WalkCrash`).
The strings do not change, so the property can be seen after the call
(`KeptTwins`).

*Causes of a crash.* What is within a value is the least set closed under
`Inside`: a round that adds nothing is the last, and there are no more rounds than
objects (`RoundsClose`, `WithinIs`). What `print_obj` goes into is within
(`PartsInside`). If it goes deeper than there are objects it passes one object
twice (`PathMeets`, the pigeonhole principle); cells lead to older objects, so
there is a vector between, and that vector is within its own element
(`DeepHoldsItself`). A call that crashes changes no object that was there before
(`KeptCauses`), so the causes can still be seen after it.

*Induction.* The induction theorems of the library take an operator as a
parameter, which the installed provers cannot instantiate. `Induction` states
induction over the natural numbers, upward and downward, in terms of a set
(`NatInd`, `Downward`), proves that a recursive function whose value at a point
depends on smaller (or larger) points only is what its body says (`Defined`),
and counts finite sets. The proofs use them for the walks over tokens, characters,
arguments and reachable objects.

*Changed for the proofs.* `Live` and the chains of `NodeList` were recursive
operators and are now least sets. Recursive functions of `Repl` and `Reader` are
defined on exactly the numbers they are used for. `equal` was a recursive
operator and is now a recursive function, and so are the references of `Calls`,
which was a part of `MC_Primitives` and built lists with a recursive operator. `Words` has the largest integer as its
parameter instead of a number of bits, so that no power of two has to be defined.
`Code` was split from `VM` to state what its programs are. The lexical grammar and
the end of the first datum were recursive operators of `MC_Repl`; they are now
`Lexemes` and `Datum_`. The text of a string literal is defined by tests in the order of
the code, so that its value at a place depends on later places only.

Only model-checked: everything about liveness (`InputEnds`, the end of sessions
and of collections, the fairness of `NodeSets`), which the installed provers
cannot show, and the two properties that compare the code with a reference that is recursive
over data: `ReadsTree` in `MC_Repl`, `ResultsCorrect` in `MC_VM`. A
recursive operator keeps the provers from its module, and induction over
trees and expressions cannot be instantiated. Every other
invariant and action property of the passing runs has a theorem.

## Not modelled

* Text: error messages, what `print_obj`, `print_token` and `print_code` write,
  the debug output, the command line. `Printable` and the lexemes are the part of
  it on which something depends.
* `set_lvar` and `set_helper` have no caller.
* An `if`, `lambda` or `define` with an improper list: the compiler reads the
  representation of another object as a cell (hazard at `compiler.c:233`).
* The release of memory: `free_vm`, `free_d` (which reads a node it has just
  freed, hazard at `vm.c:95`) and `fzscm_deinit`, apart from tokens and symbols.
* Characters outside of ASCII and the blanks other than space and tab.

## Plan

Done: the collector, the lists, the machine and the compiler, the primitives,
the reader with the repl around it, the symbol table; the abstract specifications
of the heap, the lists and the table; proofs of every safety
property of the collector, the lists, the table, the machine, the primitives, the
reader and the repl that no recursive reference defines. In order of what
matters most, what is left:

1. That the code `Compiler` emits satisfies `CodesAssumption` for every datum: an
   induction over data, so TLC's for now.
2. The release of the machine (`free_vm`, `free_d`, `fzscm_deinit`).
