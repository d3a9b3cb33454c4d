------------------------------ MODULE CopyingGC ------------------------------
(***************************************************************************)
(* The copying collector of gc.c, with the object constructors of          *)
(* object.c that allocate from it and the part of the interpreter that     *)
(* holds references across a collection.                                   *)
(*                                                                         *)
(* An address counts objects: sizeof(Object) is 1, the two semispaces are  *)
(* 0..Extent-1 and Extent..2*Extent-1.  An object is a tag and the two     *)
(* words of the C union (a: car, code_node, str_node, vec_node or the      *)
(* forwarding address; b: cdr or env_node).  Everything outside the heap   *)
(* that holds a reference is a slot; the side lists of strings, vectors,   *)
(* environments and code are one set of nodes (module NodeList models      *)
(* their links).                                                           *)
(*                                                                         *)
(* One action is one iteration of one loop of the collector.  The client   *)
(* keeps what it holds in registered slots; module VM models what the      *)
(* virtual machine really registers.                                       *)
(*                                                                         *)
(* Definitions with a suffix (FwdMem_MarkFirst) are mutated forms: bugs    *)
(* the properties are shown to detect, used by no specification.           *)
(***************************************************************************)
EXTENDS Integers, FiniteSets

CONSTANTS
  Extent,   \* objects per semispace
  NIL,      \* the empty list, a static object of tag CELL
  UNDEF,    \* the static undefined object
  Atom,     \* static booleans and primitives, and symbols (never in the heap)
  NULL,     \* the C null pointer
  Global,   \* slots registered one by one: global values, VM stack, C locals
  PSlot,    \* C locals registered in the parser's root list
  Env,      \* environment nodes
  Code,     \* code nodes
  Str,      \* string nodes
  Vec,      \* vector nodes
  VecLen,   \* elements of a vector
  LeafTag,  \* tags of the objects without references the client makes
  SubCode   \* the code nodes the instructions of a code node refer to

Addr == 0 .. 2 * Extent - 1
Static == Atom \cup {NIL, UNDEF}
Node == Env \cup Code \cup Str \cup Vec
Slot == Global \cup PSlot \cup Env \cup Code
Value == Addr \cup Static \cup {NULL}
Tag == {"UNDEF", "CELL", "CLOSURE", "INTEGER", "STRING", "VECTOR", "MOVED"}
Object == [tag : Tag, a : Value \cup Node, b : Value \cup Node]
NoElems == [i \in 1 .. VecLen |-> UNDEF]
Zeroed == [tag |-> "UNDEF", a |-> NULL, b |-> NULL]

ASSUME ExtentAssumption == Extent \in Nat \ {0}
ASSUME VecLenAssumption == VecLen \in Nat \ {0}
ASSUME LeafTagAssumption == LeafTag \subseteq {"INTEGER", "STRING", "VECTOR"}
ASSUME SubCodeAssumption == SubCode \in [Code -> SUBSET Code]
ASSUME GlobalAssumption == Global # {}
ASSUME NamesAssumption ==
  /\ NULL \notin Addr \cup Static \cup Node
  /\ Addr \cap (Static \cup Node) = {}
  /\ Static \cap Node = {}
  /\ (Global \cup PSlot) \cap Node = {}
  /\ Global \cap PSlot = {}
  /\ Env \cap Code = {} /\ Str \cap Vec = {}
  /\ (Env \cup Code) \cap (Str \cup Vec) = {}

VARIABLES
  to_space,   \* base of the semispace objects are allocated in
  free_ptr,   \* next free object of to_space
  scan_ptr,   \* next object forward_non_roots scans
  fld,        \* progress within the scanned object
  mem,        \* both semispaces
  cell,       \* what each slot holds
  elem,       \* the arrays of the vector nodes
  enext,      \* Env.next
  nodes,      \* allocated nodes: what is linked in the main node lists
  marked,     \* nodes moved to the marked lists during a collection
  roots,      \* the RootNode list
  todo,       \* slots the current pass over a root list has still to visit
  walk,       \* nodes env_collect_roots and code_collect_roots still visit
  vmNodes,    \* nodes in the VM's registers and in its dump
  req,        \* the constructor call being served
  pc          \* where the program is

heapVars == <<to_space, free_ptr, mem>>
nodeVars == <<elem, enext, nodes, vmNodes>>
vars == <<to_space, free_ptr, scan_ptr, fld, mem, cell, elem, enext, nodes,
          marked, roots, todo, walk, vmNodes, req, pc>>

Phase == {"mutator", "alloc", "vm_collect", "parser_roots", "roots", "scan",
          "closure_collect", "retry", "exit", "abort"}
Idle == CHOOSE s \in Global : TRUE
NoRequest == [tag |-> "INTEGER", a |-> NULL, b |-> NULL, dst |-> Idle]
Request == [tag : {"CELL", "CLOSURE", "INTEGER", "STRING", "VECTOR"},
            a : Value \cup Node, b : Value \cup Node, dst : Global \cup PSlot]

TOP_PTR == to_space + Extent
from_space == IF to_space = 0 THEN Extent ELSE 0
ToSpace == to_space .. TOP_PTR - 1
FromSpace == from_space .. from_space + Extent - 1
Allocated == to_space .. free_ptr - 1

-----------------------------------------------------------------------------
(* Tests and the forwarding of one reference (FORWARD and the code around  *)
(* it, the same at every site of gc.c).                                    *)

TOSPACE_CONTAINS(v) == v \in ToSpace
obj_is_in_gc_heap(v) == v \notin Static \cup {NULL}
Moved(v) == v \in Addr /\ mem[v].tag = "MOVED"
Full_TwoObjects == free_ptr + 2 > TOP_PTR
Full == free_ptr + 1 > TOP_PTR

Copies_Again(v) == obj_is_in_gc_heap(v) /\ ~TOSPACE_CONTAINS(v)
Copies(v) == obj_is_in_gc_heap(v) /\ ~TOSPACE_CONTAINS(v) /\ ~Moved(v)
MovedTwice(v) == Moved(v) /\ Moved(mem[v].a)

FwdMem_MarkFirst(v) ==
  IF Copies(v)
  THEN LET moved == [tag |-> "MOVED", a |-> free_ptr, b |-> mem[v].b]
       IN [mem EXCEPT ![free_ptr] = moved, ![v] = moved]
  ELSE mem
FwdMem(v) ==
  IF Copies(v)
  THEN [mem EXCEPT ![free_ptr] = mem[v],
                   ![v] = [tag |-> "MOVED", a |-> free_ptr, b |-> mem[v].b]]
  ELSE mem
FwdFree(v) == IF Copies(v) THEN free_ptr + 1 ELSE free_ptr
FwdRef_NotMoved(v) == IF Copies(v) THEN free_ptr ELSE v
FwdRef(v) ==
  IF Copies(v) THEN free_ptr
  ELSE IF Moved(v) /\ ~TOSPACE_CONTAINS(v) THEN mem[v].a ELSE v

-----------------------------------------------------------------------------
Init ==
  /\ to_space = 0 /\ free_ptr = 0 /\ scan_ptr = 0 /\ fld = 0
  /\ mem = [x \in Addr |-> Zeroed]
  /\ cell = [s \in Slot |-> NULL]
  /\ elem = [n \in Vec |-> NoElems]
  /\ enext = [e \in Env |-> NULL]
  /\ nodes = {} /\ marked = {} /\ vmNodes = {}
  /\ roots = {} /\ todo = {} /\ walk = {}
  /\ req = NoRequest
  /\ pc = "mutator"

-----------------------------------------------------------------------------
(* The client: what the reader, the compiler and the VM do between two     *)
(* allocations.                                                            *)

Held == {cell[s] : s \in Global \cup PSlot} \ {NULL}
HeldOf(tag) == {v \in Held \cap Addr : mem[v].tag = tag}
gcIdle == <<to_space, free_ptr, scan_ptr, fld, mem, marked, roots, todo, walk>>

(* A constructor is called; its arguments are references the caller holds. *)
RequestCell(x, y, d) ==
  /\ pc = "mutator" /\ pc' = "alloc"
  /\ req' = [tag |-> "CELL", a |-> x, b |-> y, dst |-> d]
  /\ UNCHANGED <<gcIdle, cell, nodeVars>>

RequestLeaf(tag, d) ==
  /\ pc = "mutator" /\ pc' = "alloc"
  /\ tag = "STRING" => Str \ nodes # {}
  /\ tag = "VECTOR" => Vec \ nodes # {}
  /\ req' = [tag |-> tag, a |-> NULL, b |-> NULL, dst |-> d]
  /\ UNCHANGED <<gcIdle, cell, nodeVars>>

(* INST_LDF: a closure of a nested code node and the current environment.  *)
RequestClosure(c, e, d) ==
  /\ pc = "mutator" /\ pc' = "alloc"
  /\ e \in vmNodes
  /\ \E c0 \in Code \cap vmNodes : c \in SubCode[c0]
  /\ req' = [tag |-> "CLOSURE", a |-> c, b |-> e, dst |-> d]
  /\ UNCHANGED <<gcIdle, cell, nodeVars>>

(* s_pop, or the removal of a local from a root list. *)
Drop(s) ==
  /\ pc = "mutator"
  /\ cell' = [cell EXCEPT ![s] = NULL]
  /\ UNCHANGED <<gcIdle, nodeVars, req, pc>>

(* prim_vector_set *)
VectorSet(v, i, x) ==
  /\ pc = "mutator"
  /\ elem' = [elem EXCEPT ![mem[v].a][i] = x]
  /\ UNCHANGED <<gcIdle, cell, enext, nodes, vmNodes, req, pc>>

(* compile and new_vm: code nodes T over the constant x, a fresh top frame. *)
LoadCode(c, T, e, x) ==
  /\ pc = "mutator"
  /\ c \in T /\ T \cap nodes = {} /\ e \notin nodes
  /\ \A y \in T : SubCode[y] \subseteq T
  /\ \A y \in T \ {c} : \E z \in T : y \in SubCode[z]
  /\ cell' = [s \in Slot |-> IF s \in T THEN x ELSE IF s = e THEN NIL ELSE cell[s]]
  /\ enext' = [enext EXCEPT ![e] = NULL]
  /\ nodes' = nodes \cup T \cup {e}
  /\ vmNodes' = vmNodes \cup {c, e}
  /\ UNCHANGED <<gcIdle, elem, req, pc>>

(* INST_APP of the closure v: a new frame e over the closure's environment. *)
Enter(v, e, x) ==
  /\ pc = "mutator"
  /\ e \notin nodes
  /\ cell' = [cell EXCEPT ![e] = x]
  /\ enext' = [enext EXCEPT ![e] = mem[v].b]
  /\ nodes' = nodes \cup {e}
  /\ vmNodes' = vmNodes \cup {e, mem[v].a}
  /\ UNCHANGED <<gcIdle, elem, req, pc>>

(* INST_RTN, INST_JOIN, INST_STOP and free_vm: a register is given up. *)
Leave(n) ==
  /\ pc = "mutator"
  /\ n \in vmNodes
  /\ vmNodes' = vmNodes \ {n}
  /\ UNCHANGED <<gcIdle, cell, elem, enext, nodes, req, pc>>

-----------------------------------------------------------------------------
(* fzscm_alloc and the constructors of object.c.                           *)

CheckMoving_Stale(v) == v
(* CHECK_OBJ_MOVING *)
CheckMoving(v) == IF Moved(v) THEN mem[v].a ELSE v

(* free_ptr is taken, the object filled in and the result kept in req.dst. *)
Place(a, b) ==
  /\ mem' = [mem EXCEPT ![free_ptr] = [tag |-> req.tag, a |-> a, b |-> b]]
  /\ free_ptr' = free_ptr + 1
  /\ cell' = [cell EXCEPT ![req.dst] = free_ptr]
  /\ pc' = "mutator"
  /\ req' = NoRequest
  /\ UNCHANGED <<to_space, scan_ptr, fld, enext, marked, roots, todo, walk, vmNodes>>

(* The constructor goes on with the free object, or "memory error: shortage *)
(* of memory" ends the program after a collection that made no room.        *)
Alloc ==
  /\ pc \in {"alloc", "retry"}
  /\ \/ /\ pc = "retry" /\ Full
        /\ pc' = "exit"
        /\ UNCHANGED <<gcIdle, cell, nodeVars, req>>
     \/ /\ ~Full
        /\ req.tag = "CELL"
        /\ Place(CheckMoving(req.a), CheckMoving(req.b))
        /\ UNCHANGED <<elem, nodes>>
     \/ /\ ~Full
        /\ req.tag \in {"CLOSURE", "INTEGER"}
        /\ Place(req.a, req.b)
        /\ UNCHANGED <<elem, nodes>>
     \/ \E n \in Str \ nodes :
          /\ ~Full
          /\ req.tag = "STRING"
          /\ Place(n, NULL)
          /\ nodes' = nodes \cup {n}
          /\ UNCHANGED elem
     \/ \E n \in Vec \ nodes :
          /\ ~Full
          /\ req.tag = "VECTOR"
          /\ Place(n, NULL)
          /\ nodes' = nodes \cup {n}
          /\ elem' = [elem EXCEPT ![n] = NoElems]

-----------------------------------------------------------------------------
(* fzscm_gc                                                                *)

(* global_env_collect_roots and stack_collect_roots; a NULL slot is none.   *)
GlobalRoots_None == {}
GlobalRoots == {g \in Global : cell[g] # NULL}

(* memset, flip, global_env_collect_roots; vm_collect_roots begins. *)
StartGC ==
  /\ pc = "alloc" /\ Full
  /\ pc' = "vm_collect"
  /\ mem' = [x \in Addr |-> IF x \in FromSpace THEN Zeroed ELSE mem[x]]
  /\ to_space' = from_space
  /\ free_ptr' = from_space
  /\ scan_ptr' = from_space
  /\ roots' = roots \cup GlobalRoots
  /\ walk' = vmNodes
  /\ UNCHANGED <<fld, cell, nodeVars, marked, todo, req>>

NodeSucc(n) == IF n \in Env THEN {enext[n]} \ {NULL} ELSE SubCode[n]

(* One node of env_collect_roots or code_collect_roots. *)
CollectNode(n) ==
  /\ pc \in {"vm_collect", "closure_collect"}
  /\ n \in walk
  /\ marked' = marked \cup {n}
  /\ roots' = roots \cup {n}
  /\ walk' = (walk \ {n}) \cup NodeSucc(n)
  /\ UNCHANGED <<heapVars, scan_ptr, fld, cell, nodeVars, todo, req, pc>>

CollectDone_NoForward ==
  /\ walk = {}
  /\ \/ /\ pc = "vm_collect" /\ pc' = "parser_roots"
        /\ todo' = {p \in PSlot : cell[p] # NULL}
     \/ /\ pc = "closure_collect" /\ pc' = "scan"
        /\ UNCHANGED todo
  /\ UNCHANGED <<heapVars, scan_ptr, fld, cell, nodeVars, marked, roots, walk, req>>
(* The next pass begins: forward_parser_roots after vm_collect_roots,      *)
(* forward_roots after a closure's roots were collected.                   *)
CollectDone ==
  /\ walk = {}
  /\ \/ /\ pc = "vm_collect" /\ pc' = "parser_roots"
        /\ todo' = {p \in PSlot : cell[p] # NULL}
     \/ /\ pc = "closure_collect" /\ pc' = "roots"
        /\ todo' = roots
  /\ UNCHANGED <<heapVars, scan_ptr, fld, cell, nodeVars, marked, roots, walk, req>>

(* One iteration of forward_parser_roots or forward_roots. *)
ForwardRoot(s) ==
  /\ pc \in {"parser_roots", "roots"}
  /\ s \in todo
  /\ LET v == cell[s] IN
     \/ /\ obj_is_in_gc_heap(v) /\ Full
        /\ pc' = "exit"
        /\ UNCHANGED <<mem, free_ptr, cell, todo>>
     \/ /\ obj_is_in_gc_heap(v) /\ ~Full
        /\ Moved(v) /\ (TOSPACE_CONTAINS(v) \/ Moved(mem[v].a))
        /\ pc' = "abort"
        /\ UNCHANGED <<mem, free_ptr, cell, todo>>
     \/ /\ obj_is_in_gc_heap(v) => ~Full
        /\ ~(Moved(v) /\ (TOSPACE_CONTAINS(v) \/ Moved(mem[v].a)))
        /\ mem' = FwdMem(v)
        /\ free_ptr' = FwdFree(v)
        /\ cell' = [cell EXCEPT ![s] = FwdRef(v)]
        /\ todo' = todo \ {s}
        /\ UNCHANGED pc
  /\ UNCHANGED <<to_space, scan_ptr, fld, nodeVars, marked, roots, walk, req>>

(* The end of a pass; scanning starts, or goes on after a closure. *)
RootsDone ==
  /\ todo = {}
  /\ \/ /\ pc = "parser_roots" /\ pc' = "roots"
        /\ todo' = roots
     \/ /\ pc = "roots" /\ pc' = "scan"
        /\ UNCHANGED todo
  /\ UNCHANGED <<heapVars, scan_ptr, fld, cell, nodeVars, marked, roots, walk, req>>

(* forward_non_roots: the object at scan_ptr, one field at a time.         *)
OutOfRoom_TopReached == fld = 0 /\ free_ptr > TOP_PTR
OutOfRoom == fld = 0 /\ Full
Scanning(tag, f) ==
  /\ pc = "scan" /\ scan_ptr < free_ptr
  /\ ~OutOfRoom
  /\ fld = f
  /\ mem[scan_ptr].tag = tag

NextObject == scan_ptr' = scan_ptr + 1 /\ fld' = 0
NextField == UNCHANGED scan_ptr /\ fld' = fld + 1

ScanFull ==
  /\ pc = "scan" /\ scan_ptr < free_ptr
  /\ OutOfRoom
  /\ pc' = "exit"
  /\ UNCHANGED <<gcIdle, cell, nodeVars, req>>

ScanCar ==
  /\ Scanning("CELL", 0)
  /\ LET v == mem[scan_ptr].a IN
     \/ /\ MovedTwice(v)
        /\ pc' = "abort"
        /\ UNCHANGED <<mem, free_ptr, scan_ptr, fld>>
     \/ /\ ~MovedTwice(v)
        /\ mem' = [FwdMem(v) EXCEPT ![scan_ptr].a = FwdRef(v)]
        /\ free_ptr' = FwdFree(v)
        /\ NextField
        /\ UNCHANGED pc
  /\ UNCHANGED <<to_space, cell, nodeVars, marked, roots, todo, walk, req>>

ScanCdr ==
  /\ Scanning("CELL", 1)
  /\ LET v == mem[scan_ptr].b IN
     /\ mem' = [FwdMem(v) EXCEPT ![scan_ptr].b = FwdRef(v)]
     /\ free_ptr' = FwdFree(v)
  /\ NextObject
  /\ UNCHANGED <<to_space, cell, nodeVars, marked, roots, todo, walk, req, pc>>

ScanClosure_Again ==
  /\ Scanning("CLOSURE", 0)
  /\ LET e == mem[scan_ptr].b
         v == cell[e] IN
     /\ mem' = FwdMem(v)
     /\ free_ptr' = FwdFree(v)
     /\ cell' = [cell EXCEPT ![e] = FwdRef(v)]
     /\ walk' = {e, mem[scan_ptr].a}
  /\ UNCHANGED <<scan_ptr, fld>>
  /\ pc' = "closure_collect"
  /\ UNCHANGED <<to_space, nodeVars, marked, roots, todo, req>>
(* The captured frame is forwarded, then the closure's environments and    *)
(* code are collected and the whole root list is forwarded again.          *)
ScanClosure ==
  /\ Scanning("CLOSURE", 0)
  /\ LET e == mem[scan_ptr].b
         v == cell[e] IN
     /\ mem' = FwdMem(v)
     /\ free_ptr' = FwdFree(v)
     /\ cell' = [cell EXCEPT ![e] = FwdRef(v)]
     /\ walk' = {e, mem[scan_ptr].a}
  /\ NextObject
  /\ pc' = "closure_collect"
  /\ UNCHANGED <<to_space, nodeVars, marked, roots, todo, req>>

ScanVector ==
  /\ Scanning("VECTOR", 0)
  /\ marked' = marked \cup {mem[scan_ptr].a}
  /\ NextField
  /\ UNCHANGED <<heapVars, cell, nodeVars, roots, todo, walk, req, pc>>

ScanElem_First ==
  /\ \E i \in 1 .. VecLen : Scanning("VECTOR", i)
  /\ LET n == mem[scan_ptr].a
         v == elem[n][fld] IN
     /\ mem' = FwdMem(v)
     /\ free_ptr' = FwdFree(v)
     /\ elem' = [elem EXCEPT ![n][1] = FwdRef(v)]
  /\ IF fld = VecLen THEN NextObject ELSE NextField
  /\ UNCHANGED <<to_space, cell, enext, nodes, vmNodes, marked, roots, todo,
                 walk, req, pc>>
ScanElem ==
  /\ \E i \in 1 .. VecLen : Scanning("VECTOR", i)
  /\ LET n == mem[scan_ptr].a
         v == elem[n][fld] IN
     /\ mem' = FwdMem(v)
     /\ free_ptr' = FwdFree(v)
     /\ elem' = [elem EXCEPT ![n][fld] = FwdRef(v)]
  /\ IF fld = VecLen THEN NextObject ELSE NextField
  /\ UNCHANGED <<to_space, cell, enext, nodes, vmNodes, marked, roots, todo,
                 walk, req, pc>>

ScanString ==
  /\ Scanning("STRING", 0)
  /\ marked' = marked \cup {mem[scan_ptr].a}
  /\ NextObject
  /\ UNCHANGED <<heapVars, cell, nodeVars, roots, todo, walk, req, pc>>

(* The default case; "invalid moved object" ends the program.              *)
ScanLeaf ==
  /\ \E tag \in {"INTEGER", "UNDEF", "MOVED"} : Scanning(tag, 0)
  /\ pc' = IF mem[scan_ptr].tag = "MOVED" THEN "abort" ELSE pc
  /\ NextObject
  /\ UNCHANGED <<heapVars, cell, nodeVars, marked, roots, todo, walk, req>>

(* The four list collections free what was not marked (its memory is       *)
(* cleared here), the RootNode list is emptied, fzscm_alloc tries again.    *)
FinishGC ==
  /\ pc = "scan" /\ scan_ptr = free_ptr
  /\ pc' = "retry"
  /\ nodes' = marked
  /\ cell' = [s \in Slot |-> IF s \in Node \ marked THEN NULL ELSE cell[s]]
  /\ elem' = [n \in Vec |-> IF n \in marked THEN elem[n] ELSE NoElems]
  /\ enext' = [e \in Env |-> IF e \in marked THEN enext[e] ELSE NULL]
  /\ marked' = {}
  /\ roots' = {}
  /\ scan_ptr' = to_space
  /\ UNCHANGED <<heapVars, fld, todo, walk, vmNodes, req>>

-----------------------------------------------------------------------------
Client ==
  \/ \E d \in Global \cup PSlot :
       \/ \E x, y \in Held \cup {NIL} : RequestCell(x, y, d)
       \/ \E tag \in LeafTag : RequestLeaf(tag, d)
       \/ \E c \in Code, e \in Env : RequestClosure(c, e, d)
       \/ Drop(d)
  \/ \E v \in HeldOf("VECTOR"), i \in 1 .. VecLen, x \in Held : VectorSet(v, i, x)
  \/ \E c \in Code, T \in SUBSET Code, e \in Env, x \in Held \cup {NIL} :
       LoadCode(c, T, e, x)
  \/ \E v \in HeldOf("CLOSURE"), e \in Env, x \in Held \cup {NIL} : Enter(v, e, x)
  \/ \E n \in Env \cup Code : Leave(n)

Collector ==
  \/ StartGC
  \/ \E n \in Env \cup Code : CollectNode(n)
  \/ CollectDone
  \/ \E s \in Slot : ForwardRoot(s)
  \/ RootsDone
  \/ ScanFull \/ ScanCar \/ ScanCdr \/ ScanClosure
  \/ ScanVector \/ ScanElem \/ ScanString \/ ScanLeaf
  \/ FinishGC

Next == Client \/ Alloc \/ Collector

Spec == Init /\ [][Next]_vars
(* The program is one thread: once called, fzscm_alloc runs to its end. *)
FairSpec == Spec /\ WF_vars(Collector)

-----------------------------------------------------------------------------
(* Properties.                                                             *)

Collecting == {"vm_collect", "parser_roots", "roots", "scan", "closure_collect"}

(* Types; free_ptr stays within the semispace. *)
TypeOK ==
  /\ to_space \in {0, Extent}
  /\ free_ptr \in to_space .. TOP_PTR
  /\ scan_ptr \in 0 .. 2 * Extent
  /\ fld \in 0 .. VecLen + 1
  /\ mem \in [Addr -> Object]
  /\ cell \in [Slot -> Value]
  /\ elem \in [Vec -> [1 .. VecLen -> Value]]
  /\ enext \in [Env -> Env \cup {NULL}]
  /\ nodes \subseteq Node /\ marked \subseteq Node
  /\ vmNodes \subseteq Env \cup Code /\ walk \subseteq Env \cup Code
  /\ roots \subseteq Slot /\ todo \subseteq Slot
  /\ req \in Request
  /\ pc \in Phase

(* The collector's own consistency checks never fire: no object moved      *)
(* twice, no moved object inside to_space (the exits of gc.c with "2 times *)
(* moved", "to_space contains moved object", "invalid moved object").      *)
NoInternalError == pc # "abort"

(* What the program reaches now, forwarding pointers followed: the objects *)
(* and the side nodes.                                                     *)
Now(v) == IF Moved(v) /\ ~TOSPACE_CONTAINS(v) THEN mem[v].a ELSE v
Refs(V) == {Now(v) : v \in V \cap Addr}
Succ(x) ==
  CASE x \in Env -> Refs({cell[x]}) \cup ({enext[x]} \ {NULL})
    [] x \in Code -> Refs({cell[x]}) \cup SubCode[x]
    [] x \in Vec -> Refs({elem[x][i] : i \in 1 .. VecLen})
    [] x \in Addr ->
         CASE mem[x].tag = "CELL" -> Refs({mem[x].a, mem[x].b})
           [] mem[x].tag = "CLOSURE" -> {mem[x].a, mem[x].b}
           [] mem[x].tag \in {"STRING", "VECTOR"} -> {mem[x].a}
           [] OTHER -> {}
    [] OTHER -> {}

(* The least set that holds what the mutator starts from and is closed     *)
(* under references.                                                       *)
Item == Addr \cup Node
Start == vmNodes \cup Refs({cell[s] : s \in Global \cup PSlot})
Closed(S) == Start \subseteq S /\ \A x \in S : Succ(x) \subseteq S
Live ==
  LET closed == {S \in SUBSET Item : Closed(S)}
  IN {x \in Item : \A S \in closed : x \in S}

(* When a collection ends the survivors are exactly what is live: no       *)
(* object, string, array, environment or code the mutator reaches was      *)
(* freed, no garbage is kept, and nothing live is a forwarding pointer or  *)
(* memory that was never written.                                          *)
SurvivorsExact ==
  pc = "retry" =>
    /\ Live = Allocated \cup nodes
    /\ \A x \in Live \cap Addr : mem[x].tag \notin {"MOVED", "UNDEF"}

(* "shortage of memory" ends the program only if live objects fill the     *)
(* semispace: the test before each iteration, which asks for a free object *)
(* even when nothing is left to copy, never gives up too early.            *)
ShortageIsReal == pc = "exit" => Cardinality(Live \cap Addr) = Extent

(* A collection that returns has made room: the second test of fzscm_alloc  *)
(* never finds the semispace full, since the last object copied into a full *)
(* semispace has still to be scanned and ends the program there.            *)
CollectionMakesRoom == pc = "retry" => ~Full

(* Black objects: behind scan_ptr no field, and once the root passes are   *)
(* over no registered slot, refers to from_space.                          *)
NoRefBehindScan ==
  LET Old(v) == v \in FromSpace IN
  /\ pc \in {"scan", "closure_collect", "roots"} =>
       \A x \in to_space .. scan_ptr - 1 :
         CASE mem[x].tag = "CELL" -> ~Old(mem[x].a) /\ ~Old(mem[x].b)
           [] mem[x].tag = "VECTOR" ->
                \A i \in 1 .. VecLen : ~Old(elem[mem[x].a][i])
           [] OTHER -> TRUE
  /\ pc = "scan" => \A s \in roots : ~Old(cell[s])

(* The heap as the mutator left it, seen through the forwarding pointers:  *)
(* an object is named by the address it had when the collection started.   *)
Origin(v) ==
  IF TOSPACE_CONTAINS(v) THEN CHOOSE x \in FromSpace : Moved(x) /\ mem[x].a = v
  ELSE v
View(x) ==
  LET o == mem[Now(x)]
      fields == o.tag = "CELL"
  IN [tag |-> o.tag, a |-> IF fields THEN Origin(o.a) ELSE o.a,
                     b |-> IF fields THEN Origin(o.b) ELSE o.b]
Graph == [objects |-> [x \in FromSpace |-> View(x)],
          slots |-> [s \in Slot |-> Origin(cell[s])],
          elements |-> [n \in Vec |-> [i \in 1 .. VecLen |-> Origin(elem[n][i])]]]

(* No step of a collection changes the graph: moving an object, copying    *)
(* its fields and redirecting each reference keep every value and sharing, *)
(* cycles included.                                                        *)
GraphPreserved ==
  [][(pc \in Collecting /\ pc' \in Collecting) => (Graph' = Graph)]_vars

(* A collection always ends, also over cyclic data and over environments   *)
(* and code that closures reach more than once.                            *)
CollectionEnds == (pc \in Collecting) ~> (pc \in {"retry", "exit"})

(* The collector and the constructors implement the graph of ObjectGraph.  *)
(* While a collection runs the graph is still the one it started from, as  *)
(* the forwarding pointers show it; it is renamed when the collection      *)
(* ends, with the arguments of the constructor that waits.                 *)
Viewing == pc \in Collecting \cup {"exit"}
Named(v) == IF Viewing THEN Origin(v) ELSE v
GraphObjects == IF Viewing THEN [x \in FromSpace |-> View(x)] ELSE [x \in Allocated |-> mem[x]]
GraphSlots == [s \in Slot |-> Named(cell[s])]
GraphElems == [n \in Vec |-> [i \in 1 .. VecLen |-> Named(elem[n][i])]]
GraphReq ==
  IF pc = "retry" /\ req.tag = "CELL"
  THEN [req EXCEPT !.a = CheckMoving(@), !.b = CheckMoving(@)]
  ELSE req
GraphAt == IF pc \in {"mutator", "exit"} THEN pc ELSE "alloc"
G == INSTANCE ObjectGraph WITH Id <- Addr, object <- GraphObjects, slot <- GraphSlots,
       elem <- GraphElems, req <- GraphReq, at <- GraphAt
ImplementsGraph == G!Spec
=============================================================================
