---------------------------- MODULE CopyingGCProofs ---------------------------
(***************************************************************************)
(* What holds of the collector for every size of the heap and every set of *)
(* slots and nodes.  The strengthened invariant IInv says what the words   *)
(* of each kind of object are, where a forwarding pointer is and leads,    *)
(* that the objects copied so far are counted by free_ptr (why the field   *)
(* steps, which do not test for room, cannot leave the semispace), where   *)
(* scan_ptr is when the semispace is full, and which references are        *)
(* already forwarded.  Built on it: the graph of objects is kept while it  *)
(* moves, what survives is what is reached, and the collector with the     *)
(* constructors implements the graph of ObjectGraph.                       *)
(***************************************************************************)
EXTENDS CopyingGC, FiniteSetTheorems, TLAPS

(* The words of an object of memory m, by its tag. *)
Shaped(m) ==
  \A x \in Addr :
    /\ m[x].tag = "CELL" => m[x].a \in Value /\ m[x].b \in Value
    /\ m[x].tag = "CLOSURE" => m[x].a \in Code /\ m[x].b \in Env
    /\ m[x].tag = "STRING" => m[x].a \in Str
    /\ m[x].tag = "VECTOR" => m[x].a \in Vec

(* Forwarding pointers are in from_space and lead to objects below f. *)
Forwards(m, f) ==
  \A x \in Addr : m[x].tag = "MOVED" => x \in FromSpace /\ m[x].a \in to_space .. f - 1

MovedOf(m) == {x \in FromSpace : m[x].tag = "MOVED"}
Counts(m, f) == Cardinality(MovedOf(m)) = f - to_space

RequestShaped ==
  /\ req.tag = "CELL" => req.a \in Value /\ req.b \in Value
  /\ req.tag = "CLOSURE" => req.a \in Code /\ req.b \in Env

(* The object being scanned has room behind it when its fields are         *)
(* forwarded: the test was made with its first one.                        *)
ScanBounded ==
  /\ pc # "scan" => fld = 0
  /\ pc \in {"vm_collect", "parser_roots"} => scan_ptr = to_space
  /\ pc \in Collecting =>
       /\ to_space <= scan_ptr /\ scan_ptr <= free_ptr /\ scan_ptr < TOP_PTR
       /\ fld > 0 => scan_ptr < free_ptr /\ scan_ptr < TOP_PTR - 1

(* No reference into from_space is left behind scan_ptr, in the fields of  *)
(* the scanned object before fld, or in the slots a root pass has visited. *)
Clean(v) == v \notin FromSpace
Black ==
  pc \in {"scan", "closure_collect", "roots"} =>
    /\ \A x \in to_space .. scan_ptr - 1 :
         /\ mem[x].tag = "CELL" => Clean(mem[x].a) /\ Clean(mem[x].b)
         /\ mem[x].tag = "VECTOR" => \A i \in 1 .. VecLen : Clean(elem[mem[x].a][i])
    /\ fld > 0 /\ mem[scan_ptr].tag = "CELL" => Clean(mem[scan_ptr].a)
    /\ fld > 0 /\ mem[scan_ptr].tag = "VECTOR" =>
         \A i \in 1 .. fld - 1 : Clean(elem[mem[scan_ptr].a][i])
BlackRoots ==
  /\ pc = "scan" => \A s \in roots : Clean(cell[s])
  /\ pc = "roots" => \A s \in roots \ todo : Clean(cell[s])

IInv ==
  /\ TypeOK
  /\ Shaped(mem)
  /\ Forwards(mem, free_ptr)
  /\ pc \in Collecting => Counts(mem, free_ptr)
  /\ RequestShaped
  /\ ScanBounded
  /\ Black
  /\ BlackRoots
  /\ pc = "retry" => ~Full
  /\ pc # "abort"

-----------------------------------------------------------------------------
(* The semispaces are disjoint halves of the addresses.                    *)
LEMMA Semispaces ==
  ASSUME to_space \in {0, Extent}
  PROVE  /\ ToSpace \cap FromSpace = {} /\ ToSpace \cup FromSpace = Addr
         /\ from_space \in {0, Extent} /\ from_space # to_space
         /\ IsFiniteSet(FromSpace) /\ Cardinality(FromSpace) = Extent
<1> USE ExtentAssumption DEF from_space, TOP_PTR
<1>1. ToSpace \cap FromSpace = {} /\ ToSpace \cup FromSpace = Addr
  BY DEF ToSpace, FromSpace, Addr
<1>2. from_space \in {0, Extent} /\ from_space # to_space
  OBVIOUS
<1>3. from_space \in Int /\ from_space + Extent - 1 \in Int
  OBVIOUS
<1>4. \A i, j \in Int : /\ IsFiniteSet(i .. j)
                         /\ Cardinality(i .. j) = IF i > j THEN 0 ELSE j - i + 1
  BY FS_Interval, Zenon
<1>5. IsFiniteSet(FromSpace) /\ Cardinality(FromSpace) = Extent
  BY <1>3, <1>4 DEF FromSpace
<1> QED  BY <1>1, <1>2, <1>5

(* The value of a slot or of a field is in the heap iff it is an address.  *)
LEMMA HeapValues ==
  ASSUME NEW v \in Value
  PROVE  obj_is_in_gc_heap(v) <=> v \in Addr
BY NamesAssumption DEF Value, obj_is_in_gc_heap

(* An object is copied only while the semispace has room: the forwarded    *)
(* objects are one for each object of to_space, and v is not among them.   *)
LEMMA CopyHasRoom ==
  ASSUME IInv, pc \in Collecting, NEW v \in Value, Copies(v)
  PROVE  /\ v \in FromSpace /\ free_ptr \in ToSpace
         /\ mem[v].tag # "MOVED"
         /\ Cardinality(MovedOf(mem) \cup {v}) = Cardinality(MovedOf(mem)) + 1
<1> USE ExtentAssumption
<1>1. to_space \in {0, Extent} /\ free_ptr \in to_space .. TOP_PTR
  BY DEF IInv, TypeOK
<1>2. v \in Addr
  BY HeapValues DEF Copies
<1>3. v \in FromSpace /\ mem[v].tag # "MOVED"
  BY <1>1, <1>2, Semispaces DEF Copies, TOSPACE_CONTAINS, Moved
<1>4. MovedOf(mem) \in SUBSET FromSpace /\ MovedOf(mem) \cup {v} \in SUBSET FromSpace
  BY <1>3 DEF MovedOf
<1>5. IsFiniteSet(FromSpace) /\ Cardinality(FromSpace) = Extent
  BY <1>1, Semispaces
<1>6. IsFiniteSet(MovedOf(mem))
  BY <1>4, <1>5, FS_Subset
<1>7. v \notin MovedOf(mem)
  BY <1>3 DEF MovedOf
<1>8. Cardinality(MovedOf(mem) \cup {v}) = Cardinality(MovedOf(mem)) + 1
  BY <1>6, <1>7, FS_AddElement
<1>9. Cardinality(MovedOf(mem) \cup {v}) <= Extent
  BY <1>4, <1>5, FS_Subset
<1>10. Cardinality(MovedOf(mem)) = free_ptr - to_space
  BY DEF IInv, Counts
<1>11. free_ptr \in ToSpace
  BY <1>1, <1>8, <1>9, <1>10 DEF ToSpace, TOP_PTR
<1> QED  BY <1>3, <1>8, <1>11

(* Forwarding one reference: the memory stays well formed, the objects of  *)
(* to_space stay what they are and the new reference is not to from_space. *)
LEMMA Forwarding ==
  ASSUME IInv, pc \in Collecting, NEW v \in Value
  PROVE  /\ FwdMem(v) \in [Addr -> Object]
         /\ FwdFree(v) \in free_ptr .. TOP_PTR
         /\ FwdRef(v) \in Value /\ Clean(FwdRef(v))
         /\ \A x \in to_space .. free_ptr - 1 : FwdMem(v)[x] = mem[x]
         /\ Shaped(FwdMem(v))
         /\ Forwards(FwdMem(v), FwdFree(v))
         /\ Counts(FwdMem(v), FwdFree(v))
<1> USE ExtentAssumption
<1>1. /\ to_space \in {0, Extent} /\ free_ptr \in to_space .. TOP_PTR
      /\ mem \in [Addr -> Object]
      /\ Shaped(mem) /\ Forwards(mem, free_ptr) /\ Counts(mem, free_ptr)
  BY DEF IInv, TypeOK
<1>2. ToSpace \cap FromSpace = {} /\ ToSpace \cup FromSpace = Addr
  BY <1>1, Semispaces
<1>3. CASE Copies(v)
  <2> DEFINE moved == [tag |-> "MOVED", a |-> free_ptr, b |-> mem[v].b]
  <2>1. /\ v \in FromSpace /\ free_ptr \in ToSpace /\ mem[v].tag # "MOVED"
        /\ Cardinality(MovedOf(mem) \cup {v}) = Cardinality(MovedOf(mem)) + 1
    BY <1>3, CopyHasRoom
  <2>2. /\ FwdMem(v) = [x \in Addr |-> IF x = v THEN moved
                                       ELSE IF x = free_ptr THEN mem[v] ELSE mem[x]]
        /\ FwdFree(v) = free_ptr + 1 /\ FwdRef(v) = free_ptr
    BY <1>1, <1>2, <1>3, <2>1 DEF FwdMem, FwdFree, FwdRef
  <2>3. v \in Addr /\ free_ptr \in Addr /\ v # free_ptr
    BY <1>2, <2>1
  <2>4. moved \in Object /\ mem[v] \in Object
    BY <1>1, <2>3 DEF Object, Tag, Value
  <2>5. FwdMem(v) \in [Addr -> Object]
    BY <1>1, <2>2, <2>4
  <2>6. FwdFree(v) \in free_ptr .. TOP_PTR
    BY <1>1, <2>1, <2>2 DEF ToSpace, TOP_PTR
  <2>7. FwdRef(v) \in Value /\ Clean(FwdRef(v))
    BY <1>2, <2>1, <2>2, <2>3 DEF Value, Clean
  <2>8. \A x \in to_space .. free_ptr - 1 : FwdMem(v)[x] = mem[x]
    BY <1>1, <1>2, <2>1, <2>2 DEF ToSpace, TOP_PTR
  <2>9. Shaped(FwdMem(v))
    BY <1>1, <2>2, <2>3 DEF Shaped
  <2>10. Forwards(FwdMem(v), FwdFree(v))
    BY <1>1, <2>1, <2>2, <2>3 DEF Forwards, ToSpace, TOP_PTR
  <2>11. MovedOf(FwdMem(v)) = MovedOf(mem) \cup {v}
    BY <1>2, <2>1, <2>2 DEF MovedOf
  <2>12. Counts(FwdMem(v), FwdFree(v))
    <3>1. FwdFree(v) - to_space = free_ptr - to_space + 1
      BY <1>1, <2>2 DEF TOP_PTR
    <3>2. Cardinality(MovedOf(mem)) = free_ptr - to_space
      BY <1>1 DEF Counts
    <3>3. Cardinality(MovedOf(FwdMem(v))) = Cardinality(MovedOf(mem)) + 1
      BY <2>1, <2>11, Zenon
    <3> QED  BY <3>1, <3>2, <3>3 DEF Counts
  <2> QED  BY <2>5, <2>6, <2>7, <2>8, <2>9, <2>10, <2>12
<1>4. CASE ~Copies(v)
  <2>1. FwdMem(v) = mem /\ FwdFree(v) = free_ptr
    BY <1>4 DEF FwdMem, FwdFree
  <2>2. FwdRef(v) = IF Moved(v) /\ ~TOSPACE_CONTAINS(v) THEN mem[v].a ELSE v
    BY <1>4 DEF FwdRef
  <2>5. FwdRef(v) \in Value /\ Clean(FwdRef(v))
    <3>1. CASE Moved(v)
      <4>1. v \in FromSpace /\ mem[v].a \in to_space .. free_ptr - 1
        BY <1>1, <3>1 DEF Moved, Forwards
      <4>2. mem[v].a \in ToSpace
        BY <1>1, <4>1 DEF ToSpace, TOP_PTR
      <4>3. FwdRef(v) = mem[v].a
        BY <1>2, <2>2, <3>1, <4>1 DEF TOSPACE_CONTAINS
      <4> QED  BY <1>2, <4>2, <4>3 DEF Value, Clean
    <3>2. CASE ~Moved(v)
      <4>1. v \notin FromSpace
        BY <1>2, <1>4, <3>2, HeapValues DEF Copies, TOSPACE_CONTAINS
      <4> QED  BY <2>2, <3>2, <4>1 DEF Clean
    <3> QED  BY <3>1, <3>2
  <2>6. FwdFree(v) \in free_ptr .. TOP_PTR
    BY <1>1, <2>1 DEF TOP_PTR
  <2> QED  BY <1>1, <2>1, <2>5, <2>6
<1> QED  BY <1>3, <1>4

-----------------------------------------------------------------------------
(* A step that leaves the heap alone. *)
LEMMA SameHeap ==
  ASSUME IInv, UNCHANGED heapVars
  PROVE  /\ Shaped(mem)' /\ Forwards(mem, free_ptr)'
         /\ Counts(mem, free_ptr)' <=> Counts(mem, free_ptr)
         /\ FromSpace' = FromSpace /\ ToSpace' = ToSpace /\ TOP_PTR' = TOP_PTR
         /\ Full' <=> Full
<1>1. to_space' = to_space /\ free_ptr' = free_ptr /\ mem' = mem
  BY DEF heapVars
<1>2. from_space' = from_space /\ TOP_PTR' = TOP_PTR
  BY <1>1 DEF from_space, TOP_PTR
<1>3. FromSpace' = FromSpace /\ ToSpace' = ToSpace
  BY <1>1, <1>2 DEF FromSpace, ToSpace
<1>4. Shaped(mem)'
  BY <1>1 DEF IInv, Shaped
<1>5. Forwards(mem, free_ptr)'
  BY <1>1, <1>3 DEF IInv, Forwards
<1>6. MovedOf(mem)' = MovedOf(mem)
  BY <1>1, <1>3 DEF MovedOf
<1>7. Counts(mem, free_ptr)' <=> Counts(mem, free_ptr)
  BY <1>1, <1>6, Zenon DEF Counts
<1>8. Full' <=> Full
  BY <1>1, <1>2 DEF Full
<1> QED  BY <1>2, <1>3, <1>4, <1>5, <1>7, <1>8

(* What the client holds is a value. *)
LEMMA HeldValues == IInv => Held \subseteq Value
BY DEF IInv, TypeOK, Held, Slot

(* The client changes slots and nodes only, by values it holds.            *)
LEMMA ClientStep ==
  ASSUME IInv, Client
  PROVE  IInv'
<1> USE DEF gcIdle, nodeVars
<1>1. /\ UNCHANGED gcIdle /\ pc = "mutator" /\ pc' \in {"mutator", "alloc"}
  BY DEF Client, RequestCell, RequestLeaf, RequestClosure, Drop, VectorSet,
         LoadCode, Enter, Leave
<1>2. TypeOK' /\ RequestShaped'
  <2>1. /\ TypeOK /\ RequestShaped /\ Held \subseteq Value /\ Shaped(mem)
        /\ NIL \in Value /\ NULL \in Value
    BY HeldValues DEF IInv, Value, Static
  <2>2. TOP_PTR' = TOP_PTR
    BY <1>1 DEF TOP_PTR
  <2>3. ASSUME NEW x \in Held \cup {NIL}, NEW y \in Held \cup {NIL},
               NEW dst \in Global \cup PSlot, RequestCell(x, y, dst)
        PROVE  TypeOK' /\ RequestShaped'
    <3>1. req' \in Request /\ RequestShaped'
      BY <2>1, <2>3 DEF RequestCell, Request, RequestShaped
    <3> QED  BY <2>1, <2>2, <2>3, <3>1 DEF RequestCell, TypeOK, Phase
  <2>4. ASSUME NEW tag \in LeafTag, NEW dst \in Global \cup PSlot, RequestLeaf(tag, dst)
        PROVE  TypeOK' /\ RequestShaped'
    <3>1. req' \in Request /\ RequestShaped'
      BY <2>1, <2>4, LeafTagAssumption DEF RequestLeaf, Request, RequestShaped
    <3> QED  BY <2>1, <2>2, <2>4, <3>1 DEF RequestLeaf, TypeOK, Phase
  <2>5. ASSUME NEW k \in Code, NEW f \in Env, NEW dst \in Global \cup PSlot,
               RequestClosure(k, f, dst)
        PROVE  TypeOK' /\ RequestShaped'
    <3>1. req' \in Request /\ RequestShaped'
      BY <2>5 DEF RequestClosure, Request, RequestShaped, Node
    <3> QED  BY <2>1, <2>2, <2>5, <3>1 DEF RequestClosure, TypeOK, Phase
  <2>6. ASSUME NEW dst \in Global \cup PSlot, Drop(dst)
        PROVE  TypeOK' /\ RequestShaped'
    BY <2>1, <2>2, <2>6 DEF Drop, TypeOK, RequestShaped
  <2>7. ASSUME NEW v \in HeldOf("VECTOR"), NEW i \in 1 .. VecLen, NEW x \in Held,
               VectorSet(v, i, x)
        PROVE  TypeOK' /\ RequestShaped'
    <3>1. mem[v].a \in Vec
      BY <2>1 DEF HeldOf, Shaped
    <3>2. elem' \in [Vec -> [1 .. VecLen -> Value]]
      BY <2>1, <2>7, <3>1 DEF VectorSet, TypeOK
    <3> QED  BY <2>1, <2>2, <2>7, <3>2 DEF VectorSet, TypeOK, RequestShaped
  <2>8. ASSUME NEW k \in Code, NEW T \in SUBSET Code, NEW f \in Env, NEW x \in Held \cup {NIL},
               LoadCode(k, T, f, x)
        PROVE  TypeOK' /\ RequestShaped'
    BY <2>1, <2>2, <2>8 DEF LoadCode, TypeOK, RequestShaped, Node
  <2>9. ASSUME NEW v \in HeldOf("CLOSURE"), NEW f \in Env, NEW x \in Held \cup {NIL},
               Enter(v, f, x)
        PROVE  TypeOK' /\ RequestShaped'
    <3>1. mem[v].a \in Code /\ mem[v].b \in Env
      BY <2>1 DEF HeldOf, Shaped
    <3> QED  BY <2>1, <2>2, <2>9, <3>1 DEF Enter, TypeOK, RequestShaped, Node
  <2>10. ASSUME NEW n \in Env \cup Code, Leave(n)
         PROVE  TypeOK' /\ RequestShaped'
    BY <2>1, <2>2, <2>10 DEF Leave, TypeOK, RequestShaped
  <2> QED  BY <2>3, <2>4, <2>5, <2>6, <2>7, <2>8, <2>9, <2>10 DEF Client
<1>3. Shaped(mem)' /\ Forwards(mem, free_ptr)'
  BY <1>1, SameHeap DEF heapVars
<1>4. ScanBounded'
  BY <1>1 DEF IInv, ScanBounded, Collecting
<1>5. Black' /\ BlackRoots'
  BY <1>1 DEF Black, BlackRoots
<1>6. pc' \notin Collecting /\ pc' # "retry" /\ pc' # "abort"
  BY <1>1 DEF Collecting
<1> QED  BY <1>2, <1>3, <1>4, <1>5, <1>6 DEF IInv

(* A constructor fills in the free object. *)
LEMMA AllocStep ==
  ASSUME IInv, Alloc
  PROVE  IInv'
<1> USE ExtentAssumption
<1>1. /\ TypeOK /\ Shaped(mem) /\ Forwards(mem, free_ptr) /\ RequestShaped /\ fld = 0
      /\ to_space \in {0, Extent} /\ free_ptr \in to_space .. TOP_PTR
      /\ pc \in {"alloc", "retry"}
  BY DEF IInv, TypeOK, Alloc, ScanBounded
<1>2. CASE pc = "retry" /\ Full
  BY <1>2 DEF IInv
<1>3. CASE ~(pc = "retry" /\ Full)
  <2>1. PICK a, b \in Value \cup Node :
          /\ ~Full /\ Place(a, b)
          /\ req.tag = "CELL" => a \in Value /\ b \in Value
          /\ req.tag = "CLOSURE" => a \in Code /\ b \in Env
          /\ req.tag = "STRING" => a \in Str
          /\ req.tag = "VECTOR" => a \in Vec
    <3>1. CASE /\ req.tag = "CELL"
               /\ ~Full /\ Place(CheckMoving(req.a), CheckMoving(req.b))
      <4>1. \A v \in Value : CheckMoving(v) \in Value
        BY <1>1 DEF CheckMoving, Moved, Forwards, Value, Addr, TOP_PTR
      <4> QED  BY <1>1, <3>1, <4>1 DEF RequestShaped
    <3>2. CASE ~Full /\ req.tag \in {"CLOSURE", "INTEGER"} /\ Place(req.a, req.b)
      BY <1>1, <3>2 DEF RequestShaped, TypeOK, Request
    <3>3. CASE \E n \in Str : ~Full /\ req.tag = "STRING" /\ Place(n, NULL)
      BY <3>3 DEF Node, Value
    <3>4. CASE \E n \in Vec : ~Full /\ req.tag = "VECTOR" /\ Place(n, NULL)
      BY <3>4 DEF Node, Value
    <3> QED  BY <1>3, <3>1, <3>2, <3>3, <3>4 DEF Alloc
  <2>2. free_ptr \in ToSpace /\ free_ptr \in Addr
    BY <1>1, <2>1 DEF Full, ToSpace, TOP_PTR, Addr
  <2>3. [tag |-> req.tag, a |-> a, b |-> b] \in Object /\ req.tag # "MOVED" /\ req.dst \in Slot
    BY <1>1, <2>1 DEF TypeOK, Request, Object, Tag, Slot
  <2>4. /\ mem' = [mem EXCEPT ![free_ptr] = [tag |-> req.tag, a |-> a, b |-> b]]
        /\ free_ptr' = free_ptr + 1 /\ cell' = [cell EXCEPT ![req.dst] = free_ptr]
        /\ pc' = "mutator" /\ req' = NoRequest
        /\ UNCHANGED <<to_space, scan_ptr, fld, enext, marked, roots, todo, walk, vmNodes>>
    BY <2>1 DEF Place
  <2>5. NoRequest \in Request
    BY GlobalAssumption DEF NoRequest, Request, Idle, Value
  <2>6. /\ nodes' \subseteq Node
        /\ elem' \in [Vec -> [1 .. VecLen -> Value]]
    BY <1>1, <1>3 DEF Alloc, TypeOK, Node, NoElems, Value, Static
  <2>7. from_space' = from_space /\ TOP_PTR' = TOP_PTR /\ FromSpace' = FromSpace
    BY <2>4 DEF from_space, TOP_PTR, FromSpace
  <2>8. TypeOK'
    <3>1. free_ptr' \in to_space .. TOP_PTR
      BY <1>1, <2>1, <2>4 DEF Full, TOP_PTR
    <3>2. mem' \in [Addr -> Object] /\ cell' \in [Slot -> Value]
      BY <1>1, <2>2, <2>3, <2>4 DEF TypeOK, Value
    <3> QED  BY <1>1, <2>4, <2>5, <2>6, <2>7, <3>1, <3>2 DEF TypeOK, Phase
  <2>9. Shaped(mem)'
    BY <1>1, <2>1, <2>2, <2>4 DEF Shaped, TypeOK
  <2>10. Forwards(mem, free_ptr)'
    BY <1>1, <2>2, <2>3, <2>4, <2>7 DEF Forwards, TypeOK, TOP_PTR
  <2>11. RequestShaped' /\ ScanBounded' /\ Black' /\ BlackRoots'
    BY <1>1, <2>4 DEF NoRequest, RequestShaped, ScanBounded, Black, BlackRoots, Collecting
  <2> QED  BY <2>4, <2>8, <2>9, <2>10, <2>11 DEF IInv, Collecting
<1> QED  BY <1>2, <1>3

-----------------------------------------------------------------------------
(* The flip: no forwarding pointer survives the clearing of from_space. *)
LEMMA StartGCStep ==
  ASSUME IInv, StartGC
  PROVE  IInv'
<1> USE ExtentAssumption
<1>1. /\ TypeOK /\ Shaped(mem) /\ Forwards(mem, free_ptr) /\ RequestShaped /\ fld = 0
      /\ to_space \in {0, Extent} /\ mem \in [Addr -> Object]
  BY DEF IInv, TypeOK, StartGC, ScanBounded
<1>2. /\ mem' = [x \in Addr |-> IF x \in FromSpace THEN Zeroed ELSE mem[x]]
      /\ to_space' = from_space /\ free_ptr' = from_space /\ scan_ptr' = from_space
      /\ pc' = "vm_collect" /\ fld' = fld /\ req' = req
      /\ roots' = roots \cup GlobalRoots /\ walk' = vmNodes
      /\ UNCHANGED <<cell, elem, enext, nodes, vmNodes, marked, todo>>
  BY DEF StartGC, nodeVars
<1>3. from_space \in {0, Extent} /\ from_space' = to_space /\ TOP_PTR' = from_space + Extent
  BY <1>1, <1>2 DEF from_space, TOP_PTR
<1>4. \A x \in Addr : mem'[x].tag # "MOVED"
  BY <1>1, <1>2 DEF Forwards, Zeroed
<1>5. TypeOK'
  <2>1. Zeroed \in Object
    BY DEF Zeroed, Object, Tag, Value
  <2>2. mem' \in [Addr -> Object]
    BY <1>1, <1>2, <2>1
  <2>3. roots' \subseteq Slot
    BY <1>1, <1>2 DEF TypeOK, GlobalRoots, Slot
  <2> QED  BY <1>1, <1>2, <1>3, <2>2, <2>3 DEF TypeOK, Phase
<1>6. Shaped(mem)'
  BY <1>1, <1>2 DEF Shaped, Zeroed
<1>7. Forwards(mem, free_ptr)'
  BY <1>4 DEF Forwards
<1>8. Counts(mem, free_ptr)'
  <2>1. FromSpace' \subseteq Addr
    BY <1>1, <1>3 DEF FromSpace, Addr
  <2>2. MovedOf(mem)' = {}
    BY <1>4, <2>1 DEF MovedOf
  <2>3. Cardinality(MovedOf(mem)') = 0
    BY <2>2, FS_EmptySet, Zenon
  <2> QED  BY <1>2, <1>3, <2>3 DEF Counts
<1>9. RequestShaped' /\ ScanBounded' /\ Black' /\ BlackRoots'
  BY <1>1, <1>2, <1>3 DEF RequestShaped, ScanBounded, Black, BlackRoots, Collecting
<1> QED  BY <1>2, <1>5, <1>6, <1>7, <1>8, <1>9 DEF IInv

(* The steps of a collection that leave the heap alone. *)
LEMMA SideStep ==
  ASSUME IInv, pc \in Collecting, UNCHANGED <<heapVars, req>>,
         TypeOK', ScanBounded', Black', BlackRoots',
         pc' \in Collecting \cup {"exit"}
  PROVE  IInv'
<1>1. Shaped(mem)' /\ Forwards(mem, free_ptr)' /\ Counts(mem, free_ptr)'
  BY SameHeap DEF heapVars, IInv
<1>2. RequestShaped'
  BY DEF IInv, RequestShaped
<1> QED  BY <1>1, <1>2 DEF IInv, Collecting

(* A node of an environment or code chain is marked and becomes a root.    *)
LEMMA CollectNodeStep ==
  ASSUME IInv, NEW n \in Env \cup Code, CollectNode(n)
  PROVE  IInv'
<1>1. /\ TypeOK /\ ScanBounded /\ Black /\ UNCHANGED heapVars
      /\ pc \in {"vm_collect", "closure_collect"} /\ pc \in Collecting
      /\ marked' = marked \cup {n} /\ roots' = roots \cup {n}
      /\ walk' = (walk \ {n}) \cup NodeSucc(n)
      /\ UNCHANGED <<to_space, free_ptr, mem, scan_ptr, fld, cell, elem, enext, nodes,
                     vmNodes, todo, req, pc>>
  BY DEF IInv, CollectNode, heapVars, nodeVars, Collecting
<1>2. FromSpace' = FromSpace /\ TOP_PTR' = TOP_PTR
  BY <1>1, SameHeap
<1>3. NodeSucc(n) \subseteq Env \cup Code
  BY <1>1, SubCodeAssumption DEF NodeSucc, TypeOK
<1>4. TypeOK'
  BY <1>1, <1>2, <1>3 DEF TypeOK, Node, Slot
<1>5. ScanBounded' /\ Black' /\ BlackRoots'
  BY <1>1, <1>2 DEF ScanBounded, Black, BlackRoots, Clean
<1> QED  BY <1>1, <1>4, <1>5, SideStep

(* One pass ends and the next begins: nothing is left to visit.            *)
LEMMA PassStep ==
  ASSUME IInv, CollectDone \/ RootsDone
  PROVE  IInv'
<1>1. /\ TypeOK /\ ScanBounded /\ Black /\ BlackRoots /\ UNCHANGED heapVars
      /\ pc \in Collecting /\ pc' \in Collecting
      /\ UNCHANGED <<to_space, free_ptr, mem, scan_ptr, fld, cell, elem, enext, nodes,
                     vmNodes, marked, roots, walk, req>>
  BY DEF IInv, CollectDone, RootsDone, heapVars, nodeVars, Collecting
<1>2. FromSpace' = FromSpace /\ TOP_PTR' = TOP_PTR
  BY <1>1, SameHeap
<1>3. \/ pc = "vm_collect" /\ pc' = "parser_roots" /\ todo' \subseteq Slot
      \/ pc = "closure_collect" /\ pc' = "roots" /\ todo' = roots
      \/ pc = "parser_roots" /\ pc' = "roots" /\ todo' = roots
      \/ pc = "roots" /\ pc' = "scan" /\ todo = {} /\ todo' = {}
  BY DEF CollectDone, RootsDone, Slot
<1>4. TypeOK'
  BY <1>1, <1>2, <1>3 DEF TypeOK, Phase
<1>5. ScanBounded'
  BY <1>1, <1>2, <1>3 DEF ScanBounded, Collecting
<1>6. Black'
  BY <1>1, <1>2, <1>3 DEF Black, Clean, ScanBounded, TypeOK
<1>7. BlackRoots'
  BY <1>1, <1>2, <1>3 DEF BlackRoots, Clean
<1> QED  BY <1>1, <1>4, <1>5, <1>6, <1>7, SideStep

(* An object without references in its words is scanned. *)
LEMMA ScanLeafStep ==
  ASSUME IInv, ScanVector \/ ScanString \/ ScanLeaf \/ ScanFull
  PROVE  IInv'
<1> USE ExtentAssumption, VecLenAssumption
<1>1. /\ TypeOK /\ ScanBounded /\ Black /\ BlackRoots /\ Shaped(mem) /\ UNCHANGED heapVars
      /\ pc = "scan" /\ pc \in Collecting /\ fld = 0 /\ scan_ptr < free_ptr
      /\ UNCHANGED <<to_space, free_ptr, mem, cell, elem, enext, nodes,
                     vmNodes, roots, todo, walk, req>>
      /\ to_space \in {0, Extent} /\ free_ptr \in to_space .. TOP_PTR
  BY DEF IInv, ScanVector, ScanString, ScanLeaf, ScanFull, Scanning, OutOfRoom,
         heapVars, nodeVars, gcIdle, TypeOK, Collecting
<1>2. FromSpace' = FromSpace /\ TOP_PTR' = TOP_PTR
  BY <1>1, SameHeap
<1>3. scan_ptr \in Allocated /\ scan_ptr \in Addr
  BY <1>1 DEF Allocated, Addr, ScanBounded, TOP_PTR, TypeOK
<1>4. mem[scan_ptr].tag # "MOVED"
  <2>1. scan_ptr \in ToSpace
    BY <1>1, <1>3 DEF Allocated, ToSpace, TOP_PTR
  <2> QED  BY <1>1, <1>3, <2>1, Semispaces DEF IInv, Forwards
<1>5. CASE ScanFull
  <2>1. pc' = "exit" /\ fld' = fld /\ scan_ptr' = scan_ptr /\ marked' = marked
    BY <1>5 DEF ScanFull, gcIdle
  <2>2. TypeOK'
    BY <1>1, <1>2, <2>1 DEF TypeOK, Phase
  <2>3. ScanBounded' /\ Black' /\ BlackRoots'
    BY <1>1, <2>1 DEF ScanBounded, Black, BlackRoots, Collecting
  <2> QED  BY <1>1, <2>1, <2>2, <2>3, SideStep
<1>6. CASE ScanVector \/ ScanString \/ ScanLeaf
  <2>1. /\ ~Full /\ pc' = "scan" /\ marked' \subseteq Node
        /\ \/ /\ mem[scan_ptr].tag \in {"STRING", "INTEGER", "UNDEF"}
              /\ scan_ptr' = scan_ptr + 1 /\ fld' = 0
           \/ mem[scan_ptr].tag = "VECTOR" /\ scan_ptr' = scan_ptr /\ fld' = 1
    BY <1>1, <1>3, <1>4, <1>6 DEF ScanVector, ScanString, ScanLeaf, Scanning, OutOfRoom,
       NextObject, NextField, Shaped, TypeOK, Node
  <2>2. free_ptr < TOP_PTR
    BY <1>1, <2>1 DEF Full, TOP_PTR
  <2>3. TypeOK'
    BY <1>1, <1>2, <1>3, <2>1, <2>2 DEF TypeOK, TOP_PTR, Addr
  <2>4. ScanBounded'
    BY <1>1, <1>2, <1>3, <2>1, <2>2 DEF ScanBounded, TOP_PTR, Addr, Collecting
  <2>5. Black' /\ BlackRoots'
    BY <1>1, <1>2, <1>3, <2>1 DEF Black, BlackRoots, Clean, Addr
  <2> QED  BY <1>1, <2>1, <2>3, <2>4, <2>5, SideStep
<1> QED  BY <1>5, <1>6

(* The end of a collection: the object scanned last was below the top.     *)
LEMMA FinishStep ==
  ASSUME IInv, FinishGC
  PROVE  IInv'
<1> USE ExtentAssumption
<1>1. /\ TypeOK /\ ScanBounded /\ RequestShaped /\ UNCHANGED heapVars
      /\ pc = "scan" /\ pc' = "retry" /\ scan_ptr = free_ptr /\ scan_ptr' = to_space
      /\ nodes' = marked /\ marked' = {} /\ roots' = {}
      /\ cell' = [s \in Slot |-> IF s \in Node \ marked THEN NULL ELSE cell[s]]
      /\ elem' = [n \in Vec |-> IF n \in marked THEN elem[n] ELSE NoElems]
      /\ enext' = [e \in Env |-> IF e \in marked THEN enext[e] ELSE NULL]
      /\ UNCHANGED <<to_space, free_ptr, mem, fld, todo, walk, vmNodes, req>>
      /\ to_space \in {0, Extent} /\ free_ptr \in to_space .. TOP_PTR
  BY DEF IInv, FinishGC, heapVars, TypeOK
<1>2. TOP_PTR' = TOP_PTR /\ (Full' <=> Full) /\ Shaped(mem)' /\ Forwards(mem, free_ptr)'
  BY <1>1, SameHeap
<1>3. ~Full /\ fld = 0
  BY <1>1 DEF ScanBounded, Full, TOP_PTR, Collecting, TypeOK
<1>4. TypeOK'
  <2>1. /\ cell' \in [Slot -> Value] /\ elem' \in [Vec -> [1 .. VecLen -> Value]]
        /\ enext' \in [Env -> Env \cup {NULL}]
    BY <1>1 DEF TypeOK, NoElems, Value, Static
  <2> QED  BY <1>1, <1>2, <2>1 DEF TypeOK, Phase
<1>5. RequestShaped' /\ ScanBounded' /\ Black' /\ BlackRoots'
  BY <1>1, <1>3 DEF RequestShaped, ScanBounded, Black, BlackRoots, Collecting
<1> QED  BY <1>1, <1>2, <1>3, <1>4, <1>5 DEF IInv, Collecting

-----------------------------------------------------------------------------
(* A step that forwards the value v: nothing else changes in the heap, or  *)
(* the scanned cell's reference v is replaced by the new one.              *)
ForwardsOnly(v) ==
  /\ mem' = FwdMem(v) /\ free_ptr' = FwdFree(v) /\ to_space' = to_space
ForwardsField(v, field) ==
  /\ scan_ptr \in Allocated /\ mem[scan_ptr].tag = "CELL"
  /\ field = "a" \/ field = "b"
  /\ mem' = [x \in Addr |-> IF x # scan_ptr THEN FwdMem(v)[x]
                            ELSE [tag |-> "CELL",
                                  a |-> IF field = "a" THEN FwdRef(v) ELSE mem[x].a,
                                  b |-> IF field = "b" THEN FwdRef(v) ELSE mem[x].b]]
  /\ free_ptr' = FwdFree(v) /\ to_space' = to_space

(* What such a step keeps of the memory's shape, whichever word it writes. *)
LEMMA ForwardStep ==
  ASSUME IInv, pc \in Collecting, NEW v \in Value,
         ForwardsOnly(v) \/ \E field \in {"a", "b"} : ForwardsField(v, field)
  PROVE  /\ mem' \in [Addr -> Object] /\ free_ptr' \in free_ptr .. TOP_PTR
         /\ Shaped(mem)' /\ Forwards(mem, free_ptr)' /\ Counts(mem, free_ptr)'
         /\ FromSpace' = FromSpace /\ TOP_PTR' = TOP_PTR
<1> USE ExtentAssumption
<1>1. /\ FwdMem(v) \in [Addr -> Object] /\ FwdFree(v) \in free_ptr .. TOP_PTR
      /\ FwdRef(v) \in Value /\ Shaped(FwdMem(v))
      /\ \A x \in to_space .. free_ptr - 1 : FwdMem(v)[x] = mem[x]
      /\ Forwards(FwdMem(v), FwdFree(v)) /\ Counts(FwdMem(v), FwdFree(v))
  BY Forwarding
<1>2. /\ to_space' = to_space /\ free_ptr' = FwdFree(v)
      /\ to_space \in {0, Extent} /\ free_ptr \in to_space .. TOP_PTR
      /\ mem \in [Addr -> Object] /\ Shaped(mem)
  BY DEF ForwardsOnly, ForwardsField, IInv, TypeOK
<1>3. FromSpace' = FromSpace /\ TOP_PTR' = TOP_PTR
  BY <1>2 DEF FromSpace, from_space, TOP_PTR
<1>4. CASE ForwardsOnly(v)
  <2>1. mem' = FwdMem(v)
    BY <1>4 DEF ForwardsOnly
  <2>2. MovedOf(mem)' = MovedOf(FwdMem(v))
    BY <1>3, <2>1 DEF MovedOf
  <2>3. Shaped(mem)' /\ Forwards(mem, free_ptr)'
    BY <1>1, <1>2, <1>3, <2>1 DEF Shaped, Forwards
  <2>4. Counts(mem, free_ptr)'
    BY <1>1, <1>2, <2>2 DEF Counts
  <2> QED  BY <1>1, <1>2, <1>3, <2>1, <2>3, <2>4
<1>5. ASSUME NEW field \in {"a", "b"}, ForwardsField(v, field)
      PROVE  /\ mem' \in [Addr -> Object] /\ free_ptr' \in free_ptr .. TOP_PTR
             /\ Shaped(mem)' /\ Forwards(mem, free_ptr)' /\ Counts(mem, free_ptr)'
  <2> DEFINE new == [tag |-> "CELL",
                     a |-> IF field = "a" THEN FwdRef(v) ELSE mem[scan_ptr].a,
                     b |-> IF field = "b" THEN FwdRef(v) ELSE mem[scan_ptr].b]
  <2>1. /\ scan_ptr \in Addr /\ mem[scan_ptr].tag = "CELL"
        /\ FwdMem(v)[scan_ptr] = mem[scan_ptr]
        /\ mem[scan_ptr].a \in Value /\ mem[scan_ptr].b \in Value
    BY <1>1, <1>2, <1>5 DEF ForwardsField, Allocated, Addr, TOP_PTR, Shaped
  <2>2. mem' = [x \in Addr |-> IF x = scan_ptr THEN new ELSE FwdMem(v)[x]]
    BY <1>5 DEF ForwardsField
  <2>3. new \in Object /\ new.tag = "CELL" /\ new.a \in Value /\ new.b \in Value
    BY <1>1, <2>1 DEF Object, Tag
  <2> HIDE DEF new
  <2>4. mem' \in [Addr -> Object]
    BY <1>1, <2>2, <2>3
  <2>5. \A x \in Addr : /\ mem'[x].tag = FwdMem(v)[x].tag
                        /\ mem'[x].tag # "CELL" => mem'[x] = FwdMem(v)[x]
    BY <2>1, <2>2, <2>3
  <2>6. Shaped(mem)'
    BY <1>1, <2>1, <2>2, <2>3 DEF Shaped
  <2>7. Forwards(mem, free_ptr)'
    BY <1>1, <1>2, <1>3, <2>5 DEF Forwards
  <2>8. FromSpace \subseteq Addr
    BY <1>2, Semispaces
  <2>9. MovedOf(mem)' = MovedOf(FwdMem(v))
    BY <1>3, <2>5, <2>8 DEF MovedOf
  <2>10. Counts(mem, free_ptr)'
    BY <1>1, <1>2, <2>9 DEF Counts
  <2> QED  BY <1>1, <1>2, <2>4, <2>6, <2>7, <2>10
<1> QED  BY <1>1, <1>2, <1>3, <1>4, <1>5

(* No forwarding pointer leads to another or is in to_space. *)
LEMMA MovedOnce ==
  ASSUME IInv, NEW w
  PROVE  ~MovedTwice(w) /\ ~(Moved(w) /\ TOSPACE_CONTAINS(w))
<1>1. /\ Forwards(mem, free_ptr) /\ to_space \in {0, Extent}
      /\ free_ptr \in to_space .. TOP_PTR
  BY DEF IInv, TypeOK
<1>2. ASSUME NEW x, Moved(x) PROVE x \in FromSpace /\ x \notin ToSpace
  BY <1>1, <1>2, Semispaces DEF Moved, Forwards
<1>3. ASSUME Moved(w) PROVE mem[w].a \in ToSpace
  BY ExtentAssumption, <1>1, <1>3 DEF Moved, Forwards, ToSpace, TOP_PTR
<1> QED  BY <1>2, <1>3 DEF MovedTwice, TOSPACE_CONTAINS

(* A root is forwarded; the early exit for shortage is the other outcome.  *)
LEMMA ForwardRootStep ==
  ASSUME IInv, NEW s \in Slot, ForwardRoot(s)
  PROVE  IInv'
<1> USE ExtentAssumption
<1> DEFINE v == cell[s]
<1>1. /\ TypeOK /\ ScanBounded /\ Black /\ BlackRoots /\ RequestShaped
      /\ Forwards(mem, free_ptr)
      /\ pc \in {"parser_roots", "roots"} /\ pc \in Collecting /\ s \in todo /\ fld = 0
      /\ UNCHANGED <<to_space, scan_ptr, fld, elem, enext, nodes, vmNodes, marked,
                     roots, walk, req>>
      /\ v \in Value /\ to_space \in {0, Extent} /\ free_ptr \in to_space .. TOP_PTR
  BY DEF IInv, ForwardRoot, nodeVars, TypeOK, ScanBounded, Collecting
<1>2. ~(Moved(v) /\ (TOSPACE_CONTAINS(v) \/ Moved(mem[v].a)))
  BY MovedOnce DEF MovedTwice
<1>3. CASE obj_is_in_gc_heap(v) /\ Full
  <2>1. pc' = "exit" /\ UNCHANGED <<mem, free_ptr, cell, todo>>
    BY <1>2, <1>3 DEF ForwardRoot
  <2>2. UNCHANGED heapVars /\ TOP_PTR' = TOP_PTR
    BY <1>1, <2>1 DEF heapVars, TOP_PTR
  <2>3. TypeOK'
    BY <1>1, <2>1, <2>2 DEF TypeOK, Phase
  <2>4. ScanBounded' /\ Black' /\ BlackRoots'
    BY <1>1, <2>1 DEF ScanBounded, Black, BlackRoots, Collecting
  <2> QED  BY <1>1, <2>1, <2>2, <2>3, <2>4, SideStep
<1>4. CASE ~(obj_is_in_gc_heap(v) /\ Full)
  <2>1. /\ mem' = FwdMem(v) /\ free_ptr' = FwdFree(v)
        /\ cell' = [cell EXCEPT ![s] = FwdRef(v)] /\ todo' = todo \ {s} /\ pc' = pc
    BY <1>2, <1>4 DEF ForwardRoot
  <2>2. FwdRef(v) \in Value /\ Clean(FwdRef(v))
        /\ \A x \in to_space .. free_ptr - 1 : FwdMem(v)[x] = mem[x]
    BY <1>1, Forwarding
  <2>3. /\ mem' \in [Addr -> Object] /\ free_ptr' \in free_ptr .. TOP_PTR
        /\ Shaped(mem)' /\ Forwards(mem, free_ptr)' /\ Counts(mem, free_ptr)'
        /\ FromSpace' = FromSpace /\ TOP_PTR' = TOP_PTR
    BY <1>1, <2>1, ForwardStep DEF ForwardsOnly
  <2>4. TypeOK'
    BY <1>1, <2>1, <2>2, <2>3 DEF TypeOK, TOP_PTR
  <2>5. ScanBounded'
    BY <1>1, <2>1, <2>3 DEF ScanBounded, TypeOK, TOP_PTR
  <2>6. Black'
    <3>1. scan_ptr <= free_ptr /\ scan_ptr \in Int
      BY <1>1 DEF ScanBounded, TypeOK
    <3> QED  BY <1>1, <2>1, <2>2, <2>3, <3>1 DEF Black, Clean, TOP_PTR
  <2>7. BlackRoots'
    BY <1>1, <2>1, <2>2, <2>3 DEF BlackRoots, Clean, TypeOK
  <2>8. RequestShaped' /\ pc' # "retry" /\ pc' # "abort"
    BY <1>1, <2>1 DEF RequestShaped
  <2> QED  BY <2>3, <2>4, <2>5, <2>6, <2>7, <2>8 DEF IInv
<1> QED  BY <1>3, <1>4

-----------------------------------------------------------------------------
(* Where the object being scanned is. *)
LEMMA Scanned ==
  ASSUME IInv, pc = "scan", scan_ptr < free_ptr
  PROVE  /\ scan_ptr \in Allocated /\ scan_ptr \in Addr
         /\ scan_ptr \in to_space .. TOP_PTR - 1
         /\ to_space \in {0, Extent} /\ free_ptr \in to_space .. TOP_PTR
BY ExtentAssumption DEF IInv, TypeOK, ScanBounded, Collecting, Allocated, Addr, TOP_PTR

(* The car, then the cdr of a cell; the cdr is forwarded with no new test. *)
LEMMA ScanCellStep ==
  ASSUME IInv, ScanCar \/ ScanCdr
  PROVE  IInv'
<1> USE ExtentAssumption, VecLenAssumption
<1> DEFINE field == IF fld = 0 THEN "a" ELSE "b"
           v == IF fld = 0 THEN mem[scan_ptr].a ELSE mem[scan_ptr].b
<1>1. /\ TypeOK /\ ScanBounded /\ Black /\ BlackRoots /\ RequestShaped
      /\ Shaped(mem) /\ Forwards(mem, free_ptr)
      /\ pc = "scan" /\ pc \in Collecting /\ scan_ptr < free_ptr
      /\ fld \in {0, 1} /\ (fld = 0 => ~Full) /\ mem[scan_ptr].tag = "CELL"
      /\ UNCHANGED <<to_space, cell, elem, enext, nodes, vmNodes, marked, roots,
                     todo, walk, req>>
  BY DEF IInv, ScanCar, ScanCdr, Scanning, OutOfRoom, nodeVars, Collecting
<1>2. /\ scan_ptr \in Allocated /\ scan_ptr \in Addr
      /\ scan_ptr \in to_space .. TOP_PTR - 1
      /\ to_space \in {0, Extent} /\ free_ptr \in to_space .. TOP_PTR
      /\ mem \in [Addr -> Object]
  BY <1>1, Scanned DEF TypeOK
<1>3. v \in Value /\ mem[scan_ptr].a \in Value /\ mem[scan_ptr].b \in Value
  BY <1>1, <1>2 DEF Shaped
<1>4. ~MovedTwice(v)
  BY MovedOnce
<1>5. /\ FwdMem(v) \in [Addr -> Object]
      /\ FwdRef(v) \in Value /\ Clean(FwdRef(v))
      /\ \A x \in to_space .. free_ptr - 1 : FwdMem(v)[x] = mem[x]
  BY <1>1, <1>3, Forwarding
<1>6. FwdMem(v)[scan_ptr] = mem[scan_ptr]
  BY <1>2, <1>5 DEF Allocated
<1>7. mem[scan_ptr] = [tag |-> "CELL", a |-> mem[scan_ptr].a, b |-> mem[scan_ptr].b]
  BY <1>1, <1>2 DEF Object
<1>8. ForwardsField(v, field) /\ pc' = pc
  <2>1. CASE ScanCar
    <3>1. fld = 0 /\ mem' = [FwdMem(v) EXCEPT ![scan_ptr].a = FwdRef(v)]
          /\ free_ptr' = FwdFree(v) /\ pc' = pc
      BY <1>4, <2>1 DEF ScanCar, Scanning
    <3> QED  BY <1>1, <1>2, <1>5, <1>6, <1>7, <3>1 DEF ForwardsField
  <2>2. CASE ScanCdr
    <3>1. fld = 1 /\ mem' = [FwdMem(v) EXCEPT ![scan_ptr].b = FwdRef(v)]
          /\ free_ptr' = FwdFree(v) /\ pc' = pc
      BY <2>2 DEF ScanCdr, Scanning
    <3> QED  BY <1>1, <1>2, <1>5, <1>6, <1>7, <3>1 DEF ForwardsField
  <2> QED  BY <2>1, <2>2
<1>9. \/ fld = 0 /\ fld' = 1 /\ scan_ptr' = scan_ptr
      \/ fld = 1 /\ fld' = 0 /\ scan_ptr' = scan_ptr + 1
  BY <1>4 DEF ScanCar, ScanCdr, Scanning, NextField, NextObject
<1>10. /\ mem' \in [Addr -> Object] /\ free_ptr' \in free_ptr .. TOP_PTR
       /\ Shaped(mem)' /\ Forwards(mem, free_ptr)' /\ Counts(mem, free_ptr)'
       /\ FromSpace' = FromSpace /\ TOP_PTR' = TOP_PTR
  <2>1. field \in {"a", "b"}
    OBVIOUS
  <2> HIDE DEF field
  <2> QED  BY <1>1, <1>3, <1>8, <2>1, ForwardStep
<1>11. /\ \A x \in to_space .. scan_ptr - 1 : mem'[x] = mem[x]
       /\ mem'[scan_ptr].tag = "CELL"
       /\ fld = 0 => mem'[scan_ptr].a = FwdRef(v)
       /\ fld = 1 => mem'[scan_ptr].a = mem[scan_ptr].a /\ mem'[scan_ptr].b = FwdRef(v)
  BY <1>1, <1>2, <1>5, <1>8 DEF ForwardsField, Addr, TOP_PTR
<1> HIDE DEF field, v
<1>12. TypeOK'
  BY <1>1, <1>2, <1>8, <1>9, <1>10 DEF TypeOK, TOP_PTR, Addr
<1>13. ScanBounded'
  BY <1>1, <1>2, <1>8, <1>9, <1>10 DEF ScanBounded, Collecting, Full, TOP_PTR
<1>14. Black'
  <2>1. fld = 1 => Clean(mem[scan_ptr].a)
    BY <1>1 DEF Black
  <2> QED  BY <1>1, <1>2, <1>5, <1>9, <1>10, <1>11, <2>1 DEF Black, Clean
<1>15. BlackRoots' /\ RequestShaped'
  BY <1>1, <1>8, <1>10 DEF BlackRoots, Clean, RequestShaped
<1> QED  BY <1>1, <1>8, <1>10, <1>12, <1>13, <1>14, <1>15 DEF IInv

(* The frame of a closure is forwarded and its nodes are to be collected.  *)
LEMMA ScanClosureStep ==
  ASSUME IInv, ScanClosure
  PROVE  IInv'
<1> USE ExtentAssumption
<1> DEFINE e == mem[scan_ptr].b
           v == cell[e]
<1>1. /\ TypeOK /\ ScanBounded /\ Black /\ RequestShaped /\ Shaped(mem)
      /\ pc = "scan" /\ pc \in Collecting /\ scan_ptr < free_ptr
      /\ fld = 0 /\ ~Full /\ mem[scan_ptr].tag = "CLOSURE"
      /\ mem' = FwdMem(v) /\ free_ptr' = FwdFree(v)
      /\ cell' = [cell EXCEPT ![e] = FwdRef(v)] /\ walk' = {e, mem[scan_ptr].a}
      /\ scan_ptr' = scan_ptr + 1 /\ fld' = 0 /\ pc' = "closure_collect"
      /\ UNCHANGED <<to_space, elem, enext, nodes, vmNodes, marked, roots, todo, req>>
  BY DEF IInv, ScanClosure, Scanning, OutOfRoom, NextObject, nodeVars, Collecting
<1>2. /\ scan_ptr \in Allocated /\ scan_ptr \in Addr
      /\ scan_ptr \in to_space .. TOP_PTR - 1
      /\ to_space \in {0, Extent} /\ free_ptr \in to_space .. TOP_PTR
  BY <1>1, Scanned
<1>3. e \in Env /\ mem[scan_ptr].a \in Code /\ v \in Value
  BY <1>1, <1>2 DEF Shaped, TypeOK, Slot
<1>4. FwdRef(v) \in Value /\ \A x \in to_space .. free_ptr - 1 : FwdMem(v)[x] = mem[x]
  BY <1>1, <1>3, Forwarding
<1>5. /\ mem' \in [Addr -> Object] /\ free_ptr' \in free_ptr .. TOP_PTR
      /\ Shaped(mem)' /\ Forwards(mem, free_ptr)' /\ Counts(mem, free_ptr)'
      /\ FromSpace' = FromSpace /\ TOP_PTR' = TOP_PTR
  BY <1>1, <1>3, ForwardStep DEF ForwardsOnly
<1>6. \A x \in to_space .. scan_ptr : mem'[x] = mem[x]
  BY <1>1, <1>2, <1>4
<1> HIDE DEF v
<1>7. TypeOK'
  <2>1. cell' \in [Slot -> Value]
    BY <1>1, <1>4 DEF TypeOK
  <2>2. walk' \subseteq Env \cup Code
    BY <1>1, <1>3
  <2>3. free_ptr' \in to_space' .. TOP_PTR' /\ scan_ptr' \in 0 .. 2 * Extent
    BY <1>1, <1>2, <1>5 DEF TOP_PTR, Addr
  <2> HIDE DEF e
  <2> QED  BY <1>1, <1>5, <2>1, <2>2, <2>3 DEF TypeOK, Phase
<1>8. ScanBounded'
  BY <1>1, <1>2, <1>5 DEF ScanBounded, Collecting, Full, TOP_PTR
<1>9. Black'
  BY <1>1, <1>2, <1>5, <1>6 DEF Black, Clean
<1>10. BlackRoots' /\ RequestShaped'
  BY <1>1 DEF BlackRoots, RequestShaped
<1> QED  BY <1>1, <1>5, <1>7, <1>8, <1>9, <1>10 DEF IInv

(* One element of a vector; a clean element stays clean.                    *)
LEMMA ScanElemStep ==
  ASSUME IInv, ScanElem
  PROVE  IInv'
<1> USE ExtentAssumption, VecLenAssumption
<1> DEFINE n == mem[scan_ptr].a
           v == elem[n][fld]
<1>1. /\ TypeOK /\ ScanBounded /\ Black /\ BlackRoots /\ RequestShaped /\ Shaped(mem)
      /\ pc = "scan" /\ pc \in Collecting /\ scan_ptr < free_ptr
      /\ fld \in 1 .. VecLen /\ mem[scan_ptr].tag = "VECTOR"
      /\ mem' = FwdMem(v) /\ free_ptr' = FwdFree(v)
      /\ elem' = [elem EXCEPT ![n][fld] = FwdRef(v)] /\ pc' = pc
      /\ UNCHANGED <<to_space, cell, enext, nodes, vmNodes, marked, roots, todo, walk, req>>
      /\ \/ fld = VecLen /\ scan_ptr' = scan_ptr + 1 /\ fld' = 0
         \/ fld # VecLen /\ scan_ptr' = scan_ptr /\ fld' = fld + 1
  BY DEF IInv, ScanElem, Scanning, NextObject, NextField, Collecting
<1>2. /\ scan_ptr \in Allocated /\ scan_ptr \in Addr
      /\ scan_ptr \in to_space .. TOP_PTR - 1
      /\ to_space \in {0, Extent} /\ free_ptr \in to_space .. TOP_PTR
  BY <1>1, Scanned
<1>3. n \in Vec /\ elem \in [Vec -> [1 .. VecLen -> Value]] /\ v \in Value
  BY <1>1, <1>2 DEF Shaped, TypeOK
<1>4. /\ FwdRef(v) \in Value /\ Clean(FwdRef(v))
      /\ \A x \in to_space .. free_ptr - 1 : FwdMem(v)[x] = mem[x]
  BY <1>1, <1>3, Forwarding
<1>5. /\ mem' \in [Addr -> Object] /\ free_ptr' \in free_ptr .. TOP_PTR
      /\ Shaped(mem)' /\ Forwards(mem, free_ptr)' /\ Counts(mem, free_ptr)'
      /\ FromSpace' = FromSpace /\ TOP_PTR' = TOP_PTR
  BY <1>1, <1>3, ForwardStep DEF ForwardsOnly
<1>6. \A x \in to_space .. scan_ptr : mem'[x] = mem[x]
  BY <1>1, <1>2, <1>4
<1>7. /\ elem' \in [Vec -> [1 .. VecLen -> Value]]
      /\ \A m \in Vec, i \in 1 .. VecLen :
           elem'[m][i] = IF m = n /\ i = fld THEN FwdRef(v) ELSE elem[m][i]
  BY <1>1, <1>3, <1>4
<1>8. TypeOK'
  BY <1>1, <1>2, <1>5, <1>7 DEF TypeOK, TOP_PTR, Addr
<1>9. ScanBounded'
  BY <1>1, <1>2, <1>5 DEF ScanBounded, Collecting, TOP_PTR
<1>10. Black'
  <2>1. \A x \in to_space .. scan_ptr : mem[x].tag = "VECTOR" => mem[x].a \in Vec
    BY <1>1, <1>2 DEF Shaped, Addr, TOP_PTR
  <2>2. \A i \in 1 .. fld : Clean(elem'[n][i])
    BY <1>1, <1>3, <1>4, <1>7 DEF Black
  <2>3. \A m \in Vec, i \in 1 .. VecLen : Clean(elem[m][i]) => Clean(elem'[m][i])
    BY <1>4, <1>7
  <2>4. mem'[scan_ptr] = mem[scan_ptr] /\ mem'[scan_ptr].tag = "VECTOR" /\ mem'[scan_ptr].a = n
    BY <1>1, <1>2, <1>6
  <2> HIDE DEF n, v
  <2>6. \A x \in to_space .. scan_ptr' - 1 :
          /\ mem'[x].tag = "CELL" => mem'[x].a \notin FromSpace /\ mem'[x].b \notin FromSpace
          /\ mem'[x].tag = "VECTOR" =>
               \A i \in 1 .. VecLen : elem'[mem'[x].a][i] \notin FromSpace
    <3> TAKE x \in to_space .. scan_ptr' - 1
    <3>1. CASE x = scan_ptr
      <4>1. fld = VecLen
        BY <1>1, <1>2, <3>1
      <4> QED  BY <2>2, <2>4, <3>1, <4>1 DEF Clean
    <3>2. CASE x # scan_ptr
      <4>1. x \in to_space .. scan_ptr - 1
        BY <1>1, <1>2, <3>2
      <4> QED  BY <1>1, <1>2, <1>6, <2>1, <2>3, <4>1 DEF Black, Clean
    <3> QED  BY <3>1, <3>2
  <2>7. fld' > 0 => /\ scan_ptr' = scan_ptr
                    /\ \A i \in 1 .. fld' - 1 : elem'[n][i] \notin FromSpace
    BY <1>1, <2>2 DEF Clean
  <2> QED  BY <1>1, <1>5, <2>4, <2>6, <2>7 DEF Black, Clean
<1>11. BlackRoots' /\ RequestShaped'
  BY <1>1, <1>5 DEF BlackRoots, Clean, RequestShaped
<1> QED  BY <1>1, <1>5, <1>8, <1>9, <1>10, <1>11 DEF IInv

-----------------------------------------------------------------------------
(* The strengthened invariant holds at the start ...                       *)
LEMMA InitIInv == Init => IInv
<1> SUFFICES ASSUME Init PROVE IInv
  OBVIOUS
<1> USE ExtentAssumption, VecLenAssumption
<1>1. NoRequest \in Request
  BY GlobalAssumption DEF NoRequest, Request, Idle, Value
<1>2. Zeroed \in Object /\ NoElems \in [1 .. VecLen -> Value]
  BY DEF Zeroed, Object, Tag, Value, NoElems, Static
<1>3. TypeOK
  BY <1>1, <1>2 DEF Init, TypeOK, TOP_PTR, Phase, Value
<1>4. Shaped(mem) /\ Forwards(mem, free_ptr)
  BY DEF Init, Shaped, Forwards, Zeroed
<1> QED  BY <1>3, <1>4 DEF Init, IInv, RequestShaped, NoRequest, ScanBounded, Black,
            BlackRoots, Collecting

(* ... and every step of the client and of the collector preserves it.     *)
LEMMA NextIInv == IInv /\ [Next]_vars => IInv'
<1> SUFFICES ASSUME IInv, [Next]_vars PROVE IInv'
  OBVIOUS
<1>1. CASE UNCHANGED vars
  <2>1. UNCHANGED heapVars
    BY <1>1 DEF vars, heapVars
  <2>2. FromSpace' = FromSpace /\ TOP_PTR' = TOP_PTR /\ (Full' <=> Full)
        /\ Shaped(mem)' /\ Forwards(mem, free_ptr)'
        /\ (Counts(mem, free_ptr)' <=> Counts(mem, free_ptr))
    BY <2>1, SameHeap
  <2>3. TypeOK'
    BY <1>1, <2>2 DEF vars, IInv, TypeOK
  <2>4. RequestShaped' /\ ScanBounded' /\ Black' /\ BlackRoots'
    BY <1>1, <2>2 DEF vars, IInv, RequestShaped, ScanBounded, Black, BlackRoots, Clean
  <2>5. pc' = pc
    BY <1>1 DEF vars
  <2> QED  BY <2>2, <2>3, <2>4, <2>5 DEF IInv
<1>2. CASE Client
  BY <1>2, ClientStep
<1>3. CASE Alloc
  BY <1>3, AllocStep
<1>4. CASE Collector
  BY <1>4, StartGCStep, CollectNodeStep, PassStep, ForwardRootStep, ScanLeafStep,
     ScanCellStep, ScanClosureStep, ScanElemStep, FinishStep DEF Collector
<1> QED  BY <1>1, <1>2, <1>3, <1>4 DEF Next

(* The strengthened invariant holds in every reachable state. *)
THEOREM Invariance == Spec => []IInv
BY InitIInv, NextIInv, PTL DEF Spec

(* Every word of the heap and of the registers has its type; in particular *)
(* free_ptr never passes the end of the semispace, although only the first *)
(* field of an object is forwarded after a test for room (gc.c:142).       *)
THEOREM Typed == Spec => []TypeOK
<1>1. IInv => TypeOK
  BY DEF IInv
<1> QED  BY <1>1, Invariance, PTL

(* The exits of gc.c for objects moved twice, moved objects in to_space    *)
(* and invalid moved objects are never taken.                              *)
THEOREM ChecksNeverFire == Spec => []NoInternalError
<1>1. IInv => NoInternalError
  BY DEF IInv, NoInternalError
<1> QED  BY <1>1, Invariance, PTL

(* After a collection fzscm_alloc finds room: its second test (gc.c:310)   *)
(* never succeeds.                                                         *)
THEOREM RoomAfterCollection == Spec => []CollectionMakesRoom
<1>1. IInv => CollectionMakesRoom
  BY DEF IInv, CollectionMakesRoom
<1> QED  BY <1>1, Invariance, PTL

(* Behind scan_ptr, and in the registered slots once the root passes are   *)
(* over, no reference to from_space is left.                               *)
THEOREM ScannedIsBlack == Spec => []NoRefBehindScan
<1>1. IInv => NoRefBehindScan
  BY DEF IInv, NoRefBehindScan, Black, BlackRoots, Clean
<1> QED  BY <1>1, Invariance, PTL
-----------------------------------------------------------------------------
(***************************************************************************)
(* The graph of objects.  The invariant is strengthened: no reference      *)
(* leads to memory that was never written, each copy has one original, the *)
(* arguments of the constructor that waits are still held by a registered  *)
(* slot, and what is marked is among the roots that are forwarded.         *)
(***************************************************************************)

(* A collection and, after it ran out of memory, its last state.           *)
Moving == Collecting \cup {"exit"}

(* The objects a reference may lead to.                                    *)
Known == Allocated \cup (IF pc \in Moving THEN FromSpace ELSE {})
Points(v) == v \in Addr => v \in Known
Tight ==
  /\ \A x \in Known :
       /\ mem[x].tag # "UNDEF"
       /\ mem[x].tag = "CELL" => Points(mem[x].a) /\ Points(mem[x].b)
  /\ \A s \in Slot : Points(cell[s])
  /\ \A n \in Vec, i \in 1 .. VecLen : Points(elem[n][i])

(* Every object of to_space is the copy of one object of from_space.       *)
Paired ==
  pc \in Moving =>
    /\ \A y \in Allocated : \E x \in FromSpace : mem[x].tag = "MOVED" /\ mem[x].a = y
    /\ \A x, y \in FromSpace :
         mem[x].tag = "MOVED" /\ mem[y].tag = "MOVED" /\ mem[x].a = mem[y].a => x = y

(* CHECK_OBJ_MOVING finds what the caller holds.                           *)
RequestHeld ==
  pc \in Moving \cup {"alloc", "retry"} /\ req.tag = "CELL" =>
    \A w \in {req.a, req.b} \cap Addr :
      \E s \in Global \cup PSlot :
        /\ cell[s] \in Addr /\ Now(w) = Now(cell[s])
        /\ pc = "alloc" => w = cell[s]

(* What survives FinishGC was forwarded: a marked environment or code node *)
(* is a root, a marked array belongs to a vector that was scanned.         *)
Visited == to_space .. (IF fld > 0 THEN scan_ptr ELSE scan_ptr - 1)
Rooted ==
  /\ pc \in Moving =>
       /\ marked \cap (Env \cup Code) \subseteq roots
       /\ \A g \in Global : cell[g] # NULL => g \in roots
       /\ \A n \in marked \cap Vec : \E x \in Visited : mem[x].tag = "VECTOR" /\ mem[x].a = n
  /\ pc = "parser_roots" => \A p \in PSlot \ todo : Clean(cell[p])
  /\ pc \in {"roots", "scan", "closure_collect"} => \A p \in PSlot : Clean(cell[p])
  /\ pc \notin Moving => marked = {} /\ roots = {}

(* Memory ran out when every object of the old semispace had been copied.  *)
Ended == pc = "exit" => Full /\ Counts(mem, free_ptr)

GInv == IInv /\ Tight /\ Paired /\ RequestHeld /\ Rooted /\ Ended

-----------------------------------------------------------------------------
(* A step that forwards the reference v: v is copied if it was not, and    *)
(* some of the references v become the new one.                            *)
Follows(old, new, v) == new = old \/ (old = v /\ new = FwdRef(v))
Forwarded(v) ==
  /\ v \in Value /\ Points(v)
  /\ pc \in Collecting /\ pc' \in Collecting
  /\ to_space' = to_space /\ free_ptr' = FwdFree(v)
  /\ \A x \in Addr :
       /\ mem'[x].tag = FwdMem(v)[x].tag
       /\ FwdMem(v)[x].tag = "CELL" => /\ Follows(FwdMem(v)[x].a, mem'[x].a, v)
                                      /\ Follows(FwdMem(v)[x].b, mem'[x].b, v)
       /\ FwdMem(v)[x].tag # "CELL" => mem'[x] = FwdMem(v)[x]
  /\ \A s \in Slot : Follows(cell[s], cell'[s], v)
  /\ \A n \in Vec, i \in 1 .. VecLen : Follows(elem[n][i], elem'[n][i], v)
  /\ UNCHANGED <<enext, nodes, vmNodes, req>>

(* Where such a step takes the object x.                                   *)
Moves(v, x) == IF Copies(v) /\ x = v THEN free_ptr ELSE x

(* Now, Origin and Graph for a given memory, so that the lemmas serve      *)
(* before and after a step.                                                *)
NowIn(m, w) == IF w \in Addr /\ m[w].tag = "MOVED" /\ w \notin ToSpace THEN m[w].a ELSE w
OriginIn(m, w) ==
  IF w \in ToSpace
  THEN CHOOSE x \in FromSpace : (x \in Addr /\ m[x].tag = "MOVED") /\ m[x].a = w
  ELSE w
ViewIn(m, x) ==
  LET o == m[NowIn(m, x)]
      fields == o.tag = "CELL"
  IN [tag |-> o.tag, a |-> IF fields THEN OriginIn(m, o.a) ELSE o.a,
                     b |-> IF fields THEN OriginIn(m, o.b) ELSE o.b]
GraphIn(m, c, e) ==
  [objects |-> [x \in FromSpace |-> ViewIn(m, x)],
   slots |-> [s \in Slot |-> OriginIn(m, c[s])],
   elements |-> [n \in Vec |-> [i \in 1 .. VecLen |-> OriginIn(m, e[n][i])]]]

LEMMA Spaces ==
  ASSUME to_space' = to_space
  PROVE  ToSpace' = ToSpace /\ FromSpace' = FromSpace /\ TOP_PTR' = TOP_PTR
BY DEF ToSpace, FromSpace, from_space, TOP_PTR

LEMMA InMemory ==
  ASSUME to_space' = to_space
  PROVE  /\ \A w : Now(w) = NowIn(mem, w) /\ Now(w)' = NowIn(mem', w)
         /\ Graph = GraphIn(mem, cell, elem) /\ Graph' = GraphIn(mem', cell', elem')
<1>1. ToSpace' = ToSpace /\ FromSpace' = FromSpace
  BY Spaces
<1>2. ASSUME NEW w
      PROVE  /\ Now(w) = NowIn(mem, w) /\ Now(w)' = NowIn(mem', w)
             /\ Origin(w) = OriginIn(mem, w) /\ Origin(w)' = OriginIn(mem', w)
  BY <1>1 DEF Now, NowIn, Origin, OriginIn, Moved, TOSPACE_CONTAINS
<1>3. ASSUME NEW x
      PROVE  View(x) = ViewIn(mem, x) /\ View(x)' = ViewIn(mem', x)
  BY <1>2 DEF View, ViewIn
<1> QED  BY <1>1, <1>2, <1>3 DEF Graph, GraphIn

(* Copying v, or finding it copied.                                        *)
LEMMA Copied ==
  ASSUME IInv, pc \in Collecting, NEW v \in Value
  PROVE  /\ Copies(v) =>
              /\ v \in FromSpace /\ free_ptr \in ToSpace /\ mem[v].tag # "MOVED"
              /\ FwdMem(v) = [x \in Addr |->
                   IF x = v THEN [tag |-> "MOVED", a |-> free_ptr, b |-> mem[v].b]
                   ELSE IF x = free_ptr THEN mem[v] ELSE mem[x]]
              /\ FwdFree(v) = free_ptr + 1 /\ FwdRef(v) = free_ptr
         /\ ~Copies(v) => FwdMem(v) = mem /\ FwdFree(v) = free_ptr /\ FwdRef(v) = NowIn(mem, v)
<1>1. CASE Copies(v)
  <2>1. v \in FromSpace /\ free_ptr \in ToSpace /\ mem[v].tag # "MOVED"
    BY <1>1, CopyHasRoom
  <2>2. ToSpace \cap FromSpace = {} /\ ToSpace \cup FromSpace = Addr /\ mem \in [Addr -> Object]
    BY Semispaces DEF IInv, TypeOK
  <2> QED  BY <1>1, <2>1, <2>2 DEF FwdMem, FwdFree, FwdRef
<1>2. CASE ~Copies(v)
  BY <1>2 DEF FwdMem, FwdFree, FwdRef, NowIn, Moved, TOSPACE_CONTAINS
<1> QED  BY <1>1, <1>2

-----------------------------------------------------------------------------
(* Where the known objects are.                                            *)
LEMMA KnownSpaces ==
  ASSUME IInv
  PROVE  /\ to_space \in {0, Extent} /\ free_ptr \in to_space .. TOP_PTR
         /\ ToSpace \cap FromSpace = {} /\ ToSpace \cup FromSpace = Addr
         /\ pc \in Moving => Known = Allocated \cup FromSpace
         /\ pc \notin Moving => Known = Allocated
         /\ Allocated \subseteq ToSpace /\ Allocated \subseteq Addr /\ Known \subseteq Addr
         /\ mem \in [Addr -> Object]
         /\ \A x \in Addr : mem[x].tag = "MOVED" => x \in FromSpace /\ mem[x].a \in Allocated
<1> USE ExtentAssumption
<1>1. /\ to_space \in {0, Extent} /\ free_ptr \in to_space .. TOP_PTR
      /\ mem \in [Addr -> Object] /\ Forwards(mem, free_ptr)
  BY DEF IInv, TypeOK
<1>2. ToSpace \cap FromSpace = {} /\ ToSpace \cup FromSpace = Addr
  BY <1>1, Semispaces
<1>3. Allocated \subseteq ToSpace
  BY <1>1 DEF Allocated, ToSpace, TOP_PTR
<1>4. \A x \in Addr : mem[x].tag = "MOVED" => x \in FromSpace /\ mem[x].a \in Allocated
  BY <1>1 DEF Forwards, Allocated
<1>5. /\ pc \in Moving => Known = Allocated \cup FromSpace
      /\ pc \notin Moving => Known = Allocated
  BY DEF Known
<1> QED  BY <1>1, <1>2, <1>3, <1>4, <1>5

LEMMA NowKnown ==
  ASSUME IInv, NEW w \in Known
  PROVE  NowIn(mem, w) \in Known /\ mem[NowIn(mem, w)].tag # "MOVED"
BY KnownSpaces DEF NowIn

(* The object x is at Moves(v, x) after v was forwarded, and so is what    *)
(* forwarding pointers lead to.                                            *)
LEMMA ObjectsMove ==
  ASSUME GInv, NEW v, Forwarded(v)
  PROVE  /\ ToSpace' = ToSpace /\ FromSpace' = FromSpace
         /\ Known \subseteq Known' /\ Known' \subseteq Addr
         /\ \A x \in Known : Moves(v, x) \in Known' /\ FwdMem(v)[Moves(v, x)] = mem[x]
         /\ \A w \in Addr : NowIn(mem', w) = Moves(v, NowIn(mem, w))
         /\ v \in Addr => /\ FwdRef(v) \in Known'
                          /\ NowIn(mem', FwdRef(v)) = Moves(v, NowIn(mem, v))
         /\ v \notin Addr => FwdRef(v) = v
<1>1. /\ IInv /\ v \in Value /\ Points(v) /\ pc \in Collecting /\ pc' \in Collecting
      /\ pc \in Moving /\ pc' \in Moving
      /\ to_space' = to_space /\ free_ptr' = FwdFree(v)
      /\ \A x \in Addr : /\ mem'[x].tag = FwdMem(v)[x].tag
                         /\ FwdMem(v)[x].tag # "CELL" => mem'[x] = FwdMem(v)[x]
  BY DEF GInv, Forwarded, Moving
<1>2. ToSpace' = ToSpace /\ FromSpace' = FromSpace
  BY <1>1, Spaces
<1>3. /\ to_space \in {0, Extent} /\ free_ptr \in to_space .. TOP_PTR
      /\ ToSpace \cap FromSpace = {} /\ ToSpace \cup FromSpace = Addr
      /\ Known = Allocated \cup FromSpace /\ Known' = Allocated' \cup FromSpace
      /\ Allocated \subseteq ToSpace /\ Allocated \subseteq Addr /\ Known \subseteq Addr
      /\ mem \in [Addr -> Object]
      /\ \A x \in Addr : mem[x].tag = "MOVED" => x \in FromSpace /\ mem[x].a \in Allocated
  BY <1>1, <1>2, KnownSpaces DEF Known
<1>4. /\ Copies(v) =>
              /\ v \in FromSpace /\ free_ptr \in ToSpace /\ mem[v].tag # "MOVED"
              /\ FwdMem(v) = [x \in Addr |->
                   IF x = v THEN [tag |-> "MOVED", a |-> free_ptr, b |-> mem[v].b]
                   ELSE IF x = free_ptr THEN mem[v] ELSE mem[x]]
              /\ FwdFree(v) = free_ptr + 1 /\ FwdRef(v) = free_ptr
      /\ ~Copies(v) => FwdMem(v) = mem /\ FwdFree(v) = free_ptr /\ FwdRef(v) = NowIn(mem, v)
  BY <1>1, Copied
<1>5. free_ptr \notin Known \/ ~Copies(v)
  BY <1>3, <1>4, ExtentAssumption DEF Allocated, TOP_PTR
<1>6. Allocated' = Allocated \cup (IF Copies(v) THEN {free_ptr} ELSE {})
  BY <1>1, <1>3, <1>4, ExtentAssumption DEF Allocated, TOP_PTR
<1>7. \A x \in Known : Moves(v, x) \in Known' /\ FwdMem(v)[Moves(v, x)] = mem[x]
  BY <1>3, <1>4, <1>5, <1>6 DEF Moves
<1>8. \A w \in Addr : NowIn(mem', w) = Moves(v, NowIn(mem, w))
  <2> SUFFICES ASSUME NEW w \in Addr PROVE NowIn(mem', w) = Moves(v, NowIn(mem, w))
    OBVIOUS
  <2>4. CASE w \in ToSpace
    BY <1>3, <1>4, <2>4 DEF Moves, NowIn
  <2>1. CASE w \in FromSpace /\ mem[w].tag = "MOVED"
    <3>1. w \in FromSpace /\ mem[w].a \in Allocated /\ mem'[w] = mem[w]
      BY <1>1, <1>3, <1>4, <1>5, <2>1
    <3>2. NowIn(mem, w) = mem[w].a /\ NowIn(mem', w) = mem[w].a
      BY <1>3, <2>1, <3>1 DEF NowIn
    <3> QED  BY <1>3, <1>4, <3>1, <3>2 DEF Moves
  <2>2. CASE w \in FromSpace /\ mem[w].tag # "MOVED" /\ Copies(v) /\ w = v
    <3>1. mem'[v].tag = "MOVED" /\ mem'[v].a = free_ptr
      BY <1>1, <1>3, <1>4, <2>2
    <3> QED  BY <1>3, <1>4, <2>2, <3>1 DEF Moves, NowIn
  <2>3. CASE w \in FromSpace /\ mem[w].tag # "MOVED" /\ ~(Copies(v) /\ w = v)
    <3>1. mem'[w].tag = mem[w].tag
      BY <1>1, <1>3, <1>4, <1>5, <2>3
    <3> QED  BY <2>3, <3>1 DEF Moves, NowIn
  <2> QED  BY <1>3, <2>1, <2>2, <2>3, <2>4
<1>9. ASSUME v \in Addr
      PROVE  FwdRef(v) \in Known' /\ NowIn(mem', FwdRef(v)) = Moves(v, NowIn(mem, v))
  <2>1. v \in Known
    BY <1>1, <1>9 DEF Points
  <2>2. CASE Copies(v)
    <3>1. NowIn(mem, v) = v
      BY <1>4, <2>2 DEF NowIn
    <3>2. NowIn(mem', free_ptr) = free_ptr
      BY <1>4, <2>2 DEF NowIn
    <3> QED  BY <1>4, <1>6, <1>3, <2>2, <3>1, <3>2 DEF Moves
  <2>3. CASE ~Copies(v)
    <3>1. FwdRef(v) = NowIn(mem, v) /\ NowIn(mem, v) \in Known /\ mem[NowIn(mem, v)].tag # "MOVED"
      BY <1>1, <1>4, <2>1, <2>3, NowKnown
    <3>2. mem'[NowIn(mem, v)].tag = mem[NowIn(mem, v)].tag
      BY <1>1, <1>3, <1>4, <2>3, <3>1
    <3> QED  BY <1>3, <1>6, <2>3, <3>1, <3>2 DEF Moves, NowIn
  <2> QED  BY <2>2, <2>3
<1>10. v \notin Addr => FwdRef(v) = v
  BY <1>1, <1>4, HeapValues DEF Copies, NowIn
<1>11. Known \subseteq Known' /\ Known' \subseteq Addr
  BY <1>3, <1>4, <1>6
<1> QED  BY <1>2, <1>7, <1>8, <1>9, <1>10, <1>11

(* A copy still has one original.                                          *)
LEMMA PairsKept ==
  ASSUME GInv, NEW v, Forwarded(v)
  PROVE  /\ Paired'
         /\ \A x \in FromSpace : mem[x].tag = "MOVED" => mem'[x] = mem[x]
         /\ Copies(v) => v \in FromSpace /\ mem'[v].tag = "MOVED" /\ mem'[v].a = free_ptr
<1>1. /\ IInv /\ Paired /\ v \in Value /\ pc \in Collecting /\ pc \in Moving /\ pc' \in Moving
      /\ to_space' = to_space /\ free_ptr' = FwdFree(v)
      /\ \A x \in Addr : /\ mem'[x].tag = FwdMem(v)[x].tag
                         /\ FwdMem(v)[x].tag # "CELL" => mem'[x] = FwdMem(v)[x]
  BY DEF GInv, Forwarded, Moving
<1>2. /\ FromSpace' = FromSpace /\ ToSpace \cap FromSpace = {} /\ FromSpace \subseteq Addr
      /\ to_space \in {0, Extent} /\ free_ptr \in to_space .. TOP_PTR
      /\ \A x \in Addr : mem[x].tag = "MOVED" => x \in FromSpace /\ mem[x].a \in Allocated
  BY <1>1, KnownSpaces, Spaces
<1>3. /\ Copies(v) =>
              /\ v \in FromSpace /\ free_ptr \in ToSpace /\ mem[v].tag # "MOVED"
              /\ FwdMem(v) = [x \in Addr |->
                   IF x = v THEN [tag |-> "MOVED", a |-> free_ptr, b |-> mem[v].b]
                   ELSE IF x = free_ptr THEN mem[v] ELSE mem[x]]
              /\ FwdFree(v) = free_ptr + 1
      /\ ~Copies(v) => FwdMem(v) = mem /\ FwdFree(v) = free_ptr
  BY <1>1, Copied
<1>4. \A x \in FromSpace : mem[x].tag = "MOVED" => mem'[x] = mem[x]
  BY <1>1, <1>2, <1>3
<1>5. Copies(v) => v \in FromSpace /\ mem'[v].tag = "MOVED" /\ mem'[v].a = free_ptr
  BY <1>1, <1>2, <1>3
<1>6. \A x \in FromSpace : mem'[x].tag = "MOVED" => mem[x].tag = "MOVED" \/ (Copies(v) /\ x = v)
  BY <1>1, <1>2, <1>3
<1>7. /\ Allocated' = Allocated \cup (IF Copies(v) THEN {free_ptr} ELSE {})
      /\ free_ptr \notin Allocated
  BY <1>1, <1>2, <1>3, ExtentAssumption DEF Allocated, TOP_PTR
<1>8. ASSUME NEW y \in Allocated' PROVE \E x \in FromSpace : mem'[x].tag = "MOVED" /\ mem'[x].a = y
  <2>1. CASE y \in Allocated
    <3>1. PICK x \in FromSpace : mem[x].tag = "MOVED" /\ mem[x].a = y
      BY <1>1, <2>1 DEF Paired
    <3> QED  BY <1>4, <3>1
  <2>2. CASE y \notin Allocated
    BY <1>5, <1>7, <2>2
  <2> QED  BY <2>1, <2>2
<1>9. ASSUME NEW x \in FromSpace, NEW y \in FromSpace, mem'[x].tag = "MOVED",
             mem'[y].tag = "MOVED", mem'[x].a = mem'[y].a
      PROVE  x = y
  BY <1>1, <1>2, <1>4, <1>5, <1>6, <1>7, <1>9 DEF Paired
<1> QED  BY <1>2, <1>4, <1>5, <1>8, <1>9 DEF Paired

LEMMA OriginOf ==
  ASSUME NEW m, NEW x \in FromSpace, FromSpace \subseteq Addr,
         m[x].tag = "MOVED", m[x].a \in ToSpace,
         \A y \in FromSpace : m[y].tag = "MOVED" /\ m[y].a = m[x].a => y = x
  PROVE  OriginIn(m, m[x].a) = x
BY DEF OriginIn

(* A reference into to_space keeps its origin, the new reference has the   *)
(* origin of the old one.                                                  *)
LEMMA OriginsKept ==
  ASSUME GInv, NEW v, Forwarded(v)
  PROVE  /\ \A w : Points(w) => OriginIn(mem', w) = OriginIn(mem, w)
         /\ OriginIn(mem', FwdRef(v)) = OriginIn(mem, v)
<1>1. /\ IInv /\ Paired /\ v \in Value /\ Points(v)
      /\ pc \in Collecting /\ pc \in Moving /\ pc' \in Moving
  BY DEF GInv, Forwarded, Moving
<1>2. /\ FromSpace' = FromSpace /\ ToSpace \cap FromSpace = {} /\ ToSpace \cup FromSpace = Addr
      /\ Known = Allocated \cup FromSpace /\ Allocated \subseteq ToSpace
      /\ \A x \in Addr : mem[x].tag = "MOVED" => x \in FromSpace /\ mem[x].a \in Allocated
  BY <1>1, KnownSpaces, Spaces DEF Forwarded
<1>3. /\ \A x \in FromSpace : mem[x].tag = "MOVED" => mem'[x] = mem[x]
      /\ \A x, y \in FromSpace :
           mem'[x].tag = "MOVED" /\ mem'[y].tag = "MOVED" /\ mem'[x].a = mem'[y].a => x = y
      /\ Copies(v) => v \in FromSpace /\ mem'[v].tag = "MOVED" /\ mem'[v].a = free_ptr
  BY <1>1, <1>2, PairsKept DEF Paired
<1>4. ASSUME NEW x \in FromSpace, mem[x].tag = "MOVED"
      PROVE  OriginIn(mem, mem[x].a) = x /\ OriginIn(mem', mem[x].a) = x
  <2>1. mem[x].a \in ToSpace /\ mem'[x] = mem[x] /\ FromSpace \subseteq Addr
    BY <1>2, <1>3, <1>4
  <2>2. OriginIn(mem, mem[x].a) = x
    BY <1>1, <1>4, <2>1, OriginOf DEF Paired
  <2>3. OriginIn(mem', mem'[x].a) = x
    BY <1>3, <1>4, <2>1, OriginOf
  <2> QED  BY <2>1, <2>2, <2>3
<1>5. ASSUME NEW w, Points(w) PROVE OriginIn(mem', w) = OriginIn(mem, w)
  <2>1. CASE w \in ToSpace
    <3>1. PICK x \in FromSpace : mem[x].tag = "MOVED" /\ mem[x].a = w
      BY <1>1, <1>2, <1>5, <2>1 DEF Points, Paired
    <3> QED  BY <1>4, <3>1
  <2>2. CASE w \notin ToSpace
    BY <2>2 DEF OriginIn
  <2> QED  BY <2>1, <2>2
<1>6. OriginIn(mem', FwdRef(v)) = OriginIn(mem, v)
  <2>1. CASE Copies(v)
    <3>1. v \in FromSpace /\ free_ptr \in ToSpace /\ FwdRef(v) = free_ptr
      BY <1>1, <2>1, Copied
    <3>2. OriginIn(mem', free_ptr) = v
      BY <1>2, <1>3, <2>1, <3>1, OriginOf
    <3>3. OriginIn(mem, v) = v
      BY <1>2, <3>1 DEF OriginIn
    <3> QED  BY <3>1, <3>2, <3>3
  <2>2. CASE ~Copies(v)
    <3>1. FwdRef(v) = NowIn(mem, v)
      BY <1>1, <2>2, Copied
    <3>2. CASE FwdRef(v) = v
      BY <1>1, <1>5, <3>2
    <3>3. CASE FwdRef(v) # v
      <4>1. v \in FromSpace /\ mem[v].tag = "MOVED" /\ FwdRef(v) = mem[v].a
        BY <1>2, <3>1, <3>3 DEF NowIn
      <4>2. OriginIn(mem, v) = v
        BY <1>2, <4>1 DEF OriginIn
      <4> QED  BY <1>4, <4>1, <4>2
    <3> QED  BY <3>2, <3>3
  <2> QED  BY <2>1, <2>2
<1> QED  BY <1>5, <1>6

LEMMA GraphKept ==
  ASSUME GInv, NEW v, Forwarded(v)
  PROVE  Graph' = Graph
<1>1. /\ IInv /\ Tight /\ to_space' = to_space /\ pc \in Moving /\ v \in Value /\ Points(v)
  BY DEF GInv, Forwarded, Moving
<1>2. /\ ToSpace \cup FromSpace = Addr /\ Known = Allocated \cup FromSpace /\ Known \subseteq Addr
      /\ FromSpace' = FromSpace
  BY <1>1, KnownSpaces, Spaces
<1>3. /\ \A w : Points(w) => OriginIn(mem', w) = OriginIn(mem, w)
      /\ OriginIn(mem', FwdRef(v)) = OriginIn(mem, v)
  BY OriginsKept
<1>4. \A old, new : Points(old) /\ Follows(old, new, v) => OriginIn(mem', new) = OriginIn(mem, old)
  BY <1>3 DEF Follows
<1>5. ASSUME NEW x \in FromSpace PROVE ViewIn(mem', x) = ViewIn(mem, x)
  <2> DEFINE y == NowIn(mem, x)
             z == NowIn(mem', x)
  <2>1. y \in Known
    BY <1>1, <1>2, NowKnown
  <2>2. z = Moves(v, y) /\ z \in Addr /\ FwdMem(v)[z] = mem[y]
    BY <1>2, <2>1, ObjectsMove
  <2> HIDE DEF y, z
  <2>3. /\ mem'[z].tag = mem[y].tag
        /\ mem[y].tag = "CELL" => Follows(mem[y].a, mem'[z].a, v) /\ Follows(mem[y].b, mem'[z].b, v)
        /\ mem[y].tag # "CELL" => mem'[z] = mem[y]
    BY <2>2 DEF Forwarded
  <2>4. mem[y].tag = "CELL" => /\ OriginIn(mem', mem'[z].a) = OriginIn(mem, mem[y].a)
                               /\ OriginIn(mem', mem'[z].b) = OriginIn(mem, mem[y].b)
    BY <1>1, <1>4, <2>1, <2>3 DEF Tight
  <2> QED  BY <2>3, <2>4 DEF ViewIn, y, z
<1>6. \A s \in Slot : OriginIn(mem', cell'[s]) = OriginIn(mem, cell[s])
  BY <1>1, <1>4 DEF Tight, Forwarded
<1>7. \A n \in Vec, i \in 1 .. VecLen : OriginIn(mem', elem'[n][i]) = OriginIn(mem, elem[n][i])
  BY <1>1, <1>4 DEF Tight, Forwarded
<1>8. GraphIn(mem', cell', elem') = GraphIn(mem, cell, elem)
  BY <1>5, <1>6, <1>7 DEF GraphIn
<1> QED  BY <1>1, <1>8, InMemory

-----------------------------------------------------------------------------
(* Forwarding keeps the invariant.                                         *)

LEMMA TightKept ==
  ASSUME GInv, NEW v, Forwarded(v)
  PROVE  Tight'
<1> DEFINE Leads(w) == w \in Addr => w \in Known'
<1>1. /\ IInv /\ Tight /\ v \in Value /\ Points(v)
      /\ pc \in Collecting /\ pc \in Moving /\ pc' \in Moving
      /\ to_space' = to_space /\ free_ptr' = FwdFree(v)
  BY DEF GInv, Forwarded, Moving
<1>2. /\ to_space \in {0, Extent} /\ free_ptr \in to_space .. TOP_PTR
      /\ Known = Allocated \cup FromSpace /\ Known' = Allocated' \cup FromSpace
      /\ Known \subseteq Addr /\ ToSpace \cup FromSpace = Addr /\ ToSpace \cap FromSpace = {}
      /\ Allocated \subseteq ToSpace
  BY <1>1, KnownSpaces, Spaces DEF Known
<1>3. /\ Known \subseteq Known' /\ Known' \subseteq Addr
      /\ v \in Addr => FwdRef(v) \in Known'
      /\ v \notin Addr => FwdRef(v) = v
  BY ObjectsMove
<1>4. \A old, new : Points(old) /\ Follows(old, new, v) => Leads(new)
  BY <1>3 DEF Points, Follows
<1> HIDE DEF Leads
<1>5. ASSUME NEW x \in Known'
      PROVE  FwdMem(v)[x].tag = "MOVED" \/ \E y \in Known : FwdMem(v)[x] = mem[y]
  <2>1. CASE Copies(v)
    <3>1. /\ v \in FromSpace
          /\ FwdMem(v) = [z \in Addr |->
               IF z = v THEN [tag |-> "MOVED", a |-> free_ptr, b |-> mem[v].b]
               ELSE IF z = free_ptr THEN mem[v] ELSE mem[z]]
          /\ FwdFree(v) = free_ptr + 1
      BY <1>1, <2>1, Copied
    <3>2. Allocated' = Allocated \cup {free_ptr}
      BY <1>1, <1>2, <3>1, ExtentAssumption DEF Allocated, TOP_PTR
    <3>3. x = v => FwdMem(v)[x].tag = "MOVED"
      BY <1>2, <3>1
    <3>4. x # v /\ x = free_ptr => FwdMem(v)[x] = mem[v] /\ v \in Known
      BY <1>2, <1>3, <3>1
    <3>5. x # v /\ x # free_ptr => FwdMem(v)[x] = mem[x] /\ x \in Known
      BY <1>2, <1>3, <3>1, <3>2
    <3> QED  BY <3>3, <3>4, <3>5
  <2>2. CASE ~Copies(v)
    <3>1. FwdMem(v) = mem /\ FwdFree(v) = free_ptr
      BY <1>1, <2>2, Copied
    <3>2. Allocated' = Allocated
      BY <1>1, <3>1 DEF Allocated
    <3> QED  BY <1>2, <3>1, <3>2
  <2> QED  BY <2>1, <2>2
<1>6. ASSUME NEW x \in Known'
      PROVE  /\ mem'[x].tag # "UNDEF"
             /\ mem'[x].tag = "CELL" => Leads(mem'[x].a) /\ Leads(mem'[x].b)
  <2>1. /\ mem'[x].tag = FwdMem(v)[x].tag
        /\ FwdMem(v)[x].tag = "CELL" => /\ Follows(FwdMem(v)[x].a, mem'[x].a, v)
                                        /\ Follows(FwdMem(v)[x].b, mem'[x].b, v)
    BY <1>3 DEF Forwarded
  <2>2. CASE FwdMem(v)[x].tag = "MOVED"
    BY <2>1, <2>2
  <2>3. ASSUME NEW y \in Known, FwdMem(v)[x] = mem[y]
        PROVE  /\ mem'[x].tag # "UNDEF"
               /\ mem'[x].tag = "CELL" => Leads(mem'[x].a) /\ Leads(mem'[x].b)
    <3>1. /\ mem[y].tag # "UNDEF"
          /\ mem[y].tag = "CELL" => Points(mem[y].a) /\ Points(mem[y].b)
      BY <1>1 DEF Tight
    <3> QED  BY <1>4, <2>1, <2>3, <3>1
  <2> QED  BY <1>5, <2>2, <2>3
<1>7. \A s \in Slot : Leads(cell'[s])
  BY <1>1, <1>4 DEF Tight, Forwarded
<1>8. \A n \in Vec, i \in 1 .. VecLen : Leads(elem'[n][i])
  BY <1>1, <1>4 DEF Tight, Forwarded
<1> QED  BY <1>6, <1>7, <1>8 DEF Tight, Points, Leads

LEMMA RequestKept ==
  ASSUME GInv, NEW v, Forwarded(v)
  PROVE  RequestHeld'
<1>1. /\ IInv /\ RequestHeld /\ Tight /\ pc \in Moving /\ pc' \in Moving /\ to_space' = to_space
      /\ req' = req
  BY DEF GInv, Forwarded, Moving
<1>2. /\ \A w \in Addr : NowIn(mem', w) = Moves(v, NowIn(mem, w))
      /\ v \in Addr => FwdRef(v) \in Addr /\ NowIn(mem', FwdRef(v)) = Moves(v, NowIn(mem, v))
      /\ Known \subseteq Addr
  BY <1>1, ObjectsMove, KnownSpaces
<1>3. SUFFICES ASSUME req.tag = "CELL", NEW w \in {req.a, req.b} \cap Addr
               PROVE  \E s \in Global \cup PSlot : cell'[s] \in Addr /\ NowIn(mem', w) = NowIn(mem', cell'[s])
  <2>1. pc' # "alloc" /\ \A w : Now(w)' = NowIn(mem', w)
    BY <1>1, InMemory DEF Moving, Collecting
  <2> QED  BY <1>1, <2>1 DEF RequestHeld
<1>4. PICK s \in Global \cup PSlot : cell[s] \in Addr /\ NowIn(mem, w) = NowIn(mem, cell[s])
  BY <1>1, <1>3, InMemory DEF RequestHeld
<1>5. Follows(cell[s], cell'[s], v)
  BY DEF Forwarded, Slot
<1>6. cell'[s] \in Addr /\ NowIn(mem', cell'[s]) = Moves(v, NowIn(mem, cell[s]))
  BY <1>2, <1>4, <1>5 DEF Follows
<1> QED  BY <1>2, <1>3, <1>4, <1>6

LEMMA RootedKept ==
  ASSUME GInv, NEW v, Forwarded(v), UNCHANGED <<marked, roots>>, Visited \subseteq Visited',
         pc' = "parser_roots" => /\ pc = "parser_roots"
                                 /\ \A p \in todo \ todo' : Clean(cell'[p]),
         pc' \in {"roots", "scan", "closure_collect"} => pc \in {"roots", "scan", "closure_collect"}
  PROVE  Rooted'
<1>1. /\ IInv /\ Rooted /\ pc \in Collecting /\ pc \in Moving /\ pc' \in Moving
      /\ v \in Value /\ FromSpace' = FromSpace
      /\ \A s \in Slot : Follows(cell[s], cell'[s], v)
  BY Spaces DEF GInv, Forwarded, Moving
<1>2. Clean(FwdRef(v)) /\ \A x \in Allocated : FwdMem(v)[x] = mem[x]
  BY <1>1, Forwarding DEF Allocated
<1>3. v = NULL => FwdRef(v) = NULL
  BY ObjectsMove, NamesAssumption
<1>4. \A g \in Global : cell'[g] # NULL => cell[g] # NULL
  BY <1>1, <1>3 DEF Follows, Slot
<1>5. \A s \in Slot : Clean(cell[s]) => Clean(cell'[s])
  BY <1>1, <1>2 DEF Follows
<1>6. Visited \subseteq Allocated
  BY <1>1, ExtentAssumption DEF Visited, Allocated, IInv, ScanBounded, TypeOK, TOP_PTR
<1>7. \A x \in Visited : mem[x].tag = "VECTOR" => mem'[x] = mem[x]
  <2>1. Allocated \subseteq Addr
    BY <1>1, KnownSpaces
  <2> QED  BY <1>2, <1>6, <2>1 DEF Forwarded
<1>8. \A n \in marked' \cap Vec : \E x \in Visited' : mem'[x].tag = "VECTOR" /\ mem'[x].a = n
  BY <1>1, <1>7 DEF Rooted
<1>11. pc' = "parser_roots" => \A p \in PSlot \ todo' : Clean(cell'[p])
  BY <1>1, <1>5 DEF Rooted, Slot
<1>12. pc' \in {"roots", "scan", "closure_collect"} => \A p \in PSlot : Clean(cell'[p])
  BY <1>1, <1>5 DEF Rooted, Slot
<1>13. /\ marked' \cap (Env \cup Code) \subseteq roots'
       /\ \A g \in Global : cell'[g] # NULL => g \in roots'
  BY <1>1, <1>4 DEF Rooted
<1> QED  BY <1>1, <1>8, <1>11, <1>12, <1>13 DEF Rooted, Clean

LEMMA ForwardedKeeps ==
  ASSUME GInv, IInv', NEW v, Forwarded(v), Rooted'
  PROVE  GInv'
<1>1. pc' # "exit"
  BY DEF Forwarded, Collecting
<1> QED  BY <1>1, TightKept, RequestKept, PairsKept DEF GInv, Ended

-----------------------------------------------------------------------------
(* The steps that leave the objects and the references alone.              *)
Quiet ==
  /\ UNCHANGED <<to_space, free_ptr, mem, cell, elem, enext, nodes, vmNodes, req>>
  /\ pc \in Moving <=> pc' \in Moving
  /\ pc' \in {"alloc", "retry"} => pc' = pc

LEMMA QuietKeeps ==
  ASSUME GInv, IInv', Quiet, Rooted', Ended'
  PROVE  GInv' /\ Graph' = Graph
<1>1. /\ to_space' = to_space /\ FromSpace' = FromSpace /\ Allocated' = Allocated /\ Known' = Known
      /\ mem' = mem /\ cell' = cell /\ elem' = elem /\ req' = req
  BY Spaces DEF Quiet, Allocated, Known
<1>2. Tight' /\ Paired'
  BY <1>1 DEF GInv, Tight, Points, Paired, Quiet
<1>3. RequestHeld'
  BY <1>1, InMemory DEF GInv, RequestHeld, Quiet
<1>4. Graph' = Graph
  BY <1>1, InMemory
<1> QED  BY <1>2, <1>3, <1>4 DEF GInv

(* A node is marked together with becoming a root; the passes begin with   *)
(* what they have to visit and end with nothing left.                      *)
LEMMA PassesQuiet ==
  ASSUME GInv, (\E n \in Env \cup Code : CollectNode(n)) \/ CollectDone \/ RootsDone
  PROVE  Quiet /\ Rooted' /\ Ended'
<1>1. /\ IInv /\ Rooted /\ pc \in Collecting /\ pc' \in Collecting /\ pc \in Moving /\ pc' \in Moving
      /\ UNCHANGED <<to_space, free_ptr, mem, cell, elem, enext, nodes, vmNodes, req, scan_ptr, fld>>
  BY DEF GInv, CollectNode, CollectDone, RootsDone, heapVars, nodeVars, Collecting, Moving
<1>2. FromSpace' = FromSpace /\ Visited' = Visited
  BY <1>1, Spaces DEF Visited
<1>3. Quiet /\ Ended'
  BY <1>1 DEF Quiet, Ended, Collecting
<1>4. ASSUME NEW n \in Env \cup Code, CollectNode(n) PROVE Rooted'
  <2>1. /\ marked' = marked \cup {n} /\ roots' = roots \cup {n} /\ UNCHANGED <<todo, pc>>
        /\ pc \in {"vm_collect", "closure_collect"}
    BY <1>4 DEF CollectNode
  <2>2. n \notin Vec
    BY NamesAssumption
  <2> QED  BY <1>1, <1>2, <2>1, <2>2 DEF Rooted, Clean
<1>5. CASE CollectDone
  <2>1. /\ UNCHANGED <<marked, roots>>
        /\ \/ /\ pc = "vm_collect" /\ pc' = "parser_roots"
              /\ todo' = {p \in PSlot : cell[p] # NULL}
           \/ /\ pc = "closure_collect" /\ pc' = "roots"
    BY <1>5 DEF CollectDone
  <2>2. Clean(NULL)
    BY <1>1, KnownSpaces, NamesAssumption DEF Clean
  <2> QED  BY <1>1, <1>2, <1>3, <2>1, <2>2 DEF Rooted, Clean
<1>6. CASE RootsDone
  <2>1. /\ UNCHANGED <<marked, roots>> /\ todo = {}
        /\ pc \in {"parser_roots", "roots"} /\ pc' \in {"roots", "scan"}
    BY <1>6 DEF RootsDone
  <2> QED  BY <1>1, <1>2, <1>3, <2>1 DEF Rooted, Clean
<1> QED  BY <1>1, <1>3, <1>4, <1>5, <1>6

(* An object without references in its words, and the end for want of      *)
(* memory.                                                                 *)
LEMMA LeavesQuiet ==
  ASSUME GInv, ScanVector \/ ScanString \/ ScanLeaf \/ ScanFull, IInv'
  PROVE  Quiet /\ Rooted' /\ Ended'
<1>1. /\ IInv /\ Rooted /\ pc = "scan" /\ pc \in Collecting /\ pc \in Moving
      /\ fld = 0 /\ scan_ptr < free_ptr /\ Shaped(mem)
      /\ UNCHANGED <<to_space, free_ptr, mem, cell, elem, enext, nodes, vmNodes, req, roots, todo>>
  BY DEF GInv, IInv, ScanVector, ScanString, ScanLeaf, ScanFull, Scanning, OutOfRoom, heapVars,
         nodeVars, gcIdle, Collecting, Moving
<1>2. scan_ptr \in Allocated /\ scan_ptr \in Addr /\ FromSpace' = FromSpace
  BY <1>1, Scanned, Spaces
<1>3. Visited = to_space .. scan_ptr - 1
  BY <1>1 DEF Visited
<1>4. CASE ScanFull
  <2>1. pc' = "exit" /\ UNCHANGED <<marked, scan_ptr, fld>> /\ Full
    BY <1>1, <1>4 DEF ScanFull, OutOfRoom, gcIdle
  <2>2. Counts(mem, free_ptr)' /\ Full'
    BY <1>1, <2>1, SameHeap DEF IInv, heapVars
  <2> QED  BY <1>1, <1>2, <2>1, <2>2 DEF Quiet, Rooted, Ended, Moving, Visited
<1>5. CASE ScanVector \/ ScanString \/ ScanLeaf
  <2>1. pc' = "scan"
    BY <1>1, <1>5 DEF ScanVector, ScanString, ScanLeaf, Scanning, IInv
  <2>2. Quiet /\ Ended'
    BY <1>1, <2>1 DEF Quiet, Ended
  <2>3. /\ marked' = marked \/ (mem[scan_ptr].a \in Str /\ marked' = marked \cup {mem[scan_ptr].a})
             \/ /\ mem[scan_ptr].tag = "VECTOR" /\ mem[scan_ptr].a \in Vec
                /\ marked' = marked \cup {mem[scan_ptr].a}
        /\ \/ scan_ptr' = scan_ptr + 1 /\ fld' = 0
           \/ scan_ptr' = scan_ptr /\ fld' = 1
    BY <1>1, <1>2, <1>5 DEF ScanVector, ScanString, ScanLeaf, Scanning, NextField, NextObject, Shaped
  <2>4. Visited' = Visited \cup {scan_ptr}
    BY <1>1, <1>2, <1>3, <2>3, ExtentAssumption
       DEF Visited, IInv, TypeOK, ScanBounded, Addr, Allocated, TOP_PTR
  <2>5. marked' \cap (Env \cup Code) = marked \cap (Env \cup Code)
    BY <2>3, NamesAssumption
  <2>6. \A n \in marked' \cap Vec : n \in marked \/ (mem[scan_ptr].tag = "VECTOR" /\ mem[scan_ptr].a = n)
    BY <2>3, NamesAssumption
  <2>7. Rooted'
    BY <1>1, <1>2, <2>1, <2>4, <2>5, <2>6 DEF Rooted, Clean
  <2> QED  BY <2>2, <2>7
<1> QED  BY <1>1, <1>4, <1>5

-----------------------------------------------------------------------------
(* The steps that forward a reference, and what else they do.              *)

LEMMA ForwardRootForwards ==
  ASSUME GInv, NEW s \in Slot, ForwardRoot(s), IInv'
  PROVE  \/ Quiet /\ Rooted' /\ Ended' /\ pc' = "exit" /\ UNCHANGED <<scan_ptr, fld, marked, roots, walk>>
         \/ /\ Forwarded(cell[s]) /\ Rooted' /\ s \in todo /\ todo' = todo \ {s}
            /\ UNCHANGED <<scan_ptr, fld, marked, roots, walk, pc>>
<1> DEFINE v == cell[s]
<1>1. /\ IInv /\ Tight /\ Rooted /\ pc \in {"parser_roots", "roots"} /\ pc \in Collecting /\ pc \in Moving
      /\ s \in todo /\ fld = 0 /\ v \in Value /\ Points(v) /\ cell \in [Slot -> Value]
      /\ UNCHANGED <<to_space, scan_ptr, fld, elem, enext, nodes, vmNodes, marked, roots, walk, req>>
  BY DEF GInv, IInv, TypeOK, Tight, ForwardRoot, nodeVars, ScanBounded, Collecting, Moving
<1>2. ~(Moved(v) /\ (TOSPACE_CONTAINS(v) \/ Moved(mem[v].a)))
  BY <1>1, MovedOnce DEF MovedTwice
<1>3. FromSpace' = FromSpace
  BY <1>1, Spaces
<1>4. CASE obj_is_in_gc_heap(v) /\ Full
  <2>1. pc' = "exit" /\ UNCHANGED <<mem, free_ptr, cell, todo>>
    BY <1>2, <1>4 DEF ForwardRoot
  <2>2. Counts(mem, free_ptr)' /\ Full'
    BY <1>1, <1>4, <2>1, SameHeap DEF IInv, heapVars
  <2>3. Visited' = Visited
    BY <1>1 DEF Visited
  <2> QED  BY <1>1, <1>3, <2>1, <2>2, <2>3 DEF Quiet, Rooted, Ended, Moving
<1>5. CASE ~(obj_is_in_gc_heap(v) /\ Full)
  <2>1. /\ mem' = FwdMem(v) /\ free_ptr' = FwdFree(v)
        /\ cell' = [cell EXCEPT ![s] = FwdRef(v)] /\ todo' = todo \ {s} /\ pc' = pc
    BY <1>2, <1>5 DEF ForwardRoot
  <2>2. Forwarded(v)
    BY <1>1, <2>1 DEF Forwarded, Follows
  <2>3. Visited' = Visited /\ Clean(cell'[s])
    BY <1>1, <2>1, Forwarding DEF Visited
  <2>4. Rooted'
    <3> HIDE DEF v
    <3> QED  BY <1>1, <2>1, <2>2, <2>3, RootedKept
  <2> QED  BY <1>1, <2>1, <2>2, <2>4
<1> QED  BY <1>4, <1>5

LEMMA ScanCellForwards ==
  ASSUME GInv, ScanCar \/ ScanCdr, IInv'
  PROVE  \E v \in {mem[scan_ptr].a, mem[scan_ptr].b} :
           /\ Forwarded(v) /\ Rooted' /\ UNCHANGED <<marked, roots, todo, walk, pc>>
           /\ pc = "scan" /\ scan_ptr \in Allocated /\ mem[scan_ptr].tag = "CELL"
           /\ Visited' = Visited \cup {scan_ptr}
<1> DEFINE v == IF fld = 0 THEN mem[scan_ptr].a ELSE mem[scan_ptr].b
<1>1. /\ IInv /\ Tight /\ Rooted /\ Shaped(mem) /\ pc = "scan" /\ pc \in Collecting /\ scan_ptr < free_ptr
      /\ fld \in {0, 1} /\ mem[scan_ptr].tag = "CELL"
      /\ UNCHANGED <<to_space, cell, elem, enext, nodes, vmNodes, marked, roots, todo, walk, req>>
  BY DEF GInv, IInv, ScanCar, ScanCdr, Scanning, nodeVars, Collecting
<1>2. /\ scan_ptr \in Allocated /\ scan_ptr \in Addr /\ scan_ptr \in Known
      /\ to_space \in {0, Extent} /\ free_ptr \in to_space .. TOP_PTR /\ scan_ptr \in Int
  BY <1>1, Scanned DEF Known, IInv, TypeOK
<1>3. v \in Value /\ Points(v)
  BY <1>1, <1>2 DEF Tight, Shaped
<1>4. /\ FwdMem(v) \in [Addr -> Object] /\ FwdMem(v)[scan_ptr] = mem[scan_ptr]
  BY <1>1, <1>2, <1>3, Forwarding DEF Allocated
<1>5. ~MovedTwice(v)
  BY <1>1, MovedOnce
<1>6. /\ pc' = pc /\ free_ptr' = FwdFree(v)
      /\ \/ /\ fld = 0 /\ fld' = 1 /\ scan_ptr' = scan_ptr
            /\ mem' = [FwdMem(v) EXCEPT ![scan_ptr].a = FwdRef(v)]
         \/ /\ fld = 1 /\ fld' = 0 /\ scan_ptr' = scan_ptr + 1
            /\ mem' = [FwdMem(v) EXCEPT ![scan_ptr].b = FwdRef(v)]
  BY <1>5 DEF ScanCar, ScanCdr, Scanning, NextField, NextObject
<1>7. Visited' = Visited \cup {scan_ptr}
  BY <1>1, <1>2, <1>6, ExtentAssumption DEF Visited, Allocated, TOP_PTR
<1>8. \A x \in Addr :
       /\ mem'[x].tag = FwdMem(v)[x].tag
       /\ FwdMem(v)[x].tag = "CELL" => /\ Follows(FwdMem(v)[x].a, mem'[x].a, v)
                                      /\ Follows(FwdMem(v)[x].b, mem'[x].b, v)
       /\ FwdMem(v)[x].tag # "CELL" => mem'[x] = FwdMem(v)[x]
  <2> TAKE x \in Addr
  <2>1. CASE x # scan_ptr
    BY <1>4, <1>6, <2>1 DEF Follows
  <2>2. CASE x = scan_ptr
    <3>1. FwdMem(v)[x] \in Object /\ FwdMem(v)[x] = mem[x]
      BY <1>4, <2>2
    <3>2. CASE fld = 0
      <4>1. mem'[x] = [FwdMem(v)[x] EXCEPT !.a = FwdRef(v)]
        BY <1>4, <1>6, <2>2, <3>2
      <4>2. mem'[x].tag = FwdMem(v)[x].tag /\ mem'[x].a = FwdRef(v) /\ mem'[x].b = FwdMem(v)[x].b
        BY <3>1, <4>1 DEF Object
      <4> QED  BY <1>1, <2>2, <3>1, <3>2, <4>2 DEF Follows
    <3>3. CASE fld = 1
      <4>1. mem'[x] = [FwdMem(v)[x] EXCEPT !.b = FwdRef(v)]
        BY <1>4, <1>6, <2>2, <3>3
      <4>2. mem'[x].tag = FwdMem(v)[x].tag /\ mem'[x].b = FwdRef(v) /\ mem'[x].a = FwdMem(v)[x].a
        BY <3>1, <4>1 DEF Object
      <4> QED  BY <1>1, <2>2, <3>1, <3>3, <4>2 DEF Follows
    <3> QED  BY <1>1, <3>2, <3>3
  <2> QED  BY <2>1, <2>2
<1>9. v \in {mem[scan_ptr].a, mem[scan_ptr].b}
  OBVIOUS
<1> HIDE DEF v
<1>10. Forwarded(v)
  BY <1>1, <1>3, <1>6, <1>8 DEF Forwarded, Follows
<1>11. Rooted'
  BY <1>1, <1>6, <1>7, <1>10, RootedKept
<1> QED  BY <1>1, <1>2, <1>6, <1>7, <1>9, <1>10, <1>11

LEMMA ScanClosureForwards ==
  ASSUME GInv, ScanClosure, IInv'
  PROVE  LET e == mem[scan_ptr].b IN
           /\ e \in Env /\ mem[scan_ptr].a \in Code
           /\ Forwarded(cell[e]) /\ Rooted' /\ UNCHANGED <<marked, roots, todo>>
           /\ pc = "scan" /\ pc' = "closure_collect" /\ walk' = {e, mem[scan_ptr].a}
           /\ scan_ptr \in Allocated /\ mem[scan_ptr].tag = "CLOSURE"
           /\ Visited' = Visited \cup {scan_ptr}
<1> DEFINE e == mem[scan_ptr].b
           v == cell[e]
<1>1. /\ IInv /\ Tight /\ Rooted /\ Shaped(mem) /\ pc = "scan" /\ pc \in Collecting /\ scan_ptr < free_ptr
      /\ fld = 0 /\ mem[scan_ptr].tag = "CLOSURE"
      /\ mem' = FwdMem(v) /\ free_ptr' = FwdFree(v)
      /\ cell' = [cell EXCEPT ![e] = FwdRef(v)] /\ walk' = {e, mem[scan_ptr].a}
      /\ scan_ptr' = scan_ptr + 1 /\ fld' = 0 /\ pc' = "closure_collect"
      /\ UNCHANGED <<to_space, elem, enext, nodes, vmNodes, marked, roots, todo, req>>
  BY DEF GInv, IInv, ScanClosure, Scanning, NextObject, nodeVars, Collecting
<1>2. /\ scan_ptr \in Allocated /\ scan_ptr \in Addr
      /\ to_space \in {0, Extent} /\ scan_ptr \in to_space .. TOP_PTR - 1
  BY <1>1, Scanned
<1>3. /\ e \in Env /\ mem[scan_ptr].a \in Code /\ v \in Value /\ Points(v)
      /\ cell \in [Slot -> Value] /\ e \in Slot
  BY <1>1, <1>2 DEF Shaped, IInv, TypeOK, Slot, Tight
<1>4. Visited' = Visited \cup {scan_ptr}
  BY <1>1, <1>2, ExtentAssumption DEF Visited, TOP_PTR
<1> HIDE DEF e
<1>5. Forwarded(v)
  BY <1>1, <1>3 DEF Forwarded, Follows, Collecting
<1>6. Rooted'
  <2> HIDE DEF v
  <2> QED  BY <1>1, <1>4, <1>5, RootedKept
<1> QED  BY <1>1, <1>2, <1>3, <1>4, <1>5, <1>6 DEF e

LEMMA ScanElemForwards ==
  ASSUME GInv, ScanElem, IInv'
  PROVE  LET n == mem[scan_ptr].a IN
           /\ n \in Vec /\ fld \in 1 .. VecLen
           /\ Forwarded(elem[n][fld]) /\ Rooted' /\ UNCHANGED <<marked, roots, todo, walk, pc>>
           /\ pc = "scan" /\ scan_ptr \in Allocated /\ mem[scan_ptr].tag = "VECTOR"
           /\ Visited' = Visited
<1> DEFINE n == mem[scan_ptr].a
           v == elem[n][fld]
<1>1. /\ IInv /\ Tight /\ Rooted /\ Shaped(mem) /\ pc = "scan" /\ pc \in Collecting /\ scan_ptr < free_ptr
      /\ fld \in 1 .. VecLen /\ mem[scan_ptr].tag = "VECTOR"
      /\ mem' = FwdMem(v) /\ free_ptr' = FwdFree(v)
      /\ elem' = [elem EXCEPT ![n][fld] = FwdRef(v)] /\ pc' = pc
      /\ UNCHANGED <<to_space, cell, enext, nodes, vmNodes, marked, roots, todo, walk, req>>
      /\ \/ fld = VecLen /\ scan_ptr' = scan_ptr + 1 /\ fld' = 0
         \/ fld # VecLen /\ scan_ptr' = scan_ptr /\ fld' = fld + 1
  BY DEF GInv, IInv, ScanElem, Scanning, NextObject, NextField, Collecting
<1>2. /\ scan_ptr \in Allocated /\ scan_ptr \in Addr
      /\ to_space \in {0, Extent} /\ scan_ptr \in to_space .. TOP_PTR - 1
  BY <1>1, Scanned
<1>3. n \in Vec /\ elem \in [Vec -> [1 .. VecLen -> Value]] /\ v \in Value /\ Points(v)
  <2>1. n \in Vec /\ elem \in [Vec -> [1 .. VecLen -> Value]]
    BY <1>1, <1>2 DEF Shaped, IInv, TypeOK
  <2> HIDE DEF n
  <2> QED  BY <1>1, <2>1 DEF Tight
<1>4. Visited' = Visited
  BY <1>1, <1>2, ExtentAssumption, VecLenAssumption DEF Visited, TOP_PTR
<1>5. \A m \in Vec, i \in 1 .. VecLen : Follows(elem[m][i], elem'[m][i], v)
  BY <1>1, <1>3 DEF Follows
<1> HIDE DEF v, n
<1>6. Forwarded(v)
  BY <1>1, <1>3, <1>5 DEF Forwarded, Follows
<1>7. Rooted'
  BY <1>1, <1>4, <1>6, RootedKept
<1> QED  BY <1>1, <1>2, <1>3, <1>4, <1>6, <1>7 DEF n, v

-----------------------------------------------------------------------------
(* The steps between collections, and the first and last of one.           *)

(* The client stores what it holds.                                        *)
LEMMA ClientKeeps ==
  ASSUME GInv, Client, IInv'
  PROVE  GInv'
<1> USE DEF gcIdle, nodeVars
<1>1. /\ UNCHANGED gcIdle /\ pc = "mutator" /\ pc' \in {"mutator", "alloc"}
      /\ IInv /\ Tight /\ Rooted
  BY DEF GInv, Client, RequestCell, RequestLeaf, RequestClosure, Drop, VectorSet,
         LoadCode, Enter, Leave
<1>2. /\ pc \notin Moving /\ pc' \notin Moving /\ Known = Allocated /\ Known' = Known
      /\ to_space' = to_space /\ mem' = mem
  BY <1>1, KnownSpaces DEF Moving, Collecting, Known, Allocated
<1>3. Paired' /\ Rooted' /\ Ended'
  BY <1>1, <1>2 DEF Paired, Rooted, Ended, Moving
<1> DEFINE V == {w \in Value : Points(w)}
<1>4. Held \cup {NIL, NULL} \subseteq V
  BY <1>1, NamesAssumption DEF Held, Tight, Points, IInv, TypeOK, Slot, Value, Static
<1>5. /\ \A s \in Slot : cell[s] \in V /\ cell \in [Slot -> Value]
      /\ elem \in [Vec -> [1 .. VecLen -> Value]]
      /\ \A n \in Vec, i \in 1 .. VecLen : elem[n][i] \in V
  BY <1>1 DEF Tight, IInv, TypeOK
<1>6. (\A s \in Slot : cell'[s] \in V) /\ (\A n \in Vec, i \in 1 .. VecLen : elem'[n][i] \in V)
  <2> HIDE DEF V
  <2>1. CASE UNCHANGED <<cell, elem>>
    BY <1>5, <2>1
  <2>2. ASSUME NEW dst \in Global \cup PSlot, Drop(dst)
        PROVE  (\A s \in Slot : cell'[s] \in V) /\ (\A n \in Vec, i \in 1 .. VecLen : elem'[n][i] \in V)
    BY <1>4, <1>5, <2>2 DEF Drop
  <2>3. ASSUME NEW y \in HeldOf("VECTOR"), NEW j \in 1 .. VecLen, NEW x \in Held, VectorSet(y, j, x)
        PROVE  (\A s \in Slot : cell'[s] \in V) /\ (\A n \in Vec, i \in 1 .. VecLen : elem'[n][i] \in V)
    BY <1>4, <1>5, <2>3 DEF VectorSet
  <2>4. ASSUME NEW k \in Code, NEW T \in SUBSET Code, NEW f \in Env, NEW x \in Held \cup {NIL},
               LoadCode(k, T, f, x)
        PROVE  (\A s \in Slot : cell'[s] \in V) /\ (\A n \in Vec, i \in 1 .. VecLen : elem'[n][i] \in V)
    BY <1>4, <1>5, <2>4 DEF LoadCode
  <2>5. ASSUME NEW y \in HeldOf("CLOSURE"), NEW f \in Env, NEW x \in Held \cup {NIL}, Enter(y, f, x)
        PROVE  (\A s \in Slot : cell'[s] \in V) /\ (\A n \in Vec, i \in 1 .. VecLen : elem'[n][i] \in V)
    BY <1>4, <1>5, <2>5 DEF Enter
  <2> QED  BY <2>1, <2>2, <2>3, <2>4, <2>5
           DEF Client, RequestCell, RequestLeaf, RequestClosure, Leave
<1>7. Tight'
  BY <1>1, <1>2, <1>6 DEF Tight, Points
<1>8. RequestHeld'
  <2>1. CASE pc' = "mutator"
    BY <2>1 DEF RequestHeld, Moving, Collecting
  <2>2. ASSUME NEW x \in Held \cup {NIL}, NEW y \in Held \cup {NIL}, NEW dst \in Global \cup PSlot,
               RequestCell(x, y, dst)
        PROVE  RequestHeld'
    <3>1. req'.a = x /\ req'.b = y /\ cell' = cell
      BY <2>2 DEF RequestCell
    <3>2. \A w \in {x, y} \cap Addr : \E s \in Global \cup PSlot : w = cell[s]
      BY NamesAssumption DEF Held, Static
    <3> QED  BY <3>1, <3>2 DEF RequestHeld
  <2>3. ASSUME NEW tag \in LeafTag, NEW dst \in Global \cup PSlot, RequestLeaf(tag, dst)
        PROVE  RequestHeld'
    BY <2>3, LeafTagAssumption DEF RequestLeaf, RequestHeld
  <2>4. ASSUME NEW k \in Code, NEW f \in Env, NEW dst \in Global \cup PSlot, RequestClosure(k, f, dst)
        PROVE  RequestHeld'
    BY <2>4 DEF RequestClosure, RequestHeld
  <2> QED  BY <1>1, <2>1, <2>2, <2>3, <2>4 DEF Client, Drop, VectorSet, LoadCode, Enter, Leave
<1> QED  BY <1>3, <1>7, <1>8 DEF GInv

(* A constructor fills in its object with what CHECK_OBJ_MOVING found.     *)
LEMMA AllocKeeps ==
  ASSUME GInv, Alloc, IInv'
  PROVE  GInv'
<1>1. /\ IInv /\ Tight /\ Rooted /\ RequestHeld /\ TypeOK /\ pc \in {"alloc", "retry"} /\ pc \notin Moving
      /\ ~(pc = "retry" /\ Full)
  BY DEF GInv, IInv, Alloc, Moving, Collecting
<1>2. /\ Known = Allocated /\ Allocated \subseteq ToSpace /\ Allocated \subseteq Addr
      /\ ToSpace \cap FromSpace = {}
      /\ to_space \in {0, Extent} /\ free_ptr \in to_space .. TOP_PTR /\ mem \in [Addr -> Object]
      /\ \A x \in Addr : mem[x].tag = "MOVED" => x \in FromSpace /\ mem[x].a \in Allocated
  BY <1>1, KnownSpaces
<1>3. /\ ~Full
      /\ \E a, b : /\ Place(a, b)
                   /\ req.tag = "CELL" => a = CheckMoving(req.a) /\ b = CheckMoving(req.b)
      /\ \A n \in Vec, i \in 1 .. VecLen : elem'[n][i] = elem[n][i] \/ elem'[n][i] = UNDEF
  BY <1>1 DEF Alloc, TypeOK, NoElems
<1>4. PICK a, b : /\ Place(a, b)
                  /\ req.tag = "CELL" => a = CheckMoving(req.a) /\ b = CheckMoving(req.b)
  BY <1>3
<1>5. /\ mem' = [mem EXCEPT ![free_ptr] = [tag |-> req.tag, a |-> a, b |-> b]]
      /\ free_ptr' = free_ptr + 1 /\ cell' = [cell EXCEPT ![req.dst] = free_ptr]
      /\ pc' = "mutator" /\ to_space' = to_space /\ UNCHANGED <<marked, roots>>
  BY <1>4 DEF Place
<1>6. /\ pc' \notin Moving /\ Known' = Known \cup {free_ptr} /\ free_ptr \in Addr
      /\ free_ptr \notin Known
  BY <1>2, <1>3, <1>5, ExtentAssumption DEF Known, Allocated, Moving, Collecting, TOP_PTR, Full, Addr
<1>7. ASSUME NEW w \in {req.a, req.b}, req.tag = "CELL", CheckMoving(w) \in Addr
      PROVE  CheckMoving(w) \in Known
  <2>1. CASE w \notin Addr
    BY <1>7, <2>1 DEF CheckMoving, Moved
  <2>2. CASE w \in Addr
    <3>1. PICK s \in Global \cup PSlot : cell[s] \in Addr /\ Now(w) = Now(cell[s])
      BY <1>1, <1>7, <2>2 DEF RequestHeld
    <3>2. cell[s] \in Known
      BY <1>1, <3>1 DEF Tight, Points, Slot
    <3>3. Now(cell[s]) = cell[s]
      BY <1>2, <3>2 DEF Now, Moved, TOSPACE_CONTAINS
    <3>4. CheckMoving(w) = Now(w)
      BY <1>2 DEF CheckMoving, Now, Moved, TOSPACE_CONTAINS
    <3> QED  BY <3>1, <3>2, <3>3, <3>4
  <2> QED  BY <2>1, <2>2
<1>8. ASSUME NEW x \in Known'
      PROVE  /\ mem'[x].tag # "UNDEF"
             /\ mem'[x].tag = "CELL" => /\ mem'[x].a \in Addr => mem'[x].a \in Known'
                                        /\ mem'[x].b \in Addr => mem'[x].b \in Known'
  <2>1. CASE x = free_ptr
    <3>1. mem'[x] = [tag |-> req.tag, a |-> a, b |-> b] /\ req.tag # "UNDEF"
      BY <1>1, <1>2, <1>5, <1>6, <2>1 DEF TypeOK, Request
    <3> QED  BY <1>4, <1>6, <1>7, <3>1
  <2>2. CASE x # free_ptr
    <3>1. x \in Known /\ mem'[x] = mem[x]
      BY <1>2, <1>5, <1>6, <2>2
    <3> QED  BY <1>1, <1>6, <3>1 DEF Tight, Points
  <2> QED  BY <2>1, <2>2
<1>9. \A s \in Slot : cell'[s] \in Addr => cell'[s] \in Known'
  BY <1>1, <1>5, <1>6 DEF Tight, Points, TypeOK
<1>10. \A n \in Vec, i \in 1 .. VecLen : elem'[n][i] \in Addr => elem'[n][i] \in Known'
  BY <1>1, <1>3, <1>6, NamesAssumption DEF Tight, Points, Static
<1>11. Tight'
  BY <1>8, <1>9, <1>10 DEF Tight, Points
<1>12. Paired' /\ Rooted' /\ RequestHeld' /\ Ended'
  BY <1>1, <1>5, <1>6 DEF Paired, Rooted, RequestHeld, Ended
<1> QED  BY <1>11, <1>12 DEF GInv

(* The semispace was full, so every address of what is now from_space is   *)
(* an object.                                                              *)
LEMMA StartGCKeeps ==
  ASSUME GInv, StartGC, IInv'
  PROVE  GInv'
<1>1. /\ IInv /\ Tight /\ Rooted /\ RequestHeld /\ pc = "alloc" /\ Full
      /\ mem' = [x \in Addr |-> IF x \in FromSpace THEN Zeroed ELSE mem[x]]
      /\ to_space' = from_space /\ free_ptr' = from_space /\ pc' = "vm_collect"
      /\ roots' = roots \cup GlobalRoots
      /\ UNCHANGED <<cell, elem, marked, req>>
  BY DEF GInv, StartGC, nodeVars
<1>2. /\ pc \notin Moving /\ pc' \in Moving /\ Known = Allocated
      /\ Allocated \subseteq Addr /\ ToSpace \cap FromSpace = {} /\ ToSpace \subseteq Addr
      /\ to_space \in {0, Extent} /\ free_ptr \in to_space .. TOP_PTR
      /\ from_space \in {0, Extent} /\ from_space # to_space
      /\ \A x \in Addr : mem[x].tag = "MOVED" => x \in FromSpace
  BY <1>1, KnownSpaces, Semispaces DEF Moving, Collecting
<1>3. Allocated = ToSpace
  BY <1>1, <1>2, ExtentAssumption DEF Full, Allocated, ToSpace, TOP_PTR
<1>4. FromSpace' = ToSpace /\ Allocated' = {} /\ Known' = ToSpace
  <2>1. from_space' = to_space
    BY <1>1, <1>2, ExtentAssumption DEF from_space
  <2>2. FromSpace' = ToSpace
    BY <2>1, <1>1, <1>2, ExtentAssumption DEF FromSpace, ToSpace, TOP_PTR
  <2>3. Allocated' = {}
    BY <1>1, <1>2, ExtentAssumption DEF Allocated
  <2> QED  BY <1>2, <2>2, <2>3 DEF Known
<1>5. /\ \A x \in ToSpace : mem'[x] = mem[x]
      /\ \A x \in Addr : mem'[x].tag # "MOVED"
  BY <1>1, <1>2 DEF Zeroed
<1>6. Tight'
  BY <1>1, <1>2, <1>3, <1>4, <1>5 DEF Tight, Points
<1>7. Paired' /\ Ended'
  BY <1>1, <1>2, <1>4, <1>5 DEF Paired, Ended
<1>8. RequestHeld'
  <2>1. \A w \in Addr : Now(w)' = w
    BY <1>5 DEF Now, Moved
  <2> QED  BY <1>1, <2>1 DEF RequestHeld
<1>9. Rooted'
  BY <1>1, <1>2 DEF Rooted, GlobalRoots
<1> QED  BY <1>6, <1>7, <1>8, <1>9 DEF GInv

(* What survives refers to to_space only: its slots and elements were      *)
(* forwarded, the others are cleared.                                      *)
(* When everything is scanned, what will be left leads into to_space.      *)
Settled(w) == Points(w) /\ Clean(w)

LEMMA FinishClean ==
  ASSUME GInv, pc = "scan", scan_ptr = free_ptr
  PROVE  /\ \A x \in Allocated : mem[x].tag = "CELL" => Settled(mem[x].a) /\ Settled(mem[x].b)
         /\ \A s \in Slot : s \notin Node \ marked => cell[s] = NULL \/ Settled(cell[s])
         /\ \A n \in Vec \cap marked, i \in 1 .. VecLen : Settled(elem[n][i])
<1>1. /\ Tight /\ Rooted /\ Black /\ BlackRoots /\ pc \in Moving
      /\ Known = Allocated \cup FromSpace /\ Visited = Allocated
  <2>1. IInv /\ Tight /\ Rooted /\ pc \in Moving
    BY DEF GInv, Moving, Collecting
  <2>2. Black /\ BlackRoots /\ TypeOK /\ ScanBounded
    BY <2>1 DEF IInv
  <2>3. fld = 0
    BY <2>1, <2>2, KnownSpaces, ExtentAssumption, VecLenAssumption DEF ScanBounded, Collecting, TypeOK, TOP_PTR
  <2> QED  BY <2>1, <2>2, <2>3, KnownSpaces DEF Visited, Allocated
<1>2. ASSUME NEW x \in Allocated, mem[x].tag = "CELL"
      PROVE  Settled(mem[x].a) /\ Settled(mem[x].b)
  BY <1>1, <1>2 DEF Tight, Black, Allocated, Settled
<1>3. ASSUME NEW s \in Slot, s \notin Node \ marked PROVE cell[s] = NULL \/ Settled(cell[s])
  <2>1. s \in Global /\ cell[s] # NULL => Clean(cell[s])
    BY <1>1 DEF Rooted, BlackRoots
  <2>2. s \in PSlot => Clean(cell[s])
    BY <1>1 DEF Rooted
  <2>3. s \in marked \cap (Env \cup Code) => Clean(cell[s])
    BY <1>1 DEF Rooted, BlackRoots
  <2> QED  BY <1>1, <1>3, <2>1, <2>2, <2>3 DEF Slot, Node, Tight, Settled
<1>4. ASSUME NEW n \in Vec \cap marked, NEW i \in 1 .. VecLen PROVE Settled(elem[n][i])
  <2>1. PICK x \in Visited : mem[x].tag = "VECTOR" /\ mem[x].a = n
    BY <1>1 DEF Rooted
  <2>2. Clean(elem[n][i])
    BY <1>1, <2>1 DEF Black, Allocated
  <2> QED  BY <1>1, <2>2 DEF Tight, Settled
<1> QED  BY <1>2, <1>3, <1>4

LEMMA FinishGCKeeps ==
  ASSUME GInv, FinishGC, IInv'
  PROVE  GInv'
<1>1. /\ IInv /\ Tight /\ Rooted /\ RequestHeld /\ Black /\ BlackRoots /\ TypeOK
      /\ pc = "scan" /\ pc' = "retry" /\ scan_ptr = free_ptr /\ fld = 0
      /\ marked' = {} /\ roots' = {}
      /\ cell' = [s \in Slot |-> IF s \in Node \ marked THEN NULL ELSE cell[s]]
      /\ elem' = [n \in Vec |-> IF n \in marked THEN elem[n] ELSE NoElems]
      /\ UNCHANGED <<to_space, free_ptr, mem, req>>
  BY DEF GInv, IInv, FinishGC, heapVars, ScanBounded, Collecting
<1>2. /\ pc \in Moving /\ pc' \notin Moving /\ Known = Allocated \cup FromSpace /\ Known' = Allocated
      /\ Visited = Allocated /\ Allocated \subseteq Addr
  BY <1>1, KnownSpaces DEF Moving, Collecting, Known, Allocated, Visited
<1>3. \A w : Settled(w) => (w \in Addr => w \in Known')
  BY <1>2 DEF Settled, Points, Clean
<1>4. /\ \A x \in Known' : mem[x].tag = "CELL" => Settled(mem[x].a) /\ Settled(mem[x].b)
      /\ \A x \in Known' : mem[x].tag # "UNDEF"
  BY <1>1, <1>2, FinishClean DEF Tight
<1>5. ASSUME NEW s \in Slot PROVE cell'[s] = NULL \/ (cell'[s] = cell[s] /\ Settled(cell[s]))
  BY <1>1, FinishClean
<1>6. ASSUME NEW n \in Vec, NEW i \in 1 .. VecLen
      PROVE  elem'[n][i] = UNDEF \/ (elem'[n][i] = elem[n][i] /\ Settled(elem[n][i]))
  BY <1>1, FinishClean DEF NoElems
<1>7. Tight'
  <2>1. \A s \in Slot : cell'[s] \in Addr => cell'[s] \in Known'
    BY <1>3, <1>5, NamesAssumption
  <2>2. \A n \in Vec, i \in 1 .. VecLen : elem'[n][i] \in Addr => elem'[n][i] \in Known'
    BY <1>3, <1>6, NamesAssumption DEF Static
  <2> QED  BY <1>1, <1>3, <1>4, <2>1, <2>2 DEF Tight, Points
<1>8. RequestHeld'
  <2>1. \A s \in Global \cup PSlot : cell'[s] = cell[s]
    BY <1>1, NamesAssumption DEF Slot
  <2>2. \A w : Now(w)' = Now(w)
    BY <1>1, InMemory
  <2> QED  BY <1>1, <1>2, <2>1, <2>2 DEF RequestHeld
<1>9. Paired' /\ Rooted' /\ Ended'
  BY <1>1, <1>2 DEF Paired, Rooted, Ended
<1> QED  BY <1>7, <1>8, <1>9 DEF GInv

-----------------------------------------------------------------------------
(* Every step keeps the invariant, and a collecting step the graph.        *)

LEMMA InitGInv == Init => GInv
<1> SUFFICES ASSUME Init PROVE GInv
  OBVIOUS
<1>1. IInv /\ pc = "mutator" /\ Known = {} /\ pc \notin Moving
  BY InitIInv, ExtentAssumption DEF Init, Known, Allocated, Moving, Collecting
<1>2. Tight
  BY <1>1, NamesAssumption DEF Init, Tight, Points, NoElems, Static
<1> QED  BY <1>1, <1>2 DEF GInv, Init, Paired, RequestHeld, Rooted, Ended

LEMMA CollectingKeeps ==
  ASSUME GInv, Collector, pc \in Collecting, pc' # "retry", IInv'
  PROVE  GInv' /\ Graph' = Graph
<1>1. CASE (\E n \in Env \cup Code : CollectNode(n)) \/ CollectDone \/ RootsDone
  BY <1>1, PassesQuiet, QuietKeeps
<1>2. CASE ScanVector \/ ScanString \/ ScanLeaf \/ ScanFull
  BY <1>2, LeavesQuiet, QuietKeeps
<1>3. ASSUME NEW s \in Slot, ForwardRoot(s) PROVE GInv' /\ Graph' = Graph
  BY <1>3, ForwardRootForwards, QuietKeeps, ForwardedKeeps, GraphKept
<1>4. CASE ScanCar \/ ScanCdr
  BY <1>4, ScanCellForwards, ForwardedKeeps, GraphKept
<1>5. CASE ScanClosure
  BY <1>5, ScanClosureForwards, ForwardedKeeps, GraphKept
<1>6. CASE ScanElem
  BY <1>6, ScanElemForwards, ForwardedKeeps, GraphKept
<1>7. ~StartGC /\ ~FinishGC
  BY DEF StartGC, FinishGC, Collecting
<1> QED  BY <1>1, <1>2, <1>3, <1>4, <1>5, <1>6, <1>7 DEF Collector

LEMMA NextGInv ==
  ASSUME GInv, [Next]_vars
  PROVE  GInv' /\ (pc \in Collecting /\ pc' \in Collecting => Graph' = Graph)
<1>1. IInv'
  BY NextIInv DEF GInv
<1>2. CASE UNCHANGED vars
  <2>1. Quiet /\ UNCHANGED <<fld, scan_ptr, marked, roots, todo, pc>>
    BY <1>2 DEF vars, Quiet
  <2>2. FromSpace' = FromSpace /\ TOP_PTR' = TOP_PTR /\ Visited' = Visited
    BY <2>1, Spaces DEF Quiet, Visited
  <2>3. Rooted' /\ Ended'
    <3>1. Rooted'
      BY <2>1, <2>2 DEF GInv, Quiet, Rooted, Clean, Moving
    <3>2. Full' /\ Counts(mem, free_ptr)' <=> Full /\ Counts(mem, free_ptr)
      BY <2>1, SameHeap DEF GInv, Quiet, heapVars
    <3> QED  BY <2>1, <3>1, <3>2 DEF GInv, Ended
  <2> QED  BY <1>1, <2>1, <2>3, QuietKeeps
<1>3. CASE Client
  BY <1>1, <1>3, ClientKeeps DEF Client, RequestCell, RequestLeaf, RequestClosure, Drop,
     VectorSet, LoadCode, Enter, Leave, Collecting
<1>4. CASE Alloc
  BY <1>1, <1>4, AllocKeeps DEF Alloc, Collecting
<1>5. CASE StartGC
  BY <1>1, <1>5, StartGCKeeps DEF StartGC, Collecting
<1>6. CASE FinishGC
  BY <1>1, <1>6, FinishGCKeeps DEF FinishGC, Collecting
<1>7. CASE Collector /\ ~StartGC /\ ~FinishGC
  <2>1. pc \in Collecting /\ pc' # "retry"
    BY <1>7 DEF Collector, CollectNode, CollectDone, ForwardRoot, RootsDone, ScanFull, ScanCar,
       ScanCdr, ScanClosure, ScanVector, ScanElem, ScanString, ScanLeaf, Scanning, Collecting
  <2> QED  BY <1>1, <1>7, <2>1, CollectingKeeps
<1> QED  BY <1>2, <1>3, <1>4, <1>5, <1>6, <1>7 DEF Next

(* The invariant of the graph holds in every reachable state.              *)
THEOREM GraphInvariance == Spec => []GInv
<1>1. GInv /\ [Next]_vars => GInv'
  BY NextGInv
<1> QED  BY <1>1, InitGInv, PTL DEF Spec

(* No step of a collection changes the graph of objects: copying an object *)
(* and redirecting the references to it, one at a time and with the last   *)
(* semispace half overwritten by forwarding pointers, keeps every value,   *)
(* the sharing and the cycles (gc.c, FORWARD and forward_non_roots).       *)
THEOREM CollectionKeepsGraph == Spec => GraphPreserved
<1>1. GInv /\ [Next]_vars
      => [(pc \in Collecting /\ pc' \in Collecting) => (Graph' = Graph)]_vars
  BY NextGInv
<1> QED  BY <1>1, GraphInvariance, PTL DEF Spec, GraphPreserved

-----------------------------------------------------------------------------
(***************************************************************************)
(* What survives a collection is exactly what is live, for every size of   *)
(* the heap and every set of slots and nodes.  The invariant is the one of *)
(* a tricolour marker: the references of what is scanned or marked lead to *)
(* what is marked or still to be walked (so nothing live is missed), and   *)
(* what was copied, marked or is to be walked is live (so no garbage is    *)
(* kept).  A step that copies an object moves the live set along.          *)
(***************************************************************************)

Marks ==
  /\ \A x \in Visited :
       /\ mem[x].tag \in {"STRING", "VECTOR"} => mem[x].a \in marked
       /\ mem[x].tag = "CLOSURE" => {mem[x].a, mem[x].b} \subseteq marked \cup walk
  /\ \A n \in marked \cap (Env \cup Code) : NodeSucc(n) \subseteq marked \cup walk
  /\ vmNodes \subseteq marked \cup walk
  /\ roots \subseteq Global \cup (marked \cap (Env \cup Code))
  /\ todo \subseteq roots \cup PSlot
  /\ pc \notin {"vm_collect", "closure_collect"} => walk = {}
Precise == Allocated \cup marked \cup walk \subseteq Live

LInv ==
  /\ GInv
  /\ pc \in Moving => Marks /\ Precise
  /\ pc \notin {"parser_roots", "roots", "exit"} => todo = {}
  /\ pc = "retry" => Live = Allocated \cup nodes

-----------------------------------------------------------------------------
(* Least sets: the least subset of I that holds A and is closed under R.   *)

ClosedUnder(S, A, R) == A \subseteq S /\ \A x \in S : R[x] \subseteq S
Least(I, A, R) == {x \in I : \A S \in SUBSET I : ClosedUnder(S, A, R) => x \in S}

LEMMA LeastIsClosed ==
  ASSUME NEW I, NEW A \in SUBSET I, NEW R \in [I -> SUBSET I]
  PROVE  Least(I, A, R) \subseteq I /\ ClosedUnder(Least(I, A, R), A, R)
<1>1. A \subseteq Least(I, A, R)
  BY DEF Least, ClosedUnder
<1>2. ASSUME NEW x \in Least(I, A, R), NEW y \in R[x] PROVE y \in Least(I, A, R)
  <2>1. x \in I /\ y \in I
    BY <1>2 DEF Least
  <2>2. ASSUME NEW S \in SUBSET I, ClosedUnder(S, A, R) PROVE y \in S
    <3>1. x \in S
      BY <1>2, <2>2 DEF Least
    <3> QED  BY <1>2, <2>2, <3>1 DEF ClosedUnder
  <2> QED  BY <2>1, <2>2 DEF Least
<1>3. Least(I, A, R) \subseteq I
  BY DEF Least
<1> QED  BY <1>1, <1>2, <1>3 DEF ClosedUnder

LEMMA LeastIsLeast ==
  ASSUME NEW I, NEW A, NEW R, NEW S \in SUBSET I, ClosedUnder(S, A, R)
  PROVE  Least(I, A, R) \subseteq S
BY DEF Least

(* A map that takes A into B and each step of R to a step of Q takes the   *)
(* least set of the one into that of the other.                            *)
LEMMA LeastMoves ==
  ASSUME NEW I, NEW A, NEW R, NEW B, NEW Q, NEW D \in SUBSET I, ClosedUnder(D, A, R),
         NEW M \in [D -> I], \A x \in A : M[x] \in B,
         \A x \in D : \A y \in R[x] : M[y] \in Q[M[x]]
  PROVE  \A x \in Least(I, A, R) : x \in D /\ M[x] \in Least(I, B, Q)
<1>1. ASSUME NEW x \in Least(I, A, R), NEW T \in SUBSET I, ClosedUnder(T, B, Q)
      PROVE  x \in D /\ M[x] \in T
  <2> DEFINE P == {z \in D : M[z] \in T}
  <2>1. ClosedUnder(P, A, R)
    BY <1>1 DEF ClosedUnder
  <2>2. P \in SUBSET I
    OBVIOUS
  <2> HIDE DEF P
  <2>3. x \in P
    BY <1>1, <2>1, <2>2, LeastIsLeast
  <2> QED  BY <2>3 DEF P
<1>2. \A x \in Least(I, A, R) : x \in D
  BY LeastIsLeast
<1> QED  BY <1>1, <1>2 DEF Least

-----------------------------------------------------------------------------
(* The live set as such a set.                                             *)

SuccOf == [x \in Item |-> Succ(x)]

LEMMA LiveIsLeast ==
  Live = Least(Item, Start, SuccOf) /\ Live' = Least(Item, Start', SuccOf')
<1>1. \A S \in SUBSET Item : Closed(S) <=> ClosedUnder(S, Start, SuccOf)
  BY DEF Closed, ClosedUnder, SuccOf
<1>2. \A S \in SUBSET Item : Closed(S)' <=> ClosedUnder(S, Start', SuccOf')
  BY DEF Closed, ClosedUnder, SuccOf
<1>3. Live = Least(Item, Start, SuccOf)
  BY <1>1 DEF Live, Least
<1>4. Live' = Least(Item, Start', SuccOf')
  BY <1>2 DEF Live, Least
<1> QED  BY <1>3, <1>4

(* The reference w of memory m leads to y; x refers to y.                  *)
Leads(m, w, y) == w \in Addr /\ y = NowIn(m, w)
Refers(m, c, e, n, x, y) ==
  \/ x \in Env /\ (Leads(m, c[x], y) \/ (y = n[x] /\ y # NULL))
  \/ x \in Code /\ (Leads(m, c[x], y) \/ y \in SubCode[x])
  \/ x \in Vec /\ \E i \in 1 .. VecLen : Leads(m, e[x][i], y)
  \/ x \in Addr /\ m[x].tag = "CELL" /\ (Leads(m, m[x].a, y) \/ Leads(m, m[x].b, y))
  \/ x \in Addr /\ m[x].tag = "CLOSURE" /\ y \in {m[x].a, m[x].b}
  \/ x \in Addr /\ m[x].tag \in {"STRING", "VECTOR"} /\ y = m[x].a

LEMMA SuccRefers ==
  ASSUME NEW x \in Item, NEW y
  PROVE  y \in SuccOf[x] <=> Refers(mem, cell, elem, enext, x, y)
<1>1. \A V : y \in Refs(V) <=> \E w \in V : Leads(mem, w, y)
  BY DEF Refs, Leads, Now, NowIn, Moved, TOSPACE_CONTAINS
<1> QED  BY <1>1, NamesAssumption DEF SuccOf, Succ, Refers, Item, Node

LEMMA StartRefers ==
  ASSUME NEW y
  PROVE  y \in Start <=> y \in vmNodes \/ \E s \in Global \cup PSlot : Leads(mem, cell[s], y)
BY DEF Start, Refs, Leads, Now, NowIn, Moved, TOSPACE_CONTAINS

(* The same after a step.                                                  *)
LEMMA NextRefers ==
  ASSUME to_space' = to_space, NEW y
  PROVE  /\ \A x \in Item : y \in SuccOf'[x] <=> Refers(mem', cell', elem', enext', x, y)
         /\ y \in Start' <=> \/ y \in vmNodes'
                             \/ \E s \in Global \cup PSlot : Leads(mem', cell'[s], y)
<1>1. \A V : y \in Refs(V)' <=> \E w \in V : Leads(mem', w, y)
  BY InMemory DEF Refs, Leads
<1>2. ASSUME NEW x \in Item PROVE y \in SuccOf'[x] <=> Refers(mem', cell', elem', enext', x, y)
  BY <1>1, NamesAssumption DEF SuccOf, Succ, Refers, Item, Node
<1>3. y \in Start' <=> y \in vmNodes' \/ \E s \in Global \cup PSlot : Leads(mem', cell'[s], y)
  BY <1>1 DEF Start, Leads
<1> QED  BY <1>2, <1>3

(* A reference never leads out of the heap and the nodes, and never to     *)
(* memory that holds no object.                                            *)
LiveTyped == Start \subseteq Item /\ SuccOf \in [Item -> SUBSET Item]

LEMMA TypedLive == IInv => LiveTyped
<1> SUFFICES ASSUME IInv PROVE LiveTyped
  OBVIOUS
<1>1. /\ TypeOK /\ Shaped(mem) /\ Allocated \subseteq Addr
      /\ \A x \in Addr : mem[x].tag = "MOVED" => mem[x].a \in Allocated
  BY KnownSpaces DEF IInv
<1>2. \A w, y : Leads(mem, w, y) => y \in Item
  BY <1>1 DEF Leads, NowIn, Item
<1>3. Start \subseteq Item
  BY <1>1, <1>2, StartRefers DEF TypeOK, Item, Node
<1>4. ASSUME NEW x \in Item, NEW y \in SuccOf[x] PROVE y \in Item
  <2>1. Refers(mem, cell, elem, enext, x, y)
    BY <1>4, SuccRefers
  <2> QED  BY <1>1, <1>2, <2>1, SubCodeAssumption DEF Refers, Item, Node, TypeOK, Shaped
<1>5. SuccOf \in [Item -> SUBSET Item]
  BY <1>4 DEF SuccOf
<1> QED  BY <1>3, <1>5 DEF LiveTyped

LiveClosed == Live \subseteq Item /\ ClosedUnder(Live, Start, SuccOf)

LEMMA ClosedLive == IInv => LiveClosed
BY TypedLive, LeastIsClosed, LiveIsLeast DEF LiveTyped, LiveClosed

LEMMA ClosedLiveNext == IInv' => LiveClosed'
BY ClosedLive, PTL

LEMMA KnownClosed ==
  ASSUME GInv
  PROVE  ClosedUnder(Known \cup Node, Start, SuccOf) /\ Known \cup Node \in SUBSET Item
<1>1. /\ IInv /\ Tight /\ TypeOK /\ Shaped(mem) /\ Known \subseteq Addr
  BY KnownSpaces DEF GInv, IInv
<1>2. \A w, y : Leads(mem, w, y) /\ Points(w) => y \in Known
  BY <1>1, NowKnown DEF Leads, Points
<1>3. Start \subseteq Known \cup Node
  BY <1>1, <1>2, StartRefers DEF TypeOK, Tight, Slot, Node
<1>4. ASSUME NEW x \in Known \cup Node, NEW y \in SuccOf[x] PROVE y \in Known \cup Node
  <2>1. Refers(mem, cell, elem, enext, x, y)
    BY <1>1, <1>4, SuccRefers DEF Item
  <2>2. CASE x \in Env
    BY <1>1, <1>2, <2>1, <2>2, NamesAssumption DEF Refers, Tight, TypeOK, Slot, Node
  <2>3. CASE x \in Code
    BY <1>1, <1>2, <2>1, <2>3, NamesAssumption, SubCodeAssumption DEF Refers, Tight, Slot, Node
  <2>4. CASE x \in Vec
    BY <1>1, <1>2, <2>1, <2>4, NamesAssumption DEF Refers, Tight, Node
  <2>5. CASE x \in Known
    BY <1>1, <1>2, <2>1, <2>5, NamesAssumption DEF Refers, Tight, Shaped, Node
  <2>6. CASE x \in Str
    BY <2>1, <2>6, NamesAssumption DEF Refers, Node
  <2> QED  BY <1>4, <2>2, <2>3, <2>4, <2>5, <2>6 DEF Node
<1> QED  BY <1>1, <1>3, <1>4 DEF ClosedUnder, Item

-----------------------------------------------------------------------------
(* Forwarding v takes what is live along.                                  *)

LEMMA LeadsMoves ==
  ASSUME GInv, NEW v, Forwarded(v), NEW w, NEW new, NEW y, Follows(w, new, v), Leads(mem, w, y)
  PROVE  Leads(mem', new, Moves(v, y))
<1>1. /\ \A z \in Addr : NowIn(mem', z) = Moves(v, NowIn(mem, z))
      /\ v \in Addr => FwdRef(v) \in Known' /\ NowIn(mem', FwdRef(v)) = Moves(v, NowIn(mem, v))
      /\ Known' \subseteq Addr
  BY ObjectsMove
<1> QED  BY <1>1 DEF Leads, Follows

LEMMA LiveMoves ==
  ASSUME GInv, NEW v, Forwarded(v)
  PROVE  \A x \in Live : x \in Known \cup Node /\ Moves(v, x) \in Live'
<1> DEFINE D == Known \cup Node
           M == [x \in D |-> Moves(v, x)]
<1>1. /\ IInv /\ to_space' = to_space /\ v \in Value /\ UNCHANGED <<enext, vmNodes>>
      /\ \A s \in Slot : Follows(cell[s], cell'[s], v)
      /\ \A n \in Vec, i \in 1 .. VecLen : Follows(elem[n][i], elem'[n][i], v)
  BY DEF GInv, Forwarded
<1>2. D \in SUBSET Item /\ ClosedUnder(D, Start, SuccOf) /\ Known \subseteq Addr
  BY <1>1, KnownClosed, KnownSpaces
<1>3. \A x \in Known : Moves(v, x) \in Addr /\ FwdMem(v)[Moves(v, x)] = mem[x]
  BY ObjectsMove
<1>4. \A x \in Node : Moves(v, x) = x
  <2>1. Copies(v) => v \in Addr
    BY <1>1, HeapValues DEF Copies
  <2> QED  BY <2>1, NamesAssumption DEF Moves, Node
<1>5. M \in [D -> Item]
  BY <1>3, <1>4 DEF Item
<1>6. \A w, new, y : Follows(w, new, v) /\ Leads(mem, w, y) => Leads(mem', new, Moves(v, y))
  BY LeadsMoves
<1>7. ASSUME NEW x \in Start PROVE M[x] \in Start'
  <2>1. x \in D
    BY <1>2 DEF ClosedUnder
  <2>2. CASE x \in vmNodes
    BY <1>1, <1>4, <2>1, <2>2, NextRefers DEF IInv, TypeOK, Node
  <2>3. ASSUME NEW s \in Global \cup PSlot, Leads(mem, cell[s], x) PROVE M[x] \in Start'
    BY <1>1, <1>6, <2>1, <2>3, NextRefers DEF Slot
  <2> QED  BY <2>2, <2>3, StartRefers
<1>8. ASSUME NEW x \in D, NEW y \in SuccOf[x] PROVE M[y] \in SuccOf'[M[x]]
  <2>1. Refers(mem, cell, elem, enext, x, y)
    BY <1>2, <1>8, SuccRefers
  <2>2. y \in D /\ M[x] = Moves(v, x) /\ M[y] = Moves(v, y) /\ M[x] \in Item
    BY <1>2, <1>5, <1>8 DEF ClosedUnder
  <2>3. SUFFICES Refers(mem', cell', elem', enext', Moves(v, x), Moves(v, y))
    BY <1>1, <2>2, NextRefers
  <2> HIDE DEF M, D
  <2>4. CASE x \in Env
    <3>1. Moves(v, x) = x /\ (y = enext[x] /\ y # NULL => Moves(v, y) = y)
      BY <1>1, <1>4, <2>4 DEF Node, IInv, TypeOK
    <3> QED  BY <1>1, <1>6, <2>1, <2>4, <3>1, NamesAssumption DEF Refers, Node, Slot
  <2>5. CASE x \in Code
    <3>1. Moves(v, x) = x /\ (y \in SubCode[x] => Moves(v, y) = y)
      BY <1>4, <2>5, SubCodeAssumption DEF Node
    <3> QED  BY <1>1, <1>6, <2>1, <2>5, <3>1, NamesAssumption DEF Refers, Node, Slot
  <2>6. CASE x \in Vec
    <3>1. Moves(v, x) = x
      BY <1>4, <2>6 DEF Node
    <3> QED  BY <1>1, <1>6, <2>1, <2>6, <3>1, NamesAssumption DEF Refers, Node
  <2>7. CASE x \in Known
    <3> DEFINE z == Moves(v, x)
    <3>1. x \in Addr /\ z \in Addr /\ FwdMem(v)[z] = mem[x] /\ Shaped(mem)
      BY <1>1, <1>2, <1>3, <2>7 DEF IInv
    <3> HIDE DEF z
    <3>2. /\ mem'[z].tag = mem[x].tag
          /\ mem[x].tag = "CELL" => Follows(mem[x].a, mem'[z].a, v) /\ Follows(mem[x].b, mem'[z].b, v)
          /\ mem[x].tag # "CELL" => mem'[z] = mem[x]
      BY <3>1 DEF Forwarded
    <3>3. x \notin Node
      BY <3>1, NamesAssumption DEF Node
    <3>4. CASE mem[x].tag = "CELL"
      BY <1>6, <2>1, <3>1, <3>2, <3>3, <3>4 DEF Refers, Node, z
    <3>5. CASE mem[x].tag # "CELL"
      <4>1. y \in Node
        BY <2>1, <3>1, <3>3, <3>5 DEF Refers, Shaped, Node
      <4> QED  BY <1>4, <2>1, <3>1, <3>2, <3>3, <3>5, <4>1 DEF Refers, Node, z
    <3> QED  BY <3>4, <3>5
  <2>8. CASE x \in Str
    BY <2>1, <2>8, NamesAssumption DEF Refers, Node
  <2> QED  BY <1>8, <2>4, <2>5, <2>6, <2>7, <2>8 DEF D, Node
<1>9. \A x \in Least(Item, Start, SuccOf) : x \in D /\ M[x] \in Least(Item, Start', SuccOf')
  <2> HIDE DEF M, D
  <2> QED  BY <1>2, <1>5, <1>7, <1>8, LeastMoves
<1> QED  BY <1>9, LiveIsLeast

-----------------------------------------------------------------------------
(* The passes and the scan keep what is marked and what is live in step.   *)

LEMMA LiveKept ==
  ASSUME UNCHANGED <<to_space, mem, cell, elem, enext, vmNodes>>
  PROVE  Live' = Live
<1>1. ASSUME NEW y
      PROVE  /\ y \in Start' <=> y \in Start
             /\ \A x \in Item : y \in SuccOf'[x] <=> y \in SuccOf[x]
  BY NextRefers, StartRefers, SuccRefers
<1>2. Start' = Start
  BY <1>1
<1>3. \A x \in Item : SuccOf'[x] = SuccOf[x]
  BY <1>1
<1>4. SuccOf' = SuccOf
  BY <1>3 DEF SuccOf
<1> QED  BY <1>2, <1>4, LiveIsLeast

(* What a live node or object refers to is live; so is what a root holds.  *)
LEMMA RefersLive ==
  ASSUME IInv
  PROVE  /\ \A x \in Live : \A y : Refers(mem, cell, elem, enext, x, y) => y \in Live
         /\ \A n \in Live \cap (Env \cup Code) : NodeSucc(n) \subseteq Live
         /\ \A s \in Global \cup PSlot : \A y : Leads(mem, cell[s], y) => y \in Live
<1>1. Live \subseteq Item /\ ClosedUnder(Live, Start, SuccOf)
  BY ClosedLive DEF LiveClosed
<1>2. \A x \in Live : \A y : Refers(mem, cell, elem, enext, x, y) => y \in Live
  BY <1>1, SuccRefers DEF ClosedUnder
<1>3. ASSUME NEW n \in Live \cap (Env \cup Code), NEW y \in NodeSucc(n)
      PROVE  Refers(mem, cell, elem, enext, n, y)
  BY <1>3, NamesAssumption DEF NodeSucc, Refers
<1>4. \A s \in Global \cup PSlot : \A y : Leads(mem, cell[s], y) => y \in Live
  BY <1>1, StartRefers DEF ClosedUnder
<1> QED  BY <1>2, <1>3, <1>4

LEMMA CopiesLeads ==
  ASSUME IInv, pc \in Collecting, NEW v \in Value, Copies(v)
  PROVE  Leads(mem, v, v)
BY CopyHasRoom, KnownSpaces DEF Leads, NowIn

LEMMA VisitedSpace ==
  ASSUME IInv, pc \in Collecting
  PROVE  Visited \subseteq Allocated
BY ExtentAssumption DEF Visited, Allocated, IInv, ScanBounded, TypeOK, TOP_PTR

LEMMA CollectNodeMarks ==
  ASSUME LInv, NEW n \in Env \cup Code, CollectNode(n)
  PROVE  Marks' /\ Precise'
<1>1. /\ IInv /\ Marks /\ Precise /\ Live' = Live
      /\ pc \in {"vm_collect", "closure_collect"} /\ n \in walk
      /\ marked' = marked \cup {n} /\ roots' = roots \cup {n}
      /\ walk' = (walk \ {n}) \cup NodeSucc(n)
      /\ UNCHANGED <<to_space, free_ptr, mem, scan_ptr, fld, vmNodes, enext, todo, pc>>
  BY LiveKept DEF LInv, GInv, CollectNode, heapVars, nodeVars, Moving, Collecting
<1>2. NodeSucc(n) \subseteq Live
  BY <1>1, RefersLive DEF Precise
<1>3. Visited' = Visited /\ Allocated' = Allocated /\ \A k : NodeSucc(k)' = NodeSucc(k)
  BY <1>1 DEF Visited, Allocated, NodeSucc
<1>4. marked \cup walk \subseteq marked' \cup walk'
  BY <1>1
<1>5. Precise'
  BY <1>1, <1>2, <1>3 DEF Precise
<1>6. Marks'
  BY <1>1, <1>3, <1>4 DEF Marks
<1> QED  BY <1>5, <1>6

LEMMA PassMarks ==
  ASSUME LInv, CollectDone \/ RootsDone
  PROVE  Marks' /\ Precise' /\ (pc' = "scan" => todo' = {})
<1>1. /\ Marks /\ Precise /\ Live' = Live /\ walk' = {} /\ walk = {}
      /\ UNCHANGED <<to_space, free_ptr, mem, scan_ptr, fld, vmNodes, enext, marked, roots>>
      /\ todo' \subseteq roots \cup PSlot /\ (pc' = "scan" => todo' = {})
  BY LiveKept DEF LInv, CollectDone, RootsDone, heapVars, nodeVars, Moving, Collecting, Marks
<1>2. Visited' = Visited /\ Allocated' = Allocated /\ \A k : NodeSucc(k)' = NodeSucc(k)
  BY <1>1 DEF Visited, Allocated, NodeSucc
<1> QED  BY <1>1, <1>2 DEF Marks, Precise

LEMMA LeafMarks ==
  ASSUME LInv, ScanVector \/ ScanString \/ ScanLeaf \/ ScanFull, IInv'
  PROVE  Marks' /\ Precise' /\ todo' = {}
<1>1. /\ IInv /\ Marks /\ Precise /\ Live' = Live /\ pc = "scan" /\ scan_ptr < free_ptr /\ fld = 0
      /\ UNCHANGED <<to_space, free_ptr, mem, vmNodes, enext, roots, todo, walk>>
      /\ todo = {} /\ pc' \in {"scan", "exit"}
  BY LiveKept DEF LInv, GInv, IInv, ScanVector, ScanString, ScanLeaf, ScanFull, Scanning, OutOfRoom,
                  heapVars, nodeVars, gcIdle, Moving, Collecting
<1>2. scan_ptr \in Allocated /\ scan_ptr \in Addr
  BY <1>1, Scanned DEF Collecting
<1>3. Allocated' = Allocated /\ \A k : NodeSucc(k)' = NodeSucc(k)
  BY <1>1 DEF Allocated, NodeSucc
<1>4. /\ Visited' \subseteq Visited \cup {scan_ptr}
      /\ marked' = marked \/ (mem[scan_ptr].tag \in {"STRING", "VECTOR"} /\ marked' = marked \cup {mem[scan_ptr].a})
      /\ scan_ptr \in Visited' => /\ mem[scan_ptr].tag \in {"STRING", "VECTOR"} => mem[scan_ptr].a \in marked'
                                  /\ mem[scan_ptr].tag # "CLOSURE"
  <2>1. CASE ScanFull
    BY <1>1, <1>2, <2>1, ExtentAssumption DEF ScanFull, gcIdle, Visited, Allocated, Addr, IInv, TypeOK
  <2>2. CASE ~ScanFull
    <3>1. /\ \/ scan_ptr' = scan_ptr + 1 /\ fld' = 0
             \/ scan_ptr' = scan_ptr /\ fld' = 1
          /\ scan_ptr \in Int /\ to_space \in Int
      BY <1>1, <1>2, <2>2, ExtentAssumption DEF ScanVector, ScanString, ScanLeaf, Scanning, NextField,
         NextObject, Addr, IInv, TypeOK
    <3>2. Visited' = Visited \cup {scan_ptr}
      BY <1>1, <1>2, <3>1, ExtentAssumption DEF Visited, Allocated
    <3>3. \/ mem[scan_ptr].tag \in {"STRING", "VECTOR"} /\ marked' = marked \cup {mem[scan_ptr].a}
          \/ mem[scan_ptr].tag \in {"INTEGER", "UNDEF", "MOVED"} /\ marked' = marked
      BY <2>2 DEF ScanVector, ScanString, ScanLeaf, Scanning
    <3> QED  BY <3>2, <3>3
  <2> QED  BY <2>1, <2>2
<1>5. mem[scan_ptr].tag \in {"STRING", "VECTOR"} =>
        mem[scan_ptr].a \in Live /\ mem[scan_ptr].a \in Str \cup Vec
  <2>1. mem[scan_ptr].tag \in {"STRING", "VECTOR"} =>
          Refers(mem, cell, elem, enext, scan_ptr, mem[scan_ptr].a)
    BY <1>2 DEF Refers
  <2> QED  BY <1>1, <1>2, <2>1, RefersLive DEF Precise, IInv, Shaped
<1>6. Precise'
  BY <1>1, <1>3, <1>4, <1>5 DEF Precise
<1>7. /\ marked \subseteq marked'
      /\ marked' \cap (Env \cup Code) = marked \cap (Env \cup Code)
  BY <1>4, <1>5, NamesAssumption
<1>8. Marks'
  BY <1>1, <1>3, <1>4, <1>7 DEF Marks
<1> QED  BY <1>1, <1>6, <1>8

(* Forwarding v, when v is referred to by something live.                  *)
LEMMA ForwardedMarks ==
  ASSUME GInv, Marks, Precise, NEW v, Forwarded(v), Copies(v) => v \in Live,
         UNCHANGED <<marked, roots>>, todo' \subseteq todo,
         walk \subseteq walk', walk' \subseteq Live \cap Node,
         pc' \notin {"vm_collect", "closure_collect"} => walk' = {},
         \A x \in Visited' \ Visited :
           /\ x \in Allocated
           /\ \/ mem[x].tag = "CELL"
              \/ mem[x].tag = "CLOSURE" /\ {mem[x].a, mem[x].b} \subseteq walk'
  PROVE  Marks' /\ Precise'
<1>1. /\ IInv /\ pc \in Collecting /\ v \in Value /\ TypeOK
      /\ free_ptr' = FwdFree(v) /\ UNCHANGED <<to_space, enext, vmNodes>>
  BY DEF GInv, IInv, Forwarded
<1>2. /\ Visited \subseteq Allocated /\ Allocated \subseteq Addr /\ ToSpace \cap FromSpace = {}
      /\ Allocated \subseteq ToSpace
  BY <1>1, VisitedSpace, KnownSpaces
<1>3. \A x \in Allocated : FwdMem(v)[x] = mem[x]
  BY <1>1, Forwarding DEF Allocated
<1>4. \A x \in Visited' : /\ x \in Addr /\ x \in Allocated
                          /\ mem'[x].tag = mem[x].tag
                          /\ mem[x].tag # "CELL" => mem'[x] = mem[x]
  BY <1>2, <1>3 DEF Forwarded
<1>5. \A k : NodeSucc(k)' = NodeSucc(k)
  BY <1>1 DEF NodeSucc
<1>6. Marks'
  <2>1. \A x \in Visited' :
          /\ mem'[x].tag \in {"STRING", "VECTOR"} => mem'[x].a \in marked'
          /\ mem'[x].tag = "CLOSURE" => {mem'[x].a, mem'[x].b} \subseteq marked' \cup walk'
    <3> SUFFICES ASSUME NEW x \in Visited', mem'[x].tag # "CELL"
                 PROVE  /\ mem'[x].tag \in {"STRING", "VECTOR"} => mem'[x].a \in marked'
                        /\ mem'[x].tag = "CLOSURE" => {mem'[x].a, mem'[x].b} \subseteq marked' \cup walk'
      OBVIOUS
    <3>1. mem'[x] = mem[x]
      BY <1>4
    <3>2. CASE x \in Visited
      BY <3>1, <3>2 DEF Marks
    <3>3. CASE x \notin Visited
      BY <3>1, <3>3
    <3> QED  BY <3>2, <3>3
  <2> QED  BY <1>1, <1>5, <2>1 DEF Marks
<1>7. \A x \in Live : Moves(v, x) \in Live'
  BY LiveMoves
<1>8. Allocated' \subseteq Allocated \cup (IF Copies(v) THEN {free_ptr} ELSE {})
      /\ (Copies(v) => v \in FromSpace)
  BY <1>1, Copied, ExtentAssumption DEF Allocated, TypeOK, TOP_PTR
<1>9. \A x \in Allocated \cup Node : Moves(v, x) = x
  BY <1>2, <1>8, KnownSpaces, <1>1, NamesAssumption DEF Moves, Node
<1>10. Copies(v) => free_ptr \in Live'
  BY <1>7 DEF Moves
<1>11. Precise'
  BY <1>1, <1>7, <1>8, <1>9, <1>10 DEF Precise, TypeOK
<1> QED  BY <1>6, <1>11

LEMMA ForwardRootMarks ==
  ASSUME LInv, NEW s \in Slot, ForwardRoot(s), IInv'
  PROVE  Marks' /\ Precise'
<1>1. /\ GInv /\ IInv /\ TypeOK /\ Marks /\ Precise /\ pc \in {"parser_roots", "roots"} /\ pc \in Collecting
      /\ walk = {} /\ cell[s] \in Value /\ s \in todo
  BY DEF LInv, GInv, IInv, TypeOK, ForwardRoot, Moving, Collecting, Marks
<1>2. CASE /\ Quiet /\ pc' = "exit" /\ UNCHANGED <<scan_ptr, fld, marked, roots, walk>>
  <2>1. Live' = Live /\ Visited' = Visited /\ Allocated' = Allocated /\ \A k : NodeSucc(k)' = NodeSucc(k)
    BY <1>2, LiveKept DEF Quiet, Visited, Allocated, NodeSucc
  <2>2. todo' \subseteq todo
    BY DEF ForwardRoot
  <2> QED  BY <1>1, <1>2, <2>1, <2>2 DEF Marks, Precise, Quiet
<1>3. CASE /\ Forwarded(cell[s]) /\ todo' = todo \ {s}
           /\ UNCHANGED <<scan_ptr, fld, marked, roots, walk, pc>>
  <2>1. Visited' = Visited
    BY <1>3 DEF Visited, Forwarded
  <2>2. ASSUME Copies(cell[s]) PROVE cell[s] \in Live
    <3>1. Leads(mem, cell[s], cell[s])
      BY <1>1, <2>2, CopiesLeads
    <3>2. s \in Global \cup PSlot \cup (marked \cap (Env \cup Code))
      BY <1>1 DEF Marks
    <3>3. CASE s \in Global \cup PSlot
      BY <1>1, <3>1, <3>3, RefersLive
    <3>4. CASE s \in marked \cap (Env \cup Code)
      <4>1. Refers(mem, cell, elem, enext, s, cell[s])
        BY <3>1, <3>4 DEF Refers
      <4> QED  BY <1>1, <3>4, <4>1, RefersLive DEF Precise
    <3> QED  BY <3>2, <3>3, <3>4
  <2> QED  BY <1>1, <1>3, <2>1, <2>2, ForwardedMarks
<1> QED  BY <1>1, <1>2, <1>3, ForwardRootForwards

LEMMA ScanCellMarks ==
  ASSUME LInv, ScanCar \/ ScanCdr, IInv'
  PROVE  Marks' /\ Precise' /\ todo' = {}
<1>1. GInv /\ IInv
  BY DEF LInv, GInv
<1>2. PICK v \in {mem[scan_ptr].a, mem[scan_ptr].b} :
           /\ Forwarded(v) /\ UNCHANGED <<marked, roots, todo, walk, pc>>
           /\ pc = "scan" /\ scan_ptr \in Allocated /\ mem[scan_ptr].tag = "CELL"
           /\ Visited' = Visited \cup {scan_ptr}
  BY <1>1, ScanCellForwards
<1>3. Marks /\ Precise /\ walk = {} /\ todo = {} /\ pc \in Collecting
  BY <1>2 DEF LInv, Moving, Collecting, Marks
<1>4. ASSUME Copies(v) PROVE v \in Live
  <2>1. Leads(mem, v, v) /\ scan_ptr \in Addr
    BY <1>1, <1>2, <1>3, <1>4, CopiesLeads, KnownSpaces DEF Forwarded
  <2>2. Refers(mem, cell, elem, enext, scan_ptr, v)
    BY <1>2, <2>1 DEF Refers
  <2> QED  BY <1>1, <1>2, <1>3, <2>2, RefersLive DEF Precise
<1> QED  BY <1>1, <1>2, <1>3, <1>4, ForwardedMarks

LEMMA ScanClosureMarks ==
  ASSUME LInv, ScanClosure, IInv'
  PROVE  Marks' /\ Precise' /\ todo' = {}
<1> DEFINE k == mem[scan_ptr].a
           e == mem[scan_ptr].b
<1>1. GInv /\ IInv
  BY DEF LInv, GInv
<1>2. /\ e \in Env /\ k \in Code
      /\ Forwarded(cell[e]) /\ UNCHANGED <<marked, roots, todo>>
      /\ pc = "scan" /\ pc' = "closure_collect" /\ walk' = {e, k}
      /\ scan_ptr \in Allocated /\ mem[scan_ptr].tag = "CLOSURE"
      /\ Visited' = Visited \cup {scan_ptr}
  BY <1>1, ScanClosureForwards
<1>3. Marks /\ Precise /\ walk = {} /\ todo = {} /\ pc \in Collecting
  BY <1>2 DEF LInv, Moving, Collecting, Marks
<1>4. e \in Live /\ k \in Live
  <2>1. scan_ptr \in Addr
    BY <1>1, <1>2, KnownSpaces
  <2>2. Refers(mem, cell, elem, enext, scan_ptr, k) /\ Refers(mem, cell, elem, enext, scan_ptr, e)
    BY <1>2, <2>1 DEF Refers
  <2> QED  BY <1>1, <1>2, <1>3, <2>2, RefersLive DEF Precise
<1>5. ASSUME Copies(cell[e]) PROVE cell[e] \in Live
  <2>1. Leads(mem, cell[e], cell[e])
    BY <1>1, <1>2, <1>3, <1>5, CopiesLeads DEF Forwarded
  <2>2. Refers(mem, cell, elem, enext, e, cell[e])
    BY <1>2, <2>1 DEF Refers
  <2> QED  BY <1>1, <1>4, <2>2, RefersLive
<1> HIDE DEF k, e
<1>6. /\ walk' \subseteq Live \cap Node
      /\ \A x \in Visited' \ Visited :
           /\ x \in Allocated
           /\ mem[x].tag = "CLOSURE" /\ {mem[x].a, mem[x].b} \subseteq walk'
  BY <1>2, <1>4 DEF Node, k, e
<1> QED  BY <1>1, <1>2, <1>3, <1>5, <1>6, ForwardedMarks

LEMMA ScanElemMarks ==
  ASSUME LInv, ScanElem, IInv'
  PROVE  Marks' /\ Precise' /\ todo' = {}
<1> DEFINE n == mem[scan_ptr].a
           v == elem[n][fld]
<1>1. GInv /\ IInv
  BY DEF LInv, GInv
<1>2. /\ n \in Vec /\ fld \in 1 .. VecLen
      /\ Forwarded(v) /\ UNCHANGED <<marked, roots, todo, walk, pc>>
      /\ pc = "scan" /\ scan_ptr \in Allocated /\ mem[scan_ptr].tag = "VECTOR"
      /\ Visited' = Visited
  BY <1>1, ScanElemForwards
<1>3. Marks /\ Precise /\ walk = {} /\ todo = {} /\ pc \in Collecting
  BY <1>2 DEF LInv, Moving, Collecting, Marks
<1>4. ASSUME Copies(v) PROVE v \in Live
  <2>1. Leads(mem, v, v) /\ scan_ptr \in Addr
    BY <1>1, <1>2, <1>3, <1>4, CopiesLeads, KnownSpaces DEF Forwarded
  <2>2. Refers(mem, cell, elem, enext, scan_ptr, n)
    BY <1>2, <2>1 DEF Refers
  <2>3. Refers(mem, cell, elem, enext, n, v)
    BY <1>2, <2>1 DEF Refers
  <2> QED  BY <1>1, <1>2, <1>3, <2>2, <2>3, RefersLive DEF Precise
<1> HIDE DEF v
<1> QED  BY <1>1, <1>2, <1>3, <1>4, ForwardedMarks

-----------------------------------------------------------------------------
(* The first and the last step of a collection.                            *)

LEMMA StartGCMarks ==
  ASSUME LInv, StartGC, IInv'
  PROVE  Marks' /\ Precise' /\ todo' = {}
<1>1. /\ IInv /\ Rooted /\ pc = "alloc" /\ pc \notin Moving /\ todo = {} /\ fld = 0
      /\ to_space' = from_space /\ free_ptr' = from_space /\ scan_ptr' = from_space
      /\ roots' = roots \cup GlobalRoots /\ walk' = vmNodes /\ pc' = "vm_collect"
      /\ UNCHANGED <<fld, todo, marked, vmNodes>>
      /\ from_space \in Int
  BY Semispaces, ExtentAssumption
     DEF LInv, GInv, StartGC, nodeVars, Moving, Collecting, IInv, TypeOK, ScanBounded
<1>2. marked' = {} /\ roots' \subseteq Global
  BY <1>1 DEF Rooted, GlobalRoots
<1>3. Visited' = {} /\ Allocated' = {}
  BY <1>1 DEF Visited, Allocated
<1>4. vmNodes' \subseteq Start' /\ Start' \subseteq Live'
  BY ClosedLiveNext DEF Start, LiveClosed, ClosedUnder
<1>5. Precise'
  BY <1>1, <1>2, <1>3, <1>4 DEF Precise
<1>6. Marks'
  BY <1>1, <1>2, <1>3 DEF Marks
<1> QED  BY <1>1, <1>5, <1>6

(* Nothing is left to scan: what was copied or marked refers to what was   *)
(* copied or marked only, and what is freed is none of it.                 *)
LEMMA FinishGCExact ==
  ASSUME LInv, FinishGC, GInv'
  PROVE  Live' = (Allocated \cup nodes)' /\ Live = Allocated \cup marked
<1> DEFINE C == Allocated \cup marked
           M == [x \in C |-> x]
<1>1. /\ GInv /\ IInv /\ TypeOK /\ Marks /\ Precise /\ pc = "scan" /\ pc \in Collecting /\ pc' = "retry"
      /\ scan_ptr = free_ptr /\ fld = 0
      /\ nodes' = marked /\ walk = {}
      /\ cell' = [s \in Slot |-> IF s \in Node \ marked THEN NULL ELSE cell[s]]
      /\ elem' = [n \in Vec |-> IF n \in marked THEN elem[n] ELSE NoElems]
      /\ enext' = [e \in Env |-> IF e \in marked THEN enext[e] ELSE NULL]
      /\ UNCHANGED <<to_space, free_ptr, mem, vmNodes>>
  BY DEF LInv, GInv, IInv, FinishGC, heapVars, ScanBounded, Collecting, Moving, Marks
<1>2. /\ Visited = Allocated /\ Allocated \subseteq Addr /\ ToSpace \cap FromSpace = {}
      /\ Allocated \subseteq ToSpace /\ Allocated' = Allocated /\ Known' = Allocated
  BY <1>1, KnownSpaces DEF Known, Allocated, Visited, Moving, Collecting
<1>3. /\ Tight' /\ IInv' /\ Shaped(mem)
  BY <1>1 DEF GInv, IInv
<1>4. \A w, y : (w \in Addr => w \in Allocated) /\ Leads(mem, w, y) => y \in Allocated
  BY <1>2 DEF Leads, NowIn
<1>5. /\ \A s \in Slot : cell'[s] \in Addr => cell'[s] \in Allocated
      /\ \A n \in Vec, i \in 1 .. VecLen : elem'[n][i] \in Addr => elem'[n][i] \in Allocated
  BY <1>1, <1>2, <1>3 DEF Tight, Points
<1>6. C \in SUBSET Item
  BY <1>1, <1>2 DEF Item, TypeOK
<1>7. /\ \A s \in Global \cup PSlot : cell'[s] = cell[s]
      /\ \A s \in marked \cap (Env \cup Code) : cell'[s] = cell[s]
      /\ \A n \in marked \cap Vec : elem'[n] = elem[n]
      /\ \A e \in marked \cap Env : enext'[e] = enext[e]
  BY <1>1, NamesAssumption DEF Slot
<1>8. ASSUME NEW x \in C, NEW y
      PROVE  /\ y \in SuccOf[x] <=> Refers(mem, cell, elem, enext, x, y)
             /\ y \in SuccOf'[x] <=> Refers(mem, cell', elem', enext', x, y)
             /\ Refers(mem, cell, elem, enext, x, y) <=> Refers(mem, cell', elem', enext', x, y)
  <2>1. /\ y \in SuccOf[x] <=> Refers(mem, cell, elem, enext, x, y)
        /\ y \in SuccOf'[x] <=> Refers(mem, cell', elem', enext', x, y)
    BY <1>1, <1>6, SuccRefers, NextRefers
  <2>2. x \in Node => x \in marked
    BY <1>2, NamesAssumption DEF Node
  <2> QED  BY <1>7, <2>1, <2>2 DEF Refers, Node
<1>9. Start \subseteq C /\ Start' = Start
  <2>1. ASSUME NEW y
        PROVE  /\ y \in Start <=> y \in vmNodes \/ \E s \in Global \cup PSlot : Leads(mem, cell[s], y)
               /\ y \in Start' <=> y \in vmNodes \/ \E s \in Global \cup PSlot : Leads(mem, cell[s], y)
    BY <1>1, <1>7, StartRefers, NextRefers
  <2>2. ASSUME NEW s \in Global \cup PSlot, NEW y, Leads(mem, cell[s], y) PROVE y \in Allocated
    BY <1>4, <1>5, <1>7, <2>2 DEF Slot
  <2> QED  BY <1>1, <2>1, <2>2 DEF Marks
<1>10. ASSUME NEW x \in C, NEW y, Refers(mem, cell', elem', enext', x, y) PROVE y \in C
  <2>1. CASE x \in Allocated
    <3>1. x \notin Node /\ x \in Addr /\ x \in Visited
      BY <1>2, <2>1, NamesAssumption DEF Node
    <3>2. CASE mem[x].tag = "CELL"
      <4>1. Leads(mem, mem[x].a, y) \/ Leads(mem, mem[x].b, y)
        BY <1>10, <3>1, <3>2 DEF Refers, Node
      <4>2. /\ mem[x].a \in Addr => mem[x].a \in Allocated
            /\ mem[x].b \in Addr => mem[x].b \in Allocated
        BY <1>1, <1>2, <1>3, <2>1, <3>2 DEF Tight, Points
      <4> QED  BY <1>4, <4>1, <4>2
    <3>3. CASE mem[x].tag # "CELL"
      <4>1. \/ mem[x].tag = "CLOSURE" /\ y \in {mem[x].a, mem[x].b}
            \/ mem[x].tag \in {"STRING", "VECTOR"} /\ y = mem[x].a
        BY <1>10, <3>1, <3>3 DEF Refers, Node
      <4> QED  BY <1>1, <3>1, <4>1 DEF Marks
    <3> QED  BY <3>2, <3>3
  <2>2. CASE x \in Env /\ x \in marked
    <3>1. enext[x] # NULL => enext[x] \in marked
      BY <1>1, <2>2 DEF Marks, NodeSucc
    <3> QED  BY <1>4, <1>5, <1>7, <1>10, <2>2, <3>1, NamesAssumption DEF Refers, Node, Slot
  <2>3. CASE x \in Code /\ x \in marked
    <3>1. SubCode[x] \subseteq marked
      BY <1>1, <2>3, NamesAssumption DEF Marks, NodeSucc
    <3> QED  BY <1>4, <1>5, <1>10, <2>3, <3>1, NamesAssumption DEF Refers, Node, Slot
  <2>4. CASE x \in Vec
    BY <1>4, <1>5, <1>10, <2>4, NamesAssumption DEF Refers, Node
  <2>5. CASE x \in Str
    BY <1>10, <2>5, NamesAssumption DEF Refers, Node
  <2> QED  BY <1>1, <2>1, <2>2, <2>3, <2>4, <2>5 DEF TypeOK, Node
<1> HIDE DEF C
<1>11. ClosedUnder(C, Start', SuccOf') /\ ClosedUnder(C, Start, SuccOf)
  BY <1>8, <1>9, <1>10 DEF ClosedUnder
<1>12. M \in [C -> Item]
  BY <1>6
<1>13. /\ \A x \in Start : M[x] \in Start'
       /\ \A x \in C : \A y \in SuccOf[x] : M[y] \in SuccOf'[M[x]]
  BY <1>8, <1>9, <1>10
<1> HIDE DEF M
<1>14. \A x \in Live : x \in C /\ M[x] \in Live'
  BY <1>6, <1>11, <1>12, <1>13, LeastMoves, LiveIsLeast
<1>15. Live \subseteq Live'
  BY <1>14 DEF M
<1>16. Live' \subseteq C
  BY <1>6, <1>11, LeastIsLeast, LiveIsLeast
<1>17. C \subseteq Live
  BY <1>1 DEF Precise, C
<1>18. Live = C
  BY <1>14, <1>17
<1> QED  BY <1>1, <1>2, <1>15, <1>16, <1>18 DEF C

-----------------------------------------------------------------------------
(* The invariant, and what it says of a collection.                        *)

LEMMA InitLInv == Init => LInv
BY InitGInv DEF Init, LInv, Moving, Collecting

LEMMA NextLInv ==
  ASSUME LInv, [Next]_vars
  PROVE  LInv'
<1>1. GInv' /\ IInv' /\ GInv
  BY NextGInv DEF LInv, GInv
<1> SUFFICES /\ pc' \in Moving => Marks' /\ Precise'
             /\ pc' \notin {"parser_roots", "roots", "exit"} => todo' = {}
             /\ pc' = "retry" => Live' = (Allocated \cup nodes)'
  BY <1>1 DEF LInv, Moving, Collecting
<1>2. CASE UNCHANGED vars
  <2>1. /\ Live' = Live /\ Allocated' = Allocated /\ Visited' = Visited
        /\ \A k : NodeSucc(k)' = NodeSucc(k)
    BY <1>2, LiveKept DEF vars, Allocated, Visited, NodeSucc
  <2> QED  BY <1>2, <2>1 DEF vars, LInv, Marks, Precise
<1>3. CASE Client
  <2>1. pc = "mutator" /\ pc' \in {"mutator", "alloc"} /\ todo' = todo
    BY <1>3 DEF Client, RequestCell, RequestLeaf, RequestClosure, Drop, VectorSet, LoadCode, Enter,
       Leave, gcIdle
  <2> QED  BY <2>1 DEF LInv, Moving, Collecting
<1>4. CASE Alloc
  <2>1. pc \in {"alloc", "retry"} /\ pc' = "mutator" /\ todo' = todo
    BY <1>1, <1>4 DEF Alloc, Place, GInv, IInv
  <2> QED  BY <2>1 DEF LInv, Moving, Collecting
<1>5. CASE StartGC
  <2>1. pc' = "vm_collect"
    BY <1>5 DEF StartGC
  <2> QED  BY <1>1, <1>5, <2>1, StartGCMarks
<1>6. CASE FinishGC
  <2>1. pc' = "retry" /\ pc = "scan" /\ todo' = todo
    BY <1>6 DEF FinishGC
  <2> QED  BY <1>1, <1>6, <2>1, FinishGCExact DEF LInv, Moving, Collecting
<1>7. ASSUME NEW n \in Env \cup Code, CollectNode(n)
      PROVE  /\ pc' \in Moving => Marks' /\ Precise'
             /\ pc' \notin {"parser_roots", "roots", "exit"} => todo' = {}
             /\ pc' # "retry"
  <2>1. pc' = pc /\ pc # "retry" /\ todo' = todo
    BY <1>7 DEF CollectNode
  <2> QED  BY <1>7, <2>1, CollectNodeMarks DEF LInv
<1>8. CASE CollectDone \/ RootsDone
  <2>1. pc' \in {"parser_roots", "roots", "scan"}
    BY <1>8 DEF CollectDone, RootsDone
  <2> QED  BY <1>8, <2>1, PassMarks
<1>9. ASSUME NEW s \in Slot, ForwardRoot(s)
      PROVE  /\ pc' \in Moving => Marks' /\ Precise'
             /\ pc' \in {"parser_roots", "roots", "exit"}
  <2>1. pc' \in {"parser_roots", "roots", "exit"}
    BY <1>1, <1>9 DEF ForwardRoot, IInv
  <2> QED  BY <1>1, <1>9, <2>1, ForwardRootMarks
<1>10. CASE ScanFull \/ ScanVector \/ ScanString \/ ScanLeaf
  <2>1. pc' # "retry"
    BY <1>10 DEF ScanFull, ScanVector, ScanString, ScanLeaf, Scanning
  <2> QED  BY <1>1, <1>10, <2>1, LeafMarks
<1>11. CASE ScanCar \/ ScanCdr
  <2>1. pc' # "retry"
    BY <1>11 DEF ScanCar, ScanCdr, Scanning
  <2> QED  BY <1>1, <1>11, <2>1, ScanCellMarks
<1>12. CASE ScanClosure
  <2>1. pc' # "retry"
    BY <1>12 DEF ScanClosure
  <2> QED  BY <1>1, <1>12, <2>1, ScanClosureMarks
<1>13. CASE ScanElem
  <2>1. pc' # "retry"
    BY <1>13 DEF ScanElem, Scanning
  <2> QED  BY <1>1, <1>13, <2>1, ScanElemMarks
<1> QED  BY <1>2, <1>3, <1>4, <1>5, <1>6, <1>7, <1>8, <1>9, <1>10, <1>11, <1>12, <1>13
         DEF Next, Collector

(* The marker's invariant holds in every reachable state.                  *)
THEOREM MarkingInvariance == Spec => []LInv
<1>1. LInv /\ [Next]_vars => LInv'
  BY NextLInv
<1> QED  BY <1>1, InitLInv, PTL DEF Spec

(* When a collection ends what is left is what the mutator reaches: no     *)
(* object, string, array, environment or code it can use was freed, no     *)
(* garbage was kept, and no object it can use is a forwarding pointer or   *)
(* memory that was never written (gc.c, fzscm_gc).                         *)
THEOREM CollectionIsExact == Spec => []SurvivorsExact
<1>1. LInv => SurvivorsExact
  <2> SUFFICES ASSUME LInv, pc = "retry"
               PROVE  /\ Live = Allocated \cup nodes
                      /\ \A x \in Live \cap Addr : mem[x].tag \notin {"MOVED", "UNDEF"}
    BY DEF SurvivorsExact
  <2>1. /\ IInv /\ Tight /\ TypeOK /\ pc \notin Moving /\ Live = Allocated \cup nodes
    BY DEF LInv, GInv, IInv, Moving, Collecting
  <2>2. Known = Allocated /\ Allocated \subseteq ToSpace /\ ToSpace \cap FromSpace = {}
        /\ \A x \in Addr : mem[x].tag = "MOVED" => x \in FromSpace
    BY <2>1, KnownSpaces
  <2>3. Live \cap Addr \subseteq Allocated
    BY <2>1, NamesAssumption DEF TypeOK, Node
  <2> QED  BY <2>1, <2>2, <2>3 DEF Tight
<1> QED  BY <1>1, MarkingInvariance, PTL

(* A full semispace whose objects are the copies of all the old ones.      *)
LEMMA EndedFull ==
  ASSUME LInv, pc = "exit"
  PROVE  Live \cap Addr = Allocated /\ Cardinality(Allocated) = Extent
<1>1. /\ GInv /\ IInv /\ Precise /\ Full /\ Counts(mem, free_ptr) /\ pc \in Moving
      /\ to_space \in {0, Extent} /\ free_ptr \in to_space .. TOP_PTR
  BY DEF LInv, GInv, IInv, TypeOK, Ended, Moving
<1>2. /\ Known = Allocated \cup FromSpace /\ Known \subseteq Addr
      /\ ToSpace \cap FromSpace = {} /\ ToSpace \cup FromSpace = Addr /\ Allocated \subseteq ToSpace
      /\ \A x \in Addr : mem[x].tag = "MOVED" => mem[x].a \in Allocated
  BY <1>1, KnownSpaces
<1>3. free_ptr = to_space + Extent /\ Allocated = ToSpace
  BY <1>1, ExtentAssumption DEF Full, TOP_PTR, Allocated, ToSpace
<1>4. MovedOf(mem) = FromSpace
  <2>1. IsFiniteSet(FromSpace) /\ Cardinality(FromSpace) = Extent
    BY <1>1, Semispaces
  <2>2. MovedOf(mem) \in SUBSET FromSpace
    BY DEF MovedOf
  <2>3. Cardinality(MovedOf(mem)) = Extent
    BY <1>1, <1>3, ExtentAssumption DEF Counts
  <2> QED  BY <2>1, <2>2, <2>3, FS_Subset
<1>5. ClosedUnder(Allocated \cup Node, Start, SuccOf) /\ Allocated \cup Node \in SUBSET Item
  <2>1. ClosedUnder(Known \cup Node, Start, SuccOf)
    BY <1>1, KnownClosed
  <2>2. \A w, y : Leads(mem, w, y) => y \in Allocated
    BY <1>2, <1>3, <1>4 DEF Leads, NowIn, MovedOf
  <2>3. Start \subseteq Allocated \cup Node
    BY <1>1, <2>2, StartRefers DEF IInv, TypeOK, Node
  <2>4. ASSUME NEW x \in Allocated \cup Node, NEW y \in SuccOf[x] PROVE y \in Allocated \cup Node
    <3>1. Refers(mem, cell, elem, enext, x, y) /\ y \in Known \cup Node
      BY <1>2, <2>1, <2>4, SuccRefers DEF Item, ClosedUnder
    <3> QED  BY <1>1, <1>2, <2>2, <2>4, <3>1, NamesAssumption, SubCodeAssumption
             DEF Refers, Node, IInv, TypeOK, Shaped
  <2> QED  BY <1>2, <2>3, <2>4 DEF ClosedUnder, Item
<1>6. Live \subseteq Allocated \cup Node
  BY <1>5, LeastIsLeast, LiveIsLeast
<1>7. Live \cap Addr = Allocated
  BY <1>1, <1>2, <1>6, NamesAssumption DEF Precise, Node
<1>8. Cardinality(Allocated) = Extent
  <2>1. to_space \in Int /\ to_space + Extent - 1 \in Int /\ Allocated = to_space .. (to_space + Extent - 1)
    BY <1>1, <1>3, ExtentAssumption DEF Allocated
  <2>2. \A i, j \in Int : Cardinality(i .. j) = IF i > j THEN 0 ELSE j - i + 1
    BY FS_Interval, Zenon
  <2> QED  BY <1>1, <2>1, <2>2, ExtentAssumption
<1> QED  BY <1>7, <1>8

(* "shortage of memory" ends the program only when live objects fill the   *)
(* semispace (gc.c, the tests of FORWARD and forward_non_roots).           *)
THEOREM ShortageOnlyWhenFull == Spec => []ShortageIsReal
<1>1. LInv => ShortageIsReal
  BY EndedFull DEF ShortageIsReal
<1> QED  BY <1>1, MarkingInvariance, PTL

-----------------------------------------------------------------------------
(***************************************************************************)
(* The collector and the constructors implement the graph of ObjectGraph.  *)
(* An object of the graph is at Where(x) now: what the program reaches in  *)
(* the graph and what it reaches in the heap are the same objects, before, *)
(* during and after a collection.                                          *)
(***************************************************************************)

Where(x) == IF x \in Addr THEN NowIn(mem, x) ELSE x
Ob == IF pc \in Moving THEN FromSpace ELSE Allocated

LEMMA ObIs == DOMAIN GraphObjects = Ob /\ (Viewing <=> pc \in Moving)
BY DEF GraphObjects, Ob, Viewing, Moving

(* A reference and what the graph shows for it lead to the same object.    *)
LEMMA Shown ==
  ASSUME GInv
  PROVE  /\ Ob \subseteq Known /\ Ob \subseteq Addr /\ Ob \cap Node = {} /\ Addr \cap Node = {}
         /\ \A w : w \in Addr /\ Points(w) => Named(w) \in Ob /\ Where(Named(w)) = NowIn(mem, w)
         /\ \A w : w \notin Addr => Named(w) = w
         /\ \A x, y \in Ob : NowIn(mem, x) = NowIn(mem, y) => x = y
<1>1. /\ IInv /\ Paired /\ ToSpace \cap FromSpace = {} /\ ToSpace \cup FromSpace = Addr
      /\ pc \in Moving => Known = Allocated \cup FromSpace
      /\ pc \notin Moving => Known = Allocated
      /\ Allocated \subseteq ToSpace /\ Allocated \subseteq Addr /\ Known \subseteq Addr
      /\ \A x \in Addr : mem[x].tag = "MOVED" => x \in FromSpace /\ mem[x].a \in Allocated
  BY KnownSpaces DEF GInv
<1>2. Ob \subseteq Known /\ Ob \subseteq Addr /\ Addr \cap Node = {}
  BY <1>1, NamesAssumption DEF Ob, Node
<1>3. \A w : w \notin Addr => Named(w) = w
  BY <1>1 DEF Named, Origin, TOSPACE_CONTAINS
<1>4. ASSUME NEW w \in Addr, Points(w) PROVE Named(w) \in Ob /\ Where(Named(w)) = NowIn(mem, w)
  <2>1. CASE pc \notin Moving
    <3>1. Named(w) = w /\ w \in Ob
      BY <1>1, <1>4, <2>1, ObIs DEF Named, Ob, Points
    <3> QED BY <1>4, <3>1 DEF Where
  <2>2. CASE pc \in Moving /\ w \in FromSpace
    <3>1. Named(w) = w /\ w \in Ob
      BY <1>1, <2>2, ObIs DEF Named, Ob, Origin, TOSPACE_CONTAINS
    <3> QED BY <1>4, <3>1 DEF Where
  <2>3. CASE pc \in Moving /\ w \in Allocated
    <3>1. PICK x \in FromSpace : mem[x].tag = "MOVED" /\ mem[x].a = w
      BY <1>1, <2>3 DEF Paired
    <3>2. \A y \in FromSpace : mem[y].tag = "MOVED" /\ mem[y].a = w => y = x
      BY <1>1, <2>3, <3>1 DEF Paired
    <3>3. Origin(w) = x
      BY <1>1, <2>3, <3>1, <3>2 DEF Origin, TOSPACE_CONTAINS, Moved
    <3>4. Named(w) = x /\ x \in Ob /\ x \in Addr /\ x \notin ToSpace
      BY <1>1, <2>3, <3>1, <3>3, ObIs DEF Named, Ob
    <3>5. NowIn(mem, w) = w /\ NowIn(mem, x) = w
      BY <1>1, <2>3, <3>1, <3>4 DEF NowIn
    <3> QED BY <3>4, <3>5 DEF Where
  <2> QED BY <1>1, <1>4, <2>1, <2>2, <2>3 DEF Points
<1>5. ASSUME NEW x \in Ob, NEW y \in Ob, NowIn(mem, x) = NowIn(mem, y) PROVE x = y
  <2>1. CASE pc \in Moving
    BY <1>1, <1>5, <2>1 DEF Ob, NowIn, Paired
  <2>2. CASE pc \notin Moving
    BY <1>1, <1>5, <2>2 DEF Ob, NowIn
  <2> QED BY <2>1, <2>2
<1> QED BY <1>2, <1>3, <1>4, <1>5

(* The references of the graph are those of the heap.                      *)
LEMMA NamedLeads ==
  ASSUME GInv, NEW w, Points(w), w \notin Node
  PROVE  /\ \A y \in Ob : y = Named(w) <=> Leads(mem, w, Where(y))
         /\ \A y \in Node : y # Named(w) /\ ~Leads(mem, w, Where(y))
<1>1. ASSUME NEW y \in Ob PROVE y = Named(w) <=> Leads(mem, w, Where(y))
  BY Shown DEF Leads, Where
<1>2. ASSUME NEW y \in Node PROVE y # Named(w) /\ ~Leads(mem, w, Where(y))
  <2>1. w \in Addr => NowIn(mem, w) \in Addr
    BY NowKnown, KnownSpaces DEF GInv, Points
  <2> QED BY <2>1, Shown DEF Leads, Where
<1> QED BY <1>1, <1>2

LEMMA ObjectShown ==
  ASSUME GInv, NEW x \in Ob
  PROVE  LET o == GraphObjects[x]
             m == mem[Where(x)] IN
         /\ Where(x) \in Known /\ o.tag = m.tag /\ m.tag # "MOVED"
         /\ m.tag = "CELL" => /\ o.a = Named(m.a) /\ o.b = Named(m.b)
                              /\ Points(m.a) /\ Points(m.b)
                              /\ m.a \notin Node /\ m.b \notin Node
         /\ m.tag # "CELL" => o = m
<1>1. /\ IInv /\ Tight /\ Shaped(mem) /\ x \in Addr /\ x \in Known /\ Known \subseteq Addr
      /\ mem \in [Addr -> Object] /\ ToSpace \cap FromSpace = {}
      /\ Where(x) = NowIn(mem, x)
  BY Shown, KnownSpaces DEF GInv, IInv, Where
<1>2. Where(x) \in Known /\ mem[Where(x)].tag # "MOVED" /\ mem[Where(x)] \in Object
  BY <1>1, NowKnown
<1>3. mem[Where(x)].tag = "CELL" => /\ Points(mem[Where(x)].a) /\ Points(mem[Where(x)].b)
                              /\ mem[Where(x)].a \notin Node /\ mem[Where(x)].b \notin Node
  BY <1>1, <1>2, NamesAssumption DEF Tight, Shaped, Value, Node, Static
<1>4. CASE pc \in Moving
  <2>1. GraphObjects[x] = View(x) /\ \A w : Named(w) = Origin(w)
    BY <1>4, ObIs DEF GraphObjects, Ob, Named
  <2>2. Now(x) = Where(x)
    BY <1>1 DEF Now, NowIn, Moved, TOSPACE_CONTAINS
  <2> HIDE DEF Where
  <2> DEFINE m == mem[Where(x)]
  <2>3. View(x) = [tag |-> m.tag, a |-> IF m.tag = "CELL" THEN Origin(m.a) ELSE m.a,
                                  b |-> IF m.tag = "CELL" THEN Origin(m.b) ELSE m.b]
    BY <2>2 DEF View
  <2>4. m = [tag |-> m.tag, a |-> m.a, b |-> m.b]
    BY <1>2 DEF Object
  <2> QED BY <1>2, <1>3, <2>1, <2>3, <2>4
<1>5. CASE pc \notin Moving
  <2>1. GraphObjects[x] = mem[x] /\ \A w : Named(w) = w
    BY <1>5, ObIs DEF GraphObjects, Ob, Named
  <2>2. Where(x) = x
    BY <1>1, <1>5, KnownSpaces DEF NowIn, Ob
  <2> QED BY <1>2, <1>3, <2>1, <2>2
<1> QED BY <1>4, <1>5

LEMMA RefersShown ==
  ASSUME GInv, NEW x \in Ob \cup Node, NEW y \in Ob \cup Node
  PROVE  G!Refers(x, y) <=> Refers(mem, cell, elem, enext, Where(x), Where(y))
<1>1. /\ IInv /\ Tight /\ TypeOK /\ Shaped(mem) /\ Known \subseteq Addr /\ mem \in [Addr -> Object]
      /\ NULL \notin Addr \cup Node /\ Value \cap Node = {}
      /\ Ob \cap Node = {} /\ Ob \subseteq Addr /\ Addr \cap Node = {}
  BY Shown, KnownSpaces, NamesAssumption DEF GInv, IInv, Value, Static, Node
<1>2. \A z \in Node : Where(z) = z
  BY <1>1 DEF Where
<1>3. \A w : Points(w) /\ w \notin Node =>
        /\ \A z \in Ob : z = Named(w) <=> Leads(mem, w, Where(z))
        /\ \A z \in Node : z # Named(w) /\ ~Leads(mem, w, Where(z))
  BY NamedLeads
<1>4. ASSUME NEW w, Points(w), w \notin Node
      PROVE  y = Named(w) <=> Leads(mem, w, Where(y))
  BY <1>3, <1>4
<1>5. \A n \in Node : y = n <=> Where(y) = n
  <2>1. y \in Ob => Where(y) \in Addr
    BY <1>1, ObjectShown
  <2> QED BY <1>1, <1>2, <2>1
<1>6. y # NULL /\ Where(y) # NULL
  <2>1. y \in Ob => Where(y) \in Addr
    BY <1>1, ObjectShown
  <2> QED BY <1>1, <1>2, <2>1
<1>7. \A s \in Slot : /\ GraphSlots[s] = Named(cell[s])
                      /\ Points(cell[s]) /\ cell[s] \notin Node
  BY <1>1 DEF GraphSlots, Tight, TypeOK
<1>8. CASE x \in Env
  <2>1. Where(x) = x /\ x \notin Ob /\ x \notin Code /\ x \notin Vec /\ x \notin Addr /\ x \in Slot
    BY <1>1, <1>2, <1>8, NamesAssumption DEF Node, Slot
  <2>2. enext[x] \in Env \cup {NULL}
    BY <1>1, <1>8 DEF TypeOK
  <2>3. y = enext[x] <=> Where(y) = enext[x] /\ Where(y) # NULL
    BY <1>5, <1>6, <2>2 DEF Node
  <2>4. y = GraphSlots[x] <=> Leads(mem, cell[x], Where(y))
    BY <1>4, <1>7, <2>1
  <2> QED BY <1>8, <2>1, <2>3, <2>4, ObIs DEF G!Refers, Refers
<1>9. CASE x \in Code
  <2>1. Where(x) = x /\ x \notin Ob /\ x \notin Env /\ x \notin Vec /\ x \notin Addr /\ x \in Slot
    BY <1>1, <1>2, <1>9, NamesAssumption DEF Node, Slot
  <2>2. SubCode[x] \subseteq Node
    BY <1>9, SubCodeAssumption DEF Node
  <2>3. y \in SubCode[x] <=> Where(y) \in SubCode[x]
    BY <1>5, <2>2
  <2>4. y = GraphSlots[x] <=> Leads(mem, cell[x], Where(y))
    BY <1>4, <1>7, <2>1
  <2> QED BY <1>9, <2>1, <2>3, <2>4, ObIs DEF G!Refers, Refers
<1>10. CASE x \in Vec
  <2>1. Where(x) = x /\ x \notin Ob /\ x \notin Env /\ x \notin Code /\ x \notin Addr
    BY <1>1, <1>2, <1>10, NamesAssumption DEF Node
  <2>2. \A i \in 1 .. VecLen : GraphElems[x][i] = Named(elem[x][i]) /\ Points(elem[x][i])
                               /\ elem[x][i] \notin Node
    <3>1. GraphElems[x] = [i \in 1 .. VecLen |-> Named(elem[x][i])]
      BY <1>10 DEF GraphElems
    <3>2. \A i \in 1 .. VecLen : Points(elem[x][i]) /\ elem[x][i] \in Value
      <4>1. elem[x] \in [1 .. VecLen -> Value]
        BY <1>1, <1>10 DEF TypeOK
      <4> QED BY <1>1, <1>10, <4>1 DEF Tight
    <3> QED BY <1>1, <3>1, <3>2
  <2>3. \A i \in 1 .. VecLen : y = GraphElems[x][i] <=> Leads(mem, elem[x][i], Where(y))
    BY <1>4, <2>2
  <2> QED BY <1>10, <2>1, <2>3, ObIs DEF G!Refers, Refers
<1>11. CASE x \in Str
  <2>1. Where(x) = x /\ x \notin Ob /\ x \notin Env /\ x \notin Code /\ x \notin Vec /\ x \notin Addr
    BY <1>1, <1>2, <1>11, NamesAssumption DEF Node
  <2> QED BY <2>1, ObIs DEF G!Refers, Refers
<1>12. CASE x \in Ob
  <2> DEFINE o == GraphObjects[x]
             m == mem[Where(x)]
  <2>1. /\ Where(x) \in Addr /\ o.tag = m.tag
        /\ m.tag = "CELL" => /\ o.a = Named(m.a) /\ o.b = Named(m.b)
                             /\ Points(m.a) /\ Points(m.b) /\ m.a \notin Node /\ m.b \notin Node
        /\ m.tag # "CELL" => o = m
    BY <1>1, <1>12, ObjectShown
  <2>2. x \notin Node /\ Where(x) \notin Node /\ x \in DOMAIN GraphObjects
    BY <1>1, <1>12, <2>1, ObIs
  <2>3. /\ m.tag = "CLOSURE" => m.a \in Node /\ m.b \in Node
        /\ m.tag \in {"STRING", "VECTOR"} => m.a \in Node
    BY <1>1, <2>1 DEF Shaped, Node
  <2>4. G!Refers(x, y) <=> \/ o.tag \in {"CELL", "CLOSURE"} /\ y \in {o.a, o.b}
                           \/ o.tag \in {"STRING", "VECTOR"} /\ y = o.a
    BY <2>2 DEF G!Refers, Node
  <2>5. Refers(mem, cell, elem, enext, Where(x), Where(y))
        <=> \/ m.tag = "CELL" /\ (Leads(mem, m.a, Where(y)) \/ Leads(mem, m.b, Where(y)))
            \/ m.tag = "CLOSURE" /\ Where(y) \in {m.a, m.b}
            \/ m.tag \in {"STRING", "VECTOR"} /\ Where(y) = m.a
    BY <2>1, <2>2 DEF Refers, Node
  <2> HIDE DEF o, m
  <2>6. CASE m.tag = "CELL"
    BY <1>4, <2>1, <2>4, <2>5, <2>6
  <2>7. CASE m.tag # "CELL"
    BY <1>5, <2>1, <2>3, <2>4, <2>5, <2>7
  <2> QED BY <2>6, <2>7
<1> QED BY <1>8, <1>9, <1>10, <1>11, <1>12 DEF Node

LEMMA StartShown ==
  ASSUME GInv, NEW y \in Ob \cup Node
  PROVE  y \in G!Start <=> Where(y) \in Start
<1>1. /\ IInv /\ Tight /\ TypeOK /\ Value \cap Node = {} /\ Known \subseteq Addr
      /\ Ob \cap Node = {} /\ Ob \subseteq Addr /\ Addr \cap Node = {}
  BY Shown, KnownSpaces, NamesAssumption DEF GInv, IInv, Value, Static, Node
<1>2. \A s \in Slot : GraphSlots[s] = Named(cell[s]) /\ Points(cell[s]) /\ cell[s] \notin Node
  BY <1>1 DEF GraphSlots, Tight, TypeOK
<1>3. \A s \in Slot : y = GraphSlots[s] <=> Leads(mem, cell[s], Where(y))
  BY <1>2, NamedLeads
<1>4. y \in vmNodes <=> Where(y) \in vmNodes
  <2>1. y \in Ob => Where(y) \in Addr
    BY <1>1, ObjectShown
  <2>2. y \in Node => Where(y) = y
    BY <1>1 DEF Where
  <2> QED BY <1>1, <2>1, <2>2 DEF TypeOK, Node
<1>5. y \in G!Start <=> y \in vmNodes \/ \E s \in Global \cup PSlot : y = GraphSlots[s]
  BY ObIs DEF G!Start, G!Item, G!Node, Node
<1> QED BY <1>3, <1>4, <1>5, StartRefers DEF Slot

(* Everything the heap leads to is where some object of the graph is.      *)
LEMMA HeapShown ==
  ASSUME GInv
  PROVE  /\ \A y \in Start : \E z \in Ob \cup Node : y = Where(z)
         /\ \A x \in Ob \cup Node : \A y \in SuccOf[Where(x)] : \E z \in Ob \cup Node : y = Where(z)
<1>1. /\ ClosedUnder(Known \cup Node, Start, SuccOf)
      /\ Ob \cap Node = {} /\ Ob \subseteq Addr /\ Addr \cap Node = {}
      /\ Known \subseteq Addr
  BY KnownClosed, Shown, KnownSpaces DEF GInv
<1>2. \A n \in Node : Where(n) = n
  BY <1>1 DEF Where
<1>3. \A x \in Ob \cup Node : Where(x) \in Known \cup Node
  BY <1>2, ObjectShown
<1>4. ASSUME NEW y, y \in Node \/ \E w : Points(w) /\ Leads(mem, w, y)
      PROVE  \E z \in Ob \cup Node : y = Where(z)
  BY <1>2, <1>4, Shown DEF Leads
<1>5. /\ IInv /\ Tight /\ TypeOK /\ Shaped(mem)
  BY DEF GInv, IInv
<1>6. ASSUME NEW y \in Start PROVE y \in Node \/ \E w : Points(w) /\ Leads(mem, w, y)
  BY <1>5, StartRefers DEF TypeOK, Tight, Slot, Node
<1>7. ASSUME NEW x \in Known \cup Node, NEW y \in SuccOf[x]
      PROVE  y \in Node \/ \E w : Points(w) /\ Leads(mem, w, y)
  <2>1. Refers(mem, cell, elem, enext, x, y)
    BY <1>1, <1>7, SuccRefers DEF Item
  <2>2. CASE x \in Known
    <3>1. x \in Addr /\ x \notin Node
      BY <1>1, <2>2
    <3> QED BY <1>5, <2>1, <2>2, <3>1 DEF Refers, Tight, Shaped, Node
  <2>3. CASE x \in Node
    BY <1>1, <1>5, <2>1, <2>3, SubCodeAssumption DEF Refers, Tight, TypeOK, Slot, Node
  <2> QED BY <1>7, <2>2, <2>3
<1> QED BY <1>3, <1>4, <1>6, <1>7

(* The program reaches an object in the graph if it reaches it in the heap. *)
LEMMA LiveShown ==
  ASSUME GInv
  PROVE  /\ G!Live \subseteq Ob \cup Node
         /\ \A x \in Ob \cup Node : x \in G!Live <=> Where(x) \in Live
<1> DEFINE I == Ob \cup Node
<1>1. G!Item = I
  BY ObIs DEF G!Item, G!Node, Node
<1>2. G!Live \subseteq I
  BY <1>1 DEF G!Live
<1>3. /\ \A x, y \in I : Where(x) = Where(y) => x = y
      /\ \A x \in I : Where(x) \in Item
  <2>1. /\ Ob \cap Node = {} /\ Ob \subseteq Addr /\ Addr \cap Node = {} /\ Known \subseteq Addr
        /\ \A x, y \in Ob : NowIn(mem, x) = NowIn(mem, y) => x = y
    BY Shown, KnownSpaces DEF GInv
  <2>2. \A x \in Ob : Where(x) \in Addr /\ Where(x) = NowIn(mem, x)
    BY <2>1, ObjectShown DEF Where
  <2>3. \A x \in Node : Where(x) = x
    BY <2>1 DEF Where
  <2> QED BY <2>1, <2>2, <2>3 DEF Item
<1>4. /\ \A y \in I : y \in G!Start <=> Where(y) \in Start
      /\ \A x, y \in I : G!Refers(x, y) <=> Where(y) \in SuccOf[Where(x)]
  <2>1. \A y \in I : y \in G!Start <=> Where(y) \in Start
    BY StartShown
  <2>2. ASSUME NEW x \in I, NEW y \in I PROVE G!Refers(x, y) <=> Where(y) \in SuccOf[Where(x)]
    BY <1>3, RefersShown, SuccRefers
  <2> QED BY <2>1, <2>2
<1>5. /\ \A y \in Start : \E z \in I : y = Where(z)
      /\ \A x \in I : \A y \in SuccOf[Where(x)] : \E z \in I : y = Where(z)
  BY HeapShown
<1>6. \A S \in SUBSET I : G!Closed(S) <=> G!Start \subseteq S /\ \A x \in S, y \in I : G!Refers(x, y) => y \in S
  BY <1>1 DEF G!Closed
<1>7. \A x \in I : x \in G!Live <=> \A S \in SUBSET I : G!Closed(S) => x \in S
  BY <1>1 DEF G!Live
<1>8. G!Start \subseteq I
  BY <1>1 DEF G!Start
<1> HIDE DEF I
<1>9. ASSUME NEW x \in I, x \in G!Live PROVE Where(x) \in Live
  <2> DEFINE T == {z \in I : Where(z) \in Live}
  <2>1. ClosedUnder(Live, Start, SuccOf)
    BY ClosedLive DEF LiveClosed, GInv
  <2>2. G!Start \subseteq T
    BY <1>4, <1>8, <2>1 DEF ClosedUnder
  <2>3. \A y \in T, z \in I : G!Refers(y, z) => z \in T
    BY <1>4, <2>1 DEF ClosedUnder
  <2>4. T \in SUBSET I /\ G!Closed(T)
    BY <1>6, <2>2, <2>3
  <2> HIDE DEF T
  <2>5. x \in T
    BY <1>7, <1>9, <2>4
  <2> QED BY <2>5 DEF T
<1>10. ASSUME NEW x \in I, Where(x) \in Live, NEW S \in SUBSET I, G!Closed(S) PROVE x \in S
  <2> DEFINE T == {Where(z) : z \in S}
  <2>1. T \in SUBSET Item
    BY <1>3
  <2>2. Start \subseteq T
    <3> SUFFICES ASSUME NEW y \in Start PROVE \E z \in S : y = Where(z)
      OBVIOUS
    <3>1. PICK z \in I : y = Where(z)
      BY <1>5
    <3>2. z \in G!Start
      BY <1>4, <3>1
    <3> QED BY <1>6, <1>10, <3>1, <3>2
  <2>3. ASSUME NEW y \in S, NEW u \in SuccOf[Where(y)] PROVE u \in T
    <3>1. y \in I
      BY <1>10
    <3>2. PICK z \in I : u = Where(z)
      BY <1>5, <3>1
    <3>3. z \in S
      BY <1>4, <1>6, <1>10, <3>1, <3>2
    <3> QED BY <3>2, <3>3
  <2>4. \A v \in T : SuccOf[v] \subseteq T
    BY <2>3
  <2> HIDE DEF T
  <2>5. ClosedUnder(T, Start, SuccOf)
    BY <2>2, <2>4 DEF ClosedUnder
  <2>6. Where(x) \in T
    BY <1>10, <2>1, <2>5, LeastIsLeast, LiveIsLeast
  <2> QED BY <1>3, <1>10, <2>6 DEF T
<1> QED BY <1>2, <1>7, <1>9, <1>10 DEF I

LEMMA PlainLive == GInv /\ pc \notin Moving => G!Live = Live /\ Ob = Allocated
<1> SUFFICES ASSUME GInv, pc \notin Moving PROVE G!Live = Live /\ Ob = Allocated
  OBVIOUS
<1>1. /\ IInv /\ Ob = Allocated /\ Known = Allocated /\ Allocated \subseteq Addr
      /\ ToSpace \cap FromSpace = {} /\ Allocated \subseteq ToSpace
      /\ \A x \in Addr : mem[x].tag = "MOVED" => x \in FromSpace
  BY KnownSpaces DEF GInv, Ob
<1>2. Live \subseteq Ob \cup Node
  BY <1>1, KnownClosed, LeastIsLeast, LiveIsLeast
<1>3. \A x \in Ob \cup Node : Where(x) = x
  BY <1>1, Shown DEF Where, NowIn
<1> QED BY <1>1, <1>2, <1>3, LiveShown

LEMMA PlainLiveNext == (GInv /\ pc \notin Moving)' => (G!Live = Live)' /\ (Ob = Allocated)'
BY PlainLive, PTL

-----------------------------------------------------------------------------
(* Outside of a collection the graph is the heap as it is.                 *)

LEMMA PlainGraph ==
  IInv /\ pc \notin Moving =>
    /\ GraphObjects = [x \in Allocated |-> mem[x]]
    /\ GraphSlots = cell /\ GraphElems = elem
    /\ pc # "retry" => GraphReq = req
<1> SUFFICES ASSUME IInv, pc \notin Moving
             PROVE  /\ GraphObjects = [x \in Allocated |-> mem[x]]
                    /\ GraphSlots = cell /\ GraphElems = elem
                    /\ pc # "retry" => GraphReq = req
  OBVIOUS
<1>1. ~Viewing /\ \A w : Named(w) = w
  BY ObIs DEF Named
<1>2. cell \in [Slot -> Value] /\ elem \in [Vec -> [1 .. VecLen -> Value]]
  BY DEF IInv, TypeOK
<1>3. GraphSlots = cell
  BY <1>1, <1>2 DEF GraphSlots
<1>4. GraphElems = elem
  <2>1. \A n \in Vec : [i \in 1 .. VecLen |-> Named(elem[n][i])] = elem[n]
    <3> TAKE n \in Vec
    <3>1. elem[n] \in [1 .. VecLen -> Value]
      BY <1>2
    <3> QED BY <1>1, <3>1
  <2>2. GraphElems = [n \in Vec |-> elem[n]]
    BY <2>1 DEF GraphElems
  <2> QED BY <1>2, <2>2
<1> QED BY <1>1, <1>3, <1>4 DEF GraphObjects, GraphReq

LEMMA PlainGraphNext ==
  (IInv /\ pc \notin Moving)' =>
    /\ GraphObjects' = [x \in Allocated' |-> mem'[x]]
    /\ GraphSlots' = cell' /\ GraphElems' = elem'
    /\ pc' # "retry" => GraphReq' = req'
<1>1. (IInv /\ pc \notin Moving =>
        /\ GraphObjects = [x \in Allocated |-> mem[x]]
        /\ GraphSlots = cell /\ GraphElems = elem
        /\ pc # "retry" => GraphReq = req)'
  BY PlainGraph, PTL
<1> QED BY <1>1

LEMMA GraphCardinality == \A S : G!Cardinality(S) = Cardinality(S)
BY DEF G!Cardinality, Cardinality, G!IsFiniteSet, IsFiniteSet

(* The semispace is full when the graph has as many objects as there can be. *)
LEMMA ObCount ==
  ASSUME IInv
  PROVE  /\ IsFiniteSet(Ob) /\ Cardinality(Ob) <= Extent
         /\ pc \in Moving => Cardinality(Ob) = Extent
         /\ pc \notin Moving => (Cardinality(Ob) = Extent <=> Full)
         /\ G!Full <=> Cardinality(Ob) = Extent
<1>0. G!Full <=> Cardinality(Ob) = Extent
  BY GraphCardinality, ObIs DEF G!Full
<1>1. /\ to_space \in {0, Extent} /\ free_ptr \in to_space .. TOP_PTR
  BY KnownSpaces
<1>2. CASE pc \in Moving
  BY <1>0, <1>1, <1>2, Semispaces, ExtentAssumption DEF Ob
<1>3. CASE pc \notin Moving
  <2>1. to_space \in Int /\ free_ptr - 1 \in Int /\ free_ptr \in Int
    BY <1>1, ExtentAssumption DEF TOP_PTR
  <2>2. \A i, j \in Int : IsFiniteSet(i .. j) /\ Cardinality(i .. j) = IF i > j THEN 0 ELSE j - i + 1
    BY FS_Interval, Zenon
  <2>3. Ob = to_space .. (free_ptr - 1)
    BY <1>3 DEF Ob, Allocated
  <2>4. IsFiniteSet(Ob) /\ Cardinality(Ob) = free_ptr - to_space
    <3>1. IsFiniteSet(Ob) /\ Cardinality(Ob) = IF to_space > free_ptr - 1 THEN 0 ELSE (free_ptr - 1) - to_space + 1
      BY <2>1, <2>2, <2>3, Zenon
    <3>2. to_space <= free_ptr
      BY <1>1, <2>1, ExtentAssumption DEF TOP_PTR
    <3> QED BY <2>1, <3>1, <3>2
  <2> QED BY <1>0, <1>1, <1>3, <2>1, <2>4, ExtentAssumption DEF Full, TOP_PTR
<1> QED BY <1>0, <1>2, <1>3

-----------------------------------------------------------------------------
(* The client reaches afterwards only what it reached before, and the      *)
(* nodes it has made.                                                      *)
Reached == nodes' \ nodes
ReachesNoMore ==
  /\ Reached \subseteq Env \cup Code
  /\ \A s \in Slot : (cell'[s] = cell[s] /\ s \notin Reached) \/ cell'[s] \in Held \cup {NIL, NULL}
  /\ \A e \in Env : (enext'[e] = enext[e] /\ e \notin Reached) \/ enext'[e] \in Live \cup {NULL}
  /\ \A n \in Vec, i \in 1 .. VecLen : elem'[n][i] = elem[n][i] \/ elem'[n][i] \in Held
  /\ vmNodes' \subseteq Live \cup Reached
  /\ \A c \in Code \cap Reached : SubCode[c] \subseteq Reached

Rearranges ==
  /\ ReachesNoMore /\ UNCHANGED gcIdle
  /\ pc = "mutator" /\ pc' = "mutator"
  /\ nodes \subseteq nodes' /\ req' = req

LEMMA HeldLive ==
  ASSUME GInv
  PROVE  \A w \in Held : (w \notin Node) /\ \A y : Leads(mem, w, y) => y \in Live
<1>1. /\ IInv /\ cell \in [Slot -> Value] /\ Value \cap Node = {}
  BY NamesAssumption DEF GInv, IInv, TypeOK, Value, Static, Node
<1> QED BY <1>1, RefersLive DEF Held, Slot

LEMMA LiveGrows ==
  ASSUME GInv, UNCHANGED <<to_space, mem>>, ReachesNoMore
  PROVE  Live' \subseteq Live \cup Reached
<1> DEFINE D == Live \cup Reached
<1>1. /\ IInv /\ TypeOK /\ Live \subseteq Item /\ NIL \notin Addr /\ NULL \notin Addr
      /\ NULL \notin Node
  BY ClosedLive, NamesAssumption DEF GInv, IInv, LiveClosed, Static
<1>2. /\ \A x \in Live : \A y : Refers(mem, cell, elem, enext, x, y) => y \in Live
      /\ \A s \in Global \cup PSlot : \A y : Leads(mem, cell[s], y) => y \in Live
  BY <1>1, RefersLive
<1>3. \A w \in Held \cup {NIL, NULL} : \A y : Leads(mem, w, y) => y \in Live
  BY <1>1, HeldLive DEF Leads
<1>4. Reached \subseteq Env \cup Code
  BY DEF ReachesNoMore
<1>5. D \in SUBSET Item
  BY <1>1, <1>4 DEF Item, Node
<1>6. Start' \subseteq D
  <2>1. \A s \in Global \cup PSlot : \A y : Leads(mem, cell'[s], y) => y \in Live
    BY <1>2, <1>3 DEF ReachesNoMore, Slot
  <2> QED BY <2>1, NextRefers DEF ReachesNoMore
<1>7. ASSUME NEW x \in D, NEW y \in SuccOf'[x] PROVE y \in D
  <2>1. Refers(mem, cell', elem', enext', x, y)
    BY <1>5, <1>7, NextRefers
  <2>2. CASE x \in Env
    <3>1. x \notin Code /\ x \notin Vec /\ x \notin Addr /\ x \in Slot
      BY <2>2, NamesAssumption DEF Node, Slot
    <3>2. CASE Leads(mem, cell'[x], y)
      <4>1. CASE cell'[x] = cell[x] /\ x \notin Reached
        <5>1. Refers(mem, cell, elem, enext, x, y)
          BY <2>2, <3>2, <4>1 DEF Refers
        <5> QED BY <1>2, <1>7, <4>1, <5>1
      <4> QED BY <1>3, <3>1, <3>2, <4>1 DEF ReachesNoMore
    <3>3. CASE y = enext'[x] /\ y # NULL
      <4>1. CASE enext'[x] = enext[x] /\ x \notin Reached
        <5>1. Refers(mem, cell, elem, enext, x, y)
          BY <2>2, <3>3, <4>1 DEF Refers
        <5> QED BY <1>2, <1>7, <4>1, <5>1
      <4> QED BY <2>2, <3>3, <4>1 DEF ReachesNoMore
    <3> QED BY <2>1, <2>2, <3>1, <3>2, <3>3 DEF Refers
  <2>3. CASE x \in Code
    <3>1. x \notin Env /\ x \notin Vec /\ x \notin Addr /\ x \in Slot
      BY <2>3, NamesAssumption DEF Node, Slot
    <3>2. CASE Leads(mem, cell'[x], y)
      <4>1. CASE cell'[x] = cell[x] /\ x \notin Reached
        <5>1. Refers(mem, cell, elem, enext, x, y)
          BY <2>3, <3>2, <4>1 DEF Refers
        <5> QED BY <1>2, <1>7, <4>1, <5>1
      <4> QED BY <1>3, <3>1, <3>2, <4>1 DEF ReachesNoMore
    <3>3. CASE y \in SubCode[x]
      <4>1. CASE x \notin Reached
        <5>1. Refers(mem, cell, elem, enext, x, y)
          BY <2>3, <3>3 DEF Refers
        <5> QED BY <1>2, <1>7, <4>1, <5>1
      <4> QED BY <2>3, <3>3, <4>1 DEF ReachesNoMore
    <3> QED BY <2>1, <2>3, <3>1, <3>2, <3>3 DEF Refers
  <2>4. CASE x \in Vec
    <3>1. x \notin Env /\ x \notin Code /\ x \notin Addr /\ x \in Live
      BY <1>4, <1>7, <2>4, NamesAssumption DEF Node
    <3>2. PICK i \in 1 .. VecLen : Leads(mem, elem'[x][i], y)
      BY <2>1, <2>4, <3>1 DEF Refers
    <3>3. CASE elem'[x][i] = elem[x][i]
      <4>1. Refers(mem, cell, elem, enext, x, y)
        BY <2>4, <3>2, <3>3 DEF Refers
      <4> QED BY <1>2, <3>1, <4>1
    <3> QED BY <1>3, <2>4, <3>2, <3>3 DEF ReachesNoMore
  <2>5. CASE x \in Addr
    <3>1. x \notin Node
      BY <2>5, NamesAssumption DEF Node
    <3>2. Refers(mem, cell, elem, enext, x, y)
      BY <2>1, <2>5, <3>1 DEF Refers, Node
    <3>3. x \in Live
      BY <1>4, <1>7, <3>1 DEF Node
    <3> QED BY <1>2, <3>2, <3>3
  <2>6. CASE x \in Str
    BY <2>1, <2>6, NamesAssumption DEF Refers, Node
  <2> QED BY <1>5, <1>7, <2>2, <2>3, <2>4, <2>5, <2>6 DEF Item, Node
<1> HIDE DEF D
<1>8. ClosedUnder(D, Start', SuccOf')
  BY <1>6, <1>7 DEF ClosedUnder
<1>9. Live' \subseteq D
  BY <1>5, <1>8, LeastIsLeast, LiveIsLeast
<1> QED BY <1>9 DEF D

LEMMA ClientReaches ==
  ASSUME GInv, Client
  PROVE  /\ ReachesNoMore
         /\ UNCHANGED gcIdle /\ pc = "mutator" /\ nodes \subseteq nodes'
         /\ \/ pc' = "mutator" /\ req' = req
            \/ pc' = "alloc" /\ {req'.a, req'.b} \cap Item \subseteq Live
<1> USE DEF gcIdle, nodeVars, Rearranges
<1>1. /\ IInv /\ Shaped(mem) /\ NIL \notin Item /\ NULL \notin Item
      /\ \A w \in Held \cap Item : w \in Live
  <2>1. IInv /\ Tight /\ Shaped(mem) /\ NIL \notin Item /\ NULL \notin Item
    BY NamesAssumption DEF GInv, IInv, Item, Static, Node
  <2>2. ASSUME NEW w \in Held \cap Item, pc = "mutator" PROVE w \in Live
    <3>1. w \in Addr
      BY HeldLive DEF Item
    <3>2. w \in Allocated
      BY <2>1, <2>2, <3>1, KnownSpaces DEF Held, Slot, Tight, Points, Moving, Collecting
    <3>3. Leads(mem, w, w)
      BY <2>1, <3>1, <3>2, KnownSpaces DEF Leads, NowIn
    <3> QED BY <3>3, HeldLive
  <2>3. pc = "mutator"
    BY DEF Client, RequestCell, RequestLeaf, RequestClosure, Drop, VectorSet, LoadCode, Enter, Leave
  <2> QED BY <2>1, <2>2, <2>3
<1>2. /\ vmNodes \subseteq Live
      /\ \A c \in Code \cap vmNodes : SubCode[c] \subseteq Live
  <2>1. vmNodes \subseteq Live /\ vmNodes \subseteq Env \cup Code
    BY <1>1, ClosedLive DEF LiveClosed, ClosedUnder, Start, IInv, TypeOK
  <2> QED BY <1>1, <2>1, RefersLive, NamesAssumption DEF NodeSucc
<1>3. CASE \E d \in Global \cup PSlot :
            \/ \E x, y \in Held \cup {NIL} : RequestCell(x, y, d)
            \/ \E tag \in LeafTag : RequestLeaf(tag, d)
            \/ \E c \in Code, e \in Env : RequestClosure(c, e, d)
  <2>1. /\ UNCHANGED <<gcIdle, cell, nodeVars>> /\ pc = "mutator" /\ pc' = "alloc"
    BY <1>3 DEF RequestCell, RequestLeaf, RequestClosure
  <2>2. {req'.a, req'.b} \cap Item \subseteq Live
    <3>1. ASSUME NEW d, NEW x \in Held \cup {NIL}, NEW y \in Held \cup {NIL}, RequestCell(x, y, d)
          PROVE  {req'.a, req'.b} \cap Item \subseteq Live
      BY <1>1, <3>1 DEF RequestCell
    <3>2. ASSUME NEW d, NEW tag, RequestLeaf(tag, d)
          PROVE  {req'.a, req'.b} \cap Item \subseteq Live
      BY <1>1, <3>2 DEF RequestLeaf
    <3>3. ASSUME NEW d, NEW c \in Code, NEW e \in Env, RequestClosure(c, e, d)
          PROVE  {req'.a, req'.b} \cap Item \subseteq Live
      BY <1>2, <3>3 DEF RequestClosure
    <3> QED BY <1>3, <3>1, <3>2, <3>3
  <2>3. ReachesNoMore
    BY <1>2, <2>1 DEF ReachesNoMore, Reached, IInv, TypeOK
  <2> QED BY <2>1, <2>2, <2>3
<1>4. ASSUME NEW d \in Global \cup PSlot, Drop(d)
      PROVE  Rearranges
  BY <1>1, <1>2, <1>4 DEF Drop, ReachesNoMore, Reached, IInv, TypeOK
<1>5. ASSUME NEW v \in HeldOf("VECTOR"), NEW i \in 1 .. VecLen, NEW x \in Held, VectorSet(v, i, x)
      PROVE  Rearranges
  <2>1. elem' = [elem EXCEPT ![mem[v].a][i] = x] /\ elem \in [Vec -> [1 .. VecLen -> Value]]
    BY <1>1, <1>5 DEF VectorSet, IInv, TypeOK
  <2>2. \A n \in Vec, j \in 1 .. VecLen : elem'[n][j] = elem[n][j] \/ elem'[n][j] \in Held
    BY <2>1
  <2> QED BY <1>2, <1>5, <2>2 DEF VectorSet, ReachesNoMore, Reached
<1>6. ASSUME NEW c \in Code, NEW T \in SUBSET Code, NEW e \in Env, NEW x \in Held \cup {NIL},
             LoadCode(c, T, e, x)
      PROVE  Rearranges
  <2>1. /\ c \in T /\ T \cap nodes = {} /\ e \notin nodes /\ \A y \in T : SubCode[y] \subseteq T
        /\ cell' = [s \in Slot |-> IF s \in T THEN x ELSE IF s = e THEN NIL ELSE cell[s]]
        /\ enext' = [enext EXCEPT ![e] = NULL] /\ enext \in [Env -> Env \cup {NULL}]
        /\ nodes' = nodes \cup T \cup {e} /\ vmNodes' = vmNodes \cup {c, e}
        /\ UNCHANGED <<gcIdle, elem, req, pc>> /\ pc = "mutator"
    BY <1>1, <1>6 DEF LoadCode, IInv, TypeOK
  <2>2. Reached = T \cup {e}
    BY <2>1 DEF Reached
  <2> QED BY <1>2, <2>1, <2>2, NamesAssumption DEF ReachesNoMore
<1>7. ASSUME NEW v \in HeldOf("CLOSURE"), NEW e \in Env, NEW x \in Held \cup {NIL}, Enter(v, e, x)
      PROVE  Rearranges
  <2>1. /\ e \notin nodes /\ cell' = [cell EXCEPT ![e] = x] /\ cell \in [Slot -> Value]
        /\ enext' = [enext EXCEPT ![e] = mem[v].b] /\ enext \in [Env -> Env \cup {NULL}]
        /\ nodes' = nodes \cup {e} /\ vmNodes' = vmNodes \cup {e, mem[v].a}
        /\ UNCHANGED <<gcIdle, elem, req, pc>> /\ pc = "mutator"
    BY <1>1, <1>7 DEF Enter, IInv, TypeOK
  <2>2. Reached = {e}
    BY <2>1 DEF Reached
  <2>3. v \in Held /\ v \in Addr /\ mem[v].tag = "CLOSURE"
    BY DEF HeldOf
  <2>4. v \in Live
    BY <1>1, <2>3 DEF Item
  <2>5. mem[v].a \in Live /\ mem[v].b \in Live
    <3>1. Refers(mem, cell, elem, enext, v, mem[v].a) /\ Refers(mem, cell, elem, enext, v, mem[v].b)
      BY <2>3 DEF Refers
    <3> QED BY <1>1, <2>4, <3>1, RefersLive
  <2> QED BY <1>2, <2>1, <2>2, <2>5, NamesAssumption DEF ReachesNoMore
<1>8. ASSUME NEW n, Leave(n)
      PROVE  Rearranges
  BY <1>2, <1>8 DEF Leave, ReachesNoMore, Reached
<1> QED BY <1>3, <1>4, <1>5, <1>6, <1>7, <1>8 DEF Client

LEMMA ClientGraph ==
  ASSUME GInv, Client, GInv'
  PROVE  G!Client
<1>1. /\ ReachesNoMore
      /\ UNCHANGED gcIdle /\ pc = "mutator" /\ nodes \subseteq nodes'
      /\ \/ pc' = "mutator" /\ req' = req
         \/ pc' = "alloc" /\ {req'.a, req'.b} \cap Item \subseteq Live
  BY ClientReaches
<1>2. UNCHANGED <<to_space, free_ptr, mem>> /\ pc \notin Moving /\ pc' \notin Moving /\ IInv /\ IInv'
      /\ pc' # "retry"
  BY <1>1 DEF gcIdle, Moving, Collecting, GInv
<1>3. Allocated' = Allocated
  BY <1>2 DEF Allocated
<1>4. GraphObjects' = GraphObjects
  BY <1>2, <1>3, PlainGraph, PlainGraphNext
<1>5. G!Live = Live /\ (G!Live)' = Live' /\ Ob = Allocated
  BY <1>2, PlainLive, PlainLiveNext
<1>6. Live' \subseteq Live \cup (nodes' \ nodes)
  BY <1>1, <1>2, LiveGrows DEF Reached
<1>7. GraphReq = req /\ GraphReq' = req'
  BY <1>1, <1>2, PlainGraph, PlainGraphNext
<1>8. G!Item \subseteq Item
  BY <1>2, <1>5, ObIs, KnownSpaces DEF G!Item, G!Node, Item, Node
<1>9. GraphAt = "mutator" /\ GraphAt' = pc'
  BY <1>1 DEF GraphAt
<1> QED BY <1>1, <1>4, <1>5, <1>6, <1>7, <1>8, <1>9 DEF G!Client

-----------------------------------------------------------------------------
(* A constructor adds one object, made of the arguments it was given, which *)
(* CHECK_OBJ_MOVING finds again after a collection.                        *)
LEMMA RequestShown ==
  ASSUME GInv, pc \in {"alloc", "retry"}
  PROVE  /\ GraphReq.tag = req.tag /\ GraphReq.dst = req.dst
         /\ req.tag = "CELL" => GraphReq.a = CheckMoving(req.a) /\ GraphReq.b = CheckMoving(req.b)
         /\ req.tag # "CELL" => GraphReq = req
<1>1. IInv /\ req \in Request /\ RequestHeld /\ Tight /\ pc \notin Moving
  BY DEF GInv, IInv, TypeOK, Moving, Collecting
<1>2. CASE pc = "retry"
  BY <1>1, <1>2 DEF GraphReq, Request
<1>3. CASE pc = "alloc" /\ req.tag = "CELL"
  <2>1. \A w \in {req.a, req.b} : w \in Addr => \E s \in Slot : w = cell[s]
    BY <1>1, <1>3 DEF RequestHeld, Slot
  <2>2. \A w \in {req.a, req.b} : w \in Addr => w \in Allocated
    BY <1>1, <2>1, KnownSpaces DEF Tight, Points
  <2>3. \A w \in {req.a, req.b} : ~Moved(w)
    BY <1>1, <2>2, KnownSpaces DEF Moved
  <2> QED BY <1>3, <2>3 DEF GraphReq, CheckMoving
<1>4. CASE pc = "alloc" /\ req.tag # "CELL"
  BY <1>4 DEF GraphReq
<1> QED BY <1>2, <1>3, <1>4

LEMMA MakeGraph ==
  ASSUME GInv, Alloc, GInv'
  PROVE  G!Make
<1>1. /\ IInv /\ TypeOK /\ pc \in {"alloc", "retry"} /\ pc \notin Moving /\ ~(pc = "retry" /\ Full)
      /\ to_space \in {0, Extent} /\ free_ptr \in to_space .. TOP_PTR
  BY DEF GInv, IInv, TypeOK, Alloc, Moving, Collecting
<1>2. ~Full
  BY <1>1 DEF Alloc
<1>3. /\ GraphObjects = [x \in Allocated |-> mem[x]] /\ GraphSlots = cell /\ GraphElems = elem
      /\ Ob = Allocated /\ DOMAIN GraphObjects = Allocated
  BY <1>1, PlainGraph DEF Ob
<1>4. ~G!Full
  BY <1>1, <1>2, ObCount
<1>5. GraphAt = "alloc"
  BY <1>1 DEF GraphAt
<1>6. ASSUME NEW a, NEW b, Place(a, b), UNCHANGED <<to_space, enext, vmNodes>>
      PROVE  LET r == [tag |-> req.tag, a |-> a, b |-> b] IN
             /\ free_ptr \in Addr \ Allocated
             /\ GraphObjects' = [y \in Allocated \cup {free_ptr} |-> IF y = free_ptr THEN r ELSE GraphObjects[y]]
             /\ GraphSlots' = [GraphSlots EXCEPT ![req.dst] = free_ptr]
             /\ GraphElems' = elem'
             /\ GraphReq' = G!NoRequest /\ GraphAt' = "mutator"
  <2>1. /\ mem' = [mem EXCEPT ![free_ptr] = [tag |-> req.tag, a |-> a, b |-> b]]
        /\ free_ptr' = free_ptr + 1 /\ cell' = [cell EXCEPT ![req.dst] = free_ptr]
        /\ pc' = "mutator" /\ req' = NoRequest /\ to_space' = to_space
    BY <1>6 DEF Place
  <2>2. free_ptr \in ToSpace /\ ToSpace \subseteq Addr /\ free_ptr \notin Allocated
        /\ Allocated \subseteq Addr /\ mem \in [Addr -> Object]
    BY <1>1, <1>2, KnownSpaces, ExtentAssumption DEF Full, TOP_PTR, ToSpace, Allocated
  <2>3. Allocated' = Allocated \cup {free_ptr}
    BY <1>1, <2>1, ExtentAssumption DEF Allocated, TOP_PTR
  <2>4. /\ GraphObjects' = [x \in Allocated' |-> mem'[x]] /\ GraphSlots' = cell' /\ GraphElems' = elem'
        /\ GraphReq' = req'
    BY <2>1, PlainGraphNext DEF GInv, Moving, Collecting
  <2>5. \A y \in Allocated \cup {free_ptr} :
          mem'[y] = IF y = free_ptr THEN [tag |-> req.tag, a |-> a, b |-> b] ELSE GraphObjects[y]
    BY <1>3, <2>1, <2>2
  <2>6. GraphObjects' = [y \in Allocated \cup {free_ptr} |->
            IF y = free_ptr THEN [tag |-> req.tag, a |-> a, b |-> b] ELSE GraphObjects[y]]
    BY <2>3, <2>4, <2>5
  <2>7. NoRequest = G!NoRequest
    BY DEF NoRequest, G!NoRequest, Idle
  <2> QED BY <1>3, <2>1, <2>2, <2>4, <2>6, <2>7 DEF GraphAt
<1>7. ASSUME NEW a, NEW b, Place(a, b), to_space' = to_space,
             GraphReq.tag = req.tag, GraphReq.dst = req.dst
      PROVE  G!New(a, b) /\ GraphElems' = elem'
  <2>1. UNCHANGED <<to_space, enext, vmNodes>>
    BY <1>7 DEF Place
  <2>2. LET r == [tag |-> req.tag, a |-> a, b |-> b] IN
             /\ free_ptr \in Addr \ Allocated
             /\ GraphObjects' = [y \in Allocated \cup {free_ptr} |-> IF y = free_ptr THEN r ELSE GraphObjects[y]]
             /\ GraphSlots' = [GraphSlots EXCEPT ![req.dst] = free_ptr]
             /\ GraphElems' = elem'
             /\ GraphReq' = G!NoRequest /\ GraphAt' = "mutator"
    BY <1>6, <1>7, <2>1
  <2> QED BY <1>3, <1>7, <2>1, <2>2 DEF G!New
<1>8. /\ GraphReq.tag = req.tag /\ GraphReq.dst = req.dst
      /\ req.tag = "CELL" => GraphReq.a = CheckMoving(req.a) /\ GraphReq.b = CheckMoving(req.b)
      /\ req.tag # "CELL" => GraphReq = req
  BY <1>1, RequestShown
<1>9. \A a, b : Place(a, b) => to_space' = to_space
  BY DEF Place
<1>10. CASE req.tag = "CELL" /\ Place(CheckMoving(req.a), CheckMoving(req.b)) /\ UNCHANGED <<elem, nodes>>
  BY <1>3, <1>4, <1>5, <1>7, <1>8, <1>9, <1>10 DEF G!Make
<1>11. CASE req.tag \in {"CLOSURE", "INTEGER"} /\ Place(req.a, req.b) /\ UNCHANGED <<elem, nodes>>
  BY <1>3, <1>4, <1>5, <1>7, <1>8, <1>9, <1>11 DEF G!Make
<1>12. ASSUME NEW n \in Str \ nodes, req.tag = "STRING", Place(n, NULL), nodes' = nodes \cup {n}, elem' = elem
       PROVE  G!Make
  BY <1>3, <1>4, <1>5, <1>7, <1>8, <1>9, <1>12 DEF G!Make
<1>13. ASSUME NEW n \in Vec \ nodes, req.tag = "VECTOR", Place(n, NULL), nodes' = nodes \cup {n},
              elem' = [elem EXCEPT ![n] = NoElems]
       PROVE  G!Make
  <2>1. NoElems = G!NoElems
    BY DEF NoElems, G!NoElems
  <2> QED BY <1>3, <1>4, <1>5, <1>7, <1>8, <1>9, <1>13, <2>1 DEF G!Make
<1> QED BY <1>2, <1>10, <1>11, <1>12, <1>13 DEF Alloc

-----------------------------------------------------------------------------
(* A collection that starts, or goes on, leaves the graph as it was.       *)
Same == /\ GraphObjects' = GraphObjects /\ GraphSlots' = GraphSlots /\ GraphElems' = GraphElems
        /\ GraphReq' = GraphReq /\ UNCHANGED <<enext, nodes, vmNodes>>

LEMMA StartGraph ==
  ASSUME GInv, StartGC, GInv'
  PROVE  Same /\ GraphAt' = GraphAt
<1>1. /\ IInv /\ Tight /\ TypeOK /\ pc = "alloc" /\ pc' = "vm_collect" /\ Full
      /\ mem' = [x \in Addr |-> IF x \in FromSpace THEN Zeroed ELSE mem[x]]
      /\ to_space' = from_space /\ free_ptr' = from_space
      /\ UNCHANGED <<cell, elem, enext, nodes, vmNodes, req>>
  BY DEF GInv, IInv, StartGC, nodeVars
<1>2. /\ pc \notin Moving /\ pc' \in Moving /\ Known = Allocated
      /\ Allocated \subseteq Addr /\ ToSpace \cap FromSpace = {} /\ ToSpace \cup FromSpace = Addr
      /\ to_space \in {0, Extent} /\ free_ptr \in to_space .. TOP_PTR
      /\ from_space \in {0, Extent} /\ from_space # to_space
      /\ \A x \in Addr : mem[x].tag = "MOVED" => x \in FromSpace
      /\ mem \in [Addr -> Object]
  BY <1>1, KnownSpaces, Semispaces DEF Moving, Collecting
<1>3. Allocated = ToSpace
  BY <1>1, <1>2, ExtentAssumption DEF Full, Allocated, ToSpace, TOP_PTR
<1>4. FromSpace' = ToSpace /\ ToSpace' = FromSpace
  <2>1. from_space' = to_space
    BY <1>1, <1>2, ExtentAssumption DEF from_space
  <2>2. FromSpace' = ToSpace
    BY <2>1, <1>1, <1>2, ExtentAssumption DEF FromSpace, ToSpace, TOP_PTR
  <2>3. ToSpace' = FromSpace
    BY <1>1, <1>2, ExtentAssumption DEF FromSpace, ToSpace, TOP_PTR
  <2> QED BY <2>2, <2>3
<1>5. /\ \A x \in ToSpace : mem'[x] = mem[x]
      /\ \A x \in Addr : mem'[x].tag # "MOVED"
  BY <1>1, <1>2 DEF Zeroed
<1>6. ASSUME NEW w, Points(w) PROVE Origin(w)' = w
  BY <1>2, <1>3, <1>4, <1>6 DEF Points, Origin, Moved, TOSPACE_CONTAINS
<1>7. ASSUME NEW x PROVE Now(x)' = x
  BY <1>5 DEF Now, Moved
<1>8. ASSUME NEW x \in ToSpace PROVE View(x)' = mem[x]
  <2> DEFINE o == mem[x]
  <2>1. mem'[x] = o /\ o \in Object /\ (o.tag = "CELL" => Points(o.a) /\ Points(o.b))
    BY <1>1, <1>2, <1>3, <1>5 DEF Tight
  <2>2. o = [tag |-> o.tag, a |-> o.a, b |-> o.b]
    BY <2>1 DEF Object
  <2>3. \A z \in {o.a, o.b} : z \notin ToSpace' \/ o.tag # "CELL"
    BY <1>2, <1>3, <1>4, <2>1 DEF Points
  <2>4. View(x)' = [tag |-> o.tag, a |-> o.a, b |-> o.b]
    BY <2>1, <2>3, <1>5 DEF View, Now, Origin, Moved, TOSPACE_CONTAINS
  <2> QED BY <2>2, <2>4 DEF o
<1>9. /\ GraphObjects = [x \in Allocated |-> mem[x]] /\ GraphSlots = cell /\ GraphElems = elem
      /\ GraphReq = req
  BY <1>1, <1>2, PlainGraph
<1>10. Viewing' /\ GraphAt' = "alloc" /\ GraphAt = "alloc" /\ GraphReq' = req'
  BY <1>1 DEF Viewing, Collecting, GraphAt, GraphReq
<1>11. ASSUME NEW w, Points(w) PROVE Named(w)' = w
  BY <1>6, <1>10, <1>11 DEF Named
<1>12. GraphObjects' = GraphObjects
  <2>1. GraphObjects' = [x \in FromSpace' |-> View(x)']
    BY <1>10 DEF GraphObjects
  <2> QED BY <1>3, <1>4, <1>8, <1>9, <2>1
<1>13. GraphSlots' = GraphSlots
  <2>1. GraphSlots' = [s \in Slot |-> Named(cell[s])']
    BY <1>1 DEF GraphSlots
  <2>2. \A s \in Slot : Named(cell[s])' = cell[s]
    BY <1>1, <1>11 DEF Tight
  <2>3. cell \in [Slot -> Value]
    BY <1>1 DEF TypeOK
  <2> QED BY <1>9, <2>1, <2>2, <2>3
<1>14. GraphElems' = GraphElems
  <2>1. GraphElems' = [n \in Vec |-> [i \in 1 .. VecLen |-> Named(elem[n][i])']]
    BY <1>1 DEF GraphElems
  <2>2. \A n \in Vec : [i \in 1 .. VecLen |-> Named(elem[n][i])'] = elem[n]
    <3> TAKE n \in Vec
    <3>1. elem[n] \in [1 .. VecLen -> Value] /\ \A i \in 1 .. VecLen : Points(elem[n][i])
      BY <1>1 DEF TypeOK, Tight
    <3>2. \A i \in 1 .. VecLen : Named(elem[n][i])' = elem[n][i]
      BY <1>1, <1>11, <3>1
    <3> QED BY <3>1, <3>2
  <2>3. elem \in [Vec -> [1 .. VecLen -> Value]]
    BY <1>1 DEF TypeOK
  <2> QED BY <1>9, <2>1, <2>2, <2>3
<1> QED BY <1>1, <1>9, <1>10, <1>12, <1>13, <1>14 DEF Same

LEMMA RunGraph ==
  ASSUME GInv, Collector, pc \in Collecting, pc' # "retry", IInv'
  PROVE  /\ Same /\ GraphAt = "alloc"
         /\ pc' = "exit" \/ GraphAt' = "alloc"
<1>1. Graph' = Graph
  BY CollectingKeeps
<1>2. pc' \in Collecting \cup {"exit"} /\ UNCHANGED <<enext, nodes, vmNodes, req>>
  <2> USE DEF Collecting, nodeVars
  <2>1. pc' # "abort"
    BY DEF IInv
  <2>2. ~StartGC /\ ~FinishGC
    BY DEF StartGC, FinishGC
  <2>3. CASE (\E n \in Env \cup Code : CollectNode(n)) \/ CollectDone \/ RootsDone
    BY <2>3 DEF CollectNode, CollectDone, RootsDone
  <2>4. CASE \E s \in Slot : ForwardRoot(s)
    BY <2>1, <2>4 DEF ForwardRoot
  <2>5. CASE ScanFull \/ ScanVector \/ ScanString \/ ScanLeaf
    BY <2>1, <2>5 DEF ScanFull, ScanVector, ScanString, ScanLeaf
  <2>6. CASE ScanCar \/ ScanCdr \/ ScanClosure \/ ScanElem
    BY <2>1, <2>6 DEF ScanCar, ScanCdr, ScanClosure, ScanElem
  <2> QED BY <2>2, <2>3, <2>4, <2>5, <2>6 DEF Collector
<1>3. Viewing /\ Viewing'
  BY <1>2 DEF Viewing
<1>4. /\ GraphObjects = Graph.objects /\ GraphObjects' = Graph'.objects
      /\ GraphSlots = Graph.slots /\ GraphSlots' = Graph'.slots
      /\ GraphElems = Graph.elements /\ GraphElems' = Graph'.elements
  BY <1>3 DEF GraphObjects, GraphSlots, GraphElems, Graph, Named
<1>5. GraphReq = req /\ GraphReq' = req'
  BY <1>2 DEF GraphReq, Collecting
<1>6. GraphAt = "alloc" /\ (pc' = "exit" \/ GraphAt' = "alloc")
  BY <1>2 DEF GraphAt, Collecting
<1> QED BY <1>1, <1>2, <1>4, <1>5, <1>6 DEF Same

(* A collection that runs out of memory does so when all objects are       *)
(* reached.                                                                *)
LEMMA EndedLive == LInv /\ pc = "exit" => G!Full /\ Ob \subseteq G!Live
<1> SUFFICES ASSUME LInv, pc = "exit" PROVE G!Full /\ Ob \subseteq G!Live
  OBVIOUS
<1>1. GInv /\ IInv /\ pc \in Moving /\ Ob = FromSpace
  BY DEF LInv, GInv, Moving, Ob
<1>2. G!Full
  BY <1>1, ObCount
<1>3. /\ Live \cap Addr = Allocated
      /\ \A x \in Ob : x \in Addr
  BY <1>1, EndedFull, Shown
<1>4. MovedOf(mem) = FromSpace
  <2>1. IsFiniteSet(FromSpace) /\ Cardinality(FromSpace) = Extent /\ to_space \in {0, Extent}
    BY <1>1, Semispaces, KnownSpaces
  <2>2. MovedOf(mem) \in SUBSET FromSpace
    BY DEF MovedOf
  <2>3. Cardinality(MovedOf(mem)) = Extent
    <3>1. Counts(mem, free_ptr) /\ Full /\ free_ptr \in to_space .. TOP_PTR
      BY <1>1, KnownSpaces DEF GInv, Ended
    <3> QED BY <2>1, <3>1, ExtentAssumption DEF Counts, Full, TOP_PTR
  <2> QED BY <2>1, <2>2, <2>3, FS_Subset
<1>5. \A x \in Ob : Where(x) \in Allocated
  BY <1>1, <1>3, <1>4, KnownSpaces DEF Where, NowIn, MovedOf
<1>6. Ob \subseteq G!Live
  BY <1>1, <1>3, <1>5, LiveShown
<1> QED BY <1>2, <1>6

LEMMA EndedLiveNext == (LInv /\ pc = "exit")' => (G!Full /\ Ob \subseteq G!Live)'
BY EndedLive, PTL

LEMMA ExitGraph ==
  ASSUME GInv, Collector, pc \in Collecting, pc' = "exit", LInv'
  PROVE  G!Shortage
<1>1. Same /\ GraphAt = "alloc"
  BY RunGraph DEF LInv, GInv
<1>2. (G!Full /\ Ob \subseteq G!Live)'
  BY EndedLiveNext
<1>3. G!Live' = G!Live
  BY <1>1 DEF Same, G!Live, G!Closed, G!Start, G!Refers, G!Item
<1>4. G!Full
  BY <1>1, <1>2 DEF Same, G!Full
<1>5. DOMAIN GraphObjects = Ob'
  <2>1. (DOMAIN GraphObjects = Ob)'
    BY ObIs, PTL
  <2> QED BY <1>1, <2>1 DEF Same
<1>6. GraphAt' = "exit"
  BY DEF GraphAt
<1> QED BY <1>1, <1>2, <1>3, <1>4, <1>5, <1>6 DEF Same, G!Shortage

-----------------------------------------------------------------------------
(* When a collection ends the live objects have their new addresses: the   *)
(* forwarding pointers are the renaming.                                   *)
Renaming == [x \in MovedOf(mem) |-> mem[x].a]
Renamed(w) == IF w \in DOMAIN Renaming THEN Renaming[w] ELSE w

(* It undoes what the graph showed for a reference into to_space, and it   *)
(* is what CHECK_OBJ_MOVING does.                                          *)
LEMMA RenamedShown ==
  ASSUME GInv, pc \in Collecting
  PROVE  /\ DOMAIN Renaming = MovedOf(mem) /\ Renaming \in [MovedOf(mem) -> Addr]
         /\ {Renaming[x] : x \in MovedOf(mem)} = Allocated
         /\ \A x, y \in MovedOf(mem) : Renaming[x] = Renaming[y] => x = y
         /\ \A w : Settled(w) => Renamed(Named(w)) = w
         /\ \A w : Renamed(w) = CheckMoving(w)
<1>1. /\ IInv /\ Paired /\ pc \in Moving /\ ToSpace \cap FromSpace = {} /\ ToSpace \cup FromSpace = Addr
      /\ Known = Allocated \cup FromSpace /\ Allocated \subseteq Addr /\ Allocated \subseteq ToSpace
      /\ \A x \in Addr : mem[x].tag = "MOVED" => x \in FromSpace /\ mem[x].a \in Allocated
  BY KnownSpaces DEF GInv, Moving
<1>2. /\ \A x : x \in MovedOf(mem) <=> x \in Addr /\ mem[x].tag = "MOVED"
      /\ \A x \in MovedOf(mem) : Renaming[x] = mem[x].a /\ mem[x].a \in Allocated
      /\ DOMAIN Renaming = MovedOf(mem) /\ Renaming \in [MovedOf(mem) -> Addr]
  BY <1>1 DEF MovedOf, Renaming
<1>3. \A y \in Allocated : \E x \in MovedOf(mem) : Renaming[x] = y
  BY <1>1, <1>2 DEF Paired
<1>4. \A x, y \in MovedOf(mem) : Renaming[x] = Renaming[y] => x = y
  BY <1>1, <1>2 DEF Paired, MovedOf
<1>5. \A w : Renamed(w) = CheckMoving(w)
  BY <1>2 DEF Renamed, CheckMoving, Moved
<1>6. ASSUME NEW w, Settled(w) PROVE Renamed(Named(w)) = w
  <2>1. CASE w \notin Addr
    <3>1. Named(w) = w
      BY <2>1, Shown
    <3> QED BY <1>2, <2>1, <3>1 DEF Renamed
  <2>2. CASE w \in Addr
    <3>1. w \in Allocated
      BY <1>1, <1>6, <2>2 DEF Settled, Points, Clean
    <3>2. PICK x \in MovedOf(mem) : Renaming[x] = w
      BY <1>3, <3>1
    <3>3. Named(w) \in Ob /\ NowIn(mem, Named(w)) = NowIn(mem, w) /\ x \in Ob
      BY <1>1, <1>6, <2>2, Shown DEF Settled, Where, Ob, MovedOf
    <3>4. NowIn(mem, w) = w /\ NowIn(mem, x) = w
      BY <1>1, <1>2, <3>1, <3>2 DEF NowIn
    <3>5. Named(w) = x
      BY <3>3, <3>4, Shown
    <3> QED BY <1>2, <3>2, <3>5 DEF Renamed
  <2> QED BY <2>1, <2>2
<1> QED BY <1>2, <1>3, <1>4, <1>5, <1>6

LEMMA RetryRoom == IInv /\ pc = "retry" => ~G!Full
BY ObCount DEF IInv, Moving, Collecting

LEMMA RetryRoomNext == (IInv /\ pc = "retry")' => ~G!Full'
<1>1. (IInv /\ pc = "retry" => ~G!Full)'
  BY RetryRoom, PTL
<1> QED BY <1>1

(* The objects the program reaches are those that were moved.              *)
LEMMA FinishLive ==
  ASSUME LInv, FinishGC, GInv'
  PROVE  /\ G!Live \cap Node = marked
         /\ G!Live \cap DOMAIN GraphObjects = MovedOf(mem)
<1>1. /\ GInv /\ IInv /\ pc \in Moving /\ Ob = FromSpace /\ marked \subseteq Node
  BY DEF LInv, GInv, IInv, TypeOK, FinishGC, Moving, Collecting, Ob
<1>2. /\ ToSpace \cap FromSpace = {} /\ Allocated \subseteq Addr /\ Allocated \subseteq ToSpace
      /\ \A x \in Addr : mem[x].tag = "MOVED" => x \in FromSpace /\ mem[x].a \in Allocated
      /\ Ob \cap Node = {} /\ Ob \subseteq Addr /\ Addr \cap Node = {}
  BY <1>1, KnownSpaces, Shown
<1>3. Live = Allocated \cup marked
  BY FinishGCExact
<1>4. \A n \in Node : Where(n) = n
  BY <1>2 DEF Where
<1>5. \A x \in Ob : Where(x) \in Allocated \cup marked <=> x \in MovedOf(mem)
  BY <1>1, <1>2 DEF Where, NowIn, MovedOf
<1>6. G!Live \cap Node = marked
  BY <1>1, <1>2, <1>3, <1>4, LiveShown
<1>7. G!Live \cap Ob = MovedOf(mem)
  BY <1>1, <1>3, <1>5, LiveShown DEF MovedOf
<1> QED BY <1>6, <1>7, ObIs

Fields(o) == IF o.tag = "CELL" THEN [o EXCEPT !.a = Renamed(@), !.b = Renamed(@)] ELSE o
Back(y) == CHOOSE x \in DOMAIN Renaming : Renaming[x] = y

LEMMA FinishRenames ==
  ASSUME LInv, FinishGC, GInv'
  PROVE  /\ GraphObjects' = [y \in {Renaming[x] : x \in DOMAIN Renaming} |-> Fields(GraphObjects[Back(y)])]
         /\ GraphSlots' = [s \in Slot |-> IF s \in Node \ G!Live THEN NULL ELSE Renamed(GraphSlots[s])]
         /\ GraphElems' = [n \in Vec |-> IF n \in G!Live THEN [i \in 1 .. VecLen |-> Renamed(GraphElems[n][i])]
                                         ELSE NoElems]
         /\ GraphReq' = Fields(GraphReq)
<1>1. /\ GInv /\ IInv /\ TypeOK /\ pc = "scan" /\ pc' = "retry" /\ scan_ptr = free_ptr
      /\ pc \in Collecting /\ pc \in Moving /\ pc' \notin Moving
      /\ cell' = [s \in Slot |-> IF s \in Node \ marked THEN NULL ELSE cell[s]]
      /\ elem' = [n \in Vec |-> IF n \in marked THEN elem[n] ELSE NoElems]
      /\ UNCHANGED <<to_space, free_ptr, mem, req>>
  BY DEF LInv, GInv, IInv, FinishGC, heapVars, Moving, Collecting
<1>2. /\ GraphObjects' = [x \in Allocated |-> mem[x]] /\ GraphSlots' = cell' /\ GraphElems' = elem'
      /\ IInv'
  <2>1. IInv' /\ Allocated' = Allocated
    BY <1>1 DEF GInv, Allocated
  <2> QED BY <1>1, <2>1, PlainGraphNext
<1>3. /\ \A x \in Allocated : mem[x].tag = "CELL" => Settled(mem[x].a) /\ Settled(mem[x].b)
      /\ \A s \in Slot : s \notin Node \ marked => cell[s] = NULL \/ Settled(cell[s])
      /\ \A n \in Vec \cap marked, i \in 1 .. VecLen : Settled(elem[n][i])
  BY <1>1, FinishClean
<1>4. /\ DOMAIN Renaming = MovedOf(mem)
      /\ {Renaming[x] : x \in DOMAIN Renaming} = Allocated
      /\ \A x, y \in MovedOf(mem) : Renaming[x] = Renaming[y] => x = y
      /\ \A w : Settled(w) => Renamed(Named(w)) = w
      /\ \A w : Renamed(w) = CheckMoving(w)
  BY <1>1, RenamedShown
<1>5. G!Live \cap Node = marked
  BY FinishLive
<1>6. Settled(NULL) /\ Allocated \subseteq Addr /\ mem \in [Addr -> Object]
  BY <1>1, KnownSpaces, Semispaces, NamesAssumption DEF Settled, Points, Clean
<1>7. ASSUME NEW y \in Allocated PROVE Fields(GraphObjects[Back(y)]) = mem[y]
  <2>1. PICK x \in MovedOf(mem) : Renaming[x] = y
    BY <1>4
  <2>2. Back(y) = x
    BY <1>4, <2>1 DEF Back
  <2>3. x \in Ob /\ x \in Addr /\ Where(x) = y
    BY <1>1, <2>1, Semispaces, KnownSpaces DEF Ob, Where, NowIn, MovedOf, Renaming
  <2> DEFINE o == GraphObjects[x]
             m == mem[y]
  <2>4. /\ o.tag = m.tag
        /\ m.tag = "CELL" => o.a = Named(m.a) /\ o.b = Named(m.b)
        /\ m.tag # "CELL" => o = m
    BY <1>1, <2>3, ObjectShown
  <2>5. \E t, u, v : o = [tag |-> t, a |-> u, b |-> v]
    <3>1. o = View(x)
      BY <1>1, <2>3, ObIs DEF GraphObjects, Ob
    <3> QED BY <3>1 DEF View
  <2>6. m = [tag |-> m.tag, a |-> m.a, b |-> m.b]
    BY <1>6 DEF Object
  <2>7. m.tag = "CELL" => Renamed(o.a) = m.a /\ Renamed(o.b) = m.b
    BY <1>3, <1>4, <2>4
  <2>8. Fields(o) = m
    <3> HIDE DEF o, m
    <3>1. CASE m.tag = "CELL"
      <4>1. PICK t, u, v : o = [tag |-> t, a |-> u, b |-> v]
        BY <2>5
      <4>2. Fields(o) = [tag |-> t, a |-> Renamed(u), b |-> Renamed(v)]
        BY <2>4, <3>1, <4>1 DEF Fields
      <4> QED BY <2>4, <2>6, <2>7, <3>1, <4>1, <4>2
    <3>2. CASE m.tag # "CELL"
      BY <2>4, <3>2 DEF Fields
    <3> QED BY <3>1, <3>2
  <2> QED BY <2>2, <2>8
<1>8. GraphObjects' = [y \in {Renaming[x] : x \in DOMAIN Renaming} |-> Fields(GraphObjects[Back(y)])]
  BY <1>2, <1>4, <1>7
<1>9. GraphSlots' = [s \in Slot |-> IF s \in Node \ G!Live THEN NULL ELSE Renamed(GraphSlots[s])]
  <2>1. ASSUME NEW s \in Slot, s \notin Node \ marked PROVE Renamed(GraphSlots[s]) = cell[s]
    BY <1>3, <1>4, <1>6, <2>1 DEF GraphSlots
  <2>2. \A s \in Slot : s \in Node \ marked <=> s \in Node \ G!Live
    BY <1>5
  <2> QED BY <1>1, <1>2, <2>1, <2>2
<1>10. GraphElems' = [n \in Vec |-> IF n \in G!Live THEN [i \in 1 .. VecLen |-> Renamed(GraphElems[n][i])]
                                    ELSE NoElems]
  <2>1. ASSUME NEW n \in Vec \cap marked
        PROVE  [i \in 1 .. VecLen |-> Renamed(GraphElems[n][i])] = elem[n]
    <3>1. elem[n] \in [1 .. VecLen -> Value]
      BY <1>1 DEF TypeOK
    <3>2. \A i \in 1 .. VecLen : Renamed(GraphElems[n][i]) = elem[n][i]
      BY <1>3, <1>4 DEF GraphElems
    <3> QED BY <3>1, <3>2
  <2>2. \A n \in Vec : n \in marked <=> n \in G!Live
    BY <1>5 DEF Node
  <2> QED BY <1>1, <1>2, <2>1, <2>2
<1>11. GraphReq' = Fields(GraphReq)
  <2>1. \A w : CheckMoving(w)' = CheckMoving(w)
    BY <1>1 DEF CheckMoving, Moved
  <2>2. GraphReq = req
    BY <1>1 DEF GraphReq
  <2>3. GraphReq' = IF req.tag = "CELL"
                    THEN [req EXCEPT !.a = CheckMoving(@), !.b = CheckMoving(@)] ELSE req
    BY <1>1, <2>1 DEF GraphReq, CheckMoving, Moved
  <2> QED BY <1>4, <2>2, <2>3 DEF Fields
<1> QED BY <1>8, <1>9, <1>10, <1>11

LEMMA FinishGraph ==
  ASSUME LInv, FinishGC, GInv'
  PROVE  G!Collect
<1>1. /\ GInv /\ IInv /\ IInv' /\ pc \in Collecting /\ pc \in Moving /\ pc' = "retry" /\ pc = "scan"
      /\ nodes' = marked /\ vmNodes' = vmNodes
      /\ enext' = [e \in Env |-> IF e \in marked THEN enext[e] ELSE NULL]
  BY DEF LInv, GInv, FinishGC, Moving, Collecting
<1>2. G!Full /\ ~G!Full'
  BY <1>1, ObCount, RetryRoomNext
<1>3. GraphAt = "alloc" /\ GraphAt' = GraphAt
  BY <1>1 DEF GraphAt
<1>4. /\ G!Live \cap Node = marked
      /\ G!Live \cap DOMAIN GraphObjects = MovedOf(mem)
  BY FinishLive
<1>5. /\ DOMAIN Renaming = MovedOf(mem) /\ Renaming \in [MovedOf(mem) -> Addr]
      /\ \A x, y \in MovedOf(mem) : Renaming[x] = Renaming[y] => x = y
  BY <1>1, RenamedShown
<1>6. G!Renames(Renaming)
  <2>1. NoElems = G!NoElems /\ Node = G!Node /\ Slot = G!Slot
    BY DEF NoElems, G!NoElems, Node, G!Node, Slot, G!Slot
  <2> QED BY <2>1, FinishRenames DEF G!Renames, Fields, Back, Renamed
<1>7. enext' = [e \in Env |-> IF e \in G!Live THEN enext[e] ELSE NULL]
  <2>1. \A e \in Env : e \in marked <=> e \in G!Live
    BY <1>4 DEF Node
  <2> QED BY <1>1, <2>1
<1>8. nodes' = G!Live \cap G!Node
  BY <1>1, <1>4 DEF Node, G!Node
<1>9. \E move \in [G!Live \cap DOMAIN GraphObjects -> Addr] :
        /\ \A x, y \in DOMAIN move : move[x] = move[y] => x = y
        /\ G!Renames(move)
  <2> HIDE DEF Renaming
  <2> QED BY <1>4, <1>5, <1>6
<1> QED BY <1>1, <1>2, <1>3, <1>7, <1>8, <1>9 DEF G!Collect

-----------------------------------------------------------------------------
(* Every step of the program is a step of the graph, or leaves it alone.   *)

LEMMA InitGraph == Init => G!Init
<1> SUFFICES ASSUME Init PROVE G!Init
  OBVIOUS
<1>1. IInv /\ pc \notin Moving /\ pc = "mutator"
  BY InitIInv DEF Init, Moving, Collecting
<1>2. Allocated = {}
  BY ExtentAssumption DEF Init, Allocated
<1>3. GraphObjects = [x \in {} |-> NULL] /\ GraphSlots = cell /\ GraphElems = elem /\ GraphReq = req
  BY <1>1, <1>2, PlainGraph
<1>4. NoRequest = G!NoRequest /\ Slot = G!Slot /\ NoElems = G!NoElems
  BY DEF NoRequest, G!NoRequest, Idle, Slot, G!Slot, NoElems, G!NoElems
<1> QED BY <1>1, <1>3, <1>4 DEF Init, G!Init, GraphAt

LEMMA NextGraph ==
  ASSUME LInv, [Next]_vars, LInv'
  PROVE  [G!Next]_(G!vars)
<1>1. GInv /\ GInv' /\ IInv /\ IInv'
  BY DEF LInv, GInv
<1>2. ASSUME Same, GraphAt' = GraphAt PROVE UNCHANGED G!vars
  BY <1>2 DEF Same, G!vars
<1>3. CASE UNCHANGED vars
  <2>1. UNCHANGED <<to_space, free_ptr, mem, cell, elem, req, pc, enext, nodes, vmNodes>>
    BY <1>3 DEF vars
  <2>2. GraphObjects' = GraphObjects /\ GraphSlots' = GraphSlots /\ GraphElems' = GraphElems
        /\ GraphReq' = GraphReq /\ GraphAt' = GraphAt
    BY <2>1 DEF GraphObjects, GraphSlots, GraphElems, GraphReq, GraphAt, Named, Viewing, Origin, View,
       Now, Moved, CheckMoving, TOSPACE_CONTAINS, ToSpace, FromSpace, TOP_PTR, from_space, Allocated
  <2> QED BY <1>2, <2>1, <2>2 DEF Same
<1>4. CASE Client
  BY <1>1, <1>4, ClientGraph DEF G!Next
<1>5. CASE Alloc
  BY <1>1, <1>5, MakeGraph DEF G!Next
<1>6. CASE StartGC
  BY <1>1, <1>2, <1>6, StartGraph
<1>7. CASE FinishGC
  BY <1>1, <1>7, FinishGraph DEF G!Next
<1>8. CASE Collector /\ ~StartGC /\ ~FinishGC
  <2>1. pc \in Collecting /\ pc' # "retry"
    BY <1>8 DEF Collector, CollectNode, CollectDone, ForwardRoot, RootsDone, ScanFull, ScanCar,
       ScanCdr, ScanClosure, ScanVector, ScanElem, ScanString, ScanLeaf, Scanning, Collecting
  <2>2. CASE pc' = "exit"
    BY <1>1, <1>8, <2>1, <2>2, ExitGraph DEF G!Next
  <2>3. CASE pc' # "exit"
    BY <1>1, <1>2, <1>8, <2>1, <2>3, RunGraph
  <2> QED BY <2>2, <2>3
<1> QED BY <1>3, <1>4, <1>5, <1>6, <1>7, <1>8 DEF Next

(* The collector, the constructors and the interpreter between them are    *)
(* one graph of objects: a constructor adds an object to it and changes no *)
(* other, a collection renames what is reached and drops the rest, and     *)
(* memory runs out only when everything is reached (gc.c, object.c).       *)
THEOREM CollectorImplementsGraph == Spec => ImplementsGraph
<1>1. LInv /\ LInv' /\ [Next]_vars => [G!Next]_(G!vars)
  BY NextGraph
<1> QED BY <1>1, InitGraph, MarkingInvariance, PTL DEF Spec, ImplementsGraph, G!Spec
=============================================================================
