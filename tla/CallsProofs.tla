------------------------------ MODULE CallsProofs -----------------------------
(***************************************************************************)
(* What the primitives compute, for every heap, every number of arguments  *)
(* and words of every size.                                                *)
(***************************************************************************)
EXTENDS Calls, Induction

-----------------------------------------------------------------------------
(* Values.                                                                 *)

LEMMA Refs ==
  /\ \A i, j : [obj |-> i] = [obj |-> j] => i = j
  /\ \A i : [obj |-> i].obj = i /\ IsRef([obj |-> i])
<1>1. ASSUME NEW i, NEW j, [obj |-> i] = [obj |-> j] PROVE i = j
  <2>1. [obj |-> i].obj = [obj |-> j].obj BY <1>1
  <2> QED BY <2>1
<1>2. ASSUME NEW i PROVE [obj |-> i].obj = i /\ IsRef([obj |-> i])
  <2>1. DOMAIN [obj |-> i] = {"obj"} OBVIOUS
  <2> QED BY <2>1 DEF IsRef
<1> QED BY <1>1, <1>2

LEMMA Statics ==
  /\ \A v : Static(v) => ~IsRef(v) /\ v # NULL
  /\ ~IsRef(NULL) /\ ~IsRef(NIL) /\ NULL # NIL
<1>1. \A v : Static(v) => ~IsRef(v) BY DEF Static, NIL, TRUEV, FALSEV, UNDEF, IsRef
<1>2. ~IsRef(NULL) /\ ~IsRef(NIL) BY DEF NULL, NIL, IsRef
<1>3. \A x, y : [static |-> x] = [static |-> y] => x = y
  <2> SUFFICES ASSUME NEW x, NEW y, [static |-> x] = [static |-> y] PROVE x = y OBVIOUS
  <2>1. [static |-> x].static = [static |-> y].static OBVIOUS
  <2> QED BY <2>1
<1>4. NULL # NIL /\ NULL # TRUEV /\ NULL # FALSEV /\ NULL # UNDEF
  BY <1>3, "NULL" # "NIL", "NULL" # "TRUE", "NULL" # "FALSE", "NULL" # "UNDEF"
     DEF NULL, NIL, TRUEV, FALSEV, UNDEF
<1>5. \A v : Static(v) => v # NULL
  <2> SUFFICES ASSUME Static(NULL) PROVE FALSE OBVIOUS
  <2>1. DOMAIN NULL = {"static"} BY DEF NULL
  <2> QED BY <2>1, <1>4 DEF Static
<1> QED BY <1>1, <1>2, <1>4, <1>5

(* A value is an object of the heap or one outside of it. *)
LEMMA HeldIs ==
  ASSUME NEW n, NEW v, Held(v, n)
  PROVE  /\ v # NULL
         /\ IsRef(v) <=> ~Static(v)
         /\ IsRef(v) => v.obj \in 1 .. n /\ v = [obj |-> v.obj]
<1>1. CASE Static(v) BY <1>1, Statics
<1>2. CASE \E i \in 1 .. n : v = [obj |-> i] BY <1>2, Refs, Statics
<1> QED BY <1>1, <1>2 DEF Held

LEMMA HeldMore ==
  ASSUME NEW n \in Int, NEW m \in Int, n <= m, NEW v, Held(v, n)
  PROVE  Held(v, m)
<1>1. \A i \in 1 .. n : i \in 1 .. m OBVIOUS
<1> QED BY <1>1 DEF Held

(* The objects of a heap. *)
LEMMA ObjectsAre ==
  ASSUME NEW h, NEW n \in Nat, Objects(h, n)
  PROVE  /\ Len(h) \in Nat /\ DOMAIN h = 1 .. Len(h)
         /\ \A i \in DOMAIN h :
              /\ h[i].tag \in {"INTEGER", "STRING", "CELL", "VECTOR"}
              /\ h[i].tag = "INTEGER" => h[i].n \in Words
              /\ h[i].tag = "CELL" => Held(h[i].car, i - 1) /\ Held(h[i].cdr, i - 1)
              /\ h[i].tag = "VECTOR" =>
                   /\ h[i] = [tag |-> "VECTOR", elems |-> h[i].elems]
                   /\ h[i].elems \in Seq(Elems(h[i].elems))
                   /\ \A k \in DOMAIN h[i].elems : Held(h[i].elems[k], n)
<1>1. h \in Seq(Elems(h)) BY DEF Objects
<1>2. Len(h) \in Nat /\ DOMAIN h = 1 .. Len(h) BY <1>1
<1>3. \A i \in DOMAIN h : IsObject(h[i], i, n) BY DEF Objects
<1> QED BY <1>2, <1>3 DEF IsObject, Elems

LEMMA Tags ==
  /\ \A v : IsRef(v) => Tag(v) = heap[v.obj].tag
  /\ Tag(NIL) = "CELL"
  /\ \A v : ~IsRef(v) /\ v # NIL => Tag(v) \in {"SYMBOL", "OTHER"}
  /\ \A v : IsPair(v) <=> IsRef(v) /\ heap[v.obj].tag = "CELL"
  /\ \A v : IsInt(v) <=> IsRef(v) /\ heap[v.obj].tag = "INTEGER"
<1>1. \A v : IsRef(v) => v # NIL /\ Tag(v) = heap[v.obj].tag BY Statics DEF Tag
<1>2. Tag(NIL) = "CELL"
  <2>1. "sym" \notin DOMAIN NIL BY DEF NIL
  <2> QED BY <2>1, Statics DEF Tag
<1>3. \A v : ~IsRef(v) /\ v # NIL => Tag(v) \in {"SYMBOL", "OTHER"}
  <2> SUFFICES ASSUME NEW v, ~IsRef(v), v # NIL PROVE Tag(v) \in {"SYMBOL", "OTHER"} OBVIOUS
  <2>1. CASE "sym" \in DOMAIN v BY <2>1 DEF Tag
  <2>2. CASE "sym" \notin DOMAIN v BY <2>2 DEF Tag
  <2> QED BY <2>1, <2>2
<1>4. \A v : IsPair(v) <=> IsRef(v) /\ heap[v.obj].tag = "CELL" BY <1>1, <1>3 DEF IsPair
<1>5. \A v : IsInt(v) <=> IsRef(v) /\ heap[v.obj].tag = "INTEGER" BY <1>1, <1>2, <1>3 DEF IsInt
<1> QED BY <1>1, <1>2, <1>3, <1>4, <1>5

-----------------------------------------------------------------------------
(* Lists.  Chain says what the walk along the cdrs of v finds: n cells and *)
(* what ends them.                                                         *)

Sized == Len(heap) \in Nat /\ DOMAIN heap = 1 .. Len(heap) /\ Cardinality(DOMAIN heap) = Len(heap)

Chain(f, v, n) ==
  /\ f[1] = v /\ ~IsPair(f[n + 1])
  /\ \A k \in 1 .. n : IsPair(f[k]) /\ f[k + 1] = CDR(f[k])

LEMMA SizeOfHeap ==
  ASSUME NEW B \in Nat, Objects(heap, B)
  PROVE  Sized
<1>1. Len(heap) \in Nat /\ DOMAIN heap = 1 .. Len(heap) BY ObjectsAre
<1>2. Cardinality(1 .. Len(heap)) = Len(heap)
  <2> DEFINE m == Len(heap)
  <2>1. 1 \in Int /\ m \in Int /\ m \in Nat BY <1>1
  <2> HIDE DEF m
  <2>2. Cardinality(1 .. m) = IF 1 > m THEN 0 ELSE m - 1 + 1 BY <2>1, FS_Interval, Zenon
  <2>3. Cardinality(1 .. m) = m BY <2>1, <2>2
  <2> QED BY <2>3 DEF m
<1> QED BY <1>1, <1>2 DEF Sized

LEMMA ChainNone ==
  ASSUME NEW v, ~IsPair(v)
  PROVE  Chain([k \in 1 .. 1 |-> v], v, 0)
  BY DEF Chain

LEMMA ChainCons ==
  ASSUME NEW v, IsPair(v), NEW n \in Nat, NEW f, Chain(f, CDR(v), n),
         NEW g, g = [k \in 1 .. n + 2 |-> IF k = 1 THEN v ELSE f[k - 1]]
  PROVE  Chain(g, v, n + 1)
<1>1. g[1] = v /\ \A k \in 2 .. n + 2 : g[k] = f[k - 1] OBVIOUS
<1>2. ~IsPair(g[(n + 1) + 1])
  <2>1. n + 2 \in 2 .. n + 2 /\ (n + 2) - 1 = n + 1 /\ (n + 1) + 1 = n + 2 OBVIOUS
  <2> QED BY <1>1, <2>1 DEF Chain
<1>3. ASSUME NEW k \in 1 .. n + 1 PROVE IsPair(g[k]) /\ g[k + 1] = CDR(g[k])
  <2>1. k + 1 \in 2 .. n + 2 /\ (k + 1) - 1 = k OBVIOUS
  <2>2. g[k + 1] = f[k] BY <1>1, <2>1
  <2>3. CASE k = 1 BY <1>1, <2>2, <2>3 DEF Chain
  <2>4. CASE k # 1
    <3>1. k \in 2 .. n + 2 /\ k - 1 \in 1 .. n /\ (k - 1) + 1 = k BY <2>4
    <3>2. g[k] = f[k - 1] /\ IsPair(f[k - 1]) /\ f[(k - 1) + 1] = CDR(f[k - 1])
      BY <1>1, <3>1 DEF Chain
    <3> QED BY <2>2, <3>1, <3>2
  <2> QED BY <2>3, <2>4
<1> QED BY <1>1, <1>2, <1>3 DEF Chain

LEMMA CellIs ==
  ASSUME NEW B \in Nat, Objects(heap, B), NEW m \in Nat, m <= Len(heap), NEW v, Held(v, m), IsPair(v)
  PROVE  /\ v.obj \in 1 .. m /\ v = [obj |-> v.obj] /\ v.obj \in DOMAIN heap
         /\ CAR(v) = heap[v.obj].car /\ CDR(v) = heap[v.obj].cdr
         /\ Held(CAR(v), v.obj - 1) /\ Held(CDR(v), v.obj - 1)
<1>1. IsRef(v) /\ heap[v.obj].tag = "CELL" BY Tags
<1>2. v.obj \in 1 .. m /\ v = [obj |-> v.obj] BY <1>1, HeldIs
<1>3. v.obj \in DOMAIN heap BY <1>2, ObjectsAre
<1>4. Held(heap[v.obj].car, v.obj - 1) /\ Held(heap[v.obj].cdr, v.obj - 1)
  BY <1>1, <1>3, ObjectsAre
<1> QED BY <1>1, <1>2, <1>3, <1>4 DEF CAR, CDR

LEMMA ChainExists ==
  ASSUME NEW B \in Nat, Objects(heap, B), NEW m \in Nat, m <= Len(heap), NEW v, Held(v, m)
  PROVE  \E n \in 0 .. m : \E f : Chain(f, v, n)
<1> DEFINE S == {k \in Nat : k <= Len(heap) =>
                   \A x : Held(x, k) => \E n \in 0 .. k : \E f : Chain(f, x, n)}
<1>1. ASSUME NEW k \in Nat, NEW x, ~IsPair(x) PROVE \E n \in 0 .. k : \E f : Chain(f, x, n)
  <2>1. 0 \in 0 .. k OBVIOUS
  <2> QED BY <1>1, <2>1, ChainNone
<1>2. Len(heap) \in Nat BY ObjectsAre
<1>3. 0 \in S
  <2> SUFFICES ASSUME NEW x, Held(x, 0) PROVE \E n \in 0 .. 0 : \E f : Chain(f, x, n) OBVIOUS
  <2>1. ~IsPair(x) BY CellIs, <1>2
  <2> QED BY <1>1, <2>1
<1>4. ASSUME NEW k \in Nat, k \in S PROVE k + 1 \in S
  <2> SUFFICES ASSUME k + 1 <= Len(heap), NEW x, Held(x, k + 1)
               PROVE  \E n \in 0 .. k + 1 : \E f : Chain(f, x, n)
    OBVIOUS
  <2>1. CASE ~IsPair(x) BY <2>1, <1>1
  <2>2. CASE IsPair(x)
    <3>1. x.obj \in 1 .. k + 1 /\ Held(CDR(x), x.obj - 1) BY <2>2, <1>2, CellIs
    <3>2. Held(CDR(x), k) BY <3>1, HeldMore
    <3>3. PICK n \in 0 .. k : \E f : Chain(f, CDR(x), n) BY <3>2, <1>4, <1>2
    <3>4. PICK f : Chain(f, CDR(x), n) BY <3>3
    <3>5. n + 1 \in 0 .. k + 1 /\ n \in Nat OBVIOUS
    <3>6. \E g : Chain(g, x, n + 1) BY <2>2, <3>4, <3>5, ChainCons
    <3> QED BY <3>5, <3>6
  <2> QED BY <2>1, <2>2
<1> HIDE DEF S
<1>5. Nat \subseteq S BY <1>3, <1>4, NatInd
<1>6. m \in S BY <1>5
<1> QED BY <1>6 DEF S

(* The walk of Spine: it goes on past the end of the list. *)
Walk(f, v, N) == f = [k \in 1 .. N + 1 |-> IF k = 1 THEN v ELSE CDR(f[k - 1])]

LEMMA WalkExists ==
  ASSUME NEW v, NEW N \in Nat
  PROVE  \E f : Walk(f, v, N)
<1> DEFINE S == {n \in Nat : \E f : Walk(f, v, n)}
<1>1. 0 \in S
  <2> DEFINE f == [k \in 1 .. 0 + 1 |-> v]
  <2>1. f = [k \in 1 .. 0 + 1 |-> IF k = 1 THEN v ELSE CDR(f[k - 1])] OBVIOUS
  <2> HIDE DEF f
  <2>2. Walk(f, v, 0) BY <2>1 DEF Walk
  <2> QED BY <2>2
<1>2. ASSUME NEW n \in Nat, n \in S PROVE n + 1 \in S
  <2>1. PICK f : Walk(f, v, n) BY <1>2
  <2>2. \A k \in 1 .. n + 1 : f[k] = IF k = 1 THEN v ELSE CDR(f[k - 1]) BY <2>1 DEF Walk
  <2> DEFINE g == [k \in 1 .. (n + 1) + 1 |-> IF k = (n + 1) + 1 THEN CDR(f[n + 1]) ELSE f[k]]
  <2>3. \A k \in 1 .. n + 1 : g[k] = f[k] OBVIOUS
  <2>4. g[(n + 1) + 1] = CDR(f[n + 1]) OBVIOUS
  <2>5. g = [k \in 1 .. (n + 1) + 1 |-> g[k]] OBVIOUS
  <2> HIDE DEF g
  <2>6. ASSUME NEW k \in 1 .. (n + 1) + 1 PROVE g[k] = IF k = 1 THEN v ELSE CDR(g[k - 1])
    <3>1. CASE k = (n + 1) + 1
      <4>1. k # 1 /\ k - 1 = n + 1 /\ n + 1 \in 1 .. n + 1 BY <3>1
      <4> QED BY <3>1, <4>1, <2>3, <2>4
    <3>2. CASE k = 1 BY <3>2, <2>2, <2>3
    <3>3. CASE k \in 2 .. n + 1
      <4>1. k \in 1 .. n + 1 /\ k - 1 \in 1 .. n + 1 /\ k # 1 BY <3>3
      <4> QED BY <4>1, <2>2, <2>3
    <3> QED BY <3>1, <3>2, <3>3
  <2>7. Walk(g, v, n + 1) BY <2>5, <2>6 DEF Walk
  <2> QED BY <2>7
<1> HIDE DEF S
<1>3. Nat \subseteq S BY <1>1, <1>2, NatInd
<1>4. N \in S BY <1>3
<1> QED BY <1>4 DEF S

LEMMA WalkFollows ==
  ASSUME NEW v, NEW N \in Nat, NEW r, Walk(r, v, N), NEW n \in 0 .. N, NEW f, Chain(f, v, n)
  PROVE  \A k \in 1 .. n + 1 : r[k] = f[k]
<1> DEFINE S == {k \in Nat : k <= n => r[k + 1] = f[k + 1]}
<1>1. \A k \in 1 .. N + 1 : r[k] = IF k = 1 THEN v ELSE CDR(r[k - 1]) BY DEF Walk
<1>2. 0 \in S
  <2>1. 1 \in 1 .. N + 1 /\ 0 + 1 = 1 OBVIOUS
  <2> QED BY <2>1, <1>1 DEF Chain
<1>3. ASSUME NEW k \in Nat, k \in S PROVE k + 1 \in S
  <2> SUFFICES ASSUME k + 1 <= n PROVE r[(k + 1) + 1] = f[(k + 1) + 1] OBVIOUS
  <2>1. (k + 1) + 1 \in 1 .. N + 1 /\ ((k + 1) + 1) - 1 = k + 1 /\ k + 1 \in 1 .. n /\ (k + 1) + 1 # 1
    OBVIOUS
  <2>2. r[k + 1] = f[k + 1] BY <1>3, <2>1
  <2> QED BY <1>1, <2>1, <2>2 DEF Chain
<1> HIDE DEF S
<1>4. Nat \subseteq S BY <1>2, <1>3, NatInd
<1>5. ASSUME NEW k \in 1 .. n + 1 PROVE r[k] = f[k]
  <2>1. k - 1 \in Nat /\ k - 1 <= n /\ (k - 1) + 1 = k OBVIOUS
  <2>2. k - 1 \in S BY <2>1, <1>4
  <2> QED BY <2>1, <2>2 DEF S
<1> QED BY <1>5

(* What Spine returns, then, is the chain and its end. *)
LEMMA SpineIs ==
  ASSUME Sized, NEW v, NEW n \in 0 .. Len(heap), NEW f, Chain(f, v, n)
  PROVE  Spine(v) = [cells |-> [k \in 1 .. n |-> f[k]], end |-> f[n + 1]]
<1> DEFINE N == Cardinality(DOMAIN heap)
           r == CHOOSE g : g = [k \in 1 .. N + 1 |-> IF k = 1 THEN v ELSE CDR(g[k - 1])]
           m == CHOOSE k \in 0 .. N : ~IsPair(r[k + 1]) /\ \A j \in 1 .. k : IsPair(r[j])
<1>1. N = Len(heap) /\ N \in Nat BY DEF Sized
<1> HIDE DEF N
<1>2. \E g : Walk(g, v, N) BY <1>1, WalkExists
<1>3. Walk(r, v, N) BY <1>2 DEF Walk
<1> HIDE DEF r
<1>4. n \in 0 .. N BY <1>1
<1>5. \A k \in 1 .. n + 1 : r[k] = f[k] BY <1>1, <1>3, <1>4, WalkFollows
<1>6. ~IsPair(r[n + 1]) /\ \A j \in 1 .. n : IsPair(r[j])
  <2>1. n + 1 \in 1 .. n + 1 /\ \A j \in 1 .. n : j \in 1 .. n + 1 BY <1>4
  <2> QED BY <1>5, <2>1 DEF Chain
<1>7. m \in 0 .. N /\ ~IsPair(r[m + 1]) /\ \A j \in 1 .. m : IsPair(r[j]) BY <1>4, <1>6
<1> HIDE DEF m
<1>8. m = n
  <2>1. ~(m < n)
    <3>1. m < n => m + 1 \in 1 .. n BY <1>7, <1>4
    <3> QED BY <3>1, <1>6, <1>7
  <2>2. ~(n < m)
    <3>1. n < m => n + 1 \in 1 .. m BY <1>7, <1>4
    <3> QED BY <3>1, <1>6, <1>7
  <2> QED BY <2>1, <2>2, <1>4, <1>7
<1>9. Spine(v) = [cells |-> [k \in 1 .. m |-> r[k]], end |-> r[m + 1]] BY DEF Spine, m, r, N
<1>10. n + 1 \in 1 .. n + 1 /\ \A k \in 1 .. n : k \in 1 .. n + 1 BY <1>4
<1>11. [k \in 1 .. n |-> r[k]] = [k \in 1 .. n |-> f[k]] BY <1>5, <1>10
<1> QED BY <1>5, <1>8, <1>9, <1>10, <1>11

LEMMA LengthIs ==
  ASSUME Sized, NEW v, NEW n \in 0 .. Len(heap), NEW f, Chain(f, v, n)
  PROVE  /\ get_list_length(v) = IF f[n + 1] = NIL THEN n ELSE -1
         /\ Elements(v) = [k \in 1 .. n |-> CAR(f[k])]
         /\ Elements(v) \in Seq(Elems(Elements(v))) /\ Len(Elements(v)) = n
<1> DEFINE cells == [k \in 1 .. n |-> f[k]]
           elems == [k \in 1 .. n |-> CAR(f[k])]
<1>1. Spine(v).cells = cells /\ Spine(v).end = f[n + 1] BY SpineIs
<1>2. n \in Nat BY DEF Sized
<1>3. cells \in Seq({f[k] : k \in 1 .. n}) /\ DOMAIN cells = 1 .. n /\ Len(cells) = n BY <1>2
<1>4. elems \in Seq({CAR(f[k]) : k \in 1 .. n}) /\ DOMAIN elems = 1 .. n /\ Len(elems) = n BY <1>2
<1>5. Elements(v) = elems BY <1>1, <1>3 DEF Elements
<1>6. elems \in Seq(Elems(elems)) BY <1>4 DEF Elems
<1>7. get_list_length(v) = IF f[n + 1] = NIL THEN n ELSE -1 BY <1>1, <1>3 DEF get_list_length
<1> QED BY <1>4, <1>5, <1>6, <1>7

(* The length of a list is one more than that of its cdr. *)
LEMMA LengthCons ==
  ASSUME NEW B \in Nat, Objects(heap, B), NEW v, Held(v, Len(heap))
  PROVE  /\ get_list_length(v) \in Nat \cup {-1}
         /\ ~IsPair(v) => get_list_length(v) = IF v = NIL THEN 0 ELSE -1
         /\ IsPair(v) => get_list_length(v) = IF get_list_length(CDR(v)) = -1 THEN -1
                                              ELSE get_list_length(CDR(v)) + 1
<1> DEFINE N == Len(heap)
<1>1. Sized /\ N \in Nat BY SizeOfHeap, ObjectsAre
<1>7. PICK n \in 0 .. N : \E f : Chain(f, v, n) BY <1>1, ChainExists
<1>2. PICK f : Chain(f, v, n) BY <1>7
<1>3. get_list_length(v) = IF f[n + 1] = NIL THEN n ELSE -1 BY <1>1, <1>2, LengthIs
<1>4. get_list_length(v) \in Nat \cup {-1} BY <1>1, <1>3
<1>5. ASSUME ~IsPair(v) PROVE get_list_length(v) = IF v = NIL THEN 0 ELSE -1
  <2> DEFINE g == [k \in 1 .. 1 |-> v]
  <2>1. Chain(g, v, 0) BY <1>5, ChainNone
  <2>2. 0 \in 0 .. N /\ 1 \in 1 .. 1 /\ 0 + 1 = 1 BY <1>1
  <2>4. g[0 + 1] = v BY <2>2
  <2> HIDE DEF g, N
  <2>3. get_list_length(v) = IF g[0 + 1] = NIL THEN 0 ELSE -1 BY <1>1, <2>1, <2>2, LengthIs DEF N
  <2> QED BY <2>3, <2>4
<1>6. ASSUME IsPair(v)
      PROVE  get_list_length(v) = IF get_list_length(CDR(v)) = -1 THEN -1
                                  ELSE get_list_length(CDR(v)) + 1
  <2>1. v.obj \in 1 .. N /\ Held(CDR(v), v.obj - 1) BY <1>1, <1>6, CellIs
  <2>2. v.obj - 1 \in Nat /\ v.obj - 1 <= N BY <1>1, <2>1
  <2>9. PICK m \in 0 .. v.obj - 1 : \E g : Chain(g, CDR(v), m) BY <2>1, <2>2, ChainExists
  <2>3. PICK g : Chain(g, CDR(v), m) BY <2>9
  <2> DEFINE h == [k \in 1 .. m + 2 |-> IF k = 1 THEN v ELSE g[k - 1]]
  <2>4. m \in Nat /\ m \in 0 .. N /\ m + 1 \in 0 .. N BY <1>1, <2>1
  <2>5. h[(m + 1) + 1] = g[m + 1] BY <2>4
  <2>6. Chain(h, v, m + 1) BY <1>6, <2>3, <2>4, ChainCons
  <2> HIDE DEF h
  <2>7. get_list_length(v) = IF h[(m + 1) + 1] = NIL THEN m + 1 ELSE -1
    BY <1>1, <2>4, <2>6, LengthIs
  <2>8. get_list_length(CDR(v)) = IF g[m + 1] = NIL THEN m ELSE -1
    BY <1>1, <2>3, <2>4, LengthIs
  <2> QED BY <2>4, <2>5, <2>7, <2>8
<1> QED BY <1>4, <1>5, <1>6

-----------------------------------------------------------------------------
(* The arguments q of a call and the list l that holds them.               *)

Passing(q, l, B) ==
  /\ B \in Nat /\ Objects(heap, B)
  /\ q \in Seq(Elems(q)) /\ Len(heap) = B + Len(q)
  /\ \A k \in 1 .. Len(q) :
       /\ Held(q[k], B)
       /\ heap[B + k] = [tag |-> "CELL", car |-> q[Len(q) + 1 - k],
                         cdr |-> IF k = 1 THEN NIL ELSE [obj |-> B + k - 1]]
  /\ l = IF Len(q) = 0 THEN NIL ELSE [obj |-> B + Len(q)]

LEMMA ArgumentsAre ==
  ASSUME NEW q, NEW l, NEW B, Passing(q, l, B)
  PROVE  /\ get_list_length(l) = Len(q) /\ Elements(l) = q
         /\ First(l) = IF Len(q) < 1 THEN NULL ELSE q[1]
         /\ Len(q) >= 2 => Second(l) = q[2]
         /\ Len(q) >= 3 => Third(l) = q[3]
<1> DEFINE m == Len(q)
<1>1. B \in Nat /\ m \in Nat /\ q = [k \in 1 .. m |-> q[k]] BY DEF Passing
<1>2. Sized /\ Len(heap) = B + m BY SizeOfHeap DEF Passing
<1> HIDE DEF m
<1>3. \A k \in 1 .. m :
        /\ IsPair([obj |-> B + k]) /\ CAR([obj |-> B + k]) = q[m + 1 - k]
        /\ CDR([obj |-> B + k]) = IF k = 1 THEN NIL ELSE [obj |-> B + k - 1]
  <2> SUFFICES ASSUME NEW k \in 1 .. m
               PROVE  /\ IsPair([obj |-> B + k]) /\ CAR([obj |-> B + k]) = q[m + 1 - k]
                      /\ CDR([obj |-> B + k]) = IF k = 1 THEN NIL ELSE [obj |-> B + k - 1]
    OBVIOUS
  <2>1. heap[B + k] = [tag |-> "CELL", car |-> q[m + 1 - k],
                       cdr |-> IF k = 1 THEN NIL ELSE [obj |-> B + k - 1]]
    BY DEF Passing, m
  <2>2. /\ heap[B + k].tag = "CELL" /\ heap[B + k].car = q[m + 1 - k]
        /\ heap[B + k].cdr = IF k = 1 THEN NIL ELSE [obj |-> B + k - 1]
    BY <2>1
  <2>3. IsRef([obj |-> B + k]) /\ [obj |-> B + k].obj = B + k BY Refs
  <2> QED BY <2>2, <2>3, Tags DEF CAR, CDR
<1> DEFINE f == [k \in 1 .. m + 1 |-> IF k = m + 1 THEN NIL ELSE [obj |-> B + (m + 1 - k)]]
<1>4. f[m + 1] = NIL /\ \A k \in 1 .. m : f[k] = [obj |-> B + (m + 1 - k)] BY <1>1
<1> HIDE DEF f
<1>5. \A k \in 1 .. m : IsPair(f[k]) /\ CAR(f[k]) = q[k] /\ CDR(f[k]) = f[k + 1]
  <2> SUFFICES ASSUME NEW k \in 1 .. m
               PROVE  IsPair(f[k]) /\ CAR(f[k]) = q[k] /\ CDR(f[k]) = f[k + 1]
    OBVIOUS
  <2>1. m + 1 - k \in 1 .. m /\ m + 1 - (m + 1 - k) = k BY <1>1
  <2>2. CASE k = m
    <3>1. m + 1 - k = 1 /\ k + 1 = m + 1 BY <2>2, <1>1
    <3> QED BY <2>1, <3>1, <1>3, <1>4
  <2>3. CASE k # m
    <3>1. m + 1 - k # 1 /\ k + 1 \in 1 .. m /\ B + (m + 1 - k) - 1 = B + (m + 1 - (k + 1)) BY <2>3, <1>1
    <3> QED BY <2>1, <3>1, <1>3, <1>4
  <2> QED BY <2>2, <2>3
<1>6. l = f[1]
  <2>1. CASE m = 0 BY <2>1, <1>4 DEF Passing, m
  <2>2. CASE m # 0
    <3>1. 1 \in 1 .. m /\ B + (m + 1 - 1) = B + m BY <2>2, <1>1
    <3> QED BY <2>2, <3>1, <1>4 DEF Passing, m
  <2> QED BY <2>1, <2>2
<1>7. ~IsPair(NIL) BY DEF IsPair
<1>8. Chain(f, l, m) BY <1>4, <1>5, <1>6, <1>7 DEF Chain
<1>9. m \in 0 .. Len(heap) BY <1>1, <1>2
<1>10. get_list_length(l) = m /\ Elements(l) = q
  <2>1. /\ get_list_length(l) = IF f[m + 1] = NIL THEN m ELSE -1
        /\ Elements(l) = [k \in 1 .. m |-> CAR(f[k])]
    BY <1>2, <1>8, <1>9, LengthIs
  <2>2. [k \in 1 .. m |-> CAR(f[k])] = [k \in 1 .. m |-> q[k]] BY <1>5
  <2> QED BY <2>1, <2>2, <1>1, <1>4
<1>11. CAR(NIL) = NULL /\ CDR(NIL) = NULL BY Statics DEF CAR, CDR
<1>12. First(l) = IF m < 1 THEN NULL ELSE q[1]
  <2>1. CASE m = 0 BY <2>1, <1>4, <1>6, <1>11 DEF First
  <2>2. CASE m # 0
    <3>1. 1 \in 1 .. m /\ ~(m < 1) BY <2>2, <1>1
    <3> QED BY <3>1, <1>5, <1>6 DEF First
  <2> QED BY <2>1, <2>2
<1>13. m >= 2 => Second(l) = q[2]
  <2> SUFFICES ASSUME m >= 2 PROVE Second(l) = q[2] OBVIOUS
  <2>1. 1 \in 1 .. m /\ 2 \in 1 .. m /\ 1 + 1 = 2 BY <1>1
  <2> QED BY <2>1, <1>5, <1>6 DEF Second
<1>14. m >= 3 => Third(l) = q[3]
  <2> SUFFICES ASSUME m >= 3 PROVE Third(l) = q[3] OBVIOUS
  <2>1. 1 \in 1 .. m /\ 2 \in 1 .. m /\ 3 \in 1 .. m /\ 1 + 1 = 2 /\ 2 + 1 = 3 BY <1>1
  <2> QED BY <2>1, <1>5, <1>6 DEF Third
<1> QED BY <1>10, <1>12, <1>13, <1>14 DEF m

-----------------------------------------------------------------------------
(* Words.  Congruent numbers differ by a multiple of Modulus.              *)

Congruent(a, b) == \E t \in Int : a = b + t * Modulus

LEMMA ModulusIs == LongMax \in Nat /\ Modulus \in Nat \ {0} /\ Modulus = 2 * (LongMax + 1)
  BY LongAssumption DEF Modulus

LEMMA Division ==
  ASSUME NEW n \in Int, NEW M \in Nat \ {0}
  PROVE  /\ n \div M \in Int /\ n % M \in 0 .. M - 1
         /\ n = M * (n \div M) + (n % M)
  OBVIOUS

LEMMA Wraps ==
  ASSUME NEW n \in Int
  PROVE  ToSigned(n) \in Words /\ ToSigned(n) \in Int /\ Congruent(ToSigned(n), n)
<1> DEFINE m == n % Modulus
           d == n \div Modulus
<1>1. LongMax \in Nat /\ Modulus \in Nat \ {0} /\ Modulus = 2 * (LongMax + 1) BY ModulusIs
<1>2. d \in Int /\ m \in 0 .. Modulus - 1 /\ n = Modulus * d + m BY <1>1, Division
<1>3. ToSigned(n) = IF m > LongMax THEN m - Modulus ELSE m BY DEF ToSigned
<1> HIDE DEF m, d
<1>4. CASE m > LongMax
  <2>1. ToSigned(n) = m - Modulus BY <1>3, <1>4
  <2>2. m - Modulus \in -(LongMax + 1) .. LongMax BY <1>1, <1>2, <1>4
  <2>3. -d - 1 \in Int /\ m - Modulus = n + (-d - 1) * Modulus BY <1>1, <1>2
  <2> QED BY <2>1, <2>2, <2>3 DEF Words, LongMin, Congruent
<1>5. CASE ~(m > LongMax)
  <2>1. ToSigned(n) = m BY <1>3, <1>5
  <2>2. m \in -(LongMax + 1) .. LongMax BY <1>1, <1>2, <1>5
  <2>3. -d \in Int /\ m = n + (-d) * Modulus BY <1>1, <1>2
  <2> QED BY <2>1, <2>2, <2>3 DEF Words, LongMin, Congruent
<1> QED BY <1>4, <1>5

LEMMA Congruences ==
  /\ \A a \in Int : Congruent(a, a)
  /\ \A a, b, c \in Int : Congruent(a, b) /\ Congruent(b, c) => Congruent(a, c)
  /\ \A a, b, x \in Int :
       Congruent(a, b) =>
         Congruent(a + x, b + x) /\ Congruent(a - x, b - x) /\ Congruent(a * x, b * x)
<1>1. Modulus \in Int BY ModulusIs
<1>2. ASSUME NEW a \in Int PROVE Congruent(a, a)
  <2>1. 0 \in Int /\ a = a + 0 * Modulus BY <1>1
  <2> QED BY <2>1 DEF Congruent
<1>3. ASSUME NEW a \in Int, NEW b \in Int, NEW c \in Int, Congruent(a, b), Congruent(b, c)
      PROVE  Congruent(a, c)
  <2>1. PICK t \in Int : a = b + t * Modulus BY <1>3 DEF Congruent
  <2>2. PICK u \in Int : b = c + u * Modulus BY <1>3 DEF Congruent
  <2>3. t + u \in Int /\ a = c + (t + u) * Modulus BY <2>1, <2>2, <1>1
  <2> QED BY <2>3 DEF Congruent
<1>4. ASSUME NEW a \in Int, NEW b \in Int, NEW x \in Int, Congruent(a, b)
      PROVE  Congruent(a + x, b + x) /\ Congruent(a - x, b - x) /\ Congruent(a * x, b * x)
  <2>1. PICK t \in Int : a = b + t * Modulus BY <1>4 DEF Congruent
  <2>2. a + x = (b + x) + t * Modulus BY <2>1, <1>1
  <2>3. a - x = (b - x) + t * Modulus BY <2>1, <1>1
  <2>4. t * x \in Int /\ a * x = b * x + (t * x) * Modulus
    <3> DEFINE M == Modulus
    <3>1. M \in Int BY <1>1
    <3> HIDE DEF M
    <3>2. (b + t * M) * x = b * x + (t * x) * M BY <3>1
    <3> QED BY <2>1, <3>2 DEF M
  <2> QED BY <2>2, <2>3, <2>4 DEF Congruent
<1> QED BY <1>2, <1>3, <1>4

LEMMA Exact ==
  ASSUME NEW a \in Int, NEW b \in Int, Congruent(a, b)
  PROVE  (a - b) % Modulus = 0
<1> DEFINE M == Modulus
<1>1. M \in Nat \ {0} BY ModulusIs
<1>2. PICK t \in Int : a = b + t * M BY DEF Congruent
<1>3. a - b = t * M
  <2>1. t * M \in Int BY <1>1
  <2> QED BY <1>2, <2>1
<1> DEFINE n == a - b
           r == n % M
           d == n \div M
<1>4. n \in Int OBVIOUS
<1> HIDE DEF M, n
<1>5. d \in Int /\ r \in 0 .. M - 1 /\ n = M * d + r BY <1>1, <1>4, Division
<1> HIDE DEF r, d
<1>6. (t - d) * M = r
  <2>1. t * M = M * d + r BY <1>3, <1>5 DEF n
  <2> QED BY <2>1, <1>1, <1>5
<1>7. t - d = 0
  <2> DEFINE k == t - d
  <2>1. k \in Int /\ k * M = r BY <1>5, <1>6
  <2> HIDE DEF k
  <2>2. k >= 1 => k * M >= M BY <1>1, <2>1
  <2>3. k <= -1 => k * M <= -M BY <1>1, <2>1
  <2>4. k = 0 BY <2>1, <2>2, <2>3, <1>1, <1>5
  <2> QED BY <2>4 DEF k
<1>8. r = 0
  <2>1. 0 * M = 0 BY <1>1
  <2> QED BY <1>6, <1>7, <2>1
<1> QED BY <1>8 DEF r, n, M

-----------------------------------------------------------------------------
(* What a primitive may answer.  A new object is one more object after the *)
(* B the call finds, and only the element of a vector is ever written.     *)

Stores(i, k, v) == [kind |-> "store", vec |-> i, at |-> k, v |-> v]
Answer(r, B) ==
  \/ r = Error \/ r = Crashes \/ r = [kind |-> "exit"] \/ \E v : r = Returns(v)
  \/ \E o : r = Makes(o) /\ IsObject(o, B + 1, B + 1)
  \/ \E i \in 1 .. B : \E k, v :
       /\ r = Stores(i, k, v) /\ Held(v, B)
       /\ heap[i].tag = "VECTOR" /\ k \in DOMAIN heap[i].elems

LEMMA Kinds ==
  /\ Error.kind = "error" /\ Crashes.kind = "crash" /\ [kind |-> "exit"].kind = "exit"
  /\ \A v : Returns(v).kind = "value" /\ Returns(v).v = v
  /\ \A o : Makes(o).kind = "new" /\ Makes(o).o = o
  /\ \A i, k, v : /\ Stores(i, k, v).kind = "store" /\ Stores(i, k, v).vec = i
                  /\ Stores(i, k, v).at = k /\ Stores(i, k, v).v = v
  /\ \A b : Truth(b).kind = "value" /\ \E v : Truth(b) = Returns(v)
  /\ \A n : Integer(n).kind = "new" /\ Integer(n).o = [tag |-> "INTEGER", n |-> ToSigned(n)]
  BY DEF Error, Crashes, Returns, Makes, Stores, Truth, Integer

LEMMA Answers ==
  ASSUME NEW B \in Nat
  PROVE  /\ Answer(Error, B) /\ Answer(Crashes, B) /\ Answer([kind |-> "exit"], B)
         /\ \A v : Answer(Returns(v), B)
         /\ \A b : Answer(Truth(b), B)
         /\ \A n \in Int : Answer(Integer(n), B)
         /\ \A a, b : Held(a, B) /\ Held(b, B) =>
                        Answer(Makes([tag |-> "CELL", car |-> a, cdr |-> b]), B)
<1>1. Answer(Error, B) /\ Answer(Crashes, B) /\ Answer([kind |-> "exit"], B)
  BY DEF Answer
<1>2. \A v : Answer(Returns(v), B) BY DEF Answer
<1>3. \A b : Answer(Truth(b), B) BY <1>2, Kinds
<1>4. ASSUME NEW n \in Int PROVE Answer(Integer(n), B)
  <2> DEFINE o == [tag |-> "INTEGER", n |-> ToSigned(n)]
  <2>1. ToSigned(n) \in Words BY Wraps
  <2>2. IsObject(o, B + 1, B + 1) BY <2>1 DEF IsObject
  <2>3. Integer(n) = Makes(o) BY DEF Integer
  <2> HIDE DEF o
  <2> QED BY <2>2, <2>3 DEF Answer
<1>5. ASSUME NEW a, NEW b, Held(a, B), Held(b, B)
      PROVE  Answer(Makes([tag |-> "CELL", car |-> a, cdr |-> b]), B)
  <2> DEFINE o == [tag |-> "CELL", car |-> a, cdr |-> b]
  <2>1. (B + 1) - 1 = B OBVIOUS
  <2>2. IsObject(o, B + 1, B + 1) BY <1>5, <2>1 DEF IsObject
  <2> HIDE DEF o
  <2>3. Answer(Makes(o), B) BY <2>2 DEF Answer
  <2> QED BY <2>3 DEF o
<1> QED BY <1>1, <1>2, <1>3, <1>4, <1>5

(* A value that was there before the call. *)
LEMMA ValueIs ==
  ASSUME NEW B \in Nat, Objects(heap, B), B <= Len(heap), NEW v, Held(v, B)
  PROVE  /\ v # NULL
         /\ IsRef(v) => v.obj \in 1 .. B /\ v.obj \in DOMAIN heap
         /\ IsInt(v) => IsRef(v) /\ IntOf(v) \in Words /\ IntOf(v) \in Int
         /\ Tag(v) = "VECTOR" =>
              /\ IsRef(v) /\ heap[v.obj].tag = "VECTOR"
              /\ Len(heap[v.obj].elems) \in Nat
              /\ DOMAIN heap[v.obj].elems = 1 .. Len(heap[v.obj].elems)
<1>1. v # NULL /\ (IsRef(v) => v.obj \in 1 .. B) BY HeldIs
<1>2. Len(heap) \in Nat /\ DOMAIN heap = 1 .. Len(heap) BY ObjectsAre
<1>3. IsRef(v) => v.obj \in DOMAIN heap BY <1>1, <1>2
<1>4. ASSUME IsInt(v) PROVE IsRef(v) /\ IntOf(v) \in Words /\ IntOf(v) \in Int
  <2>1. IsRef(v) /\ heap[v.obj].tag = "INTEGER" BY <1>4, Tags
  <2>2. IntOf(v) \in Words BY <2>1, <1>3, ObjectsAre DEF IntOf
  <2>3. Words \subseteq Int BY ModulusIs DEF Words, LongMin
  <2> QED BY <2>1, <2>2, <2>3
<1>5. ASSUME Tag(v) = "VECTOR"
      PROVE  /\ IsRef(v) /\ heap[v.obj].tag = "VECTOR"
             /\ Len(heap[v.obj].elems) \in Nat
             /\ DOMAIN heap[v.obj].elems = 1 .. Len(heap[v.obj].elems)
  <2>1. IsRef(v) /\ heap[v.obj].tag = "VECTOR" BY <1>5, Tags
  <2>2. heap[v.obj].elems \in Seq(Elems(heap[v.obj].elems)) BY <2>1, <1>3, ObjectsAre
  <2> QED BY <2>1, <2>2
<1> QED BY <1>1, <1>3, <1>4, <1>5

LEMMA InVectorIs ==
  ASSUME NEW B \in Nat, Objects(heap, B), B <= Len(heap),
         NEW a, Held(a, B), NEW b, Held(b, B)
  PROVE  InVector(a, b) <=> Index(a, b)
<1>1. CASE ~(Tag(a) = "VECTOR" /\ IsInt(b)) BY <1>1 DEF InVector, Index
<1>2. CASE Tag(a) = "VECTOR" /\ IsInt(b)
  <2>1. Len(heap[a.obj].elems) \in Nat /\ IntOf(b) \in Int BY <1>2, ValueIs
  <2> QED BY <1>2, <2>1 DEF InVector, Index
<1> QED BY <1>1, <1>2

(* Each primitive: what it may answer, and when it answers an error. *)
LEMMA ArgIs ==
  ASSUME NEW q, NEW l, NEW B, Passing(q, l, B)
  PROVE  /\ B \in Nat /\ Len(q) \in Nat /\ DOMAIN q = 1 .. Len(q)
         /\ Objects(heap, B) /\ B <= Len(heap)
         /\ \A k \in 1 .. Len(q) : Held(q[k], B) /\ q[k] # NULL
<1>1. /\ B \in Nat /\ q \in Seq(Elems(q)) /\ Len(heap) = B + Len(q)
      /\ Objects(heap, B) /\ \A k \in 1 .. Len(q) : Held(q[k], B)
  BY Zenon DEF Passing
<1>2. Len(q) \in Nat /\ DOMAIN q = 1 .. Len(q) BY <1>1
<1>3. B <= Len(heap) BY <1>1, <1>2
<1> QED BY <1>1, <1>2, <1>3, ValueIs

LEMMA PairsFine ==
  ASSUME NEW q, NEW l, NEW B, Passing(q, l, B)
  PROVE  /\ Answer(prim_car(l), B) /\ Answer(prim_cdr(l), B) /\ Answer(prim_cons(l), B)
         /\ prim_car(l).kind = "error" <=> ~(Len(q) = 0 \/ IsPair(q[1]))
         /\ prim_cdr(l).kind = "error" <=> ~(Len(q) = 0 \/ IsPair(q[1]))
         /\ prim_cons(l).kind = "error" <=> Len(q) # 2
         /\ Len(q) = 0 => prim_car(l).kind = "crash" /\ prim_cdr(l).kind = "crash"
<1>1. B \in Nat /\ Len(q) \in Nat BY ArgIs
<1>2. CASE Len(q) = 0
  <2>1. First(l) = NULL BY <1>2, ArgumentsAre
  <2>2. prim_car(l) = Crashes /\ prim_cdr(l) = Crashes BY <2>1 DEF prim_car, prim_cdr
  <2>3. prim_cons(l) = Error BY <1>2, ArgumentsAre DEF prim_cons
  <2> QED BY <1>1, <1>2, <2>2, <2>3, Answers, Kinds
<1>3. CASE Len(q) # 0
  <2>1. First(l) = q[1] /\ q[1] # NULL BY <1>1, <1>3, ArgumentsAre, ArgIs
  <2>2. Answer(prim_car(l), B) /\ (prim_car(l).kind = "error" <=> ~IsPair(q[1]))
    BY <1>1, <2>1, Answers, Kinds DEF prim_car
  <2>3. Answer(prim_cdr(l), B) /\ (prim_cdr(l).kind = "error" <=> ~IsPair(q[1]))
    BY <1>1, <2>1, Answers, Kinds DEF prim_cdr
  <2>4. CASE Len(q) = 2
    <3>1. get_list_length(l) = 2 /\ Second(l) = q[2] /\ Held(q[1], B) /\ Held(q[2], B)
      BY <2>4, ArgumentsAre, ArgIs
    <3>2. prim_cons(l) = Makes([tag |-> "CELL", car |-> q[1], cdr |-> q[2]])
      BY <2>1, <3>1 DEF prim_cons
    <3> QED BY <1>1, <1>3, <2>2, <2>3, <2>4, <3>1, <3>2, Answers, Kinds
  <2>5. CASE Len(q) # 2
    <3>1. prim_cons(l) = Error BY <2>5, ArgumentsAre DEF prim_cons
    <3> QED BY <1>1, <1>3, <2>2, <2>3, <2>5, <3>1, Answers, Kinds
  <2> QED BY <2>4, <2>5
<1> QED BY <1>2, <1>3

LEMMA EqualityFine ==
  ASSUME NEW q, NEW l, NEW B, Passing(q, l, B)
  PROVE  /\ Answer(prim_eq(l), B) /\ Answer(prim_eqv(l), B) /\ Answer(prim_equal(l), B)
         /\ prim_eq(l).kind = "error" <=> Len(q) # 2
         /\ prim_eqv(l).kind = "error" <=> Len(q) # 2
         /\ prim_equal(l).kind = "error" <=> Len(q) # 2
<1>1. B \in Nat /\ get_list_length(l) = Len(q) BY ArgIs, ArgumentsAre
<1>2. Answer(prim_eq(l), B) /\ (prim_eq(l).kind = "error" <=> Len(q) # 2)
  BY <1>1, Answers, Kinds DEF prim_eq
<1>3. Answer(prim_eqv(l), B) /\ (prim_eqv(l).kind = "error" <=> Len(q) # 2)
  BY <1>1, Answers, Kinds DEF prim_eqv
<1>4. Answer(prim_equal(l), B) /\ (prim_equal(l).kind = "error" <=> Len(q) # 2)
  <2> DEFINE same == equal(First(l), Second(l))
  <2>1. prim_equal(l) = IF Len(q) # 2 THEN Error
                        ELSE IF same = "crash" THEN Crashes ELSE Truth(same = "true")
    BY <1>1 DEF prim_equal
  <2> HIDE DEF same
  <2>2. CASE Len(q) # 2 BY <1>1, <2>1, <2>2, Answers, Kinds
  <2>3. CASE Len(q) = 2 /\ same = "crash" BY <1>1, <2>1, <2>3, Answers, Kinds
  <2>4. CASE Len(q) = 2 /\ same # "crash" BY <1>1, <2>1, <2>4, Answers, Kinds
  <2> QED BY <2>2, <2>3, <2>4
<1> QED BY <1>2, <1>3, <1>4

-----------------------------------------------------------------------------
(* Sums and products: Wrapped by the code, Total on the integers.  The     *)
(* numbers x[1] .. x[n] are those of the arguments.                        *)

AllCongruent(f, g, n) == \A k \in 0 .. n : Congruent(f[k], g[k])

LEMMA Folding ==
  ASSUME NEW n \in Nat, NEW z \in Int, NEW f, f[0] = z,
         \A k \in 1 .. n : f[k - 1] \in Int => f[k] \in Int
  PROVE  \A k \in 0 .. n : f[k] \in Int
<1>1. 0 \in Nat /\ n \in Nat OBVIOUS
<1>2. \A k \in 0 + 1 .. n : f[k - 1] \in Int => f[k] \in Int OBVIOUS
<1>3. Stays(f, 0, n, Int) BY <1>2 DEF Stays
<1> QED BY <1>1, <1>3, Along, Zenon

LEMMA Steps ==
  ASSUME NEW n \in Nat, NEW z \in Int, NEW step \in [1 .. n -> [Int -> Int]]
  PROVE  \E f \in [0 .. n -> Int] : \A k \in 0 .. n : f[k] = IF k = 0 THEN z ELSE step[k][f[k - 1]]
<1>1. 0 \in Nat /\ n \in Nat /\ 0 <= n /\ step \in [0 + 1 .. n -> [Int -> Int]] OBVIOUS
<1>2. PICK f : Iterates(f, 0, n, Int, z, step) BY <1>1, Iteration, Zenon
<1> QED BY <1>2 DEF Iterates

LEMMA SamePoints ==
  ASSUME NEW n \in Nat, NEW f, NEW g, Congruent(f[0], g[0]),
         \A k \in 1 .. n : Congruent(f[k - 1], g[k - 1]) => Congruent(f[k], g[k])
  PROVE  AllCongruent(f, g, n)
<1> DEFINE S == {k \in Nat : k <= n => Congruent(f[k], g[k])}
<1>1. 0 \in S OBVIOUS
<1>2. ASSUME NEW k \in Nat, k \in S PROVE k + 1 \in S
  <2> SUFFICES ASSUME k + 1 <= n PROVE Congruent(f[k + 1], g[k + 1]) OBVIOUS
  <2>1. k + 1 \in 1 .. n /\ (k + 1) - 1 = k /\ k <= n OBVIOUS
  <2>2. Congruent(f[k], g[k]) BY <1>2, <2>1
  <2> QED BY <2>1, <2>2
<1> HIDE DEF S
<1>3. Nat \subseteq S BY <1>1, <1>2, NatInd
<1>4. ASSUME NEW k \in 0 .. n PROVE Congruent(f[k], g[k])
  <2>1. k \in S /\ k <= n BY <1>3
  <2> QED BY <2>1 DEF S
<1> QED BY <1>4 DEF AllCongruent

WrappedSum(f, x, n) == f = [k \in 0 .. n |-> IF k = 0 THEN 0 ELSE ToSigned(f[k - 1] + x[k])]
TotalSum(f, x, n) == f = [k \in 0 .. n |-> IF k = 0 THEN 0 ELSE f[k - 1] + x[k]]
LEMMA Sums ==
  ASSUME NEW n \in Nat, NEW x \in [1 .. n -> Int]
  PROVE  /\ \E f : WrappedSum(f, x, n)
         /\ \E g : TotalSum(g, x, n)
         /\ \A f, g : WrappedSum(f, x, n) /\ TotalSum(g, x, n) =>
              f[n] \in Int /\ g[n] \in Int /\ AllCongruent(f, g, n)
<1>1. \A a, b \in Int : ToSigned(a + b) \in Int /\ Congruent(ToSigned(a + b), a + b) BY Wraps
<1>2. \E f : WrappedSum(f, x, n)
  <2> DEFINE step == [k \in 1 .. n |-> [a \in Int |-> ToSigned(a + x[k])]]
  <2>1. step \in [1 .. n -> [Int -> Int]] BY <1>1
  <2>2. \A k \in 1 .. n : \A a \in Int : step[k][a] = ToSigned(a + x[k]) OBVIOUS
  <2>3. 0 \in Int OBVIOUS
  <2> HIDE DEF step
  <2>4. PICK f \in [0 .. n -> Int] : \A k \in 0 .. n : f[k] = IF k = 0 THEN 0 ELSE step[k][f[k - 1]]
    BY <2>1, <2>3, Steps, Zenon
  <2>5. ASSUME NEW k \in 0 .. n, k # 0 PROVE f[k] = ToSigned(f[k - 1] + x[k])
    <3>1. k \in 1 .. n /\ k - 1 \in 0 .. n BY <2>5
    <3> QED BY <2>2, <2>4, <2>5, <3>1
  <2>6. \A k \in 0 .. n : f[k] = IF k = 0 THEN 0 ELSE ToSigned(f[k - 1] + x[k]) BY <2>4, <2>5
  <2>7. f = [k \in 0 .. n |-> f[k]] BY <2>4
  <2> QED BY <2>6, <2>7 DEF WrappedSum
<1>3. \E g : TotalSum(g, x, n)
  <2> DEFINE step == [k \in 1 .. n |-> [a \in Int |-> a + x[k]]]
  <2>1. step \in [1 .. n -> [Int -> Int]] OBVIOUS
  <2>2. \A k \in 1 .. n : \A a \in Int : step[k][a] = a + x[k] OBVIOUS
  <2>3. 0 \in Int OBVIOUS
  <2> HIDE DEF step
  <2>4. PICK f \in [0 .. n -> Int] : \A k \in 0 .. n : f[k] = IF k = 0 THEN 0 ELSE step[k][f[k - 1]]
    BY <2>1, <2>3, Steps, Zenon
  <2>5. ASSUME NEW k \in 0 .. n, k # 0 PROVE f[k] = f[k - 1] + x[k]
    <3>1. k \in 1 .. n /\ k - 1 \in 0 .. n BY <2>5
    <3> QED BY <2>2, <2>4, <2>5, <3>1
  <2>6. \A k \in 0 .. n : f[k] = IF k = 0 THEN 0 ELSE f[k - 1] + x[k] BY <2>4, <2>5
  <2>7. f = [k \in 0 .. n |-> f[k]] BY <2>4
  <2> QED BY <2>6, <2>7 DEF TotalSum
<1>4. ASSUME NEW f, NEW g, WrappedSum(f, x, n), TotalSum(g, x, n)
      PROVE  f[n] \in Int /\ g[n] \in Int /\ AllCongruent(f, g, n)
  <2>1. \A k \in 0 .. n : f[k] = IF k = 0 THEN 0 ELSE ToSigned(f[k - 1] + x[k])
    BY <1>4 DEF WrappedSum
  <2>2. \A k \in 0 .. n : g[k] = IF k = 0 THEN 0 ELSE g[k - 1] + x[k] BY <1>4 DEF TotalSum
  <2>3. 0 \in 0 .. n /\ n \in 0 .. n /\ 0 \in Int OBVIOUS
  <2>4. \A k \in 1 .. n : k \in 0 .. n /\ k # 0 /\ k - 1 \in 0 .. n /\ x[k] \in Int OBVIOUS
  <2>5. f[0] = 0 /\ g[0] = 0 BY <2>1, <2>2, <2>3
  <2>6. \A k \in 1 .. n : f[k] = ToSigned(f[k - 1] + x[k]) /\ g[k] = g[k - 1] + x[k]
    BY <2>1, <2>2, <2>4
  <2>7. \A k \in 0 .. n : f[k] \in Int
    <3>1. \A k \in 1 .. n : f[k - 1] \in Int => f[k] \in Int BY <1>1, <2>4, <2>6
    <3> QED BY <2>3, <2>5, <3>1, Folding, Zenon
  <2>8. \A k \in 0 .. n : g[k] \in Int
    <3>1. \A k \in 1 .. n : g[k - 1] \in Int => g[k] \in Int BY <2>4, <2>6
    <3> QED BY <2>3, <2>5, <3>1, Folding, Zenon
  <2>9. ASSUME NEW k \in 1 .. n, Congruent(f[k - 1], g[k - 1]) PROVE Congruent(f[k], g[k])
    <3>1. f[k - 1] \in Int /\ g[k - 1] \in Int /\ x[k] \in Int BY <2>4, <2>7, <2>8
    <3>2. Congruent(f[k - 1] + x[k], g[k - 1] + x[k]) BY <2>9, <3>1, Congruences
    <3>3. f[k] = ToSigned(f[k - 1] + x[k]) /\ g[k] = g[k - 1] + x[k] BY <2>6
    <3>4. Congruent(f[k], f[k - 1] + x[k]) /\ f[k] \in Int BY <3>1, <3>3, <1>1
    <3>5. f[k - 1] + x[k] \in Int /\ g[k - 1] + x[k] \in Int BY <3>1
    <3>6. Congruent(f[k], g[k - 1] + x[k]) BY <3>2, <3>4, <3>5, Congruences
    <3> QED BY <3>3, <3>6
  <2>10. Congruent(f[0], g[0]) BY <2>5, <2>3, Congruences
  <2>11. AllCongruent(f, g, n) BY <2>9, <2>10, SamePoints
  <2> QED BY <2>3, <2>7, <2>8, <2>11
<1> QED BY <1>2, <1>3, <1>4

WrappedProduct(f, x, n) == f = [k \in 0 .. n |-> IF k = 0 THEN 1 ELSE ToSigned(f[k - 1] * x[k])]
TotalProduct(f, x, n) == f = [k \in 0 .. n |-> IF k = 0 THEN 1 ELSE f[k - 1] * x[k]]
LEMMA Products ==
  ASSUME NEW n \in Nat, NEW x \in [1 .. n -> Int]
  PROVE  /\ \E f : WrappedProduct(f, x, n)
         /\ \E g : TotalProduct(g, x, n)
         /\ \A f, g : WrappedProduct(f, x, n) /\ TotalProduct(g, x, n) =>
              f[n] \in Int /\ g[n] \in Int /\ AllCongruent(f, g, n)
<1>1. \A a, b \in Int : ToSigned(a * b) \in Int /\ Congruent(ToSigned(a * b), a * b) BY Wraps
<1>2. \E f : WrappedProduct(f, x, n)
  <2> DEFINE step == [k \in 1 .. n |-> [a \in Int |-> ToSigned(a * x[k])]]
  <2>1. step \in [1 .. n -> [Int -> Int]] BY <1>1
  <2>2. \A k \in 1 .. n : \A a \in Int : step[k][a] = ToSigned(a * x[k]) OBVIOUS
  <2>3. 1 \in Int OBVIOUS
  <2> HIDE DEF step
  <2>4. PICK f \in [0 .. n -> Int] : \A k \in 0 .. n : f[k] = IF k = 0 THEN 1 ELSE step[k][f[k - 1]]
    BY <2>1, <2>3, Steps, Zenon
  <2>5. ASSUME NEW k \in 0 .. n, k # 0 PROVE f[k] = ToSigned(f[k - 1] * x[k])
    <3>1. k \in 1 .. n /\ k - 1 \in 0 .. n BY <2>5
    <3> QED BY <2>2, <2>4, <2>5, <3>1
  <2>6. \A k \in 0 .. n : f[k] = IF k = 0 THEN 1 ELSE ToSigned(f[k - 1] * x[k]) BY <2>4, <2>5
  <2>7. f = [k \in 0 .. n |-> f[k]] BY <2>4
  <2> QED BY <2>6, <2>7 DEF WrappedProduct
<1>3. \E g : TotalProduct(g, x, n)
  <2> DEFINE step == [k \in 1 .. n |-> [a \in Int |-> a * x[k]]]
  <2>1. step \in [1 .. n -> [Int -> Int]] OBVIOUS
  <2>2. \A k \in 1 .. n : \A a \in Int : step[k][a] = a * x[k] OBVIOUS
  <2>3. 1 \in Int OBVIOUS
  <2> HIDE DEF step
  <2>4. PICK f \in [0 .. n -> Int] : \A k \in 0 .. n : f[k] = IF k = 0 THEN 1 ELSE step[k][f[k - 1]]
    BY <2>1, <2>3, Steps, Zenon
  <2>5. ASSUME NEW k \in 0 .. n, k # 0 PROVE f[k] = f[k - 1] * x[k]
    <3>1. k \in 1 .. n /\ k - 1 \in 0 .. n BY <2>5
    <3> QED BY <2>2, <2>4, <2>5, <3>1
  <2>6. \A k \in 0 .. n : f[k] = IF k = 0 THEN 1 ELSE f[k - 1] * x[k] BY <2>4, <2>5
  <2>7. f = [k \in 0 .. n |-> f[k]] BY <2>4
  <2> QED BY <2>6, <2>7 DEF TotalProduct
<1>4. ASSUME NEW f, NEW g, WrappedProduct(f, x, n), TotalProduct(g, x, n)
      PROVE  f[n] \in Int /\ g[n] \in Int /\ AllCongruent(f, g, n)
  <2>1. \A k \in 0 .. n : f[k] = IF k = 0 THEN 1 ELSE ToSigned(f[k - 1] * x[k])
    BY <1>4 DEF WrappedProduct
  <2>2. \A k \in 0 .. n : g[k] = IF k = 0 THEN 1 ELSE g[k - 1] * x[k] BY <1>4 DEF TotalProduct
  <2>3. 0 \in 0 .. n /\ n \in 0 .. n /\ 1 \in Int OBVIOUS
  <2>4. \A k \in 1 .. n : k \in 0 .. n /\ k # 0 /\ k - 1 \in 0 .. n /\ x[k] \in Int OBVIOUS
  <2>5. f[0] = 1 /\ g[0] = 1 BY <2>1, <2>2, <2>3
  <2>6. \A k \in 1 .. n : f[k] = ToSigned(f[k - 1] * x[k]) /\ g[k] = g[k - 1] * x[k]
    BY <2>1, <2>2, <2>4
  <2>7. \A k \in 0 .. n : f[k] \in Int
    <3>1. \A k \in 1 .. n : f[k - 1] \in Int => f[k] \in Int BY <1>1, <2>4, <2>6
    <3> QED BY <2>3, <2>5, <3>1, Folding, Zenon
  <2>8. \A k \in 0 .. n : g[k] \in Int
    <3>1. \A k \in 1 .. n : g[k - 1] \in Int => g[k] \in Int BY <2>4, <2>6
    <3> QED BY <2>3, <2>5, <3>1, Folding, Zenon
  <2>9. ASSUME NEW k \in 1 .. n, Congruent(f[k - 1], g[k - 1]) PROVE Congruent(f[k], g[k])
    <3>1. f[k - 1] \in Int /\ g[k - 1] \in Int /\ x[k] \in Int BY <2>4, <2>7, <2>8
    <3>2. Congruent(f[k - 1] * x[k], g[k - 1] * x[k]) BY <2>9, <3>1, Congruences
    <3>3. f[k] = ToSigned(f[k - 1] * x[k]) /\ g[k] = g[k - 1] * x[k] BY <2>6
    <3>4. Congruent(f[k], f[k - 1] * x[k]) /\ f[k] \in Int BY <3>1, <3>3, <1>1
    <3>5. f[k - 1] * x[k] \in Int /\ g[k - 1] * x[k] \in Int BY <3>1
    <3>6. Congruent(f[k], g[k - 1] * x[k]) BY <3>2, <3>4, <3>5, Congruences
    <3> QED BY <3>3, <3>6
  <2>10. Congruent(f[0], g[0]) BY <2>5, <2>3, Congruences
  <2>11. AllCongruent(f, g, n) BY <2>9, <2>10, SamePoints
  <2> QED BY <2>3, <2>7, <2>8, <2>11
<1> QED BY <1>2, <1>3, <1>4

WrappedDifference(f, x, n) ==
  f = [k \in 1 .. n |-> IF k = 1 THEN x[1] ELSE ToSigned(f[k - 1] - x[k])]
LEMMA Differences ==
  ASSUME NEW n \in Nat \ {0}, NEW x \in [1 .. n -> Int]
  PROVE  /\ \E f : WrappedDifference(f, x, n)
         /\ \A f, g : WrappedDifference(f, x, n) /\ TotalSum(g, x, n) =>
              f[n] \in Int /\ g[n] \in Int /\ Congruent(f[n], 2 * x[1] - g[n])
<1>1. \A a, b \in Int : ToSigned(a - b) \in Int /\ Congruent(ToSigned(a - b), a - b) BY Wraps
<1>2. 1 \in 1 .. n /\ n \in 1 .. n /\ x[1] \in Int /\ 1 \in Nat /\ n \in Nat /\ 1 <= n OBVIOUS
<1>3. \A k \in 1 + 1 .. n : k \in 1 .. n /\ k # 1 /\ k - 1 \in 1 .. n /\ x[k] \in Int OBVIOUS
<1>4. \E f : WrappedDifference(f, x, n)
  <2> DEFINE step == [k \in 1 + 1 .. n |-> [a \in Int |-> ToSigned(a - x[k])]]
  <2>1. step \in [1 + 1 .. n -> [Int -> Int]] BY <1>1, <1>3
  <2>2. \A k \in 1 + 1 .. n : \A a \in Int : step[k][a] = ToSigned(a - x[k]) OBVIOUS
  <2> HIDE DEF step
  <2>3. PICK f : Iterates(f, 1, n, Int, x[1], step) BY <2>1, <1>2, Iteration, Zenon
  <2>4. /\ f \in [1 .. n -> Int]
        /\ \A k \in 1 .. n : f[k] = IF k = 1 THEN x[1] ELSE step[k][f[k - 1]]
    BY <2>3 DEF Iterates
  <2>5. ASSUME NEW k \in 1 .. n, k # 1 PROVE f[k] = ToSigned(f[k - 1] - x[k])
    <3>1. k \in 1 + 1 .. n BY <2>5
    <3>2. f[k] = step[k][f[k - 1]] /\ f[k - 1] \in Int BY <1>3, <2>4, <2>5, <3>1
    <3> QED BY <2>2, <3>1, <3>2
  <2>6. \A k \in 1 .. n : f[k] = IF k = 1 THEN x[1] ELSE ToSigned(f[k - 1] - x[k]) BY <2>4, <2>5
  <2>7. f = [k \in 1 .. n |-> f[k]] BY <2>4
  <2> QED BY <2>6, <2>7 DEF WrappedDifference
<1>5. ASSUME NEW f, NEW g, WrappedDifference(f, x, n), TotalSum(g, x, n)
      PROVE  f[n] \in Int /\ g[n] \in Int /\ Congruent(f[n], 2 * x[1] - g[n])
  <2>1. \A k \in 1 .. n : f[k] = IF k = 1 THEN x[1] ELSE ToSigned(f[k - 1] - x[k])
    BY <1>5 DEF WrappedDifference
  <2>2. \A k \in 0 .. n : g[k] = IF k = 0 THEN 0 ELSE g[k - 1] + x[k] BY <1>5 DEF TotalSum
  <2>3. g[0] = 0 /\ g[1] = x[1]
    <3>1. 0 \in 0 .. n /\ 1 \in 0 .. n /\ 1 - 1 = 0 BY <1>2
    <3>2. g[0] = 0 /\ g[1] = g[0] + x[1] BY <2>2, <3>1
    <3> QED BY <3>2, <1>2
  <2> DEFINE Q == {k \in Nat : k + 1 <= n => /\ f[k + 1] \in Int /\ g[k + 1] \in Int
                                             /\ Congruent(f[k + 1], 2 * x[1] - g[k + 1])}
  <2>4. 0 \in Q
    <3>1. f[1] = x[1] BY <2>1, <1>2
    <3>2. 2 * x[1] - g[1] = x[1] BY <2>3, <1>2
    <3>3. Congruent(x[1], x[1]) BY <1>2, Congruences
    <3> QED BY <3>1, <3>2, <3>3, <2>3, <1>2
  <2>5. ASSUME NEW k \in Nat, k \in Q PROVE k + 1 \in Q
    <3> SUFFICES ASSUME (k + 1) + 1 <= n
                 PROVE  /\ f[(k + 1) + 1] \in Int /\ g[(k + 1) + 1] \in Int
                        /\ Congruent(f[(k + 1) + 1], 2 * x[1] - g[(k + 1) + 1])
      OBVIOUS
    <3> DEFINE i == (k + 1) + 1
    <3>1. i \in 1 + 1 .. n /\ i - 1 = k + 1 /\ k + 1 <= n /\ i \in 0 .. n /\ i # 0 OBVIOUS
    <3>2. /\ f[i - 1] \in Int /\ g[i - 1] \in Int
          /\ Congruent(f[i - 1], 2 * x[1] - g[i - 1])
      BY <2>5, <3>1
    <3> HIDE DEF i
    <3>3. f[i] = ToSigned(f[i - 1] - x[i]) /\ g[i] = g[i - 1] + x[i] /\ x[i] \in Int
      BY <3>1, <1>3, <2>1, <2>2
    <3>4. f[i] \in Int /\ Congruent(f[i], f[i - 1] - x[i]) BY <3>2, <3>3, <1>1
    <3>5. 2 * x[1] - g[i - 1] \in Int /\ f[i - 1] - x[i] \in Int BY <3>2, <3>3, <1>2
    <3>6. Congruent(f[i - 1] - x[i], (2 * x[1] - g[i - 1]) - x[i])
      <4> DEFINE a == f[i - 1]
                 b == 2 * x[1] - g[i - 1]
                 c == x[i]
      <4>1. a \in Int /\ b \in Int /\ c \in Int /\ Congruent(a, b) BY <3>2, <3>3, <3>5
      <4> HIDE DEF a, b, c
      <4>2. Congruent(a - c, b - c) BY <4>1, Congruences
      <4> QED BY <4>2 DEF a, b, c
    <3>7. (2 * x[1] - g[i - 1]) - x[i] = 2 * x[1] - g[i] /\ 2 * x[1] - g[i] \in Int /\ g[i] \in Int
      BY <3>2, <3>3, <1>2
    <3>8. Congruent(f[i], 2 * x[1] - g[i]) BY <3>4, <3>5, <3>6, <3>7, Congruences
    <3> QED BY <3>4, <3>7, <3>8 DEF i
  <2> HIDE DEF Q
  <2>6. Nat \subseteq Q BY <2>4, <2>5, NatInd
  <2>7. n - 1 \in Q /\ (n - 1) + 1 = n BY <2>6, <1>2
  <2> QED BY <2>7, <1>2 DEF Q
<1> QED BY <1>4, <1>5

(* What Sum and Product are, before and after a call. *)
NumbersOf(q, x) ==
  Len(q) \in Nat /\ x \in [1 .. Len(q) -> Int] /\ \A k \in 1 .. Len(q) : IntOf(q[k]) = x[k]
SumsTotal ==
  \A q, x : NumbersOf(q, x) => \E g : TotalSum(g, x, Len(q)) /\ Sum(q) = g[Len(q)]
ProductsTotal ==
  \A q, x : NumbersOf(q, x) => \E g : TotalProduct(g, x, Len(q)) /\ Product(q) = g[Len(q)]

LEMMA SumIs == SumsTotal
<1> SUFFICES ASSUME NEW q, NEW x, NumbersOf(q, x)
             PROVE  \E g : TotalSum(g, x, Len(q)) /\ Sum(q) = g[Len(q)]
  BY DEF SumsTotal
<1> DEFINE n == Len(q)
           sum == CHOOSE f : f = [k \in 0 .. n |-> IF k = 0 THEN 0 ELSE f[k - 1] + IntOf(q[k])]
<1>1. n \in Nat /\ x \in [1 .. n -> Int] /\ \A k \in 1 .. n : IntOf(q[k]) = x[k] BY DEF NumbersOf
<1> HIDE DEF n
<1>2. ASSUME NEW f
      PROVE  TotalSum(f, x, n) <=>
               f = [k \in 0 .. n |-> IF k = 0 THEN 0 ELSE f[k - 1] + IntOf(q[k])]
  <2>1. \A k \in 0 .. n : k = 0 \/ k \in 1 .. n BY <1>1
  <2>2. [k \in 0 .. n |-> IF k = 0 THEN 0 ELSE f[k - 1] + IntOf(q[k])]
        = [k \in 0 .. n |-> IF k = 0 THEN 0 ELSE f[k - 1] + x[k]]
    BY <1>1, <2>1
  <2> QED BY <2>2 DEF TotalSum
<1>3. \E f : TotalSum(f, x, n) BY <1>1, Sums
<1>4. \E f : f = [k \in 0 .. n |-> IF k = 0 THEN 0 ELSE f[k - 1] + IntOf(q[k])] BY <1>2, <1>3
<1>5. sum = [k \in 0 .. n |-> IF k = 0 THEN 0 ELSE sum[k - 1] + IntOf(q[k])] BY <1>4
<1>6. Sum(q) = sum[n] BY DEF Sum, n
<1> HIDE DEF sum
<1>7. TotalSum(sum, x, n) BY <1>2, <1>5
<1> QED BY <1>6, <1>7 DEF n

LEMMA ProductIs == ProductsTotal
<1> SUFFICES ASSUME NEW q, NEW x, NumbersOf(q, x)
             PROVE  \E g : TotalProduct(g, x, Len(q)) /\ Product(q) = g[Len(q)]
  BY DEF ProductsTotal
<1> DEFINE n == Len(q)
           prod == CHOOSE f : f = [k \in 0 .. n |-> IF k = 0 THEN 1 ELSE f[k - 1] * IntOf(q[k])]
<1>1. n \in Nat /\ x \in [1 .. n -> Int] /\ \A k \in 1 .. n : IntOf(q[k]) = x[k] BY DEF NumbersOf
<1> HIDE DEF n
<1>2. ASSUME NEW f
      PROVE  TotalProduct(f, x, n) <=>
               f = [k \in 0 .. n |-> IF k = 0 THEN 1 ELSE f[k - 1] * IntOf(q[k])]
  <2>1. \A k \in 0 .. n : k = 0 \/ k \in 1 .. n BY <1>1
  <2>2. [k \in 0 .. n |-> IF k = 0 THEN 1 ELSE f[k - 1] * IntOf(q[k])]
        = [k \in 0 .. n |-> IF k = 0 THEN 1 ELSE f[k - 1] * x[k]]
    BY <1>1, <2>1
  <2> QED BY <2>2 DEF TotalProduct
<1>3. \E f : TotalProduct(f, x, n) BY <1>1, Products
<1>4. \E f : f = [k \in 0 .. n |-> IF k = 0 THEN 1 ELSE f[k - 1] * IntOf(q[k])] BY <1>2, <1>3
<1>5. prod = [k \in 0 .. n |-> IF k = 0 THEN 1 ELSE prod[k - 1] * IntOf(q[k])] BY <1>4
<1>6. Product(q) = prod[n] BY DEF Product, n
<1> HIDE DEF prod
<1>7. TotalProduct(prod, x, n) BY <1>2, <1>5
<1> QED BY <1>6, <1>7 DEF n

LEMMA TotalsNext == SumsTotal' /\ ProductsTotal'
<1>1. SumsTotal' BY SumIs, PTL
<1>2. ProductsTotal' BY ProductIs, PTL
<1> QED BY <1>1, <1>2

(* The results of the primitives, from the wrapped sums. *)
Numbers(q) == [k \in 1 .. Len(q) |-> IntOf(q[k])]
AllInts(q) == \A k \in 1 .. Len(q) : IsInt(q[k])

LEMMA NumbersAre ==
  ASSUME NEW q, NEW l, NEW B, Passing(q, l, B), AllInts(q)
  PROVE  NumbersOf(q, Numbers(q))
<1>1. Len(q) \in Nat /\ \A k \in 1 .. Len(q) : IntOf(q[k]) \in Int
  BY ArgIs, ValueIs DEF AllInts
<1>2. /\ Numbers(q) \in [1 .. Len(q) -> Int]
      /\ \A k \in 1 .. Len(q) : Numbers(q)[k] = IntOf(q[k])
  BY <1>1 DEF Numbers
<1> QED BY <1>1, <1>2 DEF NumbersOf

LEMMA PlusIs ==
  ASSUME NEW q, NEW l, NEW B, Passing(q, l, B)
  PROVE  /\ ~AllInts(q) => prim_plus(l) = Error
         /\ AllInts(q) =>
              \E f : WrappedSum(f, Numbers(q), Len(q)) /\ prim_plus(l) = Integer(f[Len(q)])
<1> DEFINE n == Len(q)
           x == Numbers(q)
           total(e) ==
             CHOOSE f : f = [k \in 0 .. Len(e) |-> IF k = 0 THEN 0
                            ELSE ToSigned(f[k - 1] + IntOf(e[k]))]
           sum == total(q)
<1>1. n \in Nat /\ DOMAIN q = 1 .. n BY ArgIs
<1>2. prim_plus(l) = IF \E k \in DOMAIN q : ~IsInt(q[k]) THEN Error ELSE Integer(sum[n])
  <2> DEFINE e == Elements(l)
  <2>1. e = q BY ArgumentsAre
  <2>2. prim_plus(l) = IF \E k \in DOMAIN e : ~IsInt(e[k]) THEN Error ELSE Integer(total(e)[Len(e)])
    BY DEF prim_plus
  <2> HIDE DEF e, total
  <2> QED BY <2>1, <2>2
<1> HIDE DEF n
<1>3. ASSUME ~AllInts(q) PROVE prim_plus(l) = Error BY <1>1, <1>2, <1>3 DEF AllInts, n
<1>4. ASSUME AllInts(q) PROVE \E f : WrappedSum(f, x, n) /\ prim_plus(l) = Integer(f[n])
  <2>1. prim_plus(l) = Integer(sum[n]) BY <1>1, <1>2, <1>4 DEF AllInts, n
  <2>2. x \in [1 .. n -> Int] /\ \A k \in 1 .. n : IntOf(q[k]) = x[k]
    BY <1>4, NumbersAre DEF NumbersOf, n
  <2> HIDE DEF x
  <2>3. ASSUME NEW f
        PROVE  WrappedSum(f, x, n) <=>
                 f = [k \in 0 .. n |-> IF k = 0 THEN 0 ELSE ToSigned(f[k - 1] + IntOf(q[k]))]
    <3>1. \A k \in 0 .. n : k = 0 \/ k \in 1 .. n BY <1>1
    <3>2. [k \in 0 .. n |-> IF k = 0 THEN 0 ELSE ToSigned(f[k - 1] + IntOf(q[k]))]
          = [k \in 0 .. n |-> IF k = 0 THEN 0 ELSE ToSigned(f[k - 1] + x[k])]
      BY <2>2, <3>1
    <3> QED BY <3>2 DEF WrappedSum
  <2>4. \E f : WrappedSum(f, x, n) BY <1>1, <2>2, Sums
  <2>5. \E f : f = [k \in 0 .. n |-> IF k = 0 THEN 0 ELSE ToSigned(f[k - 1] + IntOf(q[k]))]
    BY <2>3, <2>4
  <2>6. sum = [k \in 0 .. n |-> IF k = 0 THEN 0 ELSE ToSigned(sum[k - 1] + IntOf(q[k]))]
    BY <2>5 DEF n
  <2> HIDE DEF sum
  <2>7. WrappedSum(sum, x, n) BY <2>3, <2>6
  <2> QED BY <2>1, <2>7
<1> QED BY <1>3, <1>4 DEF n

LEMMA TimesIs ==
  ASSUME NEW q, NEW l, NEW B, Passing(q, l, B)
  PROVE  /\ ~AllInts(q) => prim_times(l) = Error
         /\ AllInts(q) =>
              \E f : WrappedProduct(f, Numbers(q), Len(q)) /\ prim_times(l) = Integer(f[Len(q)])
<1> DEFINE n == Len(q)
           x == Numbers(q)
           total(e) ==
             CHOOSE f : f = [k \in 0 .. Len(e) |-> IF k = 0 THEN 1
                            ELSE ToSigned(f[k - 1] * IntOf(e[k]))]
           prod == total(q)
<1>1. n \in Nat /\ DOMAIN q = 1 .. n BY ArgIs
<1>2. prim_times(l) = IF \E k \in DOMAIN q : ~IsInt(q[k]) THEN Error ELSE Integer(prod[n])
  <2> DEFINE e == Elements(l)
  <2>1. e = q BY ArgumentsAre
  <2>2. prim_times(l) = IF \E k \in DOMAIN e : ~IsInt(e[k]) THEN Error ELSE Integer(total(e)[Len(e)])
    BY DEF prim_times
  <2> HIDE DEF e, total
  <2> QED BY <2>1, <2>2
<1> HIDE DEF n
<1>3. ASSUME ~AllInts(q) PROVE prim_times(l) = Error BY <1>1, <1>2, <1>3 DEF AllInts, n
<1>4. ASSUME AllInts(q) PROVE \E f : WrappedProduct(f, x, n) /\ prim_times(l) = Integer(f[n])
  <2>1. prim_times(l) = Integer(prod[n]) BY <1>1, <1>2, <1>4 DEF AllInts, n
  <2>2. x \in [1 .. n -> Int] /\ \A k \in 1 .. n : IntOf(q[k]) = x[k]
    BY <1>4, NumbersAre DEF NumbersOf, n
  <2> HIDE DEF x
  <2>3. ASSUME NEW f
        PROVE  WrappedProduct(f, x, n) <=>
                 f = [k \in 0 .. n |-> IF k = 0 THEN 1 ELSE ToSigned(f[k - 1] * IntOf(q[k]))]
    <3>1. \A k \in 0 .. n : k = 0 \/ k \in 1 .. n BY <1>1
    <3>2. [k \in 0 .. n |-> IF k = 0 THEN 1 ELSE ToSigned(f[k - 1] * IntOf(q[k]))]
          = [k \in 0 .. n |-> IF k = 0 THEN 1 ELSE ToSigned(f[k - 1] * x[k])]
      BY <2>2, <3>1
    <3> QED BY <3>2 DEF WrappedProduct
  <2>4. \E f : WrappedProduct(f, x, n) BY <1>1, <2>2, Products
  <2>5. \E f : f = [k \in 0 .. n |-> IF k = 0 THEN 1 ELSE ToSigned(f[k - 1] * IntOf(q[k]))]
    BY <2>3, <2>4
  <2>6. prod = [k \in 0 .. n |-> IF k = 0 THEN 1 ELSE ToSigned(prod[k - 1] * IntOf(q[k]))]
    BY <2>5 DEF n
  <2> HIDE DEF prod
  <2>7. WrappedProduct(prod, x, n) BY <2>3, <2>6
  <2> QED BY <2>1, <2>7
<1> QED BY <1>3, <1>4 DEF n

LEMMA MinusIs ==
  ASSUME NEW q, NEW l, NEW B, Passing(q, l, B)
  PROVE  /\ Len(q) = 0 \/ ~AllInts(q) => prim_minus(l) = Error
         /\ Len(q) = 1 /\ AllInts(q) => prim_minus(l) = Integer(-IntOf(q[1]))
         /\ Len(q) > 1 /\ AllInts(q) =>
              \E f : /\ WrappedDifference(f, Numbers(q), Len(q))
                     /\ prim_minus(l) = Integer(f[Len(q)])
<1> DEFINE n == Len(q)
           x == Numbers(q)
           total(e) ==
             CHOOSE f : f = [k \in 1 .. Len(e) |-> IF k = 1 THEN IntOf(e[1])
                            ELSE ToSigned(f[k - 1] - IntOf(e[k]))]
           rest == total(q)
<1>1. n \in Nat /\ DOMAIN q = 1 .. n BY ArgIs
<1>2. prim_minus(l) = IF q = <<>> \/ \E k \in DOMAIN q : ~IsInt(q[k]) THEN Error
                      ELSE Integer(IF n = 1 THEN -IntOf(q[1]) ELSE rest[n])
  <2> DEFINE e == Elements(l)
  <2>1. e = q BY ArgumentsAre
  <2>2. prim_minus(l) = IF e = <<>> \/ \E k \in DOMAIN e : ~IsInt(e[k]) THEN Error
                        ELSE Integer(IF Len(e) = 1 THEN -IntOf(e[1]) ELSE total(e)[Len(e)])
    BY DEF prim_minus
  <2> HIDE DEF e, total
  <2> QED BY <2>1, <2>2
<1> HIDE DEF n, rest
<1>3. q = <<>> <=> n = 0
  <2>1. q \in Seq(Elems(q)) BY Zenon DEF Passing
  <2> QED BY <2>1, EmptySeq DEF n
<1>4. ASSUME n = 0 \/ ~AllInts(q) PROVE prim_minus(l) = Error
  BY <1>1, <1>2, <1>3, <1>4 DEF AllInts, n
<1>5. ASSUME n = 1, AllInts(q) PROVE prim_minus(l) = Integer(-IntOf(q[1]))
  BY <1>1, <1>2, <1>3, <1>5 DEF AllInts, n
<1>6. ASSUME n > 1, AllInts(q)
      PROVE  \E f : WrappedDifference(f, x, n) /\ prim_minus(l) = Integer(f[n])
  <2>1. prim_minus(l) = Integer(rest[n])
    <3>1. n # 0 /\ n # 1 BY <1>1, <1>6
    <3> QED BY <1>1, <1>2, <1>3, <1>6, <3>1 DEF AllInts, n
  <2>2. x \in [1 .. n -> Int] /\ \A k \in 1 .. n : IntOf(q[k]) = x[k]
    BY <1>6, NumbersAre DEF NumbersOf, n
  <2> HIDE DEF x
  <2>3. ASSUME NEW f
        PROVE  WrappedDifference(f, x, n) <=>
                 f = [k \in 1 .. n |-> IF k = 1 THEN IntOf(q[1]) ELSE
                                       ToSigned(f[k - 1] - IntOf(q[k]))]
    <3>1. 1 \in 1 .. n BY <1>1, <1>6
    <3>2. [k \in 1 .. n |-> IF k = 1 THEN IntOf(q[1]) ELSE ToSigned(f[k - 1] - IntOf(q[k]))]
          = [k \in 1 .. n |-> IF k = 1 THEN x[1] ELSE ToSigned(f[k - 1] - x[k])]
      BY <2>2, <3>1
    <3> QED BY <3>2 DEF WrappedDifference
  <2>4. \E f : WrappedDifference(f, x, n)
    <3>1. n \in Nat \ {0} BY <1>1, <1>6
    <3> QED BY <3>1, <2>2, Differences
  <2>5. \E f : f = [k \in 1 .. n |-> IF k = 1 THEN IntOf(q[1]) ELSE
                                     ToSigned(f[k - 1] - IntOf(q[k]))]
    BY <2>3, <2>4
  <2>6. rest = [k \in 1 .. n |-> IF k = 1 THEN IntOf(q[1]) ELSE
                                 ToSigned(rest[k - 1] - IntOf(q[k]))]
    BY <2>5 DEF rest, n
  <2>7. WrappedDifference(rest, x, n) BY <2>3, <2>6
  <2> QED BY <2>1, <2>7
<1> QED BY <1>4, <1>5, <1>6 DEF n

-----------------------------------------------------------------------------
(* The division that rounds towards zero.                                  *)

LEMMA MagnitudeIs ==
  /\ \A n \in Int : /\ Magnitude(n) \in Nat
                    /\ n >= 0 => Magnitude(n) = n /\ Magnitude(-n) = n
                    /\ n < 0 => Magnitude(n) = -n /\ Magnitude(-n) = -n
                    /\ n # 0 => Magnitude(n) # 0
  BY DEF Magnitude

LEMMA QuotientIs ==
  ASSUME NEW a \in Int, NEW b \in Int, b # 0
  PROVE  /\ Quotient(a, b) \in Int
         /\ Truncating(a, b, Quotient(a, b))
         /\ \E q \in Nat :
              /\ Quotient(a, b) = (IF (a < 0) = (b < 0) THEN q ELSE -q)
              /\ q * Magnitude(b) <= Magnitude(a)
<1> DEFINE m == Magnitude(a)
           d == Magnitude(b)
           q == m \div d
           r == m % d
           p == q * d
<1>1. m \in Nat /\ d \in Nat \ {0} BY MagnitudeIs
<1>2. (a = m \/ (a = -m /\ a < 0)) /\ (b = d \/ (b = -d /\ b < 0)) BY MagnitudeIs
<1>3. (a < 0 => a = -m) /\ (b < 0 => b = -d) BY MagnitudeIs
<1>4. Quotient(a, b) = IF (a < 0) = (b < 0) THEN q ELSE -q BY DEF Quotient
<1> HIDE DEF m, d
<1>5. q \in Int /\ r \in 0 .. d - 1 /\ m = d * q + r BY <1>1, Division
<1> HIDE DEF q, r
<1>6. d * q = p /\ p \in Int BY <1>1, <1>5 DEF p
<1>7. q \in Nat
  <2>1. q <= -1 => d * q <= -d BY <1>1, <1>5
  <2>2. ~(q <= -1) BY <1>1, <1>5, <2>1
  <2> QED BY <1>5, <2>2
<1>8. p \in Nat BY <1>1, <1>7 DEF p
<1>9. m = p + r /\ r \in 0 .. d - 1 /\ p <= m BY <1>1, <1>5, <1>6, <1>8
<1>10. (-q) * b = -(q * b) /\ (b = d => q * b = p) /\ (b = -d => q * b = -p)
  BY <1>1, <1>7 DEF p
<1> HIDE DEF p
<1> DEFINE s == Quotient(a, b) * b
<1>11. s = p \/ s = -p BY <1>2, <1>4, <1>8, <1>10
<1>12. (s = p /\ a = m) \/ (s = -p /\ a = -m)
  <2>1. CASE a < 0 /\ b < 0 BY <2>1, <1>3, <1>4, <1>10
  <2>2. CASE a < 0 /\ ~(b < 0) BY <2>2, <1>2, <1>3, <1>4, <1>10
  <2>3. CASE ~(a < 0) /\ b < 0
    <3>1. b = -d /\ a = m /\ Quotient(a, b) = -q BY <2>3, <1>2, <1>3, <1>4
    <3>2. s = -(q * b) /\ q * b = -p BY <3>1, <1>10
    <3> QED BY <3>1, <3>2, <1>8
  <2>4. CASE ~(a < 0) /\ ~(b < 0) BY <2>4, <1>2, <1>4, <1>10
  <2> QED BY <2>1, <2>2, <2>3, <2>4
<1> HIDE DEF s
<1>13. Magnitude(s) = p /\ Magnitude(a - s) = r
  <2>1. Magnitude(p) = p /\ Magnitude(-p) = p /\ r \in Int /\ Magnitude(r) = r /\ Magnitude(-r) = r
    BY <1>8, <1>9, <1>1, MagnitudeIs
  <2>2. CASE s = p /\ a = m
    <3>1. a - s = r BY <2>2, <1>8, <1>9, <1>1
    <3> QED BY <2>1, <2>2, <3>1
  <2>3. CASE s = -p /\ a = -m
    <3>1. a - s = -r BY <2>3, <1>8, <1>9, <1>1
    <3> QED BY <2>1, <2>3, <3>1
  <2> QED BY <2>2, <2>3, <1>12
<1>14. Truncating(a, b, Quotient(a, b))
  <2>1. Magnitude(s) <= m /\ Magnitude(a - s) < d BY <1>1, <1>9, <1>13
  <2> QED BY <2>1 DEF Truncating, s, m, d
<1>15. Quotient(a, b) \in Int BY <1>4, <1>7
<1>16. q * d <= m BY <1>9 DEF p
<1> QED BY <1>4, <1>7, <1>14, <1>15, <1>16 DEF m, d

(* Only LONG_MIN / -1 is not a long. *)
LEMMA QuotientFits ==
  ASSUME NEW a \in Words, NEW b \in Words, b # 0, Quotient(a, b) \notin Words
  PROVE  a = LongMin /\ b = -1
<1> DEFINE m == Magnitude(a)
           d == Magnitude(b)
           X == LongMax
<1>1. X \in Nat BY ModulusIs
<1>2. a \in Int /\ b \in Int /\ -(X + 1) <= a /\ a <= X /\ -(X + 1) <= b /\ b <= X
  BY <1>1 DEF Words, LongMin
<1>3. PICK q \in Nat : /\ Quotient(a, b) = (IF (a < 0) = (b < 0) THEN q ELSE -q) /\ q * d <= m
  BY <1>2, QuotientIs
<1>4. m \in Nat /\ d \in Nat \ {0} /\ m <= X + 1 /\ (m > X => a = -(X + 1))
  BY <1>1, <1>2, MagnitudeIs
<1>5. (d = 1 => b = 1 \/ b = -1) BY <1>2, MagnitudeIs
<1>6. \A n \in Int : n \notin Words => n > X \/ n < -(X + 1) BY <1>1 DEF Words, LongMin
<1> HIDE DEF m, d, X
<1>7. q <= m
  <2>1. q <= q * d BY <1>4
  <2> QED BY <2>1, <1>3, <1>4
<1>8. Quotient(a, b) = q /\ q > X /\ (a < 0) = (b < 0)
  <2>1. q <= X + 1 BY <1>1, <1>4, <1>7
  <2>2. CASE (a < 0) = (b < 0) BY <2>1, <2>2, <1>1, <1>3, <1>6
  <2>3. CASE (a < 0) # (b < 0)
    <3>1. Quotient(a, b) = -q BY <2>3, <1>3
    <3>2. -q \in Int /\ -q \notin Words /\ ~(-q > X) /\ ~(-q < -(X + 1)) BY <2>1, <3>1, <1>1
    <3> QED BY <3>2, <1>6
  <2> QED BY <2>2, <2>3
<1>9. m > X /\ a = -(X + 1) BY <1>1, <1>4, <1>7, <1>8
<1>10. d = 1
  <2>1. d >= 2 => q * d >= q + q BY <1>4
  <2>2. q + q > m BY <1>1, <1>4, <1>8
  <2>3. q * d \in Int BY <1>4
  <2> QED BY <2>1, <2>2, <2>3, <1>3, <1>4
<1>11. b = -1 BY <1>1, <1>5, <1>8, <1>9, <1>10
<1> QED BY <1>9, <1>11 DEF LongMin, X

(* A word is itself after the conversion. *)
LEMMA WordKept ==
  ASSUME NEW n \in Words
  PROVE  ToSigned(n) = n
<1> DEFINE X == LongMax
<1>1. X \in Nat /\ Modulus = 2 * (X + 1) /\ Modulus \in Nat \ {0} BY ModulusIs
<1>2. n \in Int /\ -(X + 1) <= n /\ n <= X BY <1>1 DEF Words, LongMin
<1>3. ToSigned(n) \in Words /\ ToSigned(n) \in Int /\ Congruent(ToSigned(n), n) BY <1>2, Wraps
<1>4. -(X + 1) <= ToSigned(n) /\ ToSigned(n) <= X BY <1>1, <1>3 DEF Words, LongMin
<1>5. PICK t \in Int : ToSigned(n) = n + t * Modulus BY <1>3 DEF Congruent
<1> HIDE DEF X
<1>6. t * Modulus < Modulus /\ t * Modulus > -Modulus /\ t * Modulus \in Int
  <2>1. t * Modulus \in Int BY <1>1
  <2> QED BY <2>1, <1>1, <1>2, <1>3, <1>4, <1>5
<1>7. t = 0
  <2>1. t >= 1 => t * Modulus >= Modulus BY <1>1
  <2>2. t <= -1 => t * Modulus <= -Modulus BY <1>1
  <2> QED BY <2>1, <2>2, <1>1, <1>6
<1>8. 0 * Modulus = 0 BY <1>1
<1> QED BY <1>2, <1>5, <1>7, <1>8

Divisible(q) == Len(q) = 2 /\ IsInt(q[1]) /\ IsInt(q[2]) /\ IntOf(q[2]) # 0
LEMMA DivisionIs ==
  ASSUME NEW q, NEW l, NEW B, Passing(q, l, B),
         NEW a, a = IntOf(q[1]), NEW b, b = IntOf(q[2])
  PROVE  /\ ~Divisible(q) => prim_div(l) = Error /\ prim_modulo(l) = Error
         /\ Divisible(q) =>
              /\ a \in Words /\ b \in Words /\ a \in Int /\ b \in Int /\ b # 0
              /\ Quotient(a, b) \in Words =>
                   /\ prim_div(l) = Integer(Quotient(a, b))
                   /\ prim_modulo(l) = Integer(Remainder(a, b))
              /\ Quotient(a, b) \notin Words => prim_div(l) = Crashes /\ prim_modulo(l) = Crashes
<1>1. Len(q) \in Nat /\ get_list_length(l) = Len(q) BY ArgIs, ArgumentsAre
<1>2. ASSUME NEW res
      PROVE  /\ ~Divisible(q) => Divides(l, res) = Error
             /\ Divisible(q) =>
                  Divides(l, res) = IF Quotient(a, b) \notin Words THEN Crashes ELSE Integer(res)
  <2>1. CASE Len(q) # 2 BY <1>1, <2>1 DEF Divides, Divisible
  <2>2. CASE Len(q) = 2
    <3>1. First(l) = q[1] /\ Second(l) = q[2] BY <2>2, ArgumentsAre
    <3> QED BY <1>1, <2>2, <3>1 DEF Divides, Divisible
  <2> QED BY <2>1, <2>2
<1>3. ASSUME ~Divisible(q) PROVE prim_div(l) = Error /\ prim_modulo(l) = Error
  BY <1>2, <1>3 DEF prim_div, prim_modulo
<1>4. ASSUME Divisible(q)
      PROVE  /\ a \in Words /\ b \in Words /\ a \in Int /\ b \in Int /\ b # 0
             /\ Quotient(a, b) \in Words =>
                  /\ prim_div(l) = Integer(Quotient(a, b))
                  /\ prim_modulo(l) = Integer(Remainder(a, b))
             /\ Quotient(a, b) \notin Words => prim_div(l) = Crashes /\ prim_modulo(l) = Crashes
  <2>1. Len(q) = 2 /\ IsInt(q[1]) /\ IsInt(q[2]) /\ b # 0 BY <1>4 DEF Divisible
  <2>2. First(l) = q[1] /\ Second(l) = q[2] BY <2>1, ArgumentsAre
  <2>3. a \in Words /\ b \in Words /\ a \in Int /\ b \in Int
    <3>1. 1 \in 1 .. Len(q) /\ 2 \in 1 .. Len(q) BY <2>1
    <3>2. Held(q[1], B) /\ Held(q[2], B) /\ B \in Nat /\ Objects(heap, B) /\ B <= Len(heap)
      BY <3>1, ArgIs
    <3> QED BY <2>1, <3>2, ValueIs
  <2>4. /\ prim_div(l) = Divides(l, Quotient(a, b))
        /\ prim_modulo(l) = Divides(l, Remainder(a, b))
    BY <2>2 DEF prim_div, prim_modulo
  <2> QED BY <1>2, <1>4, <2>1, <2>3, <2>4
<1> QED BY <1>3, <1>4

LEMMA ArithmeticFine ==
  ASSUME NEW q, NEW l, NEW B, Passing(q, l, B)
  PROVE  /\ Answer(prim_plus(l), B) /\ Answer(prim_times(l), B) /\ Answer(prim_minus(l), B)
         /\ Answer(prim_div(l), B) /\ Answer(prim_modulo(l), B)
         /\ prim_plus(l).kind = "error" <=> ~AllInts(q)
         /\ prim_times(l).kind = "error" <=> ~AllInts(q)
         /\ prim_minus(l).kind = "error" <=> ~(Len(q) > 0 /\ AllInts(q))
         /\ prim_div(l).kind = "error" <=> ~Divisible(q)
         /\ prim_modulo(l).kind = "error" <=> ~Divisible(q)
<1> DEFINE n == Len(q)
           x == Numbers(q)
<1>1. B \in Nat /\ n \in Nat BY ArgIs
<1>2. AllInts(q) => x \in [1 .. n -> Int] /\ \A k \in 1 .. n : x[k] = IntOf(q[k])
  BY NumbersAre DEF NumbersOf
<1> HIDE DEF n, x
<1>3. \A v \in Int : Answer(Integer(v), B) /\ Integer(v).kind # "error" BY <1>1, Answers, Kinds
<1>4. AllInts(q) => \E g : TotalSum(g, x, n) /\ \E h : TotalProduct(h, x, n)
  BY <1>1, <1>2, Sums, Products
<1>5. Answer(prim_plus(l), B) /\ (prim_plus(l).kind = "error" <=> ~AllInts(q))
  <2>1. CASE ~AllInts(q)
    <3>1. prim_plus(l) = Error BY <2>1, PlusIs
    <3> QED BY <1>1, <2>1, <3>1, Answers, Kinds
  <2>2. CASE AllInts(q)
    <3>1. PICK f : WrappedSum(f, x, n) /\ prim_plus(l) = Integer(f[n]) BY <2>2, PlusIs DEF x, n
    <3>2. f[n] \in Int BY <1>1, <1>2, <1>4, <2>2, <3>1, Sums
    <3> QED BY <1>3, <2>2, <3>1, <3>2
  <2> QED BY <2>1, <2>2
<1>6. Answer(prim_times(l), B) /\ (prim_times(l).kind = "error" <=> ~AllInts(q))
  <2>1. CASE ~AllInts(q)
    <3>1. prim_times(l) = Error BY <2>1, TimesIs
    <3> QED BY <1>1, <2>1, <3>1, Answers, Kinds
  <2>2. CASE AllInts(q)
    <3>1. PICK f : WrappedProduct(f, x, n) /\ prim_times(l) = Integer(f[n]) BY <2>2, TimesIs DEF x, n
    <3>2. f[n] \in Int BY <1>1, <1>2, <1>4, <2>2, <3>1, Products
    <3> QED BY <1>3, <2>2, <3>1, <3>2
  <2> QED BY <2>1, <2>2
<1>7. Answer(prim_minus(l), B) /\ (prim_minus(l).kind = "error" <=> ~(n > 0 /\ AllInts(q)))
  <2>1. CASE n = 0 \/ ~AllInts(q)
    <3>1. prim_minus(l) = Error BY <2>1, MinusIs DEF n
    <3>2. ~(n > 0 /\ AllInts(q)) BY <2>1, <1>1
    <3> QED BY <1>1, <3>1, <3>2, Answers, Kinds
  <2>2. CASE n = 1 /\ AllInts(q)
    <3>1. prim_minus(l) = Integer(-IntOf(q[1])) BY <2>2, MinusIs DEF n
    <3>2. 1 \in 1 .. n /\ n > 0 BY <2>2
    <3>3. x[1] \in Int /\ x[1] = IntOf(q[1]) BY <2>2, <3>2, <1>2
    <3>4. -IntOf(q[1]) \in Int BY <3>3
    <3> QED BY <1>3, <2>2, <3>1, <3>2, <3>4
  <2>3. CASE n > 1 /\ AllInts(q)
    <3>1. PICK f : WrappedDifference(f, x, n) /\ prim_minus(l) = Integer(f[n])
      BY <2>3, MinusIs DEF x, n
    <3>2. n \in Nat \ {0} /\ n > 0 BY <1>1, <2>3
    <3>3. f[n] \in Int BY <3>2, <1>2, <1>4, <2>3, <3>1, Differences
    <3> QED BY <1>3, <2>3, <3>1, <3>2, <3>3
  <2>4. n = 0 \/ n = 1 \/ n > 1 BY <1>1
  <2> QED BY <2>1, <2>2, <2>3, <2>4
<1>8. /\ Answer(prim_div(l), B) /\ (prim_div(l).kind = "error" <=> ~Divisible(q))
      /\ Answer(prim_modulo(l), B) /\ (prim_modulo(l).kind = "error" <=> ~Divisible(q))
  <2> DEFINE a == IntOf(q[1])
             b == IntOf(q[2])
  <2>1. CASE ~Divisible(q)
    <3>1. prim_div(l) = Error /\ prim_modulo(l) = Error BY <2>1, DivisionIs
    <3> QED BY <1>1, <2>1, <3>1, Answers, Kinds
  <2>2. CASE Divisible(q)
    <3>1. /\ a \in Int /\ b \in Int /\ b # 0
          /\ \/ prim_div(l) = Crashes /\ prim_modulo(l) = Crashes
             \/ /\ prim_div(l) = Integer(Quotient(a, b))
                /\ prim_modulo(l) = Integer(Remainder(a, b))
      BY <2>2, DivisionIs
    <3> HIDE DEF a, b
    <3>2. Quotient(a, b) \in Int BY <3>1, QuotientIs
    <3>3. Remainder(a, b) \in Int BY <3>1, <3>2 DEF Remainder
    <3> QED BY <1>1, <1>3, <2>2, <3>1, <3>2, <3>3, Answers, Kinds
  <2> QED BY <2>1, <2>2
<1> QED BY <1>5, <1>6, <1>7, <1>8 DEF n

LEMMA VectorsFine ==
  ASSUME NEW q, NEW l, NEW B, Passing(q, l, B)
  PROVE  /\ Answer(prim_make_vector(l), B) /\ Answer(prim_vector_ref(l), B)
         /\ Answer(prim_vector_set(l), B) /\ Answer(prim_vector_length(l), B)
         /\ prim_make_vector(l).kind = "error" <=> ~(Len(q) > 0 /\ IsInt(q[1]))
         /\ prim_make_vector(l).kind = "crash" => IntOf(q[1]) < 0
         /\ Len(q) > 0 /\ IsInt(q[1]) /\ IntOf(q[1]) < 0 => prim_make_vector(l).kind = "crash"
         /\ prim_vector_ref(l).kind = "error" <=> ~(Len(q) = 2 /\ Index(q[1], q[2]))
         /\ prim_vector_set(l).kind = "error" <=> ~(Len(q) = 3 /\ Index(q[1], q[2]))
         /\ prim_vector_length(l).kind = "error" <=> ~(Len(q) = 1 /\ Tag(q[1]) = "VECTOR")
<1> DEFINE n == Len(q)
<1>1. /\ B \in Nat /\ Objects(heap, B) /\ B <= Len(heap) /\ n \in Nat /\ get_list_length(l) = n
      /\ \A k \in 1 .. n : Held(q[k], B)
  BY ArgIs, ArgumentsAre
<1>2. /\ n >= 1 => First(l) = q[1] /\ Held(q[1], B)
      /\ n >= 2 => Second(l) = q[2] /\ Held(q[2], B)
      /\ n >= 3 => Third(l) = q[3] /\ Held(q[3], B)
  <2>1. n >= 1 => 1 \in 1 .. n /\ ~(n < 1) BY <1>1
  <2>2. n >= 2 => 2 \in 1 .. n BY <1>1
  <2>3. n >= 3 => 3 \in 1 .. n BY <1>1
  <2> QED BY <1>1, <2>1, <2>2, <2>3, ArgumentsAre
<1> HIDE DEF n
<1>3. /\ Answer(prim_make_vector(l), B)
      /\ prim_make_vector(l).kind = "error" <=> ~(n > 0 /\ IsInt(q[1]))
      /\ prim_make_vector(l).kind = "crash" => IntOf(q[1]) < 0
      /\ n > 0 /\ IsInt(q[1]) /\ IntOf(q[1]) < 0 => prim_make_vector(l).kind = "crash"
  <2>1. CASE ~(n > 0 /\ IsInt(q[1]))
    <3>1. n < 1 \/ ~IsInt(First(l)) BY <2>1, <1>1, <1>2
    <3>2. prim_make_vector(l) = Error BY <3>1, <1>1 DEF prim_make_vector
    <3> QED BY <2>1, <3>2, <1>1, Answers, Kinds
  <2>2. CASE n > 0 /\ IsInt(q[1])
    <3>1. ~(n < 1) /\ First(l) = q[1] /\ Held(q[1], B) BY <2>2, <1>1, <1>2
    <3>2. IntOf(q[1]) \in Int BY <2>2, <3>1, <1>1, ValueIs
    <3>3. CASE IntOf(q[1]) < 0
      <4>1. prim_make_vector(l) = Crashes BY <2>2, <3>1, <3>3, <1>1 DEF prim_make_vector
      <4> QED BY <2>2, <3>3, <4>1, <1>1, Answers, Kinds
    <3>4. CASE ~(IntOf(q[1]) < 0)
      <4> DEFINE m == IntOf(q[1])
                 fill == IF n > 1 THEN Second(l) ELSE UNDEF
                 e == [k \in 1 .. m |-> fill]
                 o == [tag |-> "VECTOR", elems |-> e]
      <4>1. prim_make_vector(l) = Makes(o) BY <2>2, <3>1, <3>4, <1>1 DEF prim_make_vector
      <4>2. m \in Nat BY <3>2, <3>4
      <4>3. Held(fill, B + 1)
        <5>1. CASE n > 1
          <6>1. fill = q[2] /\ Held(q[2], B) BY <5>1, <1>1, <1>2
          <6>2. B \in Int /\ B + 1 \in Int /\ B <= B + 1 BY <1>1
          <6> QED BY <6>1, <6>2, HeldMore
        <5>2. CASE ~(n > 1) BY <5>2 DEF Held, Static
        <5> QED BY <5>1, <5>2
      <4> HIDE DEF m, fill
      <4>4. e \in Seq({fill}) /\ DOMAIN e = 1 .. m /\ \A k \in 1 .. m : e[k] = fill BY <4>2
      <4>5. e \in Seq(Elems(e)) /\ \A v \in Elems(e) : Held(v, B + 1)
        <5>1. \A v \in Elems(e) : v = fill BY <4>4 DEF Elems
        <5>2. e \in Seq({e[k] : k \in DOMAIN e}) BY <4>2
        <5> QED BY <4>3, <5>1, <5>2 DEF Elems
      <4> HIDE DEF e
      <4>6. IsObject(o, B + 1, B + 1)
        <5>1. o.tag = "VECTOR" /\ o.elems = e /\ o = [tag |-> "VECTOR", elems |-> o.elems] OBVIOUS
        <5> HIDE DEF o
        <5> QED BY <5>1, <4>5 DEF IsObject
      <4> HIDE DEF o
      <4>7. Answer(prim_make_vector(l), B) BY <4>1, <4>6 DEF Answer
      <4>8. prim_make_vector(l).kind = "new" BY <4>1, Kinds
      <4> QED BY <2>2, <3>4, <4>7, <4>8 DEF m
    <3> QED BY <3>3, <3>4
  <2> QED BY <2>1, <2>2
<1>4. /\ Answer(prim_vector_ref(l), B)
      /\ prim_vector_ref(l).kind = "error" <=> ~(n = 2 /\ Index(q[1], q[2]))
  <2>1. CASE n # 2
    <3>1. prim_vector_ref(l) = Error BY <2>1, <1>1 DEF prim_vector_ref
    <3> QED BY <2>1, <3>1, <1>1, Answers, Kinds
  <2>2. CASE n = 2
    <3>1. First(l) = q[1] /\ Second(l) = q[2] /\ (InVector(q[1], q[2]) <=> Index(q[1], q[2]))
      BY <2>2, <1>1, <1>2, InVectorIs
    <3> QED BY <2>2, <3>1, <1>1, Answers, Kinds DEF prim_vector_ref
  <2> QED BY <2>1, <2>2
<1>5. /\ Answer(prim_vector_set(l), B)
      /\ prim_vector_set(l).kind = "error" <=> ~(n = 3 /\ Index(q[1], q[2]))
  <2>1. CASE n # 3
    <3>1. prim_vector_set(l) = Error BY <2>1, <1>1 DEF prim_vector_set
    <3> QED BY <2>1, <3>1, <1>1, Answers, Kinds
  <2>2. CASE n = 3
    <3>1. /\ First(l) = q[1] /\ Second(l) = q[2] /\ Third(l) = q[3]
          /\ Held(q[1], B) /\ Held(q[2], B) /\ Held(q[3], B)
          /\ (InVector(q[1], q[2]) <=> Index(q[1], q[2]))
      BY <2>2, <1>1, <1>2, InVectorIs
    <3>2. CASE ~Index(q[1], q[2])
      <4>1. prim_vector_set(l) = Error BY <3>1, <3>2, <1>1 DEF prim_vector_set
      <4> QED BY <3>2, <4>1, <1>1, Answers, Kinds
    <3>3. CASE Index(q[1], q[2])
      <4> DEFINE i == q[1].obj
                 k == IntOf(q[2]) + 1
      <4>1. prim_vector_set(l) = Stores(i, k, q[3])
        BY <2>2, <3>1, <3>3, <1>1 DEF prim_vector_set, Stores
      <4>2. Tag(q[1]) = "VECTOR" /\ IsInt(q[2]) /\ IntOf(q[2]) >= 0
            /\ IntOf(q[2]) < Len(heap[i].elems)
        BY <3>3 DEF Index
      <4>3. /\ i \in 1 .. B /\ heap[i].tag = "VECTOR" /\ Len(heap[i].elems) \in Nat
            /\ DOMAIN heap[i].elems = 1 .. Len(heap[i].elems)
        BY <3>1, <4>2, <1>1, ValueIs
      <4>4. IntOf(q[2]) \in Int BY <3>1, <4>2, <1>1, ValueIs
      <4>5. k \in DOMAIN heap[i].elems BY <4>2, <4>3, <4>4
      <4> HIDE DEF i, k
      <4>6. Answer(Stores(i, k, q[3]), B) BY <3>1, <4>3, <4>5 DEF Answer
      <4> QED BY <2>2, <3>3, <4>1, <4>6, Kinds
    <3> QED BY <3>2, <3>3
  <2> QED BY <2>1, <2>2
<1>6. /\ Answer(prim_vector_length(l), B)
      /\ prim_vector_length(l).kind = "error" <=> ~(n = 1 /\ Tag(q[1]) = "VECTOR")
  <2>1. CASE n # 1
    <3>1. prim_vector_length(l) = Error BY <2>1, <1>1 DEF prim_vector_length
    <3> QED BY <2>1, <3>1, <1>1, Answers, Kinds
  <2>2. CASE n = 1
    <3>1. First(l) = q[1] /\ Held(q[1], B) BY <2>2, <1>1, <1>2
    <3>2. CASE Tag(q[1]) # "VECTOR"
      <4>1. prim_vector_length(l) = Error BY <3>1, <3>2 DEF prim_vector_length
      <4> QED BY <3>2, <4>1, <1>1, Answers, Kinds
    <3>3. CASE Tag(q[1]) = "VECTOR"
      <4>1. Len(heap[q[1].obj].elems) \in Int BY <3>1, <3>3, <1>1, ValueIs
      <4>2. prim_vector_length(l) = Integer(Len(heap[q[1].obj].elems))
        BY <2>2, <3>1, <3>3, <1>1 DEF prim_vector_length
      <4> QED BY <2>2, <3>3, <4>1, <4>2, <1>1, Answers, Kinds
    <3> QED BY <3>2, <3>3
  <2> QED BY <2>1, <2>2
<1> QED BY <1>3, <1>4, <1>5, <1>6 DEF n

-----------------------------------------------------------------------------
(* The heap a call leaves: the objects before it stay, but for an element  *)
(* of a vector.                                                            *)

After(r, q) ==
  LET old == SubSeq(heap, 1, Len(heap) - Len(q)) IN
  CASE r.kind = "new" -> old \o <<r.o>>
    [] r.kind = "store" -> [old EXCEPT ![r.vec].elems[r.at] = r.v]
    [] OTHER -> old
Stay(h, B) ==
  /\ B <= Len(h) /\ DOMAIN h = 1 .. Len(h)
  /\ \A i \in 1 .. B :
       /\ h[i].tag = heap[i].tag
       /\ heap[i].tag # "VECTOR" => h[i] = heap[i]
       /\ heap[i].tag = "VECTOR" => Len(h[i].elems) = Len(heap[i].elems)

LEMMA IsObjectMore ==
  ASSUME NEW o, NEW i \in Int, NEW n \in Int, NEW m \in Int, n <= m, IsObject(o, i, n)
  PROVE  IsObject(o, i, m)
<1>1. \A v : Held(v, n) => Held(v, m) BY HeldMore
<1> QED BY <1>1 DEF IsObject

LEMMA Left ==
  ASSUME NEW q, NEW l, NEW B, Passing(q, l, B), NEW r, Answer(r, B), NEW h, h = After(r, q)
  PROVE  /\ Objects(h, Len(h)) /\ Len(h) \in Nat /\ Stay(h, B)
         /\ r.kind \notin {"new", "store"} => Len(h) = B /\ \A i \in 1 .. B : h[i] = heap[i]
<1> DEFINE old == SubSeq(heap, 1, Len(heap) - Len(q))
<1>1. /\ B \in Nat /\ Len(q) \in Nat /\ heap \in Seq(Elems(heap)) /\ Len(heap) = B + Len(q)
      /\ Objects(heap, B) /\ Len(heap) \in Nat
  <2>1. B \in Nat /\ Len(q) \in Nat /\ Objects(heap, B) BY ArgIs
  <2>2. Len(heap) = B + Len(q) BY Zenon DEF Passing
  <2>3. heap \in Seq(Elems(heap)) BY <2>1 DEF Objects
  <2> QED BY <2>1, <2>2, <2>3
<1>2. old \in Seq(Elems(heap)) /\ Len(old) = B /\ \A i \in 1 .. B : old[i] = heap[i]
  <2>1. Len(heap) - Len(q) = B /\ B <= Len(heap) BY <1>1
  <2> QED BY <1>1, <2>1, SubSeqProperties
<1>3. h = CASE r.kind = "new" -> old \o <<r.o>>
            [] r.kind = "store" -> [old EXCEPT ![r.vec].elems[r.at] = r.v]
            [] OTHER -> old
  BY DEF After
<1> HIDE DEF old
<1>4. \A i \in 1 .. B : IsObject(heap[i], i, B)
  <2>1. \A i \in 1 .. B : i \in DOMAIN heap BY <1>1
  <2> QED BY <1>1, <2>1 DEF Objects
<1>5. ASSUME NEW i \in 1 .. B
      PROVE  heap[i].tag = "VECTOR" => heap[i].elems \in Seq(Elems(heap[i].elems))
                                       /\ (\A k \in DOMAIN heap[i].elems : Held(heap[i].elems[k], B))
                                       /\ heap[i] = [tag |-> "VECTOR", elems |-> heap[i].elems]
  <2>1. i \in DOMAIN heap BY <1>1
  <2> QED BY <1>1, <2>1, ObjectsAre
<1>6. CASE r.kind \notin {"new", "store"}
  <2>1. h = old BY <1>3, <1>6
  <2>2. /\ h \in Seq(Elems(heap)) /\ Len(h) = B /\ DOMAIN h = 1 .. B
        /\ \A i \in 1 .. B : h[i] = heap[i]
    BY <1>1, <1>2, <2>1
  <2>3. h \in Seq(Elems(h)) BY <2>2 DEF Elems
  <2>4. Objects(h, Len(h)) BY <1>4, <2>2, <2>3 DEF Objects
  <2>5. Stay(h, B) BY <1>1, <2>2 DEF Stay
  <2> QED BY <1>1, <2>2, <2>4, <2>5
<1>7. CASE r.kind = "new"
  <2>1. PICK o : r = Makes(o) /\ IsObject(o, B + 1, B + 1) BY <1>7, Kinds DEF Answer
  <2>2. h = old \o <<o>> BY <1>3, <1>7, <2>1, Kinds
  <2>3. /\ h \in Seq(Elems(heap) \cup {o}) /\ Len(h) = B + 1 /\ h[B + 1] = o
        /\ \A i \in 1 .. B : h[i] = heap[i]
    <3> DEFINE S == Elems(heap) \cup {o}
    <3>1. old \in Seq(S) /\ o \in S BY <1>2
    <3> HIDE DEF S
    <3>2. Append(old, o) \in Seq(S) /\ Len(Append(old, o)) = B + 1 /\ Append(old, o)[B + 1] = o
          /\ \A i \in 1 .. B : Append(old, o)[i] = old[i]
      BY <1>1, <1>2, <3>1, AppendProperties
    <3>3. h = Append(old, o)
      <4>1. Append(old, o) = old \o <<o>> BY <3>1, AppendIsConcat
      <4> QED BY <2>2, <4>1
    <3> QED BY <1>2, <3>2, <3>3 DEF S
  <2>4. DOMAIN h = 1 .. B + 1 /\ h \in Seq(Elems(h)) BY <1>1, <2>3 DEF Elems
  <2>5. ASSUME NEW i \in DOMAIN h PROVE IsObject(h[i], i, B + 1)
    <3>1. CASE i = B + 1 BY <2>1, <2>3, <3>1
    <3>2. CASE i # B + 1
      <4>1. i \in 1 .. B /\ B + 1 \in Int /\ B <= B + 1 BY <1>1, <2>4, <3>2
      <4> QED BY <1>1, <1>4, <2>3, <4>1, IsObjectMore
    <3> QED BY <3>1, <3>2
  <2>6. Objects(h, Len(h)) BY <2>3, <2>4, <2>5 DEF Objects
  <2>7. Stay(h, B) BY <1>1, <2>3, <2>4 DEF Stay
  <2> QED BY <1>1, <1>7, <2>3, <2>6, <2>7
<1>8. CASE r.kind = "store"
  <2>13. PICK i \in 1 .. B :
          \E k, v : /\ r = Stores(i, k, v) /\ Held(v, B)
                   /\ heap[i].tag = "VECTOR" /\ k \in DOMAIN heap[i].elems
    BY <1>8, Kinds DEF Answer
  <2>1. PICK k, v :
          /\ r = Stores(i, k, v) /\ Held(v, B)
          /\ heap[i].tag = "VECTOR" /\ k \in DOMAIN heap[i].elems
    BY <2>13
  <2> DEFINE e == [heap[i].elems EXCEPT ![k] = v]
             o == [tag |-> "VECTOR", elems |-> e]
  <2>2. /\ heap[i].elems \in Seq(Elems(heap[i].elems))
        /\ \A j \in DOMAIN heap[i].elems : Held(heap[i].elems[j], B)
        /\ heap[i] = [tag |-> "VECTOR", elems |-> heap[i].elems]
    BY <1>5, <2>1
  <2>3. Len(e) = Len(heap[i].elems) /\ e \in Seq(Elems(e)) /\ \A j \in DOMAIN e : Held(e[j], B)
    <3> DEFINE S == Elems(heap[i].elems) \cup {v}
    <3>1. heap[i].elems \in Seq(S) /\ v \in S BY <2>2
    <3> HIDE DEF S
    <3>2. e \in Seq(S) /\ Len(e) = Len(heap[i].elems) /\ DOMAIN e = DOMAIN heap[i].elems
      BY <2>1, <3>1
    <3>3. \A j \in DOMAIN e : e[j] = IF j = k THEN v ELSE heap[i].elems[j] BY <3>2
    <3> HIDE DEF e
    <3>4. e \in Seq(Elems(e)) BY <3>2 DEF Elems
    <3> QED BY <2>1, <2>2, <3>2, <3>3, <3>4
  <2>4. [heap[i] EXCEPT !.elems[k] = v] = o
    <3> DEFINE q0 == heap[i].elems
    <3>1. heap[i] = [tag |-> "VECTOR", elems |-> q0] BY <2>2
    <3> HIDE DEF q0
    <3>2. [[tag |-> "VECTOR", elems |-> q0] EXCEPT !.elems[k] = v]
          = [tag |-> "VECTOR", elems |-> [q0 EXCEPT ![k] = v]]
      OBVIOUS
    <3> QED BY <3>1, <3>2 DEF q0
  <2>5. i \in DOMAIN old /\ DOMAIN old = 1 .. B /\ old[i] = heap[i] BY <1>1, <1>2
  <2>6. h = [old EXCEPT ![i] = o]
    <3>1. h = [old EXCEPT ![i].elems[k] = v]
      <4>1. h = [old EXCEPT ![r.vec].elems[r.at] = r.v] BY <1>3, <1>8
      <4>2. r.vec = i /\ r.at = k /\ r.v = v BY <2>1, Kinds
      <4> QED BY <4>1, <4>2
    <3>2. [old EXCEPT ![i].elems[k] = v] = [old EXCEPT ![i] = [old[i] EXCEPT !.elems[k] = v]]
      OBVIOUS
    <3> QED BY <2>4, <2>5, <3>1, <3>2
  <2> HIDE DEF e
  <2>7. o.tag = "VECTOR" /\ o.elems = e /\ o = [tag |-> "VECTOR", elems |-> o.elems] OBVIOUS
  <2> HIDE DEF o
  <2>8. /\ h \in Seq(Elems(heap) \cup {o}) /\ Len(h) = B /\ DOMAIN h = 1 .. B /\ h[i] = o
        /\ \A j \in 1 .. B : j # i => h[j] = heap[j]
    BY <1>1, <1>2, <2>5, <2>6
  <2>9. h \in Seq(Elems(h)) BY <2>8 DEF Elems
  <2>10. IsObject(o, i, B)
    <3>1. \A x \in Elems(e) : Held(x, B) BY <2>3 DEF Elems
    <3> QED BY <2>3, <2>7, <3>1 DEF IsObject
  <2>11. Objects(h, Len(h)) BY <1>4, <2>8, <2>9, <2>10 DEF Objects
  <2>12. Stay(h, B) BY <1>1, <2>1, <2>3, <2>7, <2>8 DEF Stay
  <2> QED BY <1>1, <1>8, <2>8, <2>11, <2>12
<1> QED BY <1>6, <1>7, <1>8

-----------------------------------------------------------------------------
(* The primitive of a name, and the contract it keeps.                     *)

LEMMA ApplyIs ==
  ASSUME NEW l
  PROVE  /\ apply("car", l) = prim_car(l) /\ apply("cdr", l) = prim_cdr(l)
         /\ apply("cons", l) = prim_cons(l) /\ apply("display", l) = prim_display(l)
         /\ apply("newline", l) = prim_newline(l) /\ apply("eq?", l) = prim_eq(l)
         /\ apply("eqv?", l) = prim_eqv(l) /\ apply("equal?", l) = prim_equal(l)
         /\ apply("+", l) = prim_plus(l) /\ apply("*", l) = prim_times(l)
         /\ apply("-", l) = prim_minus(l) /\ apply("div", l) = prim_div(l)
         /\ apply("modulo", l) = prim_modulo(l) /\ apply("exit", l) = prim_exit(l)
         /\ apply("make-vector", l) = prim_make_vector(l)
         /\ apply("vector-ref", l) = prim_vector_ref(l)
         /\ apply("vector-set!", l) = prim_vector_set(l)
         /\ apply("vector-length", l) = prim_vector_length(l)
  BY DEF apply

LEMMA OthersFine ==
  ASSUME NEW l, NEW B \in Nat
  PROVE  /\ Answer(prim_display(l), B) /\ prim_display(l).kind # "error"
         /\ Answer(prim_newline(l), B) /\ prim_newline(l).kind # "error"
         /\ Answer(prim_exit(l), B) /\ prim_exit(l).kind # "error"
  BY Answers, Kinds DEF prim_display, prim_newline, prim_exit

(* While the call is under way, the contract is about the heap it finds.   *)
Refused(r) == (r.kind = "error" <=> ~(Contract \/ Untested)) /\ (Untested => r.kind = "crash")
LEMMA ContractFine ==
  ASSUME NEW B, Passing(call.args, call.l, B), call.p \in Prim
  PROVE  Answer(apply(call.p, call.l), B) /\ Refused(apply(call.p, call.l))
<1> DEFINE q == Args
           l == call.l
           p == call.p
<1>1. Passing(q, l, B) /\ B \in Nat /\ Count = Len(q) /\ Len(q) \in Nat BY ArgIs DEF Args, Count
<1>2. /\ AllInts(q) <=> Ints(1 .. Count)
      /\ IsInt(q[1]) <=> Ints({1})
      /\ Divisible(q) <=> Count = 2 /\ Ints({1, 2}) /\ Num(2) # 0
  BY DEF AllInts, Ints, Divisible, Num, Count
<1>3. Len(q) = 0 <=> ~(Len(q) > 0) BY <1>1
<1> HIDE DEF q, l, p
<1> DEFINE r == apply(p, l)
<1>4. ASSUME p \in {"car", "cdr", "cons"}
      PROVE  Answer(r, B) /\ Refused(r)
  <2>1. /\ Contract <=> CASE p \in {"car", "cdr"} -> Len(q) > 0 /\ IsPair(q[1])
                          [] p = "cons" -> Len(q) = 2
        /\ Untested <=> p \in {"car", "cdr"} /\ Len(q) = 0
    BY <1>1, <1>4 DEF Contract, Untested, q, p
  <2>2. /\ p = "car" => r = prim_car(l)
        /\ p = "cdr" => r = prim_cdr(l)
        /\ p = "cons" => r = prim_cons(l)
    BY ApplyIs
  <2> HIDE DEF r
  <2>3. CASE p = "car" BY <1>1, <1>3, <2>1, <2>2, <2>3, PairsFine DEF Refused
  <2>4. CASE p = "cdr" BY <1>1, <1>3, <2>1, <2>2, <2>4, PairsFine DEF Refused
  <2>5. CASE p = "cons" BY <1>1, <2>1, <2>2, <2>5, PairsFine DEF Refused
  <2> QED BY <1>4, <2>3, <2>4, <2>5
<1>5. ASSUME p \in {"eq?", "eqv?", "equal?"}
      PROVE  Answer(r, B) /\ Refused(r)
  <2>1. (Contract <=> Len(q) = 2) /\ ~Untested BY <1>1, <1>5 DEF Contract, Untested, p
  <2>2. /\ p = "eq?" => r = prim_eq(l)
        /\ p = "eqv?" => r = prim_eqv(l)
        /\ p = "equal?" => r = prim_equal(l)
    BY ApplyIs
  <2> HIDE DEF r
  <2>3. CASE p = "eq?" BY <1>1, <2>1, <2>2, <2>3, EqualityFine DEF Refused
  <2>4. CASE p = "eqv?" BY <1>1, <2>1, <2>2, <2>4, EqualityFine DEF Refused
  <2>5. CASE p = "equal?" BY <1>1, <2>1, <2>2, <2>5, EqualityFine DEF Refused
  <2> QED BY <1>5, <2>3, <2>4, <2>5
<1>6. ASSUME p \in {"+", "*", "-", "div", "modulo"}
      PROVE  Answer(r, B) /\ Refused(r)
  <2>1. /\ Contract <=> CASE p \in {"+", "*"} -> AllInts(q)
                          [] p = "-" -> Len(q) > 0 /\ AllInts(q)
                          [] p \in {"div", "modulo"} -> Divisible(q)
        /\ ~Untested
    BY <1>1, <1>2, <1>6 DEF Contract, Untested, p
  <2>2. /\ p = "+" => r = prim_plus(l)
        /\ p = "*" => r = prim_times(l)
        /\ p = "-" => r = prim_minus(l)
        /\ p = "div" => r = prim_div(l)
        /\ p = "modulo" => r = prim_modulo(l)
    BY ApplyIs
  <2> HIDE DEF r
  <2>3. CASE p = "+" BY <1>1, <2>1, <2>2, <2>3, ArithmeticFine DEF Refused
  <2>4. CASE p = "*" BY <1>1, <2>1, <2>2, <2>4, ArithmeticFine DEF Refused
  <2>5. CASE p = "-" BY <1>1, <2>1, <2>2, <2>5, ArithmeticFine DEF Refused
  <2>6. CASE p = "div" BY <1>1, <2>1, <2>2, <2>6, ArithmeticFine DEF Refused
  <2>7. CASE p = "modulo" BY <1>1, <2>1, <2>2, <2>7, ArithmeticFine DEF Refused
  <2> QED BY <1>6, <2>3, <2>4, <2>5, <2>6, <2>7
<1>7. ASSUME p \in {"make-vector", "vector-ref", "vector-set!", "vector-length"}
      PROVE  Answer(r, B) /\ Refused(r)
  <2>1. /\ Contract <=>
             CASE p = "make-vector" -> Len(q) > 0 /\ IsInt(q[1]) /\ IntOf(q[1]) >= 0
               [] p = "vector-ref" -> Len(q) = 2 /\ Index(q[1], q[2])
               [] p = "vector-set!" -> Len(q) = 3 /\ Index(q[1], q[2])
               [] p = "vector-length" -> Len(q) = 1 /\ Tag(q[1]) = "VECTOR"
        /\ Untested <=> p = "make-vector" /\ Len(q) > 0 /\ IsInt(q[1]) /\ IntOf(q[1]) < 0
    BY <1>1, <1>2, <1>7 DEF Contract, Untested, Num, q, p
  <2>7. Len(q) > 0 /\ IsInt(q[1]) => IntOf(q[1]) \in Int
    <3> SUFFICES ASSUME Len(q) > 0, IsInt(q[1]) PROVE IntOf(q[1]) \in Int OBVIOUS
    <3>1. 1 \in 1 .. Len(q) BY <1>1
    <3>2. Held(q[1], B) /\ Objects(heap, B) /\ B <= Len(heap) BY <1>1, <3>1, ArgIs
    <3> QED BY <1>1, <3>2, ValueIs
  <2>2. /\ p = "make-vector" => r = prim_make_vector(l)
        /\ p = "vector-ref" => r = prim_vector_ref(l)
        /\ p = "vector-set!" => r = prim_vector_set(l)
        /\ p = "vector-length" => r = prim_vector_length(l)
    BY ApplyIs
  <2> HIDE DEF r
  <2>3. CASE p = "make-vector" BY <1>1, <2>1, <2>2, <2>3, <2>7, VectorsFine DEF Refused
  <2>4. CASE p = "vector-ref" BY <1>1, <2>1, <2>2, <2>4, VectorsFine DEF Refused
  <2>5. CASE p = "vector-set!" BY <1>1, <2>1, <2>2, <2>5, VectorsFine DEF Refused
  <2>6. CASE p = "vector-length" BY <1>1, <2>1, <2>2, <2>6, VectorsFine DEF Refused
  <2> QED BY <1>7, <2>3, <2>4, <2>5, <2>6
<1>8. ASSUME p \in {"display", "newline", "exit"}
      PROVE  Answer(r, B) /\ Refused(r)
  <2>1. Contract /\ ~Untested BY <1>8 DEF Contract, Untested, p
  <2>2. /\ p = "display" => r = prim_display(l)
        /\ p = "newline" => r = prim_newline(l)
        /\ p = "exit" => r = prim_exit(l)
    BY ApplyIs
  <2> HIDE DEF r
  <2>3. CASE p = "display" BY <1>1, <2>1, <2>2, <2>3, OthersFine DEF Refused
  <2>4. CASE p = "newline" BY <1>1, <2>1, <2>2, <2>4, OthersFine DEF Refused
  <2>5. CASE p = "exit" BY <1>1, <2>1, <2>2, <2>5, OthersFine DEF Refused
  <2> QED BY <1>8, <2>3, <2>4, <2>5
<1>9. Answer(r, B) /\ Refused(r) BY <1>4, <1>5, <1>6, <1>7, <1>8 DEF Prim, p
<1> QED BY <1>9 DEF l, p

-----------------------------------------------------------------------------
(* The invariant.  Between two calls the heap is one of Objects; while a   *)
(* call is under way the list of its arguments comes after them.           *)

Waiting == result = Pending
Base == Len(heap) - Len(call.args)
CallsInv ==
  /\ family \in Families /\ left \in Nat
  /\ Waiting =>
       /\ call.p \in Prim /\ Passing(call.args, call.l, Base) /\ Len(family.heap) <= Base
  /\ ~Waiting =>
       /\ Objects(heap, Len(heap)) /\ Len(heap) \in Nat /\ Len(family.heap) <= Len(heap)

LEMMA FamilyIs ==
  ASSUME NEW f \in Families
  PROVE  /\ Objects(f.heap, Len(f.heap)) /\ Len(f.heap) \in Nat /\ f.prims \subseteq Prim
         /\ \A v \in f.values : Held(v, Len(f.heap))
         /\ f.most \in Nat /\ f.calls \in Nat
<1>1. /\ Objects(f.heap, Len(f.heap)) /\ f.prims \subseteq Prim
      /\ \A v \in f.values : Held(v, Len(f.heap))
      /\ f.most \in Nat /\ f.calls \in Nat
  BY FamiliesAssumption
<1>2. f.heap \in Seq(Elems(f.heap)) BY <1>1 DEF Objects
<1>3. Len(f.heap) \in Nat BY <1>2
<1> QED BY <1>1, <1>3

LEMMA NotPending ==
  /\ \A B, r : Answer(r, B) => r # Pending
  /\ Returns(UNDEF) # Pending
<1>1. Pending.kind = "pending" BY DEF Pending
<1>2. ASSUME NEW B, NEW r, Answer(r, B) PROVE r.kind # "pending" BY <1>2, Kinds DEF Answer
<1>3. Returns(UNDEF).kind = "value" BY Kinds
<1> QED BY <1>1, <1>2, <1>3

LEMMA CallsInit == Init => CallsInv
<1> SUFFICES ASSUME Init PROVE CallsInv OBVIOUS
<1>1. family \in Families /\ heap = family.heap /\ left = family.calls /\ result = Returns(UNDEF)
  BY DEF Init
<1>2. ~Waiting BY <1>1, NotPending DEF Waiting
<1>3. Objects(heap, Len(heap)) /\ Len(heap) \in Nat /\ left \in Nat BY <1>1, FamilyIs
<1> QED BY <1>1, <1>2, <1>3 DEF CallsInv

LEMMA PassStep ==
  ASSUME CallsInv, Pass
  PROVE  CallsInv'
<1>1. /\ result # Pending /\ left > 0 /\ result' = Pending /\ left' = left - 1
      /\ family' = family
  BY DEF Pass
<1>2. /\ family \in Families /\ left \in Nat /\ Objects(heap, Len(heap)) /\ Len(heap) \in Nat
      /\ Len(family.heap) <= Len(heap)
  BY <1>1 DEF CallsInv, Waiting
<1>3. PICK p \in family.prims, m \in 0 .. family.most : \E q \in [1 .. m -> family.values] :
        /\ call' = [p |-> p, args |-> q, l |-> IF m = 0 THEN NIL ELSE [obj |-> Len(heap) + m]]
        /\ heap' = heap \o ListCells(q)
  BY DEF Pass
<1>4. PICK q \in [1 .. m -> family.values] :
        /\ call' = [p |-> p, args |-> q, l |-> IF m = 0 THEN NIL ELSE [obj |-> Len(heap) + m]]
        /\ heap' = heap \o ListCells(q)
  BY <1>3
<1>5. PICK B \in Nat : B = Len(heap) BY <1>2
<1> DEFINE cells == ListCells(q)
           o(k) == [tag |-> "CELL", car |-> q[m + 1 - k],
                    cdr |-> IF k = 1 THEN NIL ELSE [obj |-> B + k - 1]]
<1>16. B \in Nat /\ B = Len(heap) /\ m \in Nat /\ Objects(heap, B) BY <1>2, <1>3, <1>5
<1>6. q \in Seq(Elems(q)) /\ Len(q) = m /\ DOMAIN q = 1 .. m
  <2>1. q \in Seq({q[k] : k \in 1 .. m}) /\ DOMAIN q = 1 .. m /\ Len(q) = m BY <1>16
  <2> QED BY <2>1 DEF Elems
<1>7. /\ call'.p = p /\ call'.args = q
      /\ call'.l = IF m = 0 THEN NIL ELSE [obj |-> Len(heap) + m]
  BY <1>4
<1>8. \A k \in 1 .. m : Held(q[k], B)
  <2>1. Len(family.heap) \in Nat /\ \A v \in family.values : Held(v, Len(family.heap))
    BY <1>2, FamilyIs
  <2>2. \A v \in family.values : Held(v, B) BY <1>2, <1>16, <2>1, HeldMore
  <2> QED BY <2>2
<1>9. cells = [k \in 1 .. m |-> o(k)] BY <1>16, <1>6 DEF ListCells
<1> HIDE DEF cells, o
<1>10. cells \in Seq({o(k) : k \in 1 .. m}) /\ Len(cells) = m /\ \A k \in 1 .. m : cells[k] = o(k)
  BY <1>16, <1>9
<1> DEFINE h == heap \o cells
           S == Elems(heap) \cup {o(k) : k \in 1 .. m}
<1>11. /\ h \in Seq(S) /\ Len(h) = B + m
       /\ (\A i \in 1 .. B : h[i] = heap[i]) /\ \A k \in 1 .. m : h[B + k] = o(k)
  <2>1. heap \in Seq(S) /\ cells \in Seq(S) BY <1>16, <1>10 DEF Objects
  <2> HIDE DEF S
  <2>2. /\ h \in Seq(S) /\ Len(h) = Len(heap) + Len(cells)
        /\ \A i \in 1 .. Len(heap) + Len(cells) :
             h[i] = IF i <= Len(heap) THEN heap[i] ELSE cells[i - Len(heap)]
    BY <2>1, ConcatProperties
  <2>3. \A i \in 1 .. B : h[i] = heap[i] BY <2>2, <1>16, <1>10
  <2>4. ASSUME NEW k \in 1 .. m PROVE h[B + k] = o(k)
    <3>1. /\ B + k \in 1 .. Len(heap) + Len(cells) /\ ~(B + k <= Len(heap))
          /\ (B + k) - Len(heap) = k
      BY <1>16, <1>10
    <3> QED BY <2>2, <3>1, <1>10
  <2> QED BY <2>2, <2>3, <2>4, <1>10, <1>16
<1> HIDE DEF S
<1>12. heap' = h BY <1>4 DEF cells
<1> HIDE DEF h
<1>13. Objects(h, B)
  <2>1. DOMAIN h = 1 .. B + m /\ h \in Seq(Elems(h)) BY <1>16, <1>11 DEF Elems
  <2>2. ASSUME NEW i \in DOMAIN h PROVE IsObject(h[i], i, B)
    <3>1. CASE i <= B
      <4>1. i \in 1 .. B /\ i \in DOMAIN heap BY <3>1, <2>1, <1>16, ObjectsAre
      <4>2. IsObject(heap[i], i, B) BY <4>1, <1>16 DEF Objects
      <4> QED BY <4>1, <4>2, <1>11
    <3>2. CASE ~(i <= B)
      <4> DEFINE k == i - B
      <4>1. k \in 1 .. m /\ i = B + k /\ B <= i - 1 /\ i - 1 \in Int /\ B \in Int
            /\ m + 1 - k \in 1 .. m
        BY <3>2, <2>1, <1>16
      <4>2. Held(q[m + 1 - k], i - 1) BY <4>1, <1>8, HeldMore
      <4>3. Held(IF k = 1 THEN NIL ELSE [obj |-> B + k - 1], i - 1)
        <5>1. CASE k = 1 BY <5>1 DEF Held, Static
        <5>2. CASE k # 1
          <6>1. B + k - 1 = i - 1 /\ i - 1 \in 1 .. i - 1 BY <4>1, <5>2, <1>16
          <6> QED BY <5>2, <6>1 DEF Held
        <5> QED BY <5>1, <5>2
      <4>4. h[i] = o(k) BY <4>1, <1>11
      <4> HIDE DEF k
      <4>5. /\ o(k).tag = "CELL" /\ o(k).car = q[m + 1 - k]
            /\ o(k).cdr = IF k = 1 THEN NIL ELSE [obj |-> B + k - 1]
            /\ o(k) = [tag |-> "CELL", car |-> o(k).car, cdr |-> o(k).cdr]
        BY DEF o
      <4>6. IsObject(o(k), i, B) BY <4>2, <4>3, <4>5 DEF IsObject
      <4> QED BY <4>4, <4>6
    <3> QED BY <3>1, <3>2
  <2> QED BY <2>1, <2>2 DEF Objects
<1>14. Passing(call.args, call.l, B)' /\ Base' = B
  <2>1. call'.l = IF Len(q) = 0 THEN NIL ELSE [obj |-> B + Len(q)] BY <1>16, <1>6, <1>7
  <2>2. \A k \in 1 .. Len(q) :
          /\ Held(q[k], B)
          /\ heap'[B + k] = [tag |-> "CELL", car |-> q[Len(q) + 1 - k],
                             cdr |-> IF k = 1 THEN NIL ELSE [obj |-> B + k - 1]]
    BY <1>6, <1>8, <1>11, <1>12 DEF o
  <2>3. B \in Nat /\ Objects(heap', B) /\ q \in Seq(Elems(q)) /\ Len(heap') = B + Len(q)
    BY <1>16, <1>6, <1>11, <1>12, <1>13
  <2>4. Base' = B BY <2>3, <1>16, <1>6, <1>7 DEF Base
  <2>5. Passing(call.args, call.l, B)' BY <2>1, <2>2, <2>3, <1>7 DEF Passing
  <2> QED BY <2>4, <2>5
<1>15. /\ call'.p \in Prim /\ left' \in Nat /\ family' \in Families
       /\ Len(family'.heap) <= B
  BY <1>1, <1>2, <1>5, <1>7, FamilyIs
<1> QED BY <1>1, <1>14, <1>15 DEF CallsInv, Waiting


LEMMA ApplyFacts ==
  ASSUME CallsInv, Apply
  PROVE  \E B \in Nat :
           /\ Passing(call.args, call.l, B) /\ call.p \in Prim /\ call' = call
           /\ result' = apply(call.p, call.l) /\ heap' = After(result', call.args)
           /\ Answer(result', B) /\ Refused(result')
           /\ Stay(heap', B) /\ Objects(heap', Len(heap')) /\ Len(heap') \in Nat
           /\ result'.kind \notin {"new", "store"} =>
                Len(heap') = B /\ \A i \in 1 .. B : heap'[i] = heap[i]
           /\ Len(family.heap) <= B
<1>1. /\ result = Pending /\ result' = apply(call.p, call.l) /\ call' = call
      /\ heap' = After(result', call.args)
  BY DEF Apply, After
<1>2. call.p \in Prim /\ Passing(call.args, call.l, Base) /\ Len(family.heap) <= Base
  BY <1>1 DEF CallsInv, Waiting
<1>3. PICK B \in Nat : B = Base BY <1>2, ArgIs
<1>4. Passing(call.args, call.l, B) BY <1>2, <1>3
<1>5. Answer(result', B) /\ Refused(result')
  BY <1>1, <1>2, <1>4, ContractFine
<1> DEFINE r == result'
           h == heap'
<1>6. Answer(r, B) /\ h = After(r, call.args) BY <1>1, <1>5
<1> HIDE DEF r, h
<1>7. /\ Objects(h, Len(h)) /\ Len(h) \in Nat /\ Stay(h, B)
      /\ r.kind \notin {"new", "store"} => Len(h) = B /\ \A i \in 1 .. B : h[i] = heap[i]
  BY <1>4, <1>6, Left
<1> QED BY <1>1, <1>2, <1>3, <1>4, <1>5, <1>7 DEF r, h

LEMMA ApplyStep ==
  ASSUME CallsInv, Apply
  PROVE  CallsInv'
<1>1. PICK B \in Nat :
        /\ Answer(result', B) /\ Stay(heap', B) /\ Objects(heap', Len(heap')) /\ Len(heap') \in Nat
        /\ Len(family.heap) <= B
  BY ApplyFacts
<1>2. result' # Pending BY <1>1, NotPending
<1>3. family' = family /\ left' \in Nat BY DEF Apply, CallsInv
<1>4. Len(family.heap) <= Len(heap')
  <2>1. B <= Len(heap') /\ Len(family.heap) \in Nat BY <1>1, FamilyIs DEF Stay, CallsInv
  <2> QED BY <1>1, <2>1
<1> QED BY <1>1, <1>2, <1>3, <1>4 DEF CallsInv, Waiting

LEMMA CallsNext == CallsInv /\ [Next]_vars => CallsInv'
<1>1. ASSUME CallsInv, UNCHANGED vars PROVE CallsInv'
  BY <1>1 DEF vars, CallsInv, Waiting, Base, Passing
<1> QED BY <1>1, PassStep, ApplyStep DEF Next

(* What a value is, a call does not change. *)
TagOfRef == \A v : IsRef(v) => Tag(v) = heap[v.obj].tag
LEMMA RefTag == TagOfRef BY Tags DEF TagOfRef
LEMMA RefTagNext == TagOfRef' BY RefTag, PTL

LEMMA ValueStays ==
  ASSUME NEW B \in Nat, Stay(heap', B), NEW v, Held(v, B)
  PROVE  /\ Tag(v)' = Tag(v) /\ (IsInt(v)' <=> IsInt(v)) /\ (IsPair(v)' <=> IsPair(v))
         /\ IsInt(v) => IntOf(v)' = IntOf(v)
         /\ Tag(v) = "VECTOR" => Len(heap'[v.obj].elems) = Len(heap[v.obj].elems)
<1>1. CASE ~IsRef(v)
  <2>1. Tag(v)' = Tag(v) BY <1>1 DEF Tag
  <2>2. ~IsInt(v) /\ Tag(v) # "VECTOR" BY <1>1, Tags DEF IsInt
  <2> QED BY <2>1, <2>2 DEF IsInt, IsPair
<1>2. CASE IsRef(v)
  <2>1. v.obj \in 1 .. B BY <1>2, HeldIs
  <2>2. /\ heap'[v.obj].tag = heap[v.obj].tag
        /\ heap[v.obj].tag # "VECTOR" => heap'[v.obj] = heap[v.obj]
        /\ heap[v.obj].tag = "VECTOR" => Len(heap'[v.obj].elems) = Len(heap[v.obj].elems)
    BY <2>1 DEF Stay
  <2>3. Tag(v) = heap[v.obj].tag /\ Tag(v)' = heap'[v.obj].tag
    BY <1>2, RefTag, RefTagNext DEF TagOfRef
  <2>4. (IsInt(v)' <=> IsInt(v)) /\ (IsPair(v)' <=> IsPair(v)) BY <2>2, <2>3 DEF IsInt, IsPair
  <2>5. IsInt(v) => heap'[v.obj] = heap[v.obj] BY <2>2, <2>3 DEF IsInt
  <2> QED BY <2>2, <2>3, <2>4, <2>5 DEF IntOf
<1> QED BY <1>1, <1>2

LEMMA ContractStays ==
  ASSUME NEW B \in Nat, Passing(call.args, call.l, B), Stay(heap', B), call' = call, call.p \in Prim
  PROVE  (Contract' <=> Contract) /\ (Untested' <=> Untested)
<1> DEFINE q == call.args
           n == Len(q)
<1>1. n \in Nat /\ \A k \in 1 .. n : Held(q[k], B) BY ArgIs
<1>2. /\ Args' = Args /\ Args = q /\ Count' = Count /\ Count = n
  BY DEF Args, Count
<1>3. \A k \in 1 .. n :
        /\ Tag(q[k])' = Tag(q[k]) /\ (IsInt(q[k])' <=> IsInt(q[k]))
        /\ (IsPair(q[k])' <=> IsPair(q[k]))
        /\ IsInt(q[k]) => IntOf(q[k])' = IntOf(q[k])
        /\ Tag(q[k]) = "VECTOR" => Len(heap'[q[k].obj].elems) = Len(heap[q[k].obj].elems)
  <2> SUFFICES ASSUME NEW k \in 1 .. n
               PROVE  /\ Tag(q[k])' = Tag(q[k]) /\ (IsInt(q[k])' <=> IsInt(q[k]))
                      /\ (IsPair(q[k])' <=> IsPair(q[k]))
                      /\ IsInt(q[k]) => IntOf(q[k])' = IntOf(q[k])
                      /\ Tag(q[k]) = "VECTOR" =>
                           Len(heap'[q[k].obj].elems) = Len(heap[q[k].obj].elems)
    OBVIOUS
  <2> QED BY <1>1, ValueStays
<1>4. /\ Ints(1 .. n)' <=> Ints(1 .. n)
      /\ n >= 1 => (Ints({1})' <=> Ints({1})) /\ (IsPair(q[1])' <=> IsPair(q[1]))
                   /\ Tag(q[1])' = Tag(q[1]) /\ (Ints({1}) => Num(1)' = Num(1))
      /\ n >= 2 => /\ Ints({1, 2})' <=> Ints({1, 2})
                   /\ Ints({1, 2}) => Num(2)' = Num(2)
                   /\ Index(q[1], q[2])' <=> Index(q[1], q[2])
  <2>1. Ints(1 .. n)' <=> Ints(1 .. n)
    <3>1. Ints(1 .. n) <=> \A k \in 1 .. n : IsInt(q[k]) BY <1>2 DEF Ints
    <3>2. Ints(1 .. n)' <=> \A k \in 1 .. n : IsInt(q[k])' BY <1>2 DEF Ints
    <3> QED BY <3>1, <3>2, <1>3
  <2>2. ASSUME n >= 1
        PROVE  /\ (Ints({1})' <=> Ints({1})) /\ (IsPair(q[1])' <=> IsPair(q[1]))
               /\ Tag(q[1])' = Tag(q[1]) /\ (Ints({1}) => Num(1)' = Num(1))
    <3>1. 1 \in 1 .. n BY <1>1, <2>2
    <3>2. (Ints({1}) <=> IsInt(q[1])) /\ (Ints({1})' <=> IsInt(q[1])') BY <1>2 DEF Ints
    <3>3. Num(1) = IntOf(q[1]) /\ Num(1)' = IntOf(q[1])' BY <1>2 DEF Num
    <3> QED BY <3>1, <3>2, <3>3, <1>3
  <2>3. ASSUME n >= 2
        PROVE  /\ Ints({1, 2})' <=> Ints({1, 2})
               /\ Ints({1, 2}) => Num(2)' = Num(2)
               /\ Index(q[1], q[2])' <=> Index(q[1], q[2])
    <3>1. 1 \in 1 .. n /\ 2 \in 1 .. n BY <1>1, <2>3
    <3>2. Ints({1, 2}) <=> IsInt(q[1]) /\ IsInt(q[2]) BY <1>2 DEF Ints
    <3>3. Ints({1, 2})' <=> IsInt(q[1])' /\ IsInt(q[2])' BY <1>2 DEF Ints
    <3>4. Num(2) = IntOf(q[2]) /\ Num(2)' = IntOf(q[2])' BY <1>2 DEF Num
    <3>5. Index(q[1], q[2])' <=> /\ Tag(q[1])' = "VECTOR" /\ IsInt(q[2])'
                                /\ IntOf(q[2])' >= 0
                                /\ IntOf(q[2])' < Len(heap'[q[1].obj].elems)
      BY DEF Index
    <3>6. Index(q[1], q[2]) <=> /\ Tag(q[1]) = "VECTOR" /\ IsInt(q[2])
                               /\ IntOf(q[2]) >= 0 /\ IntOf(q[2]) < Len(heap[q[1].obj].elems)
      BY DEF Index
    <3>7. /\ Tag(q[1])' = Tag(q[1]) /\ (IsInt(q[1])' <=> IsInt(q[1])) /\ (IsInt(q[2])' <=> IsInt(q[2]))
          /\ IsInt(q[2]) => IntOf(q[2])' = IntOf(q[2])
          /\ Tag(q[1]) = "VECTOR" => Len(heap'[q[1].obj].elems) = Len(heap[q[1].obj].elems)
      BY <3>1, <1>3
    <3>8. Index(q[1], q[2])' <=> Index(q[1], q[2]) BY <3>5, <3>6, <3>7
    <3> QED BY <3>2, <3>3, <3>4, <3>7, <3>8
  <2> QED BY <2>1, <2>2, <2>3
<1> DEFINE p == call.p
<1>5. p' = p /\ q' = q /\ n' = n OBVIOUS
<1>6. n = 0 \/ n >= 1 BY <1>1
<1> HIDE DEF n, q, p
<1>7. Untested' <=> Untested
  <2>1. CASE p \in {"car", "cdr"}
    <3>1. (Untested <=> n = 0) /\ (Untested' <=> n = 0) BY <1>2, <1>5, <2>1 DEF Untested, p
    <3> QED BY <3>1
  <2>2. CASE p = "make-vector"
    <3>1. /\ Untested <=> n > 0 /\ Ints({1}) /\ Num(1) < 0
          /\ Untested' <=> n > 0 /\ Ints({1})' /\ Num(1)' < 0
      BY <1>2, <1>5, <2>2 DEF Untested, p
    <3> QED BY <3>1, <1>4, <1>6
  <2>3. CASE p \notin {"car", "cdr", "make-vector"}
    <3>1. ~Untested /\ ~Untested' BY <1>5, <2>3 DEF Untested, p
    <3> QED BY <3>1
  <2> QED BY <2>1, <2>2, <2>3
<1>8. CASE p \in {"car", "cdr"}
  <2>1. (Contract <=> n > 0 /\ IsPair(q[1])) /\ (Contract' <=> n > 0 /\ IsPair(q[1])')
    BY <1>2, <1>5, <1>8 DEF Contract, p
  <2> QED BY <2>1, <1>7, <1>4, <1>6
<1>9. CASE p \in {"cons", "eq?", "eqv?", "equal?"}
  <2>1. (Contract <=> n = 2) /\ (Contract' <=> n = 2) BY <1>2, <1>5, <1>9 DEF Contract, p
  <2> QED BY <2>1, <1>7
<1>10. CASE p \in {"+", "*", "-"}
  <2>1. /\ Contract <=> (p = "-" => n > 0) /\ Ints(1 .. n)
        /\ Contract' <=> (p = "-" => n > 0) /\ Ints(1 .. n)'
    BY <1>2, <1>5, <1>10 DEF Contract, p
  <2> QED BY <2>1, <1>7, <1>4
<1>11. CASE p \in {"div", "modulo"}
  <2>1. /\ Contract <=> n = 2 /\ Ints({1, 2}) /\ Num(2) # 0
        /\ Contract' <=> n = 2 /\ Ints({1, 2})' /\ Num(2)' # 0
    BY <1>2, <1>5, <1>11 DEF Contract, p
  <2> QED BY <2>1, <1>7, <1>4
<1>12. CASE p = "make-vector"
  <2>1. /\ Contract <=> n > 0 /\ Ints({1}) /\ Num(1) >= 0
        /\ Contract' <=> n > 0 /\ Ints({1})' /\ Num(1)' >= 0
    BY <1>2, <1>5, <1>12 DEF Contract, p
  <2> QED BY <2>1, <1>7, <1>4, <1>6
<1>13. CASE p \in {"vector-ref", "vector-set!"}
  <2>1. /\ Contract <=> n = (IF p = "vector-ref" THEN 2 ELSE 3) /\ Index(q[1], q[2])
        /\ Contract' <=> n = (IF p = "vector-ref" THEN 2 ELSE 3) /\ Index(q[1], q[2])'
    BY <1>2, <1>5, <1>13 DEF Contract, p
  <2> QED BY <2>1, <1>7, <1>4, <1>1
<1>14. CASE p = "vector-length"
  <2>1. /\ Contract <=> n = 1 /\ Tag(q[1]) = "VECTOR"
        /\ Contract' <=> n = 1 /\ Tag(q[1])' = "VECTOR"
    BY <1>2, <1>5, <1>14 DEF Contract, p
  <2> QED BY <2>1, <1>7, <1>4, <1>1
<1>15. CASE p \in {"display", "newline", "exit"}
  <2>1. Contract /\ Contract' BY <1>5, <1>15 DEF Contract, p
  <2> QED BY <2>1, <1>7
<1>16. p \in Prim BY DEF p
<1> QED BY <1>8, <1>9, <1>10, <1>11, <1>12, <1>13, <1>14, <1>15, <1>16 DEF Prim

LEMMA NotDone == Init => ~Done
  BY DEF Init, NoCall, Done

LEMMA DoneAfter ==
  ASSUME [Next]_vars, Done'
  PROVE  Apply \/ UNCHANGED vars
<1>1. ~Pass BY DEF Pass, Done
<1> QED BY <1>1 DEF Next

LEMMA ContractStep == CallsInv /\ ContractKept /\ [Next]_vars => ContractKept'
<1> SUFFICES ASSUME CallsInv, ContractKept, [Next]_vars, Done'
             PROVE  /\ result'.kind = "error" => ~Contract'
                    /\ ~Contract' => \/ result'.kind = "error"
                                     \/ result'.kind = "crash" /\ Untested'
  BY DEF ContractKept
<1>1. CASE Apply
  <2>1. PICK B \in Nat :
          /\ Passing(call.args, call.l, B) /\ call.p \in Prim /\ call' = call
          /\ Refused(result') /\ Stay(heap', B)
    BY <1>1, ApplyFacts
  <2>2. (Contract' <=> Contract) /\ (Untested' <=> Untested) BY <2>1, ContractStays
  <2>3. /\ result'.kind = "error" <=> ~(Contract \/ Untested)
        /\ Untested => result'.kind = "crash"
    BY <2>1 DEF Refused
  <2> QED BY <2>2, <2>3
<1>2. CASE UNCHANGED vars
  <2>1. Done /\ result' = result BY <1>2 DEF vars, Done
  <2>2. Contract' <=> Contract
    BY <1>2 DEF vars, Contract, Count, Args, Ints, Num, Index, IsInt, IsPair, IntOf, Tag
  <2>3. Untested' <=> Untested
    BY <1>2 DEF vars, Untested, Count, Args, Ints, Num, IsInt, IntOf, Tag
  <2>4. /\ result.kind = "error" => ~Contract
        /\ ~Contract => result.kind = "error" \/ (result.kind = "crash" /\ Untested)
    BY <2>1 DEF ContractKept
  <2> QED BY <2>1, <2>2, <2>3, <2>4
<1> QED BY <1>1, <1>2, DoneAfter

-----------------------------------------------------------------------------
(* Arithmetic.                                                             *)

LEMMA ExactlyIs ==
  ASSUME NEW s \in Int, NEW t \in Int, Congruent(s, t)
  PROVE  ToSigned(s) \in Words /\ (ToSigned(s) - t) % Modulus = 0
<1>1. ToSigned(s) \in Words /\ ToSigned(s) \in Int /\ Congruent(ToSigned(s), s) BY Wraps
<1>2. Congruent(ToSigned(s), t) BY <1>1, Congruences
<1> QED BY <1>1, <1>2, Exact

LEMMA RemainderFits ==
  ASSUME NEW a \in Words, NEW b \in Words, b # 0, a \in Int, b \in Int
  PROVE  /\ Remainder(a, b) \in Words
         /\ Remainder(a, b) = a - Quotient(a, b) * b
<1> DEFINE r == a - Quotient(a, b) * b
<1>1. Quotient(a, b) \in Int /\ Truncating(a, b, Quotient(a, b)) BY QuotientIs
<1>2. r \in Int /\ Magnitude(r) < Magnitude(b)
  <2>1. Quotient(a, b) * b \in Int BY <1>1
  <2> QED BY <1>1, <2>1 DEF Truncating
<1>3. Remainder(a, b) = r
  <2> DEFINE c == Quotient(a, b)
  <2>1. c \in Int BY <1>1
  <2> HIDE DEF c
  <2>2. b * c = c * b BY <2>1
  <2> QED BY <2>2 DEF Remainder, c
<1> HIDE DEF r
<1> DEFINE X == LongMax
<1>4. X \in Nat BY ModulusIs
<1>5. -(X + 1) <= b /\ b <= X BY <1>4 DEF Words, LongMin
<1>6. Magnitude(b) <= X + 1 BY <1>4, <1>5, MagnitudeIs
<1>7. r <= Magnitude(r) /\ -r <= Magnitude(r) /\ Magnitude(r) \in Nat BY <1>2, MagnitudeIs
<1>8. Magnitude(b) \in Nat BY MagnitudeIs
<1>9. -(X + 1) <= r /\ r <= X BY <1>2, <1>4, <1>6, <1>7, <1>8
<1>10. r \in Words BY <1>2, <1>4, <1>9 DEF Words, LongMin
<1> QED BY <1>3, <1>10 DEF r

ArithmeticResult ==
  CASE call.p = "+" -> Exactly(Sum(Args))
    [] call.p = "*" -> Exactly(Product(Args))
    [] call.p = "-" -> Exactly(IF Count = 1 THEN -Num(1) ELSE 2 * Num(1) - Sum(Args))
    [] call.p = "div" -> Truncating(Num(1), Num(2), result.o.n)
    [] call.p = "modulo" ->
         \E q \in Words : Truncating(Num(1), Num(2), q) /\ result.o.n = Num(1) - q * Num(2)
    [] OTHER -> TRUE

LEMMA ArithmeticApply ==
  ASSUME CallsInv, Apply, result'.kind = "new"
  PROVE  ArithmeticResult'
<1>1. PICK B \in Nat :
        /\ Passing(call.args, call.l, B) /\ call.p \in Prim /\ call' = call
        /\ result' = apply(call.p, call.l) /\ Stay(heap', B)
  BY ApplyFacts
<1>2. PICK q : q = call.args OBVIOUS
<1>3. PICK l : l = call.l OBVIOUS
<1>4. PICK p : p = call.p OBVIOUS
<1>5. PICK x : x = Numbers(q) OBVIOUS
<1>6. PICK n : n = Len(q) OBVIOUS
<1>7. PICK r : r = result' OBVIOUS
<1>8. /\ Passing(q, l, B) /\ p \in Prim /\ r = apply(p, l) /\ r.kind = "new"
      /\ n \in Nat /\ \A k \in 1 .. n : Held(q[k], B)
      /\ call'.p = p /\ Args' = q /\ Count' = n
  BY <1>1, <1>2, <1>3, <1>4, <1>6, <1>7, ArgIs DEF Args, Count
<1>9. Error.kind # "new" /\ Crashes.kind # "new" BY Kinds
<1>10. ASSUME AllInts(q)
       PROVE  /\ x \in [1 .. n -> Int]
              /\ \A k \in 1 .. n : x[k] = IntOf(q[k]) /\ Num(k)' = x[k]
              /\ \E g : TotalSum(g, x, n) /\ Sum(q)' = g[n]
              /\ \E g : TotalProduct(g, x, n) /\ Product(q)' = g[n]
  <2>1. NumbersOf(q, x) BY <1>5, <1>8, <1>10, NumbersAre
  <2>2. x \in [1 .. n -> Int] /\ \A k \in 1 .. n : IntOf(q[k]) = x[k]
    BY <2>1, <1>6 DEF NumbersOf
  <2>3. ASSUME NEW k \in 1 .. n PROVE IntOf(q[k])' = x[k]
    <3>1. Held(q[k], B) /\ IsInt(q[k]) BY <1>8, <1>10, <1>6 DEF AllInts
    <3> QED BY <3>1, <1>1, <2>2, ValueStays
  <2>4. NumbersOf(q, x)' BY <2>2, <2>3, <1>6, <1>8 DEF NumbersOf
  <2>5. \E g : TotalSum(g, x, n) /\ Sum(q)' = g[n]
    BY <2>4, <1>6, TotalsNext DEF SumsTotal
  <2>6. \E g : TotalProduct(g, x, n) /\ Product(q)' = g[n]
    BY <2>4, <1>6, TotalsNext DEF ProductsTotal
  <2>7. \A k \in 1 .. n : Num(k)' = x[k] BY <2>3, <1>8 DEF Num
  <2> QED BY <2>2, <2>5, <2>6, <2>7
<1>17. \A m : Integer(m).o.n = ToSigned(m) BY DEF Integer, Makes
<1>11. CASE p = "+"
  <2>1. r = prim_plus(l) BY <1>8, <1>11, ApplyIs
  <2>2. AllInts(q) BY <1>8, <1>9, <2>1, PlusIs
  <2>3. PICK f : WrappedSum(f, x, n) /\ r = Integer(f[n]) BY <1>5, <1>6, <1>8, <2>1, <2>2, PlusIs
  <2>4. PICK g : TotalSum(g, x, n) /\ Sum(q)' = g[n] BY <2>2, <1>10
  <2>5. f[n] \in Int /\ g[n] \in Int /\ AllCongruent(f, g, n)
    BY <1>8, <2>2, <1>10, <2>3, <2>4, Sums
  <2>6. Congruent(f[n], g[n]) BY <2>5, <1>8, n \in 0 .. n DEF AllCongruent
  <2>7. r.o.n = ToSigned(f[n]) BY <2>3, <1>17
  <2>8. r.o.n \in Words /\ (r.o.n - g[n]) % Modulus = 0 BY <2>5, <2>6, <2>7, ExactlyIs
  <2>9. Exactly(Sum(Args))' BY <2>4, <2>8, <1>7, <1>8 DEF Exactly
  <2> QED BY <2>9, <1>8, <1>11 DEF ArithmeticResult
<1>12. CASE p = "*"
  <2>1. r = prim_times(l) BY <1>8, <1>12, ApplyIs
  <2>2. AllInts(q) BY <1>8, <1>9, <2>1, TimesIs
  <2>3. PICK f : WrappedProduct(f, x, n) /\ r = Integer(f[n])
    BY <1>5, <1>6, <1>8, <2>1, <2>2, TimesIs
  <2>4. PICK g : TotalProduct(g, x, n) /\ Product(q)' = g[n] BY <2>2, <1>10
  <2>5. f[n] \in Int /\ g[n] \in Int /\ AllCongruent(f, g, n)
    BY <1>8, <2>2, <1>10, <2>3, <2>4, Products
  <2>6. Congruent(f[n], g[n]) BY <2>5, <1>8, n \in 0 .. n DEF AllCongruent
  <2>7. r.o.n = ToSigned(f[n]) BY <2>3, <1>17
  <2>8. r.o.n \in Words /\ (r.o.n - g[n]) % Modulus = 0 BY <2>5, <2>6, <2>7, ExactlyIs
  <2>9. Exactly(Product(Args))' BY <2>4, <2>8, <1>7, <1>8 DEF Exactly
  <2> QED BY <2>9, <1>8, <1>12 DEF ArithmeticResult
<1>13. CASE p = "-"
  <2>1. r = prim_minus(l) BY <1>8, <1>13, ApplyIs
  <2>2. n # 0 /\ AllInts(q) BY <1>6, <1>8, <1>9, <2>1, MinusIs
  <2>3. 1 \in 1 .. n /\ x[1] \in Int /\ x[1] = IntOf(q[1]) /\ Num(1)' = x[1]
    <3>1. 1 \in 1 .. n BY <1>8, <2>2
    <3> QED BY <3>1, <2>2, <1>10
  <2>4. PICK g : TotalSum(g, x, n) /\ Sum(q)' = g[n] BY <2>2, <1>10
  <2>5. CASE n = 1
    <3>1. r = Integer(-x[1]) BY <1>6, <1>8, <2>1, <2>2, <2>3, <2>5, MinusIs
    <3>2. r.o.n = ToSigned(-x[1]) /\ -x[1] \in Int BY <3>1, <2>3, <1>17
    <3>3. Congruent(-x[1], -x[1]) BY <3>2, Congruences
    <3>4. r.o.n \in Words /\ (r.o.n - (-x[1])) % Modulus = 0 BY <3>2, <3>3, ExactlyIs
    <3>5. Exactly(IF Count = 1 THEN -Num(1) ELSE 2 * Num(1) - Sum(Args))'
      BY <2>3, <2>5, <3>4, <1>7, <1>8 DEF Exactly
    <3> QED BY <3>5, <1>8, <1>13 DEF ArithmeticResult
  <2>6. CASE n # 1
    <3>1. n > 1 /\ n \in Nat \ {0} BY <1>8, <2>2, <2>6
    <3>2. PICK f : WrappedDifference(f, x, n) /\ r = Integer(f[n])
      BY <1>5, <1>6, <1>8, <2>1, <2>2, <3>1, MinusIs
    <3>3. f[n] \in Int /\ g[n] \in Int /\ Congruent(f[n], 2 * x[1] - g[n])
      BY <2>2, <1>10, <2>4, <3>1, <3>2, Differences
    <3>4. r.o.n = ToSigned(f[n]) /\ 2 * x[1] - g[n] \in Int BY <3>2, <3>3, <2>3, <1>17
    <3>5. r.o.n \in Words /\ (r.o.n - (2 * x[1] - g[n])) % Modulus = 0
      <4> DEFINE t == 2 * x[1] - g[n]
      <4>1. t \in Int /\ Congruent(f[n], t) BY <3>3, <3>4
      <4> HIDE DEF t
      <4>2. r.o.n \in Words /\ (r.o.n - t) % Modulus = 0 BY <3>3, <3>4, <4>1, ExactlyIs
      <4> QED BY <4>2 DEF t
    <3>6. Sum(Args)' = g[n] BY <2>4, <1>8
    <3>7. Exactly(IF Count = 1 THEN -Num(1) ELSE 2 * Num(1) - Sum(Args))'
      BY <2>3, <2>6, <3>5, <3>6, <1>7, <1>8 DEF Exactly
    <3> QED BY <3>7, <1>8, <1>13 DEF ArithmeticResult
  <2> QED BY <2>5, <2>6
<1>18. ASSUME p \in {"div", "modulo"}
       PROVE  \E a, b \in Words :
                /\ a \in Int /\ b \in Int /\ b # 0 /\ Quotient(a, b) \in Words
                /\ Num(1)' = a /\ Num(2)' = b
                /\ p = "div" => r.o.n = Quotient(a, b)
                /\ p = "modulo" => r.o.n = Remainder(a, b)
  <2> DEFINE a == IntOf(q[1])
             b == IntOf(q[2])
  <2>1. (p = "div" => r = prim_div(l)) /\ (p = "modulo" => r = prim_modulo(l))
    BY <1>8, ApplyIs
  <2>2. Divisible(q) BY <1>8, <1>9, <1>18, <2>1, DivisionIs
  <2>3. /\ a \in Words /\ b \in Words /\ a \in Int /\ b \in Int /\ b # 0
        /\ Quotient(a, b) \in Words =>
             /\ prim_div(l) = Integer(Quotient(a, b))
             /\ prim_modulo(l) = Integer(Remainder(a, b))
        /\ Quotient(a, b) \notin Words => prim_div(l) = Crashes /\ prim_modulo(l) = Crashes
    BY <1>8, <2>2, DivisionIs
  <2>4. Num(1)' = a /\ Num(2)' = b
    <3>1. n = 2 /\ IsInt(q[1]) /\ IsInt(q[2]) BY <2>2, <1>6 DEF Divisible
    <3>2. Held(q[1], B) /\ Held(q[2], B)
      <4>1. 1 \in 1 .. n /\ 2 \in 1 .. n BY <3>1
      <4> QED BY <4>1, <1>8
    <3>3. IntOf(q[1])' = IntOf(q[1]) /\ IntOf(q[2])' = IntOf(q[2])
      BY <3>1, <3>2, <1>1, ValueStays
    <3> QED BY <3>3, <1>8 DEF Num
  <2> HIDE DEF a, b
  <2>5. Quotient(a, b) \in Words BY <2>1, <2>3, <1>8, <1>9, <1>18
  <2>6. Remainder(a, b) \in Words BY <2>3, RemainderFits
  <2>7. ToSigned(Quotient(a, b)) = Quotient(a, b) /\ ToSigned(Remainder(a, b)) = Remainder(a, b)
    BY <2>5, <2>6, WordKept
  <2>8. /\ p = "div" => r.o.n = Quotient(a, b)
        /\ p = "modulo" => r.o.n = Remainder(a, b)
    BY <2>1, <2>3, <2>5, <2>7, <1>17
  <2> QED BY <2>3, <2>4, <2>5, <2>8
<1>14. CASE p = "div"
  <2>1. PICK a \in Words, b \in Words :
          /\ a \in Int /\ b \in Int /\ b # 0
          /\ Num(1)' = a /\ Num(2)' = b /\ r.o.n = Quotient(a, b)
    BY <1>14, <1>18
  <2>2. Truncating(a, b, Quotient(a, b)) BY <2>1, QuotientIs
  <2>3. Truncating(Num(1), Num(2), result.o.n)' BY <2>1, <2>2, <1>7 DEF Truncating
  <2> QED BY <2>3, <1>8, <1>14 DEF ArithmeticResult
<1>15. CASE p = "modulo"
  <2>1. PICK a \in Words, b \in Words :
          /\ a \in Int /\ b \in Int /\ b # 0 /\ Quotient(a, b) \in Words
          /\ Num(1)' = a /\ Num(2)' = b /\ r.o.n = Remainder(a, b)
    BY <1>15, <1>18
  <2>2. Truncating(a, b, Quotient(a, b)) BY <2>1, QuotientIs
  <2>3. r.o.n = a - Quotient(a, b) * b BY <2>1, RemainderFits
  <2>4. PICK c \in Words : Truncating(a, b, c) /\ r.o.n = a - c * b BY <2>1, <2>2, <2>3
  <2>5. Truncating(Num(1), Num(2), c)' /\ (result.o.n = Num(1) - c * Num(2))'
    BY <2>1, <2>4, <1>7 DEF Truncating
  <2>6. (\E d \in Words : Truncating(Num(1), Num(2), d) /\ result.o.n = Num(1) - d * Num(2))'
    BY <2>5
  <2> QED BY <2>6, <1>8, <1>15 DEF ArithmeticResult
<1>16. CASE p \notin {"+", "*", "-", "div", "modulo"}
  BY <1>8, <1>16 DEF ArithmeticResult
<1> QED BY <1>11, <1>12, <1>13, <1>14, <1>15, <1>16

LEMMA ArithmeticStep == CallsInv /\ ArithmeticExact /\ [Next]_vars => ArithmeticExact'
<1> SUFFICES ASSUME CallsInv, ArithmeticExact, [Next]_vars
             PROVE  ArithmeticExact'
  OBVIOUS
<1>1. CASE Apply BY <1>1, ArithmeticApply DEF ArithmeticExact, ArithmeticResult
<1>2. CASE UNCHANGED vars
  BY <1>2 DEF vars, ArithmeticExact, Done, Exactly, Sum, Product, Args, Count, Num, IntOf
<1>3. CASE ~Done' BY <1>3 DEF ArithmeticExact
<1> QED BY <1>1, <1>2, <1>3, DoneAfter

-----------------------------------------------------------------------------
(* The theorems.                                                           *)

(* The heap stays one of Objects, and a call under way has the list of its *)
(* arguments behind them, as INST_ARGS builds it (vm.c:267-281).           *)
THEOREM CallsInvariant == Spec => []CallsInv
<1>1. CallsInv /\ [Next]_vars => CallsInv' BY CallsNext
<1> QED BY <1>1, CallsInit, PTL DEF Spec

(* A primitive never refuses arguments that keep the contract of its error *)
(* messages (primitive.c), and it answers an error object to all others,   *)
(* but for car and cdr without an argument and a negative size of          *)
(* make-vector, which crash.                                               *)
THEOREM ErrorsAreRefusals == Spec => []ContractKept
<1>1. Init => ContractKept BY NotDone DEF ContractKept
<1>2. CallsInv /\ ContractKept /\ [Next]_vars => ContractKept' BY ContractStep
<1> QED BY <1>1, <1>2, CallsInvariant, PTL DEF Spec

(* Sums, products and differences are exact modulo ULONG_MAX + 1, and div  *)
(* and modulo belong to one division that rounds towards zero.             *)
THEOREM ArithmeticIsExact == Spec => []ArithmeticExact
<1>1. Init => ArithmeticExact BY NotDone DEF ArithmeticExact
<1>2. CallsInv /\ ArithmeticExact /\ [Next]_vars => ArithmeticExact' BY ArithmeticStep
<1> QED BY <1>1, <1>2, CallsInvariant, PTL DEF Spec

-----------------------------------------------------------------------------
(* The trees of values: t has those of the first n objects.                *)

Part(t, x) == IF IsRef(x) THEN t[x.obj] ELSE x
Node(t, o, i) ==
  CASE o.tag = "INTEGER" -> [int |-> o.n]
    [] o.tag = "STRING" -> [str |-> o.str]
    [] o.tag = "CELL" -> [pair |-> <<Part(t, o.car), Part(t, o.cdr)>>]
    [] OTHER -> [obj |-> i]
Trees(t, n) == t = [i \in 1 .. n |-> Node(t, heap[i], i)]

LEMMA TreesExist ==
  ASSUME NEW B \in Nat, Objects(heap, B)
  PROVE  \E t : Trees(t, Len(heap))
<1> DEFINE S == {n \in Nat : n <= Len(heap) => \E t : Trees(t, n)}
<1>1. Len(heap) \in Nat /\ DOMAIN heap = 1 .. Len(heap) BY ObjectsAre
<1>2. 0 \in S
  <2> DEFINE t == [i \in 1 .. 0 |-> 0]
  <2>1. t = [i \in 1 .. 0 |-> Node(t, heap[i], i)] OBVIOUS
  <2> HIDE DEF t
  <2>2. Trees(t, 0) BY <2>1 DEF Trees
  <2> QED BY <2>2
<1>3. ASSUME NEW n \in Nat, n \in S PROVE n + 1 \in S
  <2> SUFFICES ASSUME n + 1 <= Len(heap) PROVE \E t : Trees(t, n + 1) OBVIOUS
  <2>1. PICK t : Trees(t, n) BY <1>1, <1>3
  <2> DEFINE u == [i \in 1 .. n + 1 |-> IF i = n + 1 THEN Node(t, heap[i], i) ELSE t[i]]
  <2>2. \A i \in 1 .. n : u[i] = t[i] OBVIOUS
  <2>3. u[n + 1] = Node(t, heap[n + 1], n + 1) OBVIOUS
  <2>9. \A i \in 1 .. n : t[i] = Node(t, heap[i], i)
    <3>1. t = [i \in 1 .. n |-> Node(t, heap[i], i)] BY <2>1 DEF Trees
    <3> HIDE DEF u
    <3> QED BY <3>1
  <2>4. ASSUME NEW i \in 1 .. n + 1 PROVE u[i] = Node(u, heap[i], i)
    <3>1. i \in DOMAIN heap /\ i - 1 \in 0 .. n BY <1>1
    <3>2. u[i] = Node(t, heap[i], i)
      <4>1. CASE i = n + 1 BY <4>1, <2>3
      <4>2. CASE i # n + 1
        <5>1. i \in 1 .. n BY <4>2
        <5> HIDE DEF u
        <5> QED BY <5>1, <2>2, <2>9
      <4> QED BY <4>1, <4>2
    <3> HIDE DEF u
    <3>3. CASE heap[i].tag = "CELL"
      <4>1. Held(heap[i].car, i - 1) /\ Held(heap[i].cdr, i - 1) BY <3>1, <3>3, ObjectsAre
      <4>2. ASSUME NEW x, Held(x, i - 1) PROVE Part(u, x) = Part(t, x)
        <5>1. IsRef(x) => x.obj \in 1 .. i - 1 BY <4>2, HeldIs
        <5>2. IsRef(x) => x.obj \in 1 .. n BY <5>1, <3>1
        <5> QED BY <5>2, <2>2 DEF Part
      <4>3. /\ Part(u, heap[i].car) = Part(t, heap[i].car)
            /\ Part(u, heap[i].cdr) = Part(t, heap[i].cdr)
        BY <4>1, <4>2
      <4> QED BY <3>2, <3>3, <4>3 DEF Node
    <3>4. CASE heap[i].tag # "CELL" BY <3>2, <3>4 DEF Node
    <3> QED BY <3>3, <3>4
  <2>5. u = [i \in 1 .. n + 1 |-> u[i]] OBVIOUS
  <2> HIDE DEF u
  <2>6. u = [i \in 1 .. n + 1 |-> Node(u, heap[i], i)]
    <3>1. [i \in 1 .. n + 1 |-> u[i]] = [i \in 1 .. n + 1 |-> Node(u, heap[i], i)] BY <2>4
    <3> QED BY <2>5, <3>1
  <2>7. Trees(u, n + 1) BY <2>6 DEF Trees
  <2> QED BY <2>7
<1> HIDE DEF S
<1>4. Nat \subseteq S BY <1>2, <1>3, NatInd
<1>5. Len(heap) \in S BY <1>1, <1>4
<1> QED BY <1>1, <1>5 DEF S

(* The reference Tree is this function. *)
TreeOfHeap ==
  Objects(heap, Len(heap)) /\ Len(heap) \in Nat =>
    \E t : Trees(t, Len(heap)) /\ \A v : Tree(v) = Part(t, v)
LEMMA TreeIs == TreeOfHeap
<1> SUFFICES ASSUME Objects(heap, Len(heap)), Len(heap) \in Nat
             PROVE  \E t : Trees(t, Len(heap)) /\ \A v : Tree(v) = Part(t, v)
  BY DEF TreeOfHeap
<1> DEFINE body(t, i) ==
             LET o == heap[i]
                 part(x) == IF IsRef(x) THEN t[x.obj] ELSE x
             IN CASE o.tag = "INTEGER" -> [int |-> o.n]
                  [] o.tag = "STRING" -> [str |-> o.str]
                  [] o.tag = "CELL" -> [pair |-> <<part(o.car), part(o.cdr)>>]
                  [] OTHER -> [obj |-> i]
           tree == CHOOSE t : t = [i \in DOMAIN heap |-> body(t, i)]
<1>1. DOMAIN heap = 1 .. Len(heap) BY ObjectsAre
<1>2. \A v : Tree(v) = IF IsRef(v) THEN tree[v.obj] ELSE v BY DEF Tree
<1>3. \A t, i : body(t, i) = Node(t, heap[i], i) BY DEF Node, Part
<1>6. \A t : [i \in DOMAIN heap |-> body(t, i)] = [i \in 1 .. Len(heap) |-> Node(t, heap[i], i)]
  <2> HIDE DEF body
  <2> QED BY <1>1, <1>3
<1> HIDE DEF body
<1>4. \E t : t = [i \in DOMAIN heap |-> body(t, i)]
  <2>1. PICK t : Trees(t, Len(heap)) BY TreesExist
  <2> QED BY <2>1, <1>6 DEF Trees
<1>5. tree = [i \in DOMAIN heap |-> body(tree, i)] BY <1>4
<1> HIDE DEF tree
<1>7. Trees(tree, Len(heap)) BY <1>5, <1>6 DEF Trees
<1>8. \A v : Tree(v) = Part(tree, v) BY <1>2 DEF Part
<1> QED BY <1>7, <1>8
LEMMA TreeNext == TreeOfHeap' BY TreeIs, PTL

(* What the tree of a value is, by the kind of the value. *)
LEMMA TreeShapes ==
  ASSUME NEW B \in Nat, Objects(heap, B), B <= Len(heap), NEW t, Trees(t, B),
         NEW v, Held(v, B)
  PROVE  /\ IsInt(v) => Part(t, v) = [int |-> IntOf(v)]
         /\ Tag(v) = "STRING" => Part(t, v) = [str |-> heap[v.obj].str]
         /\ IsPair(v) => Part(t, v) = [pair |-> <<Part(t, CAR(v)), Part(t, CDR(v))>>]
         /\ Tag(v) = "VECTOR" => Part(t, v) = v /\ DOMAIN v = {"obj"}
         /\ ~IsRef(v) => Part(t, v) = v /\ DOMAIN v \in {{"static"}, {"sym"}, {"prim"}}
         /\ IsRef(v) => Tag(v) \in {"INTEGER", "STRING", "CELL", "VECTOR"}
<1>1. CASE ~IsRef(v)
  <2>1. Static(v) BY <1>1, HeldIs
  <2>2. DOMAIN v \in {{"static"}, {"sym"}, {"prim"}}
    BY <2>1 DEF Static, NIL, TRUEV, FALSEV, UNDEF
  <2>3. ~IsInt(v) /\ ~IsPair(v) /\ Tag(v) \notin {"VECTOR", "STRING"}
    BY <1>1, Tags
  <2> QED BY <1>1, <2>2, <2>3 DEF Part
<1>2. CASE IsRef(v)
  <2>1. v.obj \in 1 .. B /\ v.obj \in DOMAIN heap /\ v = [obj |-> v.obj]
    BY <1>2, HeldIs, ObjectsAre
  <2>2. heap[v.obj].tag \in {"INTEGER", "STRING", "CELL", "VECTOR"} /\ Tag(v) = heap[v.obj].tag
    BY <1>2, <2>1, Tags, ObjectsAre
  <2>3. Part(t, v) = Node(t, heap[v.obj], v.obj)
    <3>1. t = [i \in 1 .. B |-> Node(t, heap[i], i)] BY DEF Trees
    <3>2. Part(t, v) = t[v.obj] BY <1>2 DEF Part
    <3> HIDE DEF Node
    <3> QED BY <2>1, <3>1, <3>2
  <2>4. CASE heap[v.obj].tag = "INTEGER"
    <3>1. Part(t, v) = [int |-> IntOf(v)] BY <2>3, <2>4 DEF Node, IntOf
    <3>2. ~IsPair(v) BY <2>4, Tags
    <3> QED BY <1>2, <2>2, <2>4, <3>1, <3>2
  <2>5. CASE heap[v.obj].tag = "STRING"
    <3>1. Part(t, v) = [str |-> heap[v.obj].str] BY <2>3, <2>5 DEF Node
    <3>2. ~IsPair(v) /\ ~IsInt(v) BY <2>5, Tags
    <3> QED BY <1>2, <2>2, <2>5, <3>1, <3>2
  <2>6. CASE heap[v.obj].tag = "CELL"
    <3>1. CAR(v) = heap[v.obj].car /\ CDR(v) = heap[v.obj].cdr BY <1>2 DEF CAR, CDR
    <3>2. Part(t, v) = [pair |-> <<Part(t, CAR(v)), Part(t, CDR(v))>>]
      BY <2>3, <2>6, <3>1 DEF Node
    <3>3. ~IsInt(v) BY <2>6, Tags
    <3> QED BY <1>2, <2>2, <2>6, <3>2, <3>3
  <2>7. CASE heap[v.obj].tag = "VECTOR"
    <3>1. Part(t, v) = v BY <2>1, <2>3, <2>7 DEF Node
    <3>2. ~IsInt(v) /\ ~IsPair(v) BY <2>7, Tags
    <3>3. DOMAIN v = {"obj"} BY <2>1
    <3> QED BY <1>2, <2>2, <2>7, <3>1, <3>2, <3>3
  <2> QED BY <2>2, <2>4, <2>5, <2>6, <2>7
<1> QED BY <1>1, <1>2

(* The four kinds of nodes, and equal ones. *)
LEMMA NodesDiffer ==
  /\ \A x, y : [int |-> x] = [int |-> y] => x = y
  /\ \A x, y : [str |-> x] = [str |-> y] => x = y
  /\ \A x, y, z, u : [pair |-> <<x, y>>] = [pair |-> <<z, u>>] => x = z /\ y = u
  /\ \A x : DOMAIN [int |-> x] = {"int"} /\ DOMAIN [str |-> x] = {"str"}
            /\ DOMAIN [pair |-> x] = {"pair"}
  /\ {"int"} # {"str"} /\ {"int"} # {"pair"} /\ {"str"} # {"pair"}
  /\ \A s \in {"obj", "static", "sym", "prim"} :
       {s} # {"int"} /\ {s} # {"str"} /\ {s} # {"pair"}
<1>1. ASSUME NEW x, NEW y, [int |-> x] = [int |-> y] PROVE x = y
  <2>1. [int |-> x].int = [int |-> y].int BY <1>1
  <2> QED BY <2>1
<1>2. ASSUME NEW x, NEW y, [str |-> x] = [str |-> y] PROVE x = y
  <2>1. [str |-> x].str = [str |-> y].str BY <1>2
  <2> QED BY <2>1
<1>3. ASSUME NEW x, NEW y, NEW z, NEW u, [pair |-> <<x, y>>] = [pair |-> <<z, u>>]
      PROVE  x = z /\ y = u
  <2>1. [pair |-> <<x, y>>].pair = [pair |-> <<z, u>>].pair BY <1>3
  <2> QED BY <2>1
<1>4. \A x : DOMAIN [int |-> x] = {"int"} /\ DOMAIN [str |-> x] = {"str"}
             /\ DOMAIN [pair |-> x] = {"pair"}
  OBVIOUS
<1>5. \A x, y : {x} = {y} => x = y OBVIOUS
<1>6. {"int"} # {"str"} /\ {"int"} # {"pair"} /\ {"str"} # {"pair"}
  BY <1>5, "int" # "str", "int" # "pair", "str" # "pair"
<1>7. \A s \in {"obj", "static", "sym", "prim"} :
        {s} # {"int"} /\ {s} # {"str"} /\ {s} # {"pair"}
  <2>1. \A s \in {"obj", "static", "sym", "prim"} : s # "int" /\ s # "str" /\ s # "pair" OBVIOUS
  <2> QED BY <1>5, <2>1
<1> QED BY <1>1, <1>2, <1>3, <1>4, <1>6, <1>7

(* Values with the same tree are of the same kind. *)
LEMMA SameKind ==
  ASSUME NEW B \in Nat, Objects(heap, B), B <= Len(heap), NEW t, Trees(t, B),
         NEW a, Held(a, B), NEW b, Held(b, B), Part(t, a) = Part(t, b)
  PROVE  \/ IsInt(a) /\ IsInt(b) /\ IntOf(a) = IntOf(b)
         \/ Tag(a) = "STRING" /\ Tag(b) = "STRING" /\ heap[a.obj].str = heap[b.obj].str
         \/ /\ IsPair(a) /\ IsPair(b)
            /\ Part(t, CAR(a)) = Part(t, CAR(b)) /\ Part(t, CDR(a)) = Part(t, CDR(b))
         \/ a = b /\ ~IsPair(a) /\ ~IsInt(a)
<1> DEFINE D == DOMAIN Part(t, a)
<1>1. DOMAIN Part(t, b) = D OBVIOUS
<1> HIDE DEF D
<1>2. ASSUME NEW v, Held(v, B), DOMAIN Part(t, v) = D
      PROVE  /\ IsInt(v) => D = {"int"}
             /\ Tag(v) = "STRING" => D = {"str"}
             /\ IsPair(v) => D = {"pair"}
             /\ IsInt(v) \/ Tag(v) = "STRING" \/ IsPair(v) \/
                (Part(t, v) = v /\ \E s \in {"obj", "static", "sym", "prim"} : D = {s})
  <2>1. IsInt(v) => D = {"int"} BY <1>2, TreeShapes, NodesDiffer
  <2>2. Tag(v) = "STRING" => D = {"str"} BY <1>2, TreeShapes, NodesDiffer
  <2>3. IsPair(v) => D = {"pair"} BY <1>2, TreeShapes, NodesDiffer
  <2>4. Tag(v) = "VECTOR" => Part(t, v) = v /\ D = {"obj"} BY <1>2, TreeShapes
  <2>5. ~IsRef(v) => Part(t, v) = v /\ D \in {{"static"}, {"sym"}, {"prim"}}
    BY <1>2, TreeShapes
  <2>6. IsRef(v) => IsInt(v) \/ Tag(v) = "STRING" \/ IsPair(v) \/ Tag(v) = "VECTOR"
    BY <1>2, TreeShapes, Tags
  <2> QED BY <2>1, <2>2, <2>3, <2>4, <2>5, <2>6
<1>3. DOMAIN Part(t, a) = D BY DEF D
<1>4. CASE IsInt(a)
  <2>1. D = {"int"} BY <1>2, <1>3, <1>4
  <2>2. IsInt(b) BY <1>1, <1>2, <2>1, NodesDiffer
  <2> QED BY <1>4, <2>2, TreeShapes, NodesDiffer
<1>5. CASE Tag(a) = "STRING"
  <2>1. D = {"str"} BY <1>2, <1>3, <1>5
  <2>2. Tag(b) = "STRING" BY <1>1, <1>2, <2>1, NodesDiffer
  <2> QED BY <1>5, <2>2, TreeShapes, NodesDiffer
<1>6. CASE IsPair(a)
  <2>1. D = {"pair"} BY <1>2, <1>3, <1>6
  <2>2. IsPair(b) BY <1>1, <1>2, <2>1, NodesDiffer
  <2> QED BY <1>6, <2>2, TreeShapes, NodesDiffer
<1>7. CASE ~IsInt(a) /\ Tag(a) # "STRING" /\ ~IsPair(a)
  <2>1. Part(t, a) = a /\ \E s \in {"obj", "static", "sym", "prim"} : D = {s}
    BY <1>2, <1>3, <1>7
  <2>2. Part(t, b) = b BY <1>1, <1>2, <2>1, NodesDiffer
  <2> QED BY <1>7, <2>1, <2>2
<1> QED BY <1>4, <1>5, <1>6, <1>7

(* Values with the same tree have the same length. *)
LEMMA SameLength ==
  ASSUME NEW B \in Nat, Objects(heap, B), B <= Len(heap), NEW t, Trees(t, B),
         NEW a, Held(a, B), NEW b, Held(b, B), Part(t, a) = Part(t, b)
  PROVE  get_list_length(a) = get_list_length(b)
<1> DEFINE S == {k \in Nat : k <= B => \A x, y : Held(x, k) /\ Held(y, B) /\ Part(t, x) = Part(t, y)
                                         => get_list_length(x) = get_list_length(y)}
<1>1. Len(heap) \in Nat BY ObjectsAre
<1>2. ASSUME NEW k \in Nat, k <= B, NEW x, NEW y, Held(x, k), Held(y, B), Part(t, x) = Part(t, y),
             \/ ~IsPair(x)
             \/ k > 0 /\ k - 1 \in S
      PROVE  get_list_length(x) = get_list_length(y)
  <2>1. Held(x, B) /\ Held(x, Len(heap)) /\ Held(y, Len(heap)) BY <1>1, <1>2, HeldMore
  <2>2. CASE ~IsPair(x)
    <3>1. ~IsPair(y) /\ (x = NIL <=> y = NIL)
      <4>1. ~IsInt(NIL) /\ ~IsPair(NIL) /\ Tag(NIL) # "STRING" BY Tags, Statics
      <4>2. ~(IsPair(y) /\ IsInt(y)) /\ ~(IsPair(y) /\ Tag(y) = "STRING")
        BY DEF IsPair, IsInt
      <4> QED BY <1>2, <2>1, <2>2, <4>1, <4>2, SameKind
    <3> QED BY <2>1, <2>2, <3>1, LengthCons
  <2>3. CASE IsPair(x)
    <3>1. IsPair(y) /\ Part(t, CDR(x)) = Part(t, CDR(y))
      <4>1. ~IsInt(x) /\ Tag(x) # "STRING" BY <2>3 DEF IsPair, IsInt
      <4> QED BY <1>2, <2>1, <2>3, <4>1, SameKind
    <3>2. Held(CDR(x), k - 1)
      <4>1. x.obj \in 1 .. k /\ Held(CDR(x), x.obj - 1) BY <1>1, <1>2, <2>3, CellIs
      <4> QED BY <4>1, HeldMore
    <3>3. Held(CDR(y), B)
      <4>1. y.obj \in 1 .. B /\ Held(CDR(y), y.obj - 1) BY <1>1, <1>2, <3>1, CellIs
      <4> QED BY <4>1, HeldMore
    <3>4. get_list_length(CDR(x)) = get_list_length(CDR(y))
      BY <1>2, <2>3, <3>1, <3>2, <3>3
    <3> QED BY <2>1, <2>3, <3>1, <3>4, LengthCons
  <2> QED BY <2>2, <2>3
<1>3. 0 \in S
  <2>1. ASSUME NEW x, Held(x, 0), IsPair(x) PROVE FALSE
    <3>1. x.obj \in 1 .. 0 BY <2>1, <1>1, CellIs
    <3> QED BY <3>1
  <2> HIDE DEF S
  <2>2. ASSUME NEW x, NEW y, Held(x, 0), Held(y, B), Part(t, x) = Part(t, y)
        PROVE  get_list_length(x) = get_list_length(y)
    BY <2>1, <2>2, <1>2
  <2> QED BY <2>2 DEF S
<1>4. ASSUME NEW k \in Nat, k \in S PROVE k + 1 \in S
  <2> HIDE DEF S
  <2>1. (k + 1) - 1 = k /\ k + 1 > 0 /\ k + 1 \in Nat OBVIOUS
  <2>2. ASSUME k + 1 <= B, NEW x, NEW y, Held(x, k + 1), Held(y, B), Part(t, x) = Part(t, y)
        PROVE  get_list_length(x) = get_list_length(y)
    BY <2>1, <2>2, <1>2, <1>4
  <2> QED BY <2>1, <2>2 DEF S
<1> HIDE DEF S
<1>5. Nat \subseteq S BY <1>3, <1>4, NatInd
<1>6. B \in S BY <1>5
<1> QED BY <1>6 DEF S

-----------------------------------------------------------------------------
(* The recursion of equal: w answers for every two cells.                  *)

Truths == {"true", "false", "crash"}
Tables == [Cells -> [Cells -> Truths]]
Walked(w) == \A i, j \in Cells : w[i][j] = equal_cells(w, heap[i], heap[j])

LEMMA CellsAre ==
  ASSUME NEW B \in Nat, Objects(heap, B)
  PROVE  /\ Len(heap) \in Nat /\ Cells \subseteq 1 .. Len(heap)
         /\ \A i \in Cells : Held(heap[i].car, i - 1) /\ Held(heap[i].cdr, i - 1)
         /\ \A m \in Nat : \A v : m <= Len(heap) /\ Held(v, m) /\ IsPair(v) =>
              /\ v.obj \in Cells /\ v.obj \in 1 .. m
              /\ CAR(v) = heap[v.obj].car /\ CDR(v) = heap[v.obj].cdr
<1>1. Len(heap) \in Nat /\ DOMAIN heap = 1 .. Len(heap) BY ObjectsAre
<1>2. \A i \in Cells : Held(heap[i].car, i - 1) /\ Held(heap[i].cdr, i - 1)
  BY ObjectsAre DEF Cells
<1>3. ASSUME NEW m \in Nat, NEW v, m <= Len(heap), Held(v, m), IsPair(v)
      PROVE  /\ v.obj \in Cells /\ v.obj \in 1 .. m
             /\ CAR(v) = heap[v.obj].car /\ CDR(v) = heap[v.obj].cdr
  <2>1. /\ v.obj \in DOMAIN heap /\ v.obj \in 1 .. m
        /\ CAR(v) = heap[v.obj].car /\ CDR(v) = heap[v.obj].cdr
    BY <1>3, CellIs
  <2>2. heap[v.obj].tag = "CELL" BY <1>3, Tags
  <2> QED BY <2>1, <2>2 DEF Cells
<1> QED BY <1>1, <1>2, <1>3 DEF Cells

LEMMA EqualIn ==
  ASSUME NEW B \in Nat, Objects(heap, B), NEW m \in Nat, m <= Len(heap),
         NEW a, Held(a, m), NEW b, Held(b, m), NEW w \in Tables
  PROVE  equal_objs(w, a, b) \in Truths /\ equal_lists(w, a, b) \in Truths
<1>1. \A x : IsPair(x) /\ Held(x, m) => x.obj \in Cells BY CellsAre
<1>2. \A i, j \in Cells : w[i][j] \in Truths BY DEF Tables
<1>3. equal_lists(w, a, b) \in Truths
  <2>1. \A x, y : equal_words(x, y) \in Truths BY DEF equal_words, Truths
  <2>2. equal_ends(a, b) \in Truths BY <2>1 DEF equal_ends, Truths
  <2> QED BY <1>1, <1>2, <2>2 DEF equal_lists, Truths
<1>4. equal_objs(w, a, b) \in Truths BY <1>3 DEF equal_objs, Truths
<1> QED BY <1>3, <1>4

(* The answer for a and b depends on smaller objects only. *)
LEMMA EqualLocal ==
  ASSUME NEW B \in Nat, Objects(heap, B), NEW m \in Nat, m <= Len(heap),
         NEW a, Held(a, m), NEW b, NEW f, NEW h,
         \A i \in Cells : i <= m => f[i] = h[i]
  PROVE  equal_objs(f, a, b) = equal_objs(h, a, b) /\ equal_lists(f, a, b) = equal_lists(h, a, b)
<1>1. IsPair(a) => a.obj \in Cells /\ a.obj <= m BY CellsAre
<1>2. IsPair(a) => f[a.obj] = h[a.obj] BY <1>1
<1>3. equal_lists(f, a, b) = equal_lists(h, a, b) BY <1>2 DEF equal_lists
<1>4. equal_objs(f, a, b) = equal_objs(h, a, b) BY <1>3 DEF equal_objs
<1> QED BY <1>3, <1>4

LEMMA WalkedExists ==
  ASSUME NEW B \in Nat, Objects(heap, B)
  PROVE  \E w : w = [i \in Cells |-> [j \in Cells |-> equal_cells(w, heap[i], heap[j])]]
<1> DEFINE N == Len(heap)
           Q == [Cells -> Truths]
           row(i, w) == [j \in Cells |-> equal_cells(w, heap[i], heap[j])]
           g == [i \in Cells |-> [w \in [Cells -> Q] |-> row(i, w)]]
           m == [i \in Cells |-> i]
<1>1. N \in Nat /\ Cells \subseteq 1 .. N BY CellsAre
<1>2. m \in [Cells -> 0 .. N] BY <1>1
<1>3. Q # {}
  <2>1. [j \in Cells |-> "true"] \in Q BY DEF Truths
  <2> QED BY <2>1
<1>4. ASSUME NEW i \in Cells, NEW w \in [Cells -> Q] PROVE row(i, w) \in Q
  <2> SUFFICES ASSUME NEW j \in Cells PROVE equal_cells(w, heap[i], heap[j]) \in Truths
    OBVIOUS
  <2>1. w \in Tables BY DEF Tables
  <2>2. \A k \in Cells : Held(heap[k].car, N) /\ Held(heap[k].cdr, N)
    <3> SUFFICES ASSUME NEW k \in Cells PROVE Held(heap[k].car, N) /\ Held(heap[k].cdr, N)
      OBVIOUS
    <3>1. k \in 1 .. N /\ k - 1 \in Int /\ k - 1 <= N BY <1>1
    <3>2. Held(heap[k].car, k - 1) /\ Held(heap[k].cdr, k - 1) BY CellsAre
    <3> QED BY <1>1, <3>1, <3>2, HeldMore
  <2> DEFINE same == equal_objs(w, heap[i].car, heap[j].car)
             rest == equal_lists(w, heap[i].cdr, heap[j].cdr)
  <2>3. same \in Truths /\ rest \in Truths BY <1>1, <2>1, <2>2, EqualIn
  <2>4. equal_cells(w, heap[i], heap[j]) = IF same = "true" THEN rest ELSE same BY DEF equal_cells
  <2> QED BY <2>3, <2>4
<1>5. ASSUME NEW i \in Cells, NEW f \in [Cells -> Q], NEW h \in [Cells -> Q],
             \A k \in Cells : m[k] < m[i] => f[k] = h[k]
      PROVE  row(i, f) = row(i, h)
  <2>1. i \in 1 .. N /\ i - 1 \in Nat /\ i - 1 <= N BY <1>1
  <2>2. \A k \in Cells : k <= i - 1 => f[k] = h[k] BY <1>1, <1>5, <2>1
  <2>3. Held(heap[i].car, i - 1) /\ Held(heap[i].cdr, i - 1) BY CellsAre
  <2>4. \A j \in Cells : equal_cells(f, heap[i], heap[j]) = equal_cells(h, heap[i], heap[j])
    <3> SUFFICES ASSUME NEW j \in Cells
                 PROVE  equal_cells(f, heap[i], heap[j]) = equal_cells(h, heap[i], heap[j])
      OBVIOUS
    <3>1. /\ equal_objs(f, heap[i].car, heap[j].car) = equal_objs(h, heap[i].car, heap[j].car)
          /\ equal_lists(f, heap[i].cdr, heap[j].cdr) = equal_lists(h, heap[i].cdr, heap[j].cdr)
      <4>1. PICK n \in Nat : n = i - 1 BY <2>1
      <4>2. /\ n <= Len(heap) /\ Held(heap[i].car, n) /\ Held(heap[i].cdr, n)
            /\ \A k \in Cells : k <= n => f[k] = h[k]
        BY <4>1, <2>1, <2>2, <2>3
      <4>3. ASSUME NEW x, Held(x, n), NEW y
            PROVE  equal_objs(f, x, y) = equal_objs(h, x, y)
                   /\ equal_lists(f, x, y) = equal_lists(h, x, y)
        BY <4>1, <4>2, <4>3, EqualLocal
      <4> QED BY <4>2, <4>3, Zenon
    <3> QED BY <3>1 DEF equal_cells
  <2> QED BY <2>4
<1>6. \A i \in Cells, w \in [Cells -> Q] : g[i][w] = row(i, w) OBVIOUS
<1> HIDE DEF row
<1>7. g \in [Cells -> [[Cells -> Q] -> Q]] BY <1>4
<1>8. Recursive(Cells, Q, m, g)
  <2> HIDE DEF g, m, Q
  <2>1. ASSUME NEW i \in Cells, NEW f \in [Cells -> Q], NEW h \in [Cells -> Q],
               \A k \in Cells : m[k] < m[i] => f[k] = h[k]
        PROVE  g[i][f] = g[i][h]
    <3>1. row(i, f) = row(i, h) BY <2>1, <1>5
    <3> QED BY <1>6, <3>1
  <2> QED BY <1>7, <2>1, Zenon DEF Recursive
<1> HIDE DEF g, m, Q
<1>9. PICK w \in [Cells -> Q] : Solves(w, Cells, g) BY <1>1, <1>2, <1>3, <1>8, Defined
<1>10. \A i \in Cells : w[i] = row(i, w) BY <1>6, <1>9 DEF Solves
<1>11. w = [i \in Cells |-> row(i, w)]
  <2>1. w = [i \in Cells |-> w[i]] OBVIOUS
  <2>2. [i \in Cells |-> w[i]] = [i \in Cells |-> row(i, w)] BY <1>10
  <2> QED BY <2>1, <2>2
<1> QED BY <1>11 DEF row

(* equal, with the answers of the recursion. *)
LEMMA EqualIs ==
  ASSUME NEW B \in Nat, Objects(heap, B)
  PROVE  \E w : Walked(w) /\ \A a, b : equal(a, b) = equal_objs(w, a, b)
<1> DEFINE table(w) == [i \in Cells |-> [j \in Cells |-> equal_cells(w, heap[i], heap[j])]]
           walk == CHOOSE w : w = table(w)
<1>1. \A a, b : equal(a, b) = equal_objs(walk, a, b) BY DEF equal
<1>2. \E w : w = table(w) BY WalkedExists
<1> HIDE DEF table
<1>3. walk = table(walk) BY <1>2
<1> HIDE DEF walk
<1>4. \A i, j \in Cells : walk[i][j] = equal_cells(walk, heap[i], heap[j]) BY <1>3 DEF table
<1>5. Walked(walk) BY <1>4 DEF Walked
<1> QED BY <1>1, <1>5

-----------------------------------------------------------------------------
(* What a value holds.  Within is the least set that is closed under       *)
(* Inside.                                                                 *)

Closed(C) == \A x \in C : Inside(x) \subseteq C
Least(W, v) ==
  /\ v \in W /\ Closed(W) /\ \A x \in W : Held(x, Len(heap))
  /\ \A C : v \in C /\ Closed(C) => W \subseteq C

LEMMA InsideIs ==
  ASSUME NEW B \in Nat, Objects(heap, B), B <= Len(heap), NEW x, Held(x, Len(heap))
  PROVE  /\ IsPair(x) => Inside(x) = {CAR(x), CDR(x)}
         /\ Tag(x) = "VECTOR" => Inside(x) = Elems(heap[x.obj].elems)
         /\ \A y \in Inside(x) : IsRef(x) /\ Held(y, Len(heap)) /\ (IsPair(x) => Held(y, x.obj - 1))
         /\ Held(x, B) => \A y \in Inside(x) : Held(y, B)
<1>1. Len(heap) \in Nat BY ObjectsAre
<1>2. CASE IsPair(x)
  <2>1. Inside(x) = {CAR(x), CDR(x)} /\ Tag(x) # "VECTOR" BY <1>2 DEF Inside, IsPair
  <2>2. x.obj \in 1 .. Len(heap) /\ Held(CAR(x), x.obj - 1) /\ Held(CDR(x), x.obj - 1)
    BY <1>1, <1>2, CellIs
  <2>3. x.obj - 1 \in Int /\ x.obj - 1 <= Len(heap) BY <1>1, <2>2
  <2>4. Held(CAR(x), Len(heap)) /\ Held(CDR(x), Len(heap)) BY <1>1, <2>2, <2>3, HeldMore
  <2>5. Held(x, B) => Held(CAR(x), B) /\ Held(CDR(x), B)
    <3> SUFFICES ASSUME Held(x, B) PROVE Held(CAR(x), B) /\ Held(CDR(x), B) OBVIOUS
    <3>1. x.obj \in 1 .. B BY <1>2, CellIs
    <3>2. x.obj - 1 <= B BY <3>1
    <3> QED BY <2>2, <2>3, <3>2, HeldMore
  <2>6. IsRef(x) BY <1>2, Tags
  <2> QED BY <1>2, <2>1, <2>2, <2>4, <2>5, <2>6
<1>3. CASE Tag(x) = "VECTOR"
  <2>1. Inside(x) = Elems(heap[x.obj].elems) /\ ~IsPair(x) BY <1>3 DEF Inside, IsPair
  <2>2. IsRef(x) /\ heap[x.obj].tag = "VECTOR"
    <3>1. ~IsRef(x) => Tag(x) # "VECTOR" BY Tags
    <3> QED BY <1>3, <3>1, Tags
  <2>3. x.obj \in DOMAIN heap BY <2>2, HeldIs, ObjectsAre
  <2>4. \A y \in Inside(x) : Held(y, B)
    <3>1. \A k \in DOMAIN heap[x.obj].elems : Held(heap[x.obj].elems[k], B)
      BY <2>2, <2>3, ObjectsAre
    <3> QED BY <2>1, <3>1 DEF Elems
  <2>5. \A y \in Inside(x) : Held(y, Len(heap)) BY <1>1, <2>4, HeldMore
  <2> QED BY <1>3, <2>1, <2>2, <2>4, <2>5
<1>4. CASE ~IsPair(x) /\ Tag(x) # "VECTOR" BY <1>4 DEF Inside
<1> QED BY <1>2, <1>3, <1>4

(* The rounds of Within, among the values Z of the heap. *)
Grown(A) == UNION {{x} \cup Inside(x) : x \in A}
Rounds(r, v, N) == r = [k \in 0 .. N |-> IF k = 0 THEN {v} ELSE Grown(r[k - 1])]
Values(Z) == Closed(Z) /\ \A x \in Z : Held(x, Len(heap))

LEMMA ValuesExist ==
  ASSUME NEW B \in Nat, Objects(heap, B), B <= Len(heap), NEW v, Held(v, Len(heap))
  PROVE  \E Z : v \in Z /\ Values(Z)
<1> DEFINE Z == {v} \cup UNION {Inside([obj |-> i]) : i \in DOMAIN heap}
<1>1. Len(heap) \in Nat /\ DOMAIN heap = 1 .. Len(heap) BY ObjectsAre
<1>2. \A i \in DOMAIN heap : Held([obj |-> i], Len(heap)) BY <1>1 DEF Held
<1>3. \A x \in Z : Held(x, Len(heap)) BY <1>2, InsideIs
<1>4. ASSUME NEW x \in Z, NEW y \in Inside(x) PROVE y \in Z
  <2>1. Held(x, Len(heap)) /\ IsRef(x) BY <1>3, <1>4, InsideIs
  <2>2. x.obj \in DOMAIN heap /\ x = [obj |-> x.obj] BY <1>1, <2>1, HeldIs
  <2> QED BY <1>4, <2>2
<1>5. Closed(Z)
  <2> HIDE DEF Z
  <2> QED BY <1>4 DEF Closed
<1> QED BY <1>3, <1>5 DEF Values

LEMMA GrownIn ==
  ASSUME NEW Z, Closed(Z), NEW A \in SUBSET Z
  PROVE  Grown(A) \in SUBSET Z
  BY DEF Closed, Grown

LEMMA RoundsExist ==
  ASSUME NEW Z, Closed(Z), NEW v \in Z, NEW N \in Nat
  PROVE  \E r : Rounds(r, v, N)
<1> DEFINE Q == SUBSET Z
           step == [k \in 0 + 1 .. N |-> [A \in Q |-> Grown(A)]]
<1>1. \A A \in Q : Grown(A) \in Q BY GrownIn
<1>2. step \in [0 + 1 .. N -> [Q -> Q]] /\ {v} \in Q
  <2> HIDE DEF Q
  <2>1. step \in [0 + 1 .. N -> [Q -> Q]] BY <1>1
  <2> QED BY <2>1 DEF Q
<1>3. \A k \in 1 .. N, A \in Q : step[k][A] = Grown(A)
  <2> HIDE DEF Q
  <2> QED OBVIOUS
<1>4. \A k \in 0 .. N : k # 0 => k \in 1 .. N /\ k - 1 \in 0 .. N OBVIOUS
<1> HIDE DEF Q, step
<1>5. PICK r : Iterates(r, 0, N, Q, {v}, step) BY <1>2, Iteration
<1>6. r \in [0 .. N -> Q] /\ \A k \in 0 .. N : r[k] = IF k = 0 THEN {v} ELSE step[k][r[k - 1]]
  BY <1>5 DEF Iterates
<1>7. \A k \in 0 .. N : r[k] = IF k = 0 THEN {v} ELSE Grown(r[k - 1])
  <2>1. \A k \in 0 .. N : k # 0 => step[k][r[k - 1]] = Grown(r[k - 1]) BY <1>3, <1>4, <1>6
  <2> QED BY <1>6, <2>1
<1>8. r = [k \in 0 .. N |-> r[k]] BY <1>6
<1>9. [k \in 0 .. N |-> r[k]] = [k \in 0 .. N |-> IF k = 0 THEN {v} ELSE Grown(r[k - 1])]
  BY <1>7
<1> QED BY <1>8, <1>9 DEF Rounds

LEMMA RoundsInside ==
  ASSUME NEW v, NEW N \in Nat, NEW r, Rounds(r, v, N), NEW C, v \in C, Closed(C)
  PROVE  \A k \in 0 .. N : r[k] \subseteq C
<1> DEFINE S == {k \in Nat : k <= N => r[k] \subseteq C}
<1>1. \A k \in 0 .. N : r[k] = IF k = 0 THEN {v} ELSE Grown(r[k - 1])
  <2> HIDE DEF S
  <2>1. r = [k \in 0 .. N |-> IF k = 0 THEN {v} ELSE Grown(r[k - 1])] BY DEF Rounds
  <2> QED BY <2>1
<1>2. 0 \in S BY <1>1
<1>3. ASSUME NEW k \in Nat, k \in S PROVE k + 1 \in S
  <2> SUFFICES ASSUME k + 1 <= N PROVE r[k + 1] \subseteq C OBVIOUS
  <2>1. k + 1 \in 0 .. N /\ k + 1 # 0 /\ (k + 1) - 1 = k /\ k <= N OBVIOUS
  <2>2. r[k + 1] = Grown(r[k]) BY <1>1, <2>1
  <2>3. r[k] \in SUBSET C BY <1>3, <2>1
  <2> QED BY <2>2, <2>3, GrownIn
<1> HIDE DEF S
<1>4. Nat \subseteq S BY <1>2, <1>3, NatInd
<1>5. ASSUME NEW k \in 0 .. N PROVE r[k] \subseteq C
  <2>1. k \in S /\ k <= N BY <1>4
  <2> QED BY <2>1 DEF S
<1> QED BY <1>5

(* Every round up to the first that adds nothing finds another object, and *)
(* there are as many rounds as objects.                                    *)
LEMMA RoundsClose ==
  ASSUME NEW B \in Nat, Objects(heap, B), B <= Len(heap), NEW v, Held(v, Len(heap)),
         NEW r, Rounds(r, v, Len(heap))
  PROVE  Closed(r[Len(heap)])
<1> DEFINE N == Len(heap)
           refs(A) == {i \in 1 .. N : [obj |-> i] \in A}
           S == {k \in Nat : k <= N => Closed(r[k]) \/ Cardinality(refs(r[k])) >= k + 1}
<1>1. N \in Nat BY ObjectsAre
<1>2. PICK Z : v \in Z /\ Values(Z) BY ValuesExist
<1>3. \A k \in 0 .. N : r[k] \subseteq Z
  <2> HIDE DEF S
  <2> QED BY <1>1, <1>2, RoundsInside DEF Values
<1>4. \A k \in 0 .. N : r[k] = IF k = 0 THEN {v} ELSE Grown(r[k - 1])
  <2> HIDE DEF S
  <2>1. r = [k \in 0 .. N |-> IF k = 0 THEN {v} ELSE Grown(r[k - 1])] BY DEF Rounds
  <2> QED BY <2>1
<1>5. \A A : IsFiniteSet(refs(A)) /\ Cardinality(refs(A)) \in Nat /\ Cardinality(refs(A)) <= N
  <2> HIDE DEF N
  <2>1. IsFiniteSet(1 .. N) /\ Cardinality(1 .. N) = N
    <3>1. 1 \in Int /\ N \in Int BY <1>1
    <3>2. IsFiniteSet(1 .. N) /\ Cardinality(1 .. N) = IF 1 > N THEN 0 ELSE N - 1 + 1
      BY <3>1, FS_Interval, Zenon
    <3> QED BY <1>1, <3>2
  <2> SUFFICES ASSUME NEW A
               PROVE  IsFiniteSet(refs(A)) /\ Cardinality(refs(A)) \in Nat
                      /\ Cardinality(refs(A)) <= N
    OBVIOUS
  <2>2. refs(A) \in SUBSET (1 .. N) OBVIOUS
  <2> HIDE DEF refs
  <2> QED BY <2>1, <2>2, FS_Subset, FS_CardinalityType
<1> HIDE DEF refs
<1>6. 0 \in S
  <2>1. r[0] = {v} BY <1>1, <1>4
  <2>2. CASE IsRef(v)
    <3>1. v.obj \in 1 .. N /\ v = [obj |-> v.obj] BY <2>2, HeldIs
    <3>2. v.obj \in refs(r[0]) BY <2>1, <3>1 DEF refs
    <3>3. Cardinality(refs(r[0])) # 0 BY <3>2, <1>5, FS_EmptySet
    <3>4. Cardinality(refs(r[0])) >= 0 + 1 BY <3>3, <1>5
    <3> QED BY <3>4
  <2>3. CASE ~IsRef(v)
    <3>1. Inside(v) = {} BY <2>3, InsideIs
    <3>2. Closed(r[0]) BY <2>1, <3>1 DEF Closed
    <3> QED BY <3>2
  <2> QED BY <2>2, <2>3
<1>7. ASSUME NEW k \in Nat, k \in S PROVE k + 1 \in S
  <2> SUFFICES ASSUME k + 1 <= N
               PROVE  Closed(r[k + 1]) \/ Cardinality(refs(r[k + 1])) >= (k + 1) + 1
    OBVIOUS
  <2>1. k + 1 \in 0 .. N /\ k + 1 # 0 /\ (k + 1) - 1 = k /\ k \in 0 .. N /\ k <= N BY <1>1
  <2>2. r[k + 1] = Grown(r[k]) BY <1>4, <2>1
  <2>3. r[k] \subseteq r[k + 1] BY <2>2 DEF Grown
  <2>4. \A x \in r[k] : Inside(x) \subseteq r[k + 1] BY <2>2 DEF Grown
  <2>5. CASE Closed(r[k])
    <3>1. r[k + 1] \subseteq r[k] BY <2>2, <2>5 DEF Closed, Grown
    <3>2. r[k + 1] = r[k] BY <2>3, <3>1
    <3> QED BY <2>5, <3>2
  <2>6. CASE refs(r[k + 1]) = refs(r[k])
    <3>1. ASSUME NEW x \in r[k + 1], NEW y \in Inside(x) PROVE y \in r[k + 1]
      <4>1. Held(x, Len(heap)) BY <1>2, <1>3, <2>1 DEF Values
      <4>2. IsRef(x) BY <4>1, <3>1, InsideIs
      <4>3. x.obj \in 1 .. N /\ x = [obj |-> x.obj] BY <4>1, <4>2, HeldIs
      <4>4. x.obj \in refs(r[k + 1]) BY <4>3 DEF refs
      <4>5. x \in r[k] BY <2>6, <4>3, <4>4 DEF refs
      <4> QED BY <2>4, <4>5
    <3> QED BY <3>1 DEF Closed
  <2>7. CASE ~Closed(r[k]) /\ refs(r[k + 1]) # refs(r[k])
    <3>1. Cardinality(refs(r[k])) >= k + 1 BY <1>7, <2>1, <2>7
    <3>2. refs(r[k]) \in SUBSET refs(r[k + 1]) BY <2>3 DEF refs
    <3>3. Cardinality(refs(r[k])) < Cardinality(refs(r[k + 1]))
      BY <1>5, <2>7, <3>2, FewerElements
    <3> QED BY <1>5, <3>1, <3>3
  <2> QED BY <2>5, <2>6, <2>7
<1> HIDE DEF S
<1>8. Nat \subseteq S BY <1>6, <1>7, NatInd
<1>9. N \in S BY <1>1, <1>8
<1>10. Closed(r[N]) \/ Cardinality(refs(r[N])) >= N + 1 BY <1>1, <1>9 DEF S
<1> QED BY <1>1, <1>5, <1>10

WithinOfHeap ==
  \A B \in Nat : Objects(heap, B) /\ B <= Len(heap) =>
    \A v : Held(v, Len(heap)) => Least(Within(v), v)
LEMMA WithinIs == WithinOfHeap
<1> SUFFICES ASSUME NEW B \in Nat, Objects(heap, B), B <= Len(heap), NEW v, Held(v, Len(heap))
             PROVE  Least(Within(v), v)
  BY DEF WithinOfHeap
<1> DEFINE N == Len(heap)
           r == CHOOSE f : f = [k \in 0 .. N |-> IF k = 0 THEN {v} ELSE Grown(f[k - 1])]
<1>1. N \in Nat BY ObjectsAre
<1>2. Within(v) = r[N] BY DEF Within, Grown
<1>3. PICK Z : v \in Z /\ Values(Z) BY ValuesExist
<1>4. \E f : Rounds(f, v, N)
  <2> HIDE DEF N
  <2> QED BY <1>1, <1>3, RoundsExist DEF Values
<1>5. Rounds(r, v, N) BY <1>4 DEF Rounds
<1> HIDE DEF r
<1>6. Closed(r[N]) BY <1>5, RoundsClose
<1> HIDE DEF N
<1>7. N \in 0 .. N BY <1>1
<1>8. \A C : v \in C /\ Closed(C) => r[N] \subseteq C BY <1>1, <1>5, <1>7, RoundsInside
<1>9. \A x \in r[N] : Held(x, Len(heap)) BY <1>3, <1>8 DEF Values
<1>10. v \in r[N]
  <2> DEFINE S == {k \in Nat : k <= N => v \in r[k]}
  <2>1. r = [k \in 0 .. N |-> IF k = 0 THEN {v} ELSE Grown(r[k - 1])] BY <1>5 DEF Rounds
  <2>2. \A k \in 0 .. N : r[k] = IF k = 0 THEN {v} ELSE Grown(r[k - 1])
    <3> HIDE DEF S
    <3> QED BY <2>1
  <2>3. 0 \in S BY <1>1, <2>2
  <2>4. ASSUME NEW k \in Nat, k \in S PROVE k + 1 \in S
    <3> SUFFICES ASSUME k + 1 <= N PROVE v \in r[k + 1] OBVIOUS
    <3>1. k + 1 \in 0 .. N /\ k + 1 # 0 /\ (k + 1) - 1 = k /\ k <= N BY <1>1
    <3>2. r[k + 1] = Grown(r[k]) BY <2>2, <3>1
    <3>3. v \in r[k] BY <2>4, <3>1
    <3> QED BY <3>2, <3>3 DEF Grown
  <2> HIDE DEF S
  <2>5. Nat \subseteq S BY <2>3, <2>4, NatInd
  <2>6. N \in S BY <1>1, <2>5
  <2> QED BY <1>1, <2>6 DEF S
<1> QED BY <1>2, <1>6, <1>8, <1>9, <1>10 DEF Least
LEMMA WithinNext == WithinOfHeap' BY WithinIs, PTL
(* What an inner value holds, the outer one does. *)
LEMMA WithinMore ==
  ASSUME NEW B \in Nat, Objects(heap, B), B <= Len(heap), NEW v, Held(v, Len(heap)),
         NEW x \in Within(v)
  PROVE  /\ Held(x, Len(heap)) /\ x \in Within(x) /\ Within(x) \subseteq Within(v)
         /\ Inside(x) \subseteq Within(v)
<1>1. Least(Within(v), v) BY WithinIs DEF WithinOfHeap
<1>2. Held(x, Len(heap)) BY <1>1 DEF Least
<1>3. Least(Within(x), x) BY <1>2, WithinIs DEF WithinOfHeap
<1>4. Closed(Within(v)) BY <1>1 DEF Least
<1>5. Within(x) \subseteq Within(v) BY <1>3, <1>4 DEF Least
<1>6. Inside(x) \subseteq Within(v) BY <1>4 DEF Closed
<1> QED BY <1>2, <1>3, <1>5, <1>6 DEF Least

LEMMA WithinHeld ==
  ASSUME NEW B \in Nat, Objects(heap, B), B <= Len(heap), NEW v, Held(v, B)
  PROVE  /\ Least(Within(v), v) /\ Held(v, Len(heap))
         /\ \A x \in Within(v) : Held(x, B)
<1>1. Held(v, Len(heap)) BY HeldMore, ObjectsAre
<1>2. Least(Within(v), v) BY <1>1, WithinIs DEF WithinOfHeap
<1> DEFINE C == {x \in Within(v) : Held(x, B)}
<1>3. v \in C BY <1>2 DEF Least
<1>4. Closed(C)
  <2>1. ASSUME NEW x \in C, NEW y \in Inside(x) PROVE y \in C
    <3>1. Held(x, B) /\ Held(x, Len(heap)) BY <1>2, <2>1 DEF Least
    <3>2. Held(y, B) BY <2>1, <3>1, InsideIs
    <3>3. y \in Within(v) BY <1>2, <2>1 DEF Least, Closed
    <3> QED BY <3>2, <3>3
  <2> HIDE DEF C
  <2> QED BY <2>1 DEF Closed
<1>5. Within(v) \subseteq C BY <1>2, <1>3, <1>4 DEF Least
<1> QED BY <1>1, <1>2, <1>5

(* A list whose length is -1 is improper. *)
LEMMA ImproperIs ==
  ASSUME NEW B \in Nat, Objects(heap, B), B <= Len(heap)
  PROVE  /\ \A v : IsPair(v) /\ Held(v, Len(heap)) /\ get_list_length(v) = -1 => Improper(v)
         /\ \A v, x : Held(v, Len(heap)) /\ x \in Inside(v) /\ Improper(x) => Improper(v)
<1> DEFINE N == Len(heap)
           Q == {v \in 1 .. N : IsPair([obj |-> v]) /\ get_list_length([obj |-> v]) = -1 =>
                                   Improper([obj |-> v])}
           S == {k \in Nat : \A i \in 1 .. N : i <= k => i \in Q}
<1>1. N \in Nat BY ObjectsAre
<1>2. \A v, x : Held(v, Len(heap)) /\ x \in Inside(v) /\ Improper(x) => Improper(v)
  <2> SUFFICES ASSUME NEW v, NEW x \in Inside(v), Held(v, Len(heap)), Improper(x)
               PROVE  Improper(v)
    OBVIOUS
  <2>1. v \in Within(v) BY WithinIs DEF WithinOfHeap, Least
  <2>2. x \in Within(v) BY <2>1, WithinMore
  <2>3. Within(x) \subseteq Within(v) BY <2>2, WithinMore
  <2> QED BY <2>3 DEF Improper
<1>3. \A i \in 1 .. N : Held([obj |-> i], Len(heap)) BY DEF Held
<1>4. 0 \in S BY <1>1
<1>5. ASSUME NEW k \in Nat, k \in S PROVE k + 1 \in S
  <2> DEFINE v == [obj |-> k + 1]
  <2> SUFFICES ASSUME k + 1 \in 1 .. N, IsPair(v), get_list_length(v) = -1 PROVE Improper(v)
    BY <1>1, <1>5
  <2>1. Held(v, Len(heap)) BY <1>3
  <2>2. v \in Within(v) BY <2>1, WithinIs DEF WithinOfHeap, Least
  <2>3. v.obj = k + 1 BY Refs
  <2>8. CDR(v) \in Inside(v) BY <2>1, InsideIs
  <2> HIDE DEF v
  <2>4. Held(CDR(v), k)
    <3>1. Held(CDR(v), v.obj - 1) BY <1>1, <2>1, CellIs
    <3>2. v.obj - 1 = k BY <2>3
    <3> QED BY <3>1, <3>2
  <2>9. Held(CDR(v), Len(heap)) BY <1>1, <2>1, <2>8, InsideIs
  <2>5. get_list_length(CDR(v)) = -1
    <3>1. get_list_length(CDR(v)) \in Nat \cup {-1} BY <2>9, LengthCons
    <3>2. get_list_length(v) = IF get_list_length(CDR(v)) = -1 THEN -1
                               ELSE get_list_length(CDR(v)) + 1
      BY <2>1, LengthCons
    <3> QED BY <3>1, <3>2
  <2>6. CASE IsPair(CDR(v))
    <3>1. CDR(v).obj \in 1 .. k /\ CDR(v) = [obj |-> CDR(v).obj]
      BY <2>4, <2>6, HeldIs, Tags
    <3>2. CDR(v).obj \in 1 .. N BY <1>1, <3>1
    <3>3. CDR(v).obj \in Q BY <1>5, <3>1, <3>2
    <3>4. Improper(CDR(v)) BY <2>5, <2>6, <3>1, <3>3
    <3> QED BY <1>2, <2>1, <2>8, <3>4
  <2>7. CASE ~IsPair(CDR(v))
    <3>1. CDR(v) # NIL BY <2>5, <2>7, <2>9, LengthCons
    <3> QED BY <2>2, <2>7, <3>1 DEF Improper
  <2> QED BY <2>6, <2>7
<1> HIDE DEF S
<1>6. Nat \subseteq S BY <1>4, <1>5, NatInd
<1>7. N \in S BY <1>1, <1>6
<1> HIDE DEF Q
<1>8. \A i \in 1 .. N : i \in Q BY <1>1, <1>7 DEF S
<1> USE DEF Q
<1>9. ASSUME NEW v, IsPair(v), Held(v, Len(heap)), get_list_length(v) = -1
      PROVE  Improper(v)
  <2>1. v.obj \in 1 .. N /\ v = [obj |-> v.obj] BY <1>9, HeldIs, Tags
  <2> QED BY <1>8, <1>9, <2>1
<1> QED BY <1>2, <1>9

-----------------------------------------------------------------------------
(* equal compares trees, but for two strings that end lists: there it      *)
(* compares their nodes.                                                   *)

Twin(a, b) ==
  a # b /\ Tag(a) = "STRING" /\ Tag(b) = "STRING" /\ heap[a.obj].str = heap[b.obj].str
Same(t, a, b, r, c) ==
  \/ r = "crash"
  \/ /\ r = "true" => Part(t, a) = Part(t, b)
     /\ Part(t, a) = Part(t, b) /\ ~c => r = "true"

(* Past the end of one of two lists as long as each other. *)
LEMMA EndsSame ==
  ASSUME NEW B \in Nat, Objects(heap, B), B <= Len(heap), NEW t, Trees(t, B),
         NEW a, Held(a, B), NEW b, Held(b, B), get_list_length(a) = get_list_length(b),
         ~(IsPair(a) /\ IsPair(b))
  PROVE  Same(t, a, b, equal_ends(a, b), Twin(a, b))
<1>1. Held(a, Len(heap)) /\ Held(b, Len(heap)) /\ Len(heap) \in Nat BY HeldMore, ObjectsAre
<1>2. equal_ends(a, b) # "true"
  <2> SUFFICES ASSUME equal_ends(a, b) = "true" PROVE FALSE OBVIOUS
  <2>1. \A x : equal_words(x, NULL) # "true" BY DEF equal_words
  <2>2. IsPair(a) /\ CDR(a) = NIL BY <2>1 DEF equal_ends
  <2>3. get_list_length(a) = 1
    <3>1. Held(NIL, Len(heap)) /\ ~IsPair(NIL) BY Tags, Statics DEF Held, Static
    <3>2. get_list_length(NIL) = 0 BY <3>1, LengthCons
    <3> QED BY <1>1, <2>2, <3>2, LengthCons
  <2>4. get_list_length(b) \in {0, -1} BY <1>1, <2>2, LengthCons
  <2> QED BY <2>3, <2>4
<1>3. ASSUME Part(t, a) = Part(t, b), ~Twin(a, b) PROVE equal_ends(a, b) = "crash"
  <2>1. CASE IsInt(a)
    <3>1. IsRef(a) /\ a = [obj |-> a.obj] /\ ~IsPair(a) BY <2>1, HeldIs, Tags
    <3>2. DOMAIN a = {"obj"} BY <3>1
    <3>3. first_word(a) = NULL BY <2>1, <3>1, <3>2 DEF first_word
    <3> QED BY <3>3 DEF equal_ends, equal_words
  <2>2. CASE a = b
    <3>1. ~IsPair(a) BY <2>2
    <3> QED BY <2>2, <3>1 DEF equal_ends, equal_words
  <2>3. CASE ~IsInt(a) /\ a # b
    <3>1. Tag(a) = "STRING" /\ Tag(b) = "STRING" /\ heap[a.obj].str = heap[b.obj].str
      BY <1>3, <2>3, SameKind
    <3> QED BY <1>3, <2>3, <3>1 DEF Twin
  <2> QED BY <2>1, <2>2, <2>3
<1> QED BY <1>2, <1>3 DEF Same

LEMMA ListsSame ==
  ASSUME NEW B \in Nat, Objects(heap, B), B <= Len(heap), NEW t, Trees(t, B), NEW w,
         NEW a, Held(a, B), NEW b, Held(b, B), get_list_length(a) = get_list_length(b),
         IsPair(a) /\ IsPair(b) => Same(t, a, b, w[a.obj][b.obj], TwinEnds(a, b))
  PROVE  Same(t, a, b, equal_lists(w, a, b), TwinEnds(a, b) \/ Twin(a, b))
<1>1. Held(a, Len(heap)) /\ Held(b, Len(heap)) /\ Len(heap) \in Nat BY HeldMore, ObjectsAre
<1>2. CASE a = NIL
  <2>1. ~IsPair(a) /\ get_list_length(a) = 0 BY <1>1, <1>2, LengthCons DEF IsPair
  <2>2. get_list_length(CDR(b)) \in Nat \cup {-1} \/ ~IsPair(b)
    <3> SUFFICES ASSUME IsPair(b) PROVE get_list_length(CDR(b)) \in Nat \cup {-1} OBVIOUS
    <3>1. b.obj \in 1 .. Len(heap) /\ Held(CDR(b), b.obj - 1) BY <1>1, CellIs
    <3>2. b.obj - 1 \in Int /\ b.obj - 1 <= Len(heap) /\ Len(heap) \in Int BY <1>1, <3>1
    <3>3. Held(CDR(b), Len(heap)) BY <3>1, <3>2, HeldMore
    <3> QED BY <3>3, LengthCons
  <2>3. b = NIL
    <3>1. get_list_length(b) = 0 BY <2>1
    <3>2. ~IsPair(b) => get_list_length(b) = IF b = NIL THEN 0 ELSE -1 BY <1>1, LengthCons
    <3>3. IsPair(b) => get_list_length(b) = IF get_list_length(CDR(b)) = -1 THEN -1
                                            ELSE get_list_length(CDR(b)) + 1
      BY <1>1, LengthCons
    <3> QED BY <2>2, <3>1, <3>2, <3>3
  <2> QED BY <1>2, <2>3 DEF Same, equal_lists
<1>3. CASE a # NIL /\ ~(IsPair(a) /\ IsPair(b))
  <2>1. equal_lists(w, a, b) = equal_ends(a, b) BY <1>3 DEF equal_lists
  <2>2. Same(t, a, b, equal_ends(a, b), Twin(a, b)) BY <1>3, EndsSame
  <2> QED BY <2>1, <2>2 DEF Same
<1>4. CASE a # NIL /\ IsPair(a) /\ IsPair(b)
  <2>1. equal_lists(w, a, b) = w[a.obj][b.obj] BY <1>4 DEF equal_lists
  <2> QED BY <1>4, <2>1 DEF Same
<1> QED BY <1>2, <1>3, <1>4

LEMMA ObjectsSame ==
  ASSUME NEW B \in Nat, Objects(heap, B), B <= Len(heap), NEW t, Trees(t, B), NEW w,
         NEW a, Held(a, B), NEW b, Held(b, B),
         IsPair(a) /\ IsPair(b) /\ get_list_length(a) = get_list_length(b) =>
           Same(t, a, b, w[a.obj][b.obj], TwinEnds(a, b))
  PROVE  Same(t, a, b, equal_objs(w, a, b), TwinEnds(a, b))
<1> DEFINE r == equal_objs(w, a, b)
<1>1. CASE eqv(a, b)
  <2>1. r = "true" BY <1>1 DEF equal_objs
  <2>2. Part(t, a) = Part(t, b) BY <1>1, TreeShapes DEF eqv
  <2> QED BY <2>1, <2>2 DEF Same
<1>2. CASE ~eqv(a, b) /\ Tag(a) = "CELL" /\ Tag(b) = "CELL"
  <2>1. CASE get_list_length(a) # get_list_length(b)
    <3>1. r = "false" BY <1>2, <2>1 DEF equal_objs
    <3> QED BY <2>1, <3>1, SameLength DEF Same
  <2>2. CASE get_list_length(a) = get_list_length(b)
    <3>1. r = equal_lists(w, a, b) BY <1>2, <2>2 DEF equal_objs
    <3>2. Same(t, a, b, equal_lists(w, a, b), TwinEnds(a, b) \/ Twin(a, b))
      BY <2>2, ListsSame
    <3>3. ~Twin(a, b) BY <1>2 DEF Twin
    <3> QED BY <3>1, <3>2, <3>3 DEF Same
  <2> QED BY <2>1, <2>2
<1>3. CASE ~eqv(a, b) /\ Tag(a) = "STRING" /\ Tag(b) = "STRING" /\ heap[a.obj].str = heap[b.obj].str
  <2>1. r = "true" BY <1>3 DEF equal_objs
  <2>2. Part(t, a) = Part(t, b) BY <1>3, TreeShapes
  <2> QED BY <2>1, <2>2 DEF Same
<1>4. CASE /\ ~eqv(a, b) /\ ~(Tag(a) = "CELL" /\ Tag(b) = "CELL")
           /\ ~(Tag(a) = "STRING" /\ Tag(b) = "STRING" /\ heap[a.obj].str = heap[b.obj].str)
  <2>1. r = "false" BY <1>4 DEF equal_objs
  <2>2. Part(t, a) # Part(t, b)
    <3> SUFFICES ASSUME Part(t, a) = Part(t, b) PROVE FALSE OBVIOUS
    <3>1. ~(IsInt(a) /\ IsInt(b) /\ IntOf(a) = IntOf(b)) BY <1>4 DEF eqv
    <3>2. ~(a = b /\ ~IsInt(a)) BY <1>4 DEF eqv
    <3>3. ~(IsPair(a) /\ IsPair(b)) BY <1>4 DEF IsPair
    <3> QED BY <1>4, <3>1, <3>2, <3>3, SameKind
  <2> QED BY <2>1, <2>2 DEF Same
<1> QED BY <1>1, <1>2, <1>3, <1>4

(* Two lists with such ends hold them also as parts of longer ones. *)
LEMMA TwinsUp ==
  ASSUME NEW B \in Nat, Objects(heap, B), B <= Len(heap), NEW a, Held(a, B), NEW b, Held(b, B)
  PROVE  /\ \A x \in Inside(a), y \in Inside(b) : TwinEnds(x, y) => TwinEnds(a, b)
         /\ IsPair(a) /\ IsPair(b) /\ Twin(CDR(a), CDR(b)) => TwinEnds(a, b)
<1>1. /\ Least(Within(a), a) /\ Held(a, Len(heap)) /\ Least(Within(b), b) /\ Held(b, Len(heap))
  BY WithinHeld
<1>2. a \in Within(a) /\ b \in Within(b) BY <1>1 DEF Least
<1>3. ASSUME NEW x \in Inside(a), NEW y \in Inside(b), TwinEnds(x, y) PROVE TwinEnds(a, b)
  <2>1. x \in Within(a) /\ y \in Within(b) BY <1>1, <1>2, WithinMore
  <2>2. Within(x) \subseteq Within(a) /\ Within(y) \subseteq Within(b)
    BY <1>1, <2>1, WithinMore
  <2> QED BY <1>3, <2>2 DEF TwinEnds
<1>4. ASSUME IsPair(a), IsPair(b), Twin(CDR(a), CDR(b)) PROVE TwinEnds(a, b)
  BY <1>2, <1>4 DEF Twin, TwinEnds
<1> QED BY <1>3, <1>4

LEMMA WalkSame ==
  ASSUME NEW B \in Nat, Objects(heap, B), B <= Len(heap), NEW t, Trees(t, B), NEW w, Walked(w),
         NEW a, Held(a, B), NEW b, Held(b, B)
  PROVE  Same(t, a, b, equal_objs(w, a, b), TwinEnds(a, b))
<1> DEFINE Fine(x, y) == IsPair(x) /\ IsPair(y) /\ get_list_length(x) = get_list_length(y) =>
                           Same(t, x, y, w[x.obj][y.obj], TwinEnds(x, y))
           S == {k \in Nat : k <= B => \A x, y : Held(x, k) /\ Held(y, B) => Fine(x, y)}
<1>1. Len(heap) \in Nat BY ObjectsAre
<1>2. 0 \in S
  <2>1. ASSUME NEW x, Held(x, 0), IsPair(x) PROVE FALSE
    <3>1. x.obj \in 1 .. 0 BY <2>1, <1>1, CellIs
    <3> QED BY <3>1
  <2> QED BY <2>1
<1>3. ASSUME NEW k \in Nat, k \in S PROVE k + 1 \in S
  <2> SUFFICES ASSUME k + 1 <= B, NEW x, NEW y, Held(x, k + 1), Held(y, B), IsPair(x), IsPair(y),
                      get_list_length(x) = get_list_length(y)
               PROVE  Same(t, x, y, w[x.obj][y.obj], TwinEnds(x, y))
    OBVIOUS
  <2> HIDE DEF S
  <2>1. Held(x, B) /\ Held(x, Len(heap)) /\ Held(y, Len(heap)) BY <1>1, HeldMore
  <2>2. /\ x.obj \in 1 .. k + 1 /\ Held(CAR(x), x.obj - 1) /\ Held(CDR(x), x.obj - 1)
        /\ CAR(x) = heap[x.obj].car /\ CDR(x) = heap[x.obj].cdr
    BY <1>1, CellIs
  <2>3. /\ y.obj \in 1 .. B /\ Held(CAR(y), y.obj - 1) /\ Held(CDR(y), y.obj - 1)
        /\ CAR(y) = heap[y.obj].car /\ CDR(y) = heap[y.obj].cdr
    BY <1>1, CellIs
  <2>4. /\ Held(CAR(x), k) /\ Held(CDR(x), k) /\ Held(CAR(x), B) /\ Held(CDR(x), B)
        /\ Held(CAR(y), B) /\ Held(CDR(y), B)
    BY <2>2, <2>3, HeldMore
  <2>5. x.obj \in Cells /\ y.obj \in Cells BY <1>1, <2>1, CellsAre
  <2> DEFINE same == equal_objs(w, CAR(x), CAR(y))
             rest == equal_lists(w, CDR(x), CDR(y))
  <2>6. w[x.obj][y.obj] = IF same = "true" THEN rest ELSE same
    BY <2>2, <2>3, <2>5 DEF Walked, equal_cells
  <2>7. \A u, v : Held(u, k) /\ Held(v, B) => Fine(u, v) BY <1>3 DEF S
  <2>8. Same(t, CAR(x), CAR(y), same, TwinEnds(CAR(x), CAR(y)))
    BY <2>4, <2>7, ObjectsSame
  <2>9. get_list_length(CDR(x)) = get_list_length(CDR(y))
    <3>1. Held(CDR(x), Len(heap)) /\ Held(CDR(y), Len(heap)) BY <1>1, <2>4, HeldMore
    <3>2. /\ get_list_length(CDR(x)) \in Nat \cup {-1}
          /\ get_list_length(CDR(y)) \in Nat \cup {-1}
      BY <3>1, LengthCons
    <3> QED BY <2>1, <3>2, LengthCons
  <2>10. Same(t, CDR(x), CDR(y), rest, TwinEnds(CDR(x), CDR(y)) \/ Twin(CDR(x), CDR(y)))
    BY <2>4, <2>7, <2>9, ListsSame
  <2>11. Part(t, x) = Part(t, y) <=>
           Part(t, CAR(x)) = Part(t, CAR(y)) /\ Part(t, CDR(x)) = Part(t, CDR(y))
    <3>1. /\ Part(t, x) = [pair |-> <<Part(t, CAR(x)), Part(t, CDR(x))>>]
          /\ Part(t, y) = [pair |-> <<Part(t, CAR(y)), Part(t, CDR(y))>>]
      BY <2>1, TreeShapes
    <3> QED BY <3>1, NodesDiffer
  <2>12. \/ TwinEnds(CAR(x), CAR(y)) \/ TwinEnds(CDR(x), CDR(y)) \/ Twin(CDR(x), CDR(y))
         => TwinEnds(x, y)
    <3>1. CAR(x) \in Inside(x) /\ CDR(x) \in Inside(x) BY <2>1, InsideIs
    <3>2. CAR(y) \in Inside(y) /\ CDR(y) \in Inside(y) BY <2>1, InsideIs
    <3> QED BY <2>1, <3>1, <3>2, TwinsUp
  <2> HIDE DEF same, rest
  <2> QED BY <2>6, <2>8, <2>10, <2>11, <2>12 DEF Same
<1> HIDE DEF S
<1>4. Nat \subseteq S BY <1>2, <1>3, NatInd
<1>5. B \in S BY <1>4
<1>6. Fine(a, b) BY <1>5 DEF S
<1> QED BY <1>6, ObjectsSame

LEMMA EqualAnswers ==
  ASSUME NEW q, NEW l, NEW B, Passing(q, l, B), NEW t, Trees(t, B), prim_equal(l).kind = "value"
  PROVE  /\ prim_equal(l).v = TRUEV => Part(t, q[1]) = Part(t, q[2])
         /\ Part(t, q[1]) = Part(t, q[2]) =>
              prim_equal(l).v = TRUEV \/ TwinEnds(q[1], q[2])
<1>1. /\ B \in Nat /\ Len(q) \in Nat /\ Objects(heap, B) /\ B <= Len(heap)
      /\ \A k \in 1 .. Len(q) : Held(q[k], B)
  BY ArgIs
<1>2. Len(q) = 2
  <2>1. prim_equal(l).kind # "error" OBVIOUS
  <2> QED BY <2>1, EqualityFine
<1>3. First(l) = q[1] /\ Second(l) = q[2] /\ get_list_length(l) = 2
  BY <1>2, ArgumentsAre
<1>4. Held(q[1], B) /\ Held(q[2], B) BY <1>1, <1>2
<1>5. PICK w : Walked(w) /\ \A a, b : equal(a, b) = equal_objs(w, a, b) BY <1>1, EqualIs
<1> DEFINE same == equal_objs(w, q[1], q[2])
<1>6. prim_equal(l) = IF same = "crash" THEN Crashes ELSE Truth(same = "true")
  BY <1>3, <1>5 DEF prim_equal
<1>7. Same(t, q[1], q[2], same, TwinEnds(q[1], q[2])) BY <1>1, <1>4, <1>5, WalkSame
<1> HIDE DEF same
<1>8. same # "crash"
  <2> SUFFICES ASSUME same = "crash" PROVE FALSE OBVIOUS
  <2>1. prim_equal(l) = Crashes BY <1>6
  <2> QED BY <2>1, Kinds
<1>9. prim_equal(l) = Returns(IF same = "true" THEN TRUEV ELSE FALSEV)
  BY <1>6, <1>8 DEF Truth
<1>10. prim_equal(l).v = IF same = "true" THEN TRUEV ELSE FALSEV BY <1>9, Kinds
<1>11. TRUEV # FALSEV
  <2>1. TRUEV.static # FALSEV.static BY DEF TRUEV, FALSEV
  <2> QED BY <2>1
<1> QED BY <1>7, <1>8, <1>10, <1>11 DEF Same

(* equal crashes only on two values that both hold an improper list.      *)
LEMMA WalkCrash ==
  ASSUME NEW B \in Nat, Objects(heap, B), B <= Len(heap), NEW w, Walked(w),
         NEW a, Held(a, B), NEW b, Held(b, B), equal_objs(w, a, b) = "crash"
  PROVE  Improper(a) /\ Improper(b)
<1> DEFINE Both(x, y) == Improper(x) /\ Improper(y)
           Fine(x, y) == /\ IsPair(x) /\ IsPair(y) /\ get_list_length(x) = get_list_length(y)
                         /\ w[x.obj][y.obj] = "crash"
                         => Both(x, y)
           S == {k \in Nat : k <= B => \A x, y : Held(x, k) /\ Held(y, B) => Fine(x, y)}
<1>1. Len(heap) \in Nat BY ObjectsAre
<1>2. \A x : Held(x, B) => Held(x, Len(heap)) BY <1>1, HeldMore
<1>3. ASSUME NEW x, NEW y, Held(x, B), Held(y, B), Fine(x, y), equal_objs(w, x, y) = "crash"
      PROVE  Both(x, y)
  <2> HIDE DEF S
  <2>1. /\ Tag(x) = "CELL" /\ Tag(y) = "CELL" /\ get_list_length(x) = get_list_length(y)
        /\ equal_lists(w, x, y) = "crash"
    BY <1>3 DEF equal_objs
  <2>2. x # NIL BY <2>1 DEF equal_lists
  <2>3. IsPair(x) BY <2>1, <2>2 DEF IsPair
  <2>4. y # NIL
    <3> SUFFICES ASSUME y = NIL PROVE FALSE OBVIOUS
    <3>1. get_list_length(y) = 0 BY <1>2, <1>3, LengthCons DEF IsPair
    <3>2. Held(CDR(x), Len(heap)) BY <1>1, <1>2, <1>3, <2>3, InsideIs
    <3>3. get_list_length(CDR(x)) \in Nat \cup {-1} BY <3>2, LengthCons
    <3>4. get_list_length(x) = IF get_list_length(CDR(x)) = -1 THEN -1
                               ELSE get_list_length(CDR(x)) + 1
      BY <1>2, <1>3, <2>3, LengthCons
    <3> QED BY <2>1, <3>1, <3>3, <3>4
  <2>5. IsPair(y) BY <2>1, <2>4 DEF IsPair
  <2>6. w[x.obj][y.obj] = "crash" BY <2>1, <2>2, <2>3, <2>5 DEF equal_lists
  <2> QED BY <1>3, <2>1, <2>3, <2>5, <2>6
<1>4. 0 \in S
  <2>1. ASSUME NEW x, Held(x, 0), IsPair(x) PROVE FALSE
    <3>1. x.obj \in 1 .. 0 BY <2>1, <1>1, CellIs
    <3> QED BY <3>1
  <2> QED BY <2>1
<1>5. ASSUME NEW k \in Nat, k \in S PROVE k + 1 \in S
  <2> SUFFICES ASSUME k + 1 <= B, NEW x, NEW y, Held(x, k + 1), Held(y, B), IsPair(x), IsPair(y),
                      get_list_length(x) = get_list_length(y), w[x.obj][y.obj] = "crash"
               PROVE  Both(x, y)
    OBVIOUS
  <2>1. \A u, v : Held(u, k) /\ Held(v, B) => Fine(u, v) BY <1>5
  <2> HIDE DEF S, Fine
  <2>2. Held(x, B) /\ Held(x, Len(heap)) /\ Held(y, Len(heap)) BY <1>1, HeldMore
  <2>3. /\ x.obj \in 1 .. k + 1 /\ Held(CAR(x), x.obj - 1) /\ Held(CDR(x), x.obj - 1)
        /\ CAR(x) = heap[x.obj].car /\ CDR(x) = heap[x.obj].cdr
    <3>1. k + 1 \in Nat /\ k + 1 <= Len(heap) BY <1>1
    <3> QED BY <3>1, CellIs
  <2>4. /\ y.obj \in 1 .. B /\ Held(CAR(y), y.obj - 1) /\ Held(CDR(y), y.obj - 1)
        /\ CAR(y) = heap[y.obj].car /\ CDR(y) = heap[y.obj].cdr
    BY <1>1, CellIs
  <2>5. /\ Held(CAR(x), k) /\ Held(CDR(x), k) /\ Held(CAR(x), B) /\ Held(CDR(x), B)
        /\ Held(CAR(y), B) /\ Held(CDR(y), B)
    BY <2>3, <2>4, HeldMore
  <2>6. x.obj \in Cells /\ y.obj \in Cells BY <1>1, <2>2, CellsAre
  <2> DEFINE same == equal_objs(w, CAR(x), CAR(y))
             rest == equal_lists(w, CDR(x), CDR(y))
  <2>7. w[x.obj][y.obj] = IF same = "true" THEN rest ELSE same
    BY <2>3, <2>4, <2>6 DEF Walked, equal_cells
  <2>8. CASE same = "crash"
    <3>1. Fine(CAR(x), CAR(y)) BY <2>1, <2>5
    <3>2. Both(CAR(x), CAR(y)) BY <1>3, <2>5, <2>8, <3>1
    <3>3. CAR(x) \in Inside(x) /\ CAR(y) \in Inside(y) BY <2>2, InsideIs
    <3> QED BY <2>2, <3>2, <3>3, ImproperIs
  <2>9. CASE rest = "crash"
    <3>1. Held(CDR(x), Len(heap)) /\ Held(CDR(y), Len(heap)) BY <1>2, <2>5
    <3>2. /\ get_list_length(CDR(x)) \in Nat \cup {-1}
          /\ get_list_length(CDR(y)) \in Nat \cup {-1}
      BY <3>1, LengthCons
    <3>3. get_list_length(CDR(x)) = get_list_length(CDR(y)) BY <2>2, <3>2, LengthCons
    <3>4. CDR(x) # NIL /\ (IsPair(CDR(x)) /\ IsPair(CDR(y)) =>
                             w[CDR(x).obj][CDR(y).obj] = "crash")
      BY <2>9 DEF equal_lists
    <3>5. CASE IsPair(CDR(x)) /\ IsPair(CDR(y))
      <4>1. Fine(CDR(x), CDR(y)) BY <2>1, <2>5
      <4>2. Both(CDR(x), CDR(y)) BY <3>3, <3>4, <3>5, <4>1 DEF Fine
      <4>3. CDR(x) \in Inside(x) /\ CDR(y) \in Inside(y) BY <2>2, InsideIs
      <4> QED BY <2>2, <4>2, <4>3, ImproperIs
    <3>6. CASE ~(IsPair(CDR(x)) /\ IsPair(CDR(y)))
      <4>1. get_list_length(CDR(x)) = -1
        <5>1. CASE ~IsPair(CDR(x)) BY <3>1, <3>4, <5>1, LengthCons
        <5>2. CASE IsPair(CDR(x))
          <6>1. Held(CDR(CDR(x)), Len(heap)) BY <3>1, <5>2, InsideIs
          <6>2. get_list_length(CDR(CDR(x))) \in Nat \cup {-1} BY <6>1, LengthCons
          <6>3. get_list_length(CDR(x)) # 0 BY <3>1, <5>2, <6>2, LengthCons
          <6>4. get_list_length(CDR(y)) \in {0, -1} BY <3>1, <3>6, <5>2, LengthCons
          <6> QED BY <3>3, <6>3, <6>4
        <5> QED BY <5>1, <5>2
      <4>2. get_list_length(x) = -1 /\ get_list_length(y) = -1
        BY <2>2, <3>3, <4>1, LengthCons
      <4> QED BY <2>2, <4>2, ImproperIs
    <3> QED BY <3>5, <3>6
  <2> QED BY <2>7, <2>8, <2>9
<1> HIDE DEF S
<1>6. Nat \subseteq S BY <1>4, <1>5, NatInd
<1>7. B \in S BY <1>6
<1>8. Fine(a, b) BY <1>7 DEF S
<1> QED BY <1>3, <1>8

-----------------------------------------------------------------------------
(* What is printed of a value is within it. *)
LEMMA PartsAre ==
  ASSUME NEW x
  PROVE  /\ Quoted(x) /\ IsPair(CDR(x)) => Parts(x) = {CAR(CDR(x))}
         /\ Quoted(x) /\ ~IsPair(CDR(x)) => Parts(x) = {}
         /\ IsPair(x) /\ ~Quoted(x) =>
              Parts(x) = Elems(Elements(x)) \cup ({Spine(x).end} \ {NIL})
         /\ ~IsPair(x) /\ Tag(x) = "VECTOR" => Parts(x) = Elems(heap[x.obj].elems)
         /\ ~IsPair(x) /\ Tag(x) # "VECTOR" => Parts(x) = {}
<1>1. Quoted(x) => IsPair(x) BY DEF Quoted
<1>2. IsPair(x) => Tag(x) # "VECTOR"
  <2>1. "CELL" # "VECTOR" OBVIOUS
  <2> QED BY <2>1 DEF IsPair
<1>3. CASE Quoted(x)
  <2>1. Parts(x) = IF IsPair(CDR(x)) THEN {CAR(CDR(x))} ELSE {} BY <1>1, <1>2, <1>3 DEF Parts
  <2> QED BY <1>1, <1>3, <2>1
<1>4. CASE IsPair(x) /\ ~Quoted(x)
  <2>1. Parts(x) = Elems(Elements(x)) \cup ({Spine(x).end} \ {NIL}) BY <1>2, <1>4 DEF Parts
  <2> QED BY <1>4, <2>1
<1>5. CASE ~IsPair(x) /\ Tag(x) = "VECTOR"
  <2>1. Parts(x) = Elems(heap[x.obj].elems) BY <1>1, <1>5 DEF Parts
  <2> QED BY <1>1, <1>5, <2>1
<1>6. CASE ~IsPair(x) /\ Tag(x) # "VECTOR"
  <2>1. Parts(x) = {} BY <1>1, <1>6 DEF Parts
  <2> QED BY <1>1, <1>6, <2>1
<1> QED BY <1>1, <1>3, <1>4, <1>5, <1>6

LEMMA ChainInside ==
  ASSUME NEW B \in Nat, Objects(heap, B), B <= Len(heap), NEW C, Closed(C),
         NEW x \in C, Held(x, Len(heap)), IsPair(x), NEW n \in Nat, NEW f, Chain(f, x, n)
  PROVE  /\ x.obj \in 1 .. Len(heap)
         /\ \A k \in 1 .. n : CAR(f[k]) \in C /\ Held(CAR(f[k]), x.obj - 1)
         /\ f[n + 1] \in C /\ Held(f[n + 1], x.obj - 1)
<1> DEFINE N == Len(heap)
           S == {k \in Nat : k < n => /\ f[k + 2] \in C /\ Held(f[k + 2], x.obj - 1)
                                      /\ CAR(f[k + 1]) \in C /\ Held(CAR(f[k + 1]), x.obj - 1)}
<1>1. N \in Nat /\ x.obj \in 1 .. N BY ObjectsAre, CellIs
<1>2. f[1] = x /\ ~IsPair(f[n + 1]) /\ \A k \in 1 .. n : IsPair(f[k]) /\ f[k + 1] = CDR(f[k])
  BY DEF Chain
<1>3. n # 0 BY <1>2
<1>4. ASSUME NEW y \in C, Held(y, N), IsPair(y)
      PROVE  /\ CAR(y) \in C /\ CDR(y) \in C /\ y.obj \in 1 .. N
             /\ Held(CAR(y), y.obj - 1) /\ Held(CDR(y), y.obj - 1)
  <2>1. Inside(y) = {CAR(y), CDR(y)} BY <1>4, InsideIs
  <2>2. Inside(y) \subseteq C BY <1>4 DEF Closed
  <2>3. y.obj \in 1 .. N /\ Held(CAR(y), y.obj - 1) /\ Held(CDR(y), y.obj - 1)
    BY <1>1, <1>4, CellIs
  <2> QED BY <2>1, <2>2, <2>3
<1>5. 0 \in S
  <2>1. CAR(x) \in C /\ CDR(x) \in C /\ Held(CAR(x), x.obj - 1) /\ Held(CDR(x), x.obj - 1)
    BY <1>4
  <2>2. 1 \in 1 .. n /\ 0 + 1 = 1 /\ 0 + 2 = 1 + 1 BY <1>3
  <2>3. f[0 + 1] = x /\ f[0 + 2] = CDR(x) BY <1>2, <2>2
  <2> QED BY <2>1, <2>3
<1>6. ASSUME NEW k \in Nat, k \in S PROVE k + 1 \in S
  <2> SUFFICES ASSUME k + 1 < n
               PROVE  /\ f[(k + 1) + 2] \in C /\ Held(f[(k + 1) + 2], x.obj - 1)
                      /\ CAR(f[(k + 1) + 1]) \in C /\ Held(CAR(f[(k + 1) + 1]), x.obj - 1)
    OBVIOUS
  <2>1. f[k + 2] \in C /\ Held(f[k + 2], x.obj - 1) BY <1>6
  <2> HIDE DEF S
  <2>2. k + 2 \in 1 .. n /\ (k + 1) + 1 = k + 2 /\ (k + 1) + 2 = (k + 2) + 1 OBVIOUS
  <2>3. IsPair(f[k + 2]) /\ f[(k + 1) + 2] = CDR(f[k + 2]) BY <1>2, <2>2
  <2>4. x.obj - 1 \in Nat /\ x.obj - 1 <= N BY <1>1
  <2>5. f[k + 2].obj \in 1 .. x.obj - 1 BY <2>1, <2>3, <2>4, CellIs
  <2>6. Held(f[k + 2], N) BY <1>1, <2>1, <2>4, HeldMore
  <2>7. /\ CAR(f[k + 2]) \in C /\ CDR(f[k + 2]) \in C
        /\ Held(CAR(f[k + 2]), f[k + 2].obj - 1) /\ Held(CDR(f[k + 2]), f[k + 2].obj - 1)
    BY <1>4, <2>1, <2>3, <2>6
  <2>8. f[k + 2].obj - 1 \in Int /\ x.obj - 1 \in Int /\ f[k + 2].obj - 1 <= x.obj - 1
    BY <2>4, <2>5
  <2>9. Held(CAR(f[k + 2]), x.obj - 1) /\ Held(CDR(f[k + 2]), x.obj - 1)
    BY <2>7, <2>8, HeldMore
  <2> QED BY <2>2, <2>3, <2>7, <2>9
<1> HIDE DEF S
<1>7. Nat \subseteq S BY <1>5, <1>6, NatInd
<1>8. ASSUME NEW k \in 1 .. n PROVE k - 1 \in S /\ k - 1 < n /\ (k - 1) + 1 = k /\ (k - 1) + 2 = k + 1
  BY <1>7
<1>9. \A k \in 1 .. n : CAR(f[k]) \in C /\ Held(CAR(f[k]), x.obj - 1) BY <1>8 DEF S
<1>10. n \in 1 .. n BY <1>3
<1>11. f[n + 1] \in C /\ Held(f[n + 1], x.obj - 1) BY <1>8, <1>10 DEF S
<1> QED BY <1>1, <1>9, <1>11

LEMMA PartsInside ==
  ASSUME NEW B \in Nat, Objects(heap, B), B <= Len(heap), NEW C, Closed(C),
         NEW x \in C, Held(x, Len(heap))
  PROVE  /\ Parts(x) \subseteq C
         /\ \A y \in Parts(x) :
              /\ Held(y, Len(heap)) /\ IsRef(x)
              /\ IsPair(x) => Held(y, x.obj - 1)
              /\ ~IsPair(x) => Tag(x) = "VECTOR" /\ y \in Elems(heap[x.obj].elems)
<1> DEFINE N == Len(heap)
<1>1. N \in Nat BY ObjectsAre
<1>2. CASE IsPair(x)
  <2>1. PICK n \in 0 .. N : \E f : Chain(f, x, n) BY <1>1, ChainExists
  <2>2. PICK f : Chain(f, x, n) BY <2>1
  <2>3. n \in Nat /\ Sized BY <2>1, SizeOfHeap
  <2>4. /\ x.obj \in 1 .. N
        /\ \A k \in 1 .. n : CAR(f[k]) \in C /\ Held(CAR(f[k]), x.obj - 1)
        /\ f[n + 1] \in C /\ Held(f[n + 1], x.obj - 1)
    BY <1>2, <2>2, <2>3, ChainInside
  <2>5. f[1] = x /\ ~IsPair(f[n + 1]) /\ \A k \in 1 .. n : IsPair(f[k]) /\ f[k + 1] = CDR(f[k])
    BY <2>2 DEF Chain
  <2>6. /\ Spine(x).end = f[n + 1]
        /\ Elements(x) = [k \in 1 .. n |-> CAR(f[k])]
    <3>1. Spine(x) = [cells |-> [k \in 1 .. n |-> f[k]], end |-> f[n + 1]]
      BY <2>1, <2>2, <2>3, SpineIs
    <3>2. Elements(x) = [k \in 1 .. n |-> CAR(f[k])] BY <2>1, <2>2, <2>3, LengthIs
    <3> QED BY <3>1, <3>2
  <2>7. ASSUME NEW y \in Parts(x) PROVE y \in C /\ Held(y, x.obj - 1)
    <3>1. CASE Quoted(x)
      <4>1. IsPair(CDR(x)) /\ y = CAR(CDR(x)) BY <2>7, <3>1, PartsAre
      <4>2. n # 0 BY <1>2, <2>5
      <4>3. 1 \in 1 .. n /\ f[1 + 1] = CDR(x) BY <2>1, <2>5, <4>2
      <4>4. n # 1 BY <2>5, <4>1, <4>3
      <4>5. 2 \in 1 .. n /\ f[2] = CDR(x) BY <2>1, <4>2, <4>3, <4>4
      <4> QED BY <2>4, <4>1, <4>5
    <3>2. CASE ~Quoted(x)
      <4>1. y \in Elems(Elements(x)) \/ y = Spine(x).end BY <1>2, <2>7, <3>2, PartsAre
      <4>2. CASE y = Spine(x).end BY <2>4, <2>6, <4>2
      <4>3. CASE y \in Elems(Elements(x))
        <5>1. PICK k \in 1 .. n : y = CAR(f[k]) BY <2>6, <4>3 DEF Elems
        <5> QED BY <2>4, <5>1
      <4> QED BY <4>1, <4>2, <4>3
    <3> QED BY <3>1, <3>2
  <2>8. x.obj - 1 \in Int /\ N \in Int /\ x.obj - 1 <= N /\ IsRef(x) BY <1>1, <1>2, <2>4, Tags
  <2>9. \A y \in Parts(x) : Held(y, N) BY <2>7, <2>8, HeldMore
  <2> QED BY <1>2, <2>7, <2>8, <2>9
<1>3. CASE ~IsPair(x)
  <2>1. CASE Tag(x) = "VECTOR"
    <3>1. Parts(x) = Elems(heap[x.obj].elems) BY <1>3, <2>1, PartsAre
    <3>2. Inside(x) = Parts(x) BY <2>1, <3>1, InsideIs
    <3>3. Inside(x) \subseteq C BY DEF Closed
    <3>4. \A y \in Inside(x) : IsRef(x) /\ Held(y, N) BY InsideIs
    <3> QED BY <1>3, <2>1, <3>1, <3>2, <3>3, <3>4
  <2>2. CASE Tag(x) # "VECTOR"
    <3>1. Parts(x) = {} BY <1>3, <2>2, PartsAre
    <3> QED BY <3>1
  <2> QED BY <2>1, <2>2
<1> QED BY <1>2, <1>3

(* The values printed at each depth. *)
PartsClosed(Z) == \A x \in Z : Parts(x) \subseteq Z
Deeper(A) == UNION {Parts(x) : x \in A}
Depths(d, v, M) == d = [k \in 0 .. M |-> IF k = 0 THEN {v} ELSE Deeper(d[k - 1])]

LEMMA DepthsExist ==
  ASSUME NEW Z, PartsClosed(Z), NEW v \in Z, NEW M \in Nat
  PROVE  \E d : Depths(d, v, M)
<1> DEFINE Q == SUBSET Z
           step == [k \in 0 + 1 .. M |-> [A \in Q |-> Deeper(A)]]
<1>1. \A A \in Q : Deeper(A) \in Q BY DEF Deeper, PartsClosed
<1>2. step \in [0 + 1 .. M -> [Q -> Q]] /\ {v} \in Q
  <2> HIDE DEF Q
  <2>1. step \in [0 + 1 .. M -> [Q -> Q]] BY <1>1
  <2> QED BY <2>1 DEF Q
<1>3. \A k \in 1 .. M, A \in Q : step[k][A] = Deeper(A)
  <2> HIDE DEF Q
  <2> QED OBVIOUS
<1>4. \A k \in 0 .. M : k # 0 => k \in 1 .. M /\ k - 1 \in 0 .. M OBVIOUS
<1> HIDE DEF Q, step
<1>5. PICK d : Iterates(d, 0, M, Q, {v}, step) BY <1>2, Iteration
<1>6. d \in [0 .. M -> Q] /\ \A k \in 0 .. M : d[k] = IF k = 0 THEN {v} ELSE step[k][d[k - 1]]
  BY <1>5 DEF Iterates
<1>7. \A k \in 0 .. M : d[k] = IF k = 0 THEN {v} ELSE Deeper(d[k - 1])
  <2>1. \A k \in 0 .. M : k # 0 => step[k][d[k - 1]] = Deeper(d[k - 1]) BY <1>3, <1>4, <1>6
  <2> QED BY <1>6, <2>1
<1>8. d = [k \in 0 .. M |-> d[k]] BY <1>6
<1>9. [k \in 0 .. M |-> d[k]] = [k \in 0 .. M |-> IF k = 0 THEN {v} ELSE Deeper(d[k - 1])]
  BY <1>7
<1> QED BY <1>8, <1>9 DEF Depths

LEMMA DepthsInside ==
  ASSUME NEW Z, PartsClosed(Z), NEW v \in Z, NEW M \in Nat,
         NEW d, Depths(d, v, M)
  PROVE  /\ d[0] = {v} /\ \A k \in 0 .. M : k # 0 => d[k] = Deeper(d[k - 1])
         /\ \A k \in 0 .. M : d[k] \subseteq Z
<1> DEFINE S == {k \in Nat : k <= M => d[k] \subseteq Z}
<1>1. \A k \in 0 .. M : d[k] = IF k = 0 THEN {v} ELSE Deeper(d[k - 1])
  <2> HIDE DEF S
  <2>1. d = [k \in 0 .. M |-> IF k = 0 THEN {v} ELSE Deeper(d[k - 1])] BY DEF Depths
  <2> QED BY <2>1
<1>2. 0 \in S BY <1>1
<1>3. ASSUME NEW k \in Nat, k \in S PROVE k + 1 \in S
  <2> SUFFICES ASSUME k + 1 <= M PROVE d[k + 1] \subseteq Z OBVIOUS
  <2>1. k + 1 \in 0 .. M /\ k + 1 # 0 /\ (k + 1) - 1 = k /\ k <= M OBVIOUS
  <2>2. d[k + 1] = Deeper(d[k]) BY <1>1, <2>1
  <2>3. d[k] \subseteq Z BY <1>3, <2>1
  <2> QED BY <2>2, <2>3 DEF Deeper, PartsClosed
<1> HIDE DEF S
<1>4. Nat \subseteq S BY <1>2, <1>3, NatInd
<1>5. ASSUME NEW k \in 0 .. M PROVE d[k] \subseteq Z
  <2>1. k \in S /\ k <= M BY <1>4
  <2> QED BY <2>1 DEF S
<1>6. d[0] = {v} BY <1>1
<1> QED BY <1>1, <1>5, <1>6

(* When a value cannot be printed, a value at some depth is a list of the  *)
(* symbol quote alone, or there are values at every depth.                 *)
LEMMA PrintableIs ==
  ASSUME NEW B \in Nat, Objects(heap, B), B <= Len(heap), NEW v, Held(v, Len(heap)),
         ~Printable(v)
  PROVE  \/ LoneQuote(v)
         \/ \E d : Depths(d, v, Len(heap) + 1) /\ d[Len(heap) + 1] # {}
<1> DEFINE M == Len(heap) + 1
           depth == CHOOSE d : d = [k \in 0 .. M |-> IF k = 0 THEN {v} ELSE Deeper(d[k - 1])]
<1>1. Len(heap) \in Nat /\ Cardinality(DOMAIN heap) = Len(heap) BY ObjectsAre, SizeOfHeap DEF Sized
<1>2. Printable(v) <=>
        /\ depth[M] = {}
        /\ \A k \in 0 .. M : \A x \in depth[k] : x # NULL /\ ~(Quoted(x) /\ CDR(x) = NIL)
  BY <1>1 DEF Printable, Deeper
<1>3. Least(Within(v), v) BY WithinIs DEF WithinOfHeap
<1>4. PICK Z : Z = Within(v) OBVIOUS
<1>5. Closed(Z) /\ v \in Z /\ \A x \in Z : Held(x, Len(heap)) BY <1>3, <1>4 DEF Least
<1>6. PartsClosed(Z) BY <1>5, PartsInside DEF PartsClosed
<1>7. M \in Nat BY <1>1
<1>8. \E d : Depths(d, v, M)
  <2> HIDE DEF M
  <2> QED BY <1>5, <1>6, <1>7, DepthsExist
<1>9. Depths(depth, v, M) BY <1>8 DEF Depths
<1> HIDE DEF depth
<1>10. \A k \in 0 .. M : depth[k] \subseteq Z
  <2> HIDE DEF M
  <2> QED BY <1>5, <1>6, <1>7, <1>9, DepthsInside
<1>11. CASE depth[M] = {}
  <2>1. PICK k \in 0 .. M : \E x \in depth[k] : x = NULL \/ (Quoted(x) /\ CDR(x) = NIL)
    BY <1>2, <1>11
  <2>2. PICK x \in depth[k] : x = NULL \/ (Quoted(x) /\ CDR(x) = NIL) BY <2>1
  <2>3. x \in Z /\ Held(x, Len(heap)) BY <1>5, <1>10, <2>1, <2>2
  <2>4. x # NULL BY <2>3, HeldIs
  <2> QED BY <1>4, <2>2, <2>3, <2>4 DEF LoneQuote
<1>12. CASE depth[M] # {} BY <1>9, <1>12
<1> QED BY <1>11, <1>12

(* A value at some depth is reached by going down one part at a time. *)
Path(p, n) == \A i \in 0 .. n - 1 : p[i + 1] \in Parts(p[i])

LEMMA PathDown ==
  ASSUME NEW M \in Nat, NEW d, \A k \in 0 .. M : k # 0 => d[k] = Deeper(d[k - 1]), d[M] # {}
  PROVE  \E p : Path(p, M) /\ \A k \in 0 .. M : p[k] \in d[k]
<1> DEFINE Goes(p, n) == Path(p, n) /\ \A k \in 0 .. n : p[k] \in d[k]
           S == {n \in Nat : n <= M => \A x \in d[n] : \E p : Goes(p, n) /\ p[n] = x}
<1>1. 0 \in S
  <2> SUFFICES ASSUME NEW x \in d[0] PROVE \E p : Goes(p, 0) /\ p[0] = x OBVIOUS
  <2> DEFINE p == [i \in {0} |-> x]
  <2>1. p[0] = x /\ \A k \in 0 .. 0 : k = 0 OBVIOUS
  <2>2. 0 .. 0 - 1 = {} OBVIOUS
  <2> QED BY <2>1, <2>2 DEF Path
<1>2. ASSUME NEW n \in Nat, n \in S PROVE n + 1 \in S
  <2> SUFFICES ASSUME n + 1 <= M, NEW x \in d[n + 1] PROVE \E p : Goes(p, n + 1) /\ p[n + 1] = x
    OBVIOUS
  <2>1. n + 1 \in 0 .. M /\ n + 1 # 0 /\ (n + 1) - 1 = n /\ n <= M OBVIOUS
  <2>2. d[n + 1] = Deeper(d[n]) BY <2>1
  <2>3. PICK y \in d[n] : x \in Parts(y) BY <2>2 DEF Deeper
  <2>4. PICK p : Goes(p, n) /\ p[n] = y BY <1>2, <2>1, <2>3
  <2> HIDE DEF S
  <2> DEFINE q == [i \in 0 .. n + 1 |-> IF i = n + 1 THEN x ELSE p[i]]
  <2>5. q[n + 1] = x /\ \A i \in 0 .. n : q[i] = p[i] OBVIOUS
  <2>6. \A i \in 0 .. n + 1 : i = n + 1 \/ i \in 0 .. n OBVIOUS
  <2> HIDE DEF q
  <2>7. \A k \in 0 .. n + 1 : q[k] \in d[k] BY <2>4, <2>5, <2>6
  <2>8. ASSUME NEW i \in 0 .. (n + 1) - 1 PROVE q[i + 1] \in Parts(q[i])
    <3>1. CASE i = n BY <2>3, <2>4, <2>5, <3>1
    <3>2. CASE i # n
      <4>1. i \in 0 .. n - 1 /\ i \in 0 .. n /\ i + 1 \in 0 .. n BY <3>2
      <4> QED BY <2>4, <2>5, <4>1 DEF Path
    <3> QED BY <3>1, <3>2
  <2>9. Path(q, n + 1) BY <2>8 DEF Path
  <2> QED BY <2>5, <2>7, <2>9
<1> HIDE DEF S
<1>3. Nat \subseteq S BY <1>1, <1>2, NatInd
<1>4. PICK x : x \in d[M] OBVIOUS
<1>5. M \in S /\ M <= M BY <1>3
<1> QED BY <1>4, <1>5 DEF S

LEMMA PathStays ==
  ASSUME NEW C, PartsClosed(C), NEW M \in Nat, NEW p, Path(p, M),
         NEW a \in 0 .. M, NEW b \in 0 .. M, a <= b, p[a] \in C
  PROVE  p[b] \in C
<1>1. ASSUME NEW k \in a + 1 .. b, p[k - 1] \in C PROVE p[k] \in C
  <2>1. k - 1 \in 0 .. M - 1 /\ (k - 1) + 1 = k OBVIOUS
  <2> QED BY <1>1, <2>1 DEF Path, PartsClosed
<1>2. a \in Nat /\ b \in Nat /\ b \in a .. b OBVIOUS
<1>3. Stays(p, a, b, C) BY <1>1 DEF Stays
<1> QED BY <1>2, <1>3, Along

(* Along a path the objects get smaller except at a vector. *)
LEMMA PathFalls ==
  ASSUME NEW M \in Nat, NEW p, NEW a \in 0 .. M, NEW b \in 0 .. M, a < b,
         \A k \in 0 .. M : IsRef(p[k]) /\ p[k].obj \in Nat,
         \A k \in a .. b - 1 : Held(p[k + 1], p[k].obj - 1)
  PROVE  p[b].obj < p[a].obj
<1> DEFINE Q == {x \in {p[k] : k \in 0 .. M} : x.obj < p[a].obj}
<1>1. ASSUME NEW k \in a .. b - 1 PROVE p[k + 1].obj < p[k].obj
  <2>1. k \in 0 .. M /\ k + 1 \in 0 .. M OBVIOUS
  <2>2. Held(p[k + 1], p[k].obj - 1) /\ IsRef(p[k + 1]) BY <2>1
  <2>3. p[k + 1].obj \in 1 .. p[k].obj - 1 BY <2>2, HeldIs
  <2>4. p[k].obj \in Nat BY <2>1
  <2> QED BY <2>3, <2>4
<1>2. p[a + 1] \in Q
  <2>1. a \in a .. b - 1 /\ a + 1 \in 0 .. M OBVIOUS
  <2> QED BY <1>1, <2>1
<1>3. ASSUME NEW k \in (a + 1) + 1 .. b, p[k - 1] \in Q PROVE p[k] \in Q
  <2>1. k - 1 \in a .. b - 1 /\ (k - 1) + 1 = k /\ k \in 0 .. M /\ k - 1 \in 0 .. M OBVIOUS
  <2>2. p[k].obj < p[k - 1].obj BY <1>1, <2>1
  <2>3. p[k - 1].obj < p[a].obj BY <1>3
  <2>4. p[k].obj \in Nat /\ p[k - 1].obj \in Nat /\ p[a].obj \in Nat BY <2>1
  <2> QED BY <2>1, <2>2, <2>3, <2>4
<1>4. Stays(p, a + 1, b, Q)
  <2> HIDE DEF Q
  <2> QED BY <1>2, <1>3 DEF Stays
<1>5. a + 1 \in Nat /\ b \in Nat /\ b \in a + 1 .. b OBVIOUS
<1>6. p[b] \in Q
  <2> HIDE DEF Q
  <2> QED BY <1>4, <1>5, Along
<1> QED BY <1>6

(* Of one value more than there are objects, two are the same one. *)
LEMMA PathMeets ==
  ASSUME NEW N \in Nat, NEW p, \A k \in 0 .. N : IsRef(p[k]) /\ Held(p[k], N)
  PROVE  \E a, b \in 0 .. N : a < b /\ p[a] = p[b]
<1> DEFINE f == [k \in 0 .. N |-> p[k].obj]
<1>1. \A k \in 0 .. N : p[k].obj \in 1 .. N /\ p[k] = [obj |-> p[k].obj] BY HeldIs
<1>2. f \in [0 .. N -> 1 .. N] BY <1>1
<1>3. /\ IsFiniteSet(0 .. N) /\ Cardinality(0 .. N) = N + 1
      /\ IsFiniteSet(1 .. N) /\ Cardinality(1 .. N) = N
  <2>1. 0 \in Int /\ 1 \in Int /\ N \in Int OBVIOUS
  <2>2. IsFiniteSet(0 .. N) /\ Cardinality(0 .. N) = IF 0 > N THEN 0 ELSE N - 0 + 1
    BY <2>1, FS_Interval
  <2>3. IsFiniteSet(1 .. N) /\ Cardinality(1 .. N) = IF 1 > N THEN 0 ELSE N - 1 + 1
    BY <2>1, FS_Interval
  <2> QED BY <2>2, <2>3
<1>4. PICK a, b \in 0 .. N : a # b /\ f[a] = f[b]
  <2> HIDE DEF f
  <2>1. Cardinality(1 .. N) < Cardinality(0 .. N) BY <1>3
  <2> QED BY <1>2, <1>3, <2>1, FS_PigeonHole
<1>5. p[a] = p[b]
  <2>1. p[a].obj = p[b].obj BY <1>4
  <2> QED BY <1>1, <2>1
<1>6. a < b \/ b < a BY <1>4
<1> QED BY <1>5, <1>6

(* A value that is as deep as there are objects, and deeper, holds itself. *)
LEMMA DeepHoldsItself ==
  ASSUME NEW B \in Nat, Objects(heap, B), B <= Len(heap), NEW v, Held(v, Len(heap)),
         NEW d, Depths(d, v, Len(heap) + 1), d[Len(heap) + 1] # {}
  PROVE  HoldsItself(v)
<1> DEFINE N == Len(heap)
           M == N + 1
<1>1. N \in Nat /\ M \in Nat BY ObjectsAre
<1>2. PICK Z : Z = Within(v) OBVIOUS
<1>3. Closed(Z) /\ v \in Z /\ \A x \in Z : Held(x, N) BY <1>2, WithinIs DEF WithinOfHeap, Least
<1>4. ASSUME NEW x \in Z PROVE PartsClosed(Within(x)) /\ x \in Within(x)
  <2>1. Closed(Within(x)) /\ x \in Within(x) /\ \A y \in Within(x) : Held(y, N)
    BY <1>3, WithinIs DEF WithinOfHeap, Least
  <2>2. ASSUME NEW y \in Within(x) PROVE Parts(y) \subseteq Within(x) BY <2>1, PartsInside
  <2> QED BY <2>1, <2>2 DEF PartsClosed
<1>5. PartsClosed(Z) BY <1>2, <1>3, <1>4
<1>6. /\ \A k \in 0 .. M : k # 0 => d[k] = Deeper(d[k - 1])
      /\ \A k \in 0 .. M : d[k] \subseteq Z
  <2> HIDE DEF M
  <2>1. Depths(d, v, M) BY DEF M
  <2> QED BY <1>1, <1>3, <1>5, <2>1, DepthsInside
<1>7. PICK p : Path(p, M) /\ \A k \in 0 .. M : p[k] \in d[k]
  <2>1. d[M] # {} OBVIOUS
  <2> HIDE DEF M
  <2> QED BY <1>1, <1>6, <2>1, PathDown
<1>8. \A k \in 0 .. M : p[k] \in Z BY <1>6, <1>7
<1>9. ASSUME NEW k \in 0 .. N
      PROVE  /\ p[k] \in Z /\ Held(p[k], N) /\ IsRef(p[k]) /\ p[k + 1] \in Z
             /\ IsPair(p[k]) => Held(p[k + 1], p[k].obj - 1)
             /\ ~IsPair(p[k]) => /\ Tag(p[k]) = "VECTOR"
                                 /\ p[k + 1] \in Elems(heap[p[k].obj].elems)
  <2>1. k \in 0 .. M /\ k + 1 \in 0 .. M /\ k \in 0 .. M - 1 BY <1>1
  <2>2. p[k + 1] \in Parts(p[k]) BY <1>7, <2>1 DEF Path
  <2>3. p[k] \in Z /\ Held(p[k], N) BY <1>3, <1>8, <2>1
  <2>4. \A y \in Parts(p[k]) : /\ IsRef(p[k])
                               /\ IsPair(p[k]) => Held(y, p[k].obj - 1)
                               /\ ~IsPair(p[k]) => /\ Tag(p[k]) = "VECTOR"
                                                   /\ y \in Elems(heap[p[k].obj].elems)
    BY <1>3, <2>3, PartsInside
  <2> QED BY <1>8, <2>1, <2>2, <2>3, <2>4
<1>10. PICK a, b \in 0 .. N : a < b /\ p[a] = p[b]
  <2> HIDE DEF N
  <2> QED BY <1>1, <1>9, PathMeets
<1>11. PICK m \in a .. b - 1 : ~IsPair(p[m])
  <2> SUFFICES ASSUME \A k \in a .. b - 1 : IsPair(p[k]) PROVE FALSE OBVIOUS
  <2>1. \A k \in 0 .. N : IsRef(p[k]) /\ p[k].obj \in 1 .. N BY <1>9, HeldIs
  <2>2. \A k \in a .. b - 1 : k \in 0 .. N BY <1>10
  <2>3. \A k \in a .. b - 1 : Held(p[k + 1], p[k].obj - 1) BY <1>9, <2>2
  <2>4. p[b].obj < p[a].obj
    <3>1. \A k \in 0 .. N : IsRef(p[k]) /\ p[k].obj \in Nat BY <2>1
    <3> HIDE DEF N
    <3> QED BY <1>1, <1>10, <2>3, <3>1, PathFalls
  <2>5. p[a].obj \in Nat BY <2>1
  <2> QED BY <1>10, <2>4, <2>5
<1>12. m \in 0 .. N /\ m + 1 \in 0 .. M /\ m + 1 <= b /\ a <= m /\ b \in 0 .. M /\ a \in 0 .. M /\ m \in 0 .. M
  BY <1>1, <1>10
<1>13. /\ p[m] \in Z /\ Tag(p[m]) = "VECTOR" /\ p[m + 1] \in Elems(heap[p[m].obj].elems)
       /\ p[m + 1] \in Z
  BY <1>9, <1>11, <1>12
<1>14. PICK C : C = Within(p[m + 1]) OBVIOUS
<1>15. PartsClosed(C) /\ p[m + 1] \in C BY <1>4, <1>13, <1>14
<1> HIDE DEF N, M
<1>16. p[b] \in C BY <1>1, <1>7, <1>12, <1>15, PathStays
<1>17. p[m] \in C BY <1>1, <1>7, <1>10, <1>12, <1>15, <1>16, PathStays
<1> QED BY <1>2, <1>13, <1>14, <1>17 DEF HoldsItself

LEMMA PrintCrash ==
  ASSUME NEW B \in Nat, Objects(heap, B), B <= Len(heap), NEW v, Held(v, B), ~Printable(v)
  PROVE  HoldsItself(v) \/ LoneQuote(v)
<1>1. Held(v, Len(heap)) BY WithinHeld
<1> QED BY <1>1, PrintableIs, DeepHoldsItself

-----------------------------------------------------------------------------
(* What the arguments of a call that crashes are. *)
Crashed(r) == r.kind = "crash"

LEMMA PairsCrash ==
  ASSUME NEW q, NEW l, NEW B, Passing(q, l, B)
  PROVE  /\ Crashed(prim_car(l)) \/ Crashed(prim_cdr(l)) => Len(q) = 0
         /\ ~Crashed(prim_cons(l))
<1>1. Len(q) \in Nat /\ \A k \in 1 .. Len(q) : q[k] # NULL BY ArgIs
<1>2. First(l) = IF Len(q) < 1 THEN NULL ELSE q[1] BY ArgumentsAre
<1>3. Len(q) # 0 => First(l) # NULL
  <2> SUFFICES ASSUME Len(q) # 0 PROVE First(l) # NULL OBVIOUS
  <2>1. 1 \in 1 .. Len(q) /\ ~(Len(q) < 1) BY <1>1
  <2> QED BY <1>1, <1>2, <2>1
<1>4. First(l) # NULL => ~Crashed(prim_car(l)) /\ ~Crashed(prim_cdr(l))
  <2> SUFFICES ASSUME First(l) # NULL PROVE ~Crashed(prim_car(l)) /\ ~Crashed(prim_cdr(l)) OBVIOUS
  <2>1. CASE IsPair(First(l))
    <3>1. prim_car(l) = Returns(CAR(First(l))) /\ prim_cdr(l) = Returns(CDR(First(l)))
      BY <2>1 DEF prim_car, prim_cdr
    <3> QED BY <3>1, Kinds DEF Crashed
  <2>2. CASE ~IsPair(First(l))
    <3>1. prim_car(l) = Error /\ prim_cdr(l) = Error BY <2>2 DEF prim_car, prim_cdr
    <3> QED BY <3>1, Kinds DEF Crashed
  <2> QED BY <2>1, <2>2
<1>5. ~Crashed(prim_cons(l))
  <2> DEFINE o == [tag |-> "CELL", car |-> First(l), cdr |-> Second(l)]
  <2>1. prim_cons(l) = Error \/ prim_cons(l) = Makes(o) BY DEF prim_cons
  <2> HIDE DEF o
  <2> QED BY <2>1, Kinds DEF Crashed
<1> QED BY <1>3, <1>4, <1>5

LEMMA EqualityCrash ==
  ASSUME NEW q, NEW l, NEW B, Passing(q, l, B)
  PROVE  /\ ~Crashed(prim_eq(l)) /\ ~Crashed(prim_eqv(l))
         /\ Crashed(prim_equal(l)) => Len(q) = 2 /\ Improper(q[1]) /\ Improper(q[2])
<1>1. /\ B \in Nat /\ Len(q) \in Nat /\ Objects(heap, B) /\ B <= Len(heap)
      /\ \A k \in 1 .. Len(q) : Held(q[k], B)
  BY ArgIs
<1>2. ~Crashed(prim_eq(l)) /\ ~Crashed(prim_eqv(l))
  <2>1. /\ prim_eq(l) = Error \/ \E b : prim_eq(l) = Truth(b)
        /\ prim_eqv(l) = Error \/ \E b : prim_eqv(l) = Truth(b)
    BY DEF prim_eq, prim_eqv
  <2>2. ~Crashed(Error) /\ \A b : ~Crashed(Truth(b)) BY Kinds DEF Crashed
  <2> QED BY <2>1, <2>2
<1>3. ASSUME Crashed(prim_equal(l)) PROVE Len(q) = 2 /\ Improper(q[1]) /\ Improper(q[2])
  <2>1. Len(q) = 2
    <3>1. prim_equal(l).kind # "error" BY <1>3 DEF Crashed
    <3> QED BY <3>1, EqualityFine
  <2>2. First(l) = q[1] /\ Second(l) = q[2] /\ get_list_length(l) = 2 BY <2>1, ArgumentsAre
  <2>3. Held(q[1], B) /\ Held(q[2], B) BY <1>1, <2>1
  <2>4. PICK w : Walked(w) /\ \A a, b : equal(a, b) = equal_objs(w, a, b) BY <1>1, EqualIs
  <2> DEFINE same == equal_objs(w, q[1], q[2])
  <2>5. prim_equal(l) = IF same = "crash" THEN Crashes ELSE Truth(same = "true")
    BY <2>2, <2>4 DEF prim_equal
  <2> HIDE DEF same
  <2>6. same = "crash"
    <3> SUFFICES ASSUME same # "crash" PROVE FALSE OBVIOUS
    <3>1. prim_equal(l) = Truth(same = "true") BY <2>5
    <3>2. prim_equal(l).kind = "value" BY <3>1, Kinds
    <3> QED BY <1>3, <3>2 DEF Crashed
  <2>7. equal_objs(w, q[1], q[2]) = "crash" BY <2>6 DEF same
  <2> QED BY <1>1, <2>1, <2>3, <2>4, <2>7, WalkCrash
<1> QED BY <1>2, <1>3

LEMMA ArithmeticCrash ==
  ASSUME NEW q, NEW l, NEW B, Passing(q, l, B)
  PROVE  /\ ~Crashed(prim_plus(l)) /\ ~Crashed(prim_times(l)) /\ ~Crashed(prim_minus(l))
         /\ Crashed(prim_div(l)) \/ Crashed(prim_modulo(l)) =>
              Divisible(q) /\ IntOf(q[1]) = LongMin /\ IntOf(q[2]) = -1
<1>1. ~Crashed(Error) /\ \A n : ~Crashed(Integer(n)) BY Kinds DEF Crashed
<1>2. ~Crashed(prim_plus(l))
  <2>1. prim_plus(l) = Error \/ \E n : prim_plus(l) = Integer(n) BY PlusIs
  <2> QED BY <1>1, <2>1
<1>3. ~Crashed(prim_times(l))
  <2>1. prim_times(l) = Error \/ \E n : prim_times(l) = Integer(n) BY TimesIs
  <2> QED BY <1>1, <2>1
<1>4. ~Crashed(prim_minus(l))
  <2>1. Len(q) \in Nat BY ArgIs
  <2>2. Len(q) = 0 \/ Len(q) = 1 \/ Len(q) > 1
    <3>1. \A n \in Nat : n = 0 \/ n = 1 \/ n > 1 OBVIOUS
    <3> QED BY <2>1, <3>1
  <2>3. prim_minus(l) = Error \/ \E n : prim_minus(l) = Integer(n) BY <2>2, MinusIs
  <2> QED BY <1>1, <2>3
<1>5. ASSUME Crashed(prim_div(l)) \/ Crashed(prim_modulo(l))
      PROVE  Divisible(q) /\ IntOf(q[1]) = LongMin /\ IntOf(q[2]) = -1
  <2>1. PICK a : a = IntOf(q[1]) OBVIOUS
  <2>2. PICK b : b = IntOf(q[2]) OBVIOUS
  <2>3. /\ ~Divisible(q) => prim_div(l) = Error /\ prim_modulo(l) = Error
        /\ Divisible(q) =>
             /\ a \in Words /\ b \in Words /\ b # 0
             /\ Quotient(a, b) \in Words =>
                  /\ prim_div(l) = Integer(Quotient(a, b))
                  /\ prim_modulo(l) = Integer(Remainder(a, b))
    BY <2>1, <2>2, DivisionIs
  <2>4. Divisible(q) BY <1>1, <1>5, <2>3
  <2>5. Quotient(a, b) \notin Words BY <1>1, <1>5, <2>3, <2>4
  <2>6. a = LongMin /\ b = -1 BY <2>3, <2>4, <2>5, QuotientFits
  <2> QED BY <2>1, <2>2, <2>4, <2>6
<1> QED BY <1>2, <1>3, <1>4, <1>5

LEMMA VectorsCrash ==
  ASSUME NEW q, NEW l, NEW B, Passing(q, l, B)
  PROVE  /\ Crashed(prim_make_vector(l)) => Len(q) > 0 /\ IsInt(q[1]) /\ IntOf(q[1]) < 0
         /\ ~Crashed(prim_vector_ref(l)) /\ ~Crashed(prim_vector_set(l))
         /\ ~Crashed(prim_vector_length(l))
<1>1. ASSUME Crashed(prim_make_vector(l)) PROVE Len(q) > 0 /\ IsInt(q[1]) /\ IntOf(q[1]) < 0
  <2>1. prim_make_vector(l).kind = "crash" /\ prim_make_vector(l).kind # "error"
    BY <1>1 DEF Crashed
  <2> QED BY <2>1, VectorsFine
<1>2. ~Crashed(Error) /\ \A v : ~Crashed(Returns(v)) BY Kinds DEF Crashed
<1>3. \A i, k, v : ~Crashed(Stores(i, k, v)) BY Kinds DEF Crashed
<1>4. \A n : ~Crashed(Integer(n)) BY Kinds DEF Crashed
<1>5. /\ prim_vector_ref(l) = Error \/ \E v : prim_vector_ref(l) = Returns(v)
      /\ prim_vector_set(l) = Error \/ \E i, k, v : prim_vector_set(l) = Stores(i, k, v)
      /\ prim_vector_length(l) = Error \/ \E n : prim_vector_length(l) = Integer(n)
  BY DEF prim_vector_ref, prim_vector_set, prim_vector_length, Stores
<1> QED BY <1>1, <1>2, <1>3, <1>4, <1>5

LEMMA OthersCrash ==
  ASSUME NEW q, NEW l, NEW B, Passing(q, l, B)
  PROVE  /\ Crashed(prim_display(l)) => Len(q) = 0 \/ HoldsItself(q[1]) \/ LoneQuote(q[1])
         /\ ~Crashed(prim_newline(l)) /\ ~Crashed(prim_exit(l))
<1>1. ~Crashed([kind |-> "exit"]) /\ \A v : ~Crashed(Returns(v)) BY Kinds DEF Crashed
<1>2. ASSUME Crashed(prim_display(l)), Len(q) # 0 PROVE HoldsItself(q[1]) \/ LoneQuote(q[1])
  <2>1. /\ B \in Nat /\ Len(q) \in Nat /\ Objects(heap, B) /\ B <= Len(heap)
        /\ \A k \in 1 .. Len(q) : Held(q[k], B)
    BY ArgIs
  <2>2. 1 \in 1 .. Len(q) /\ ~(Len(q) < 1) BY <1>2, <2>1
  <2>3. First(l) = q[1] BY <2>2, ArgumentsAre
  <2>4. Held(q[1], B) BY <2>1, <2>2
  <2>5. ~Printable(q[1]) BY <1>1, <1>2, <2>3 DEF prim_display
  <2> QED BY <2>1, <2>4, <2>5, PrintCrash
<1> QED BY <1>1, <1>2 DEF prim_newline, prim_exit

(* The causes of a crash, by primitive. *)
Causes(p, q) ==
  /\ p \in {"car", "cdr"} => Len(q) = 0
  /\ p = "display" => Len(q) = 0 \/ HoldsItself(q[1]) \/ LoneQuote(q[1])
  /\ p = "make-vector" => Len(q) > 0 /\ IsInt(q[1]) /\ IntOf(q[1]) < 0
  /\ p \in {"div", "modulo"} => Divisible(q) /\ IntOf(q[1]) = LongMin /\ IntOf(q[2]) = -1
  /\ p = "equal?" => Len(q) = 2 /\ Improper(q[1]) /\ Improper(q[2])
  /\ p \in {"car", "cdr", "display", "make-vector", "div", "modulo", "equal?"}

LEMMA CrashCauses ==
  ASSUME NEW q, NEW l, NEW B, Passing(q, l, B), NEW p \in Prim, Crashed(apply(p, l))
  PROVE  Causes(p, q)
<1> DEFINE r == apply(p, l)
<1>1. /\ p = "car" => r = prim_car(l)
      /\ p = "cdr" => r = prim_cdr(l)
      /\ p = "cons" => r = prim_cons(l)
      /\ p = "eq?" => r = prim_eq(l)
      /\ p = "eqv?" => r = prim_eqv(l)
      /\ p = "equal?" => r = prim_equal(l)
      /\ p = "+" => r = prim_plus(l)
      /\ p = "*" => r = prim_times(l)
      /\ p = "-" => r = prim_minus(l)
  BY ApplyIs
<1>2. /\ p = "div" => r = prim_div(l)
      /\ p = "modulo" => r = prim_modulo(l)
      /\ p = "make-vector" => r = prim_make_vector(l)
      /\ p = "vector-ref" => r = prim_vector_ref(l)
      /\ p = "vector-set!" => r = prim_vector_set(l)
      /\ p = "vector-length" => r = prim_vector_length(l)
      /\ p = "display" => r = prim_display(l)
      /\ p = "newline" => r = prim_newline(l)
      /\ p = "exit" => r = prim_exit(l)
  BY ApplyIs
<1>3. Crashed(r) OBVIOUS
<1> HIDE DEF r
<1>4. p \notin {"cons", "eq?", "eqv?", "+", "*", "-"}
  BY <1>1, <1>3, PairsCrash, EqualityCrash, ArithmeticCrash
<1>5. p \notin {"vector-ref", "vector-set!", "vector-length", "newline", "exit"}
  BY <1>2, <1>3, VectorsCrash, OthersCrash
<1>6. p \in {"car", "cdr", "display", "make-vector", "div", "modulo", "equal?"}
  BY <1>4, <1>5 DEF Prim
<1>7. p \in {"car", "cdr"} => Len(q) = 0 BY <1>1, <1>3, PairsCrash
<1>8. p = "display" => Len(q) = 0 \/ HoldsItself(q[1]) \/ LoneQuote(q[1])
  BY <1>2, <1>3, OthersCrash
<1>9. p = "make-vector" => Len(q) > 0 /\ IsInt(q[1]) /\ IntOf(q[1]) < 0
  BY <1>2, <1>3, VectorsCrash
<1>10. p \in {"div", "modulo"} => Divisible(q) /\ IntOf(q[1]) = LongMin /\ IntOf(q[2]) = -1
  BY <1>2, <1>3, ArithmeticCrash
<1>11. p = "equal?" => Len(q) = 2 /\ Improper(q[1]) /\ Improper(q[2])
  BY <1>1, <1>3, EqualityCrash
<1> QED BY <1>6, <1>7, <1>8, <1>9, <1>10, <1>11 DEF Causes

(* A crash changes none of the objects there were before the call, and so  *)
(* nothing that is within a value.                                         *)
Kept(B) ==
  /\ Objects(heap', Len(heap')) /\ Len(heap') = B /\ \A i \in 1 .. B : heap'[i] = heap[i]

LEMMA KeptValue ==
  ASSUME NEW B \in Nat, Objects(heap, B), B <= Len(heap), Kept(B), NEW v, Held(v, B)
  PROVE  /\ Tag(v)' = Tag(v) /\ (IsPair(v)' <=> IsPair(v)) /\ (IsInt(v)' <=> IsInt(v))
         /\ (Quoted(v)' <=> Quoted(v))
         /\ CAR(v)' = CAR(v) /\ CDR(v)' = CDR(v) /\ Inside(v)' = Inside(v)
         /\ IsRef(v) => heap'[v.obj] = heap[v.obj]
         /\ IsPair(v) => Held(CDR(v), B)
         /\ \A y \in Inside(v) : Held(y, B)
<1>1. IsRef(v) => heap'[v.obj] = heap[v.obj]
  <2>1. IsRef(v) => v.obj \in 1 .. B BY HeldIs
  <2> QED BY <2>1 DEF Kept
<1>2. Tag(v)' = Tag(v) BY <1>1 DEF Tag
<1>3. (IsPair(v)' <=> IsPair(v)) /\ (IsInt(v)' <=> IsInt(v)) BY <1>2 DEF IsPair, IsInt
<1>4. CAR(v)' = CAR(v) /\ CDR(v)' = CDR(v) BY <1>1 DEF CAR, CDR
<1>5. Quoted(v)' <=> Quoted(v) BY <1>3, <1>4 DEF Quoted
<1>6. IsPair(v) => IsRef(v) /\ Tag(v) # "VECTOR"
  <2>1. IsPair(v) => IsRef(v) BY Tags
  <2>2. Tag(v) = "CELL" => Tag(v) # "VECTOR" OBVIOUS
  <2> QED BY <2>1, <2>2 DEF IsPair
<1>7. Inside(v)' = Inside(v)
  <2>1. CASE IsPair(v)
    <3>1. Inside(v) = {CAR(v), CDR(v)} BY <1>6, <2>1 DEF Inside
    <3>2. Inside(v)' = {CAR(v)', CDR(v)'} BY <1>2, <1>3, <1>6, <2>1 DEF Inside
    <3> QED BY <1>4, <3>1, <3>2
  <2>2. CASE ~IsPair(v) /\ Tag(v) = "VECTOR"
    <3>1. Inside(v) = Elems(heap[v.obj].elems) BY <2>2 DEF Inside
    <3>2. Inside(v)' = Elems(heap'[v.obj].elems) BY <1>2, <1>3, <2>2 DEF Inside, Elems
    <3>3. IsRef(v)
      <4> SUFFICES ASSUME ~IsRef(v) PROVE FALSE OBVIOUS
      <4>1. v # NIL => Tag(v) \in {"SYMBOL", "OTHER"} BY Tags
      <4>2. v = NIL => Tag(v) = "CELL" BY Tags
      <4> QED BY <2>2, <4>1, <4>2
    <3> QED BY <1>1, <3>1, <3>2, <3>3
  <2>3. CASE ~IsPair(v) /\ Tag(v) # "VECTOR"
    <3>1. Inside(v) = {} BY <2>3 DEF Inside
    <3>2. Inside(v)' = {} BY <1>2, <1>3, <2>3 DEF Inside
    <3> QED BY <3>1, <3>2
  <2> QED BY <2>1, <2>2, <2>3
<1>8. Held(v, Len(heap))
  <2>1. Len(heap) \in Nat BY ObjectsAre
  <2> QED BY <2>1, HeldMore
<1>9. \A y \in Inside(v) : Held(y, B) BY <1>8, InsideIs
<1>10. IsPair(v) => CDR(v) \in Inside(v) BY <1>8, InsideIs
<1> QED BY <1>1, <1>2, <1>3, <1>4, <1>5, <1>7, <1>9, <1>10

LEMMA KeptWithin ==
  ASSUME NEW B \in Nat, Objects(heap, B), B <= Len(heap), Kept(B), NEW v, Held(v, B)
  PROVE  Within(v)' = Within(v)
<1>1. Least(Within(v), v) /\ \A x \in Within(v) : Held(x, B) BY WithinHeld
<1>2. Objects(heap', B) /\ Len(heap') = B /\ B <= B BY DEF Kept
<1>3. Least(Within(v), v)' BY <1>2, WithinNext DEF WithinOfHeap
<1>4. PICK W : W = Within(v) OBVIOUS
<1>5. PICK V : V = Within(v)' OBVIOUS
<1>6. v \in W /\ (\A x \in W : Held(x, B)) /\ \A x \in W : Inside(x) \subseteq W
  BY <1>1, <1>4 DEF Least, Closed
<1>7. /\ v \in V /\ (\A x \in V : Held(x, B)) /\ \A x \in V : Inside(x)' \subseteq V
      /\ \A C : v \in C /\ (\A x \in C : Inside(x)' \subseteq C) => V \subseteq C
  BY <1>2, <1>3, <1>5 DEF Least, Closed
<1>8. \A C : v \in C /\ (\A x \in C : Inside(x) \subseteq C) => W \subseteq C
  BY <1>1, <1>4 DEF Least, Closed
<1>9. \A x : Held(x, B) => Inside(x)' = Inside(x) BY KeptValue
<1>10. V \subseteq W
  <2>1. \A x \in W : Inside(x)' \subseteq W BY <1>6, <1>9
  <2> QED BY <1>6, <1>7, <2>1
<1>11. W \subseteq V
  <2>1. \A x \in V : Inside(x) \subseteq V BY <1>7, <1>9
  <2> QED BY <1>7, <1>8, <2>1
<1> QED BY <1>4, <1>5, <1>10, <1>11

LEMMA KeptCauses ==
  ASSUME NEW B \in Nat, Objects(heap, B), B <= Len(heap), Kept(B), NEW v, Held(v, B)
  PROVE  /\ Improper(v) => Improper(v)'
         /\ HoldsItself(v) => HoldsItself(v)'
         /\ LoneQuote(v) => LoneQuote(v)'
<1>1. Within(v)' = Within(v) /\ \A x \in Within(v) : Held(x, B) BY KeptWithin, WithinHeld
<1>2. ASSUME Improper(v) PROVE Improper(v)'
  <2>1. PICK x \in Within(v) : IsPair(x) /\ CDR(x) # NIL /\ ~IsPair(CDR(x))
    BY <1>2 DEF Improper
  <2>2. Held(x, B) BY <1>1
  <2>3. IsPair(x)' /\ CDR(x)' = CDR(x) /\ Held(CDR(x), B) BY <2>1, <2>2, KeptValue
  <2>4. PICK y : y = CDR(x) OBVIOUS
  <2>5. IsPair(y)' <=> IsPair(y) BY <2>3, <2>4, KeptValue
  <2>6. y = CDR(x)' /\ y # NIL /\ ~IsPair(y) BY <2>1, <2>3, <2>4
  <2>7. ~(IsPair(CDR(x))') BY <2>5, <2>6 DEF IsPair, Tag
  <2>8. x \in Within(v)' BY <1>1
  <2> QED BY <2>3, <2>6, <2>7, <2>8 DEF Improper
<1>3. ASSUME HoldsItself(v) PROVE HoldsItself(v)'
  <2>1. PICK x \in Within(v) :
          Tag(x) = "VECTOR" /\ \E y \in Elems(heap[x.obj].elems) : x \in Within(y)
    BY <1>3 DEF HoldsItself
  <2>2. PICK y \in Elems(heap[x.obj].elems) : x \in Within(y) BY <2>1
  <2>3. Held(x, B) BY <1>1
  <2>4. IsRef(x)
    <3> SUFFICES ASSUME ~IsRef(x) PROVE FALSE OBVIOUS
    <3>1. x # NIL => Tag(x) \in {"SYMBOL", "OTHER"} BY Tags
    <3>2. x = NIL => Tag(x) = "CELL" BY Tags
    <3> QED BY <2>1, <3>1, <3>2
  <2>5. heap'[x.obj] = heap[x.obj] /\ Tag(x)' = "VECTOR" BY <2>1, <2>3, <2>4, KeptValue
  <2>6. Held(x, Len(heap)) BY <2>3, WithinHeld
  <2>7. Inside(x) = Elems(heap[x.obj].elems) BY <2>1, <2>6, InsideIs
  <2>8. Held(y, B) BY <2>2, <2>3, <2>7, KeptValue
  <2>9. x \in Within(y)' BY <2>2, <2>8, KeptWithin
  <2>10. y \in Elems(heap'[x.obj].elems) BY <2>2, <2>5
  <2>11. x \in Within(v)' BY <1>1
  <2> QED BY <2>5, <2>9, <2>10, <2>11 DEF HoldsItself, Elems
<1>4. ASSUME LoneQuote(v) PROVE LoneQuote(v)'
  <2>1. PICK x \in Within(v) : Quoted(x) /\ CDR(x) = NIL BY <1>4 DEF LoneQuote
  <2>2. Held(x, B) BY <1>1
  <2>3. Quoted(x)' /\ CDR(x)' = NIL BY <2>1, <2>2, KeptValue
  <2>4. x \in Within(v)' BY <1>1
  <2> QED BY <2>3, <2>4 DEF LoneQuote
<1> QED BY <1>2, <1>3, <1>4

-----------------------------------------------------------------------------
(* equal? stores nothing either, and so it is judged on the heap it found. *)
LEMMA KeptTwins ==
  ASSUME NEW B \in Nat, Objects(heap, B), B <= Len(heap), Kept(B),
         NEW a, Held(a, B), NEW b, Held(b, B), TwinEnds(a, b)
  PROVE  TwinEnds(a, b)'
<1>1. /\ Within(a)' = Within(a) /\ \A x \in Within(a) : Held(x, B)
      /\ Within(b)' = Within(b) /\ \A x \in Within(b) : Held(x, B)
  BY KeptWithin, WithinHeld
<1>2. PICK x \in Within(a), y \in Within(b) :
        /\ IsPair(x) /\ IsPair(y) /\ CDR(x) # CDR(y)
        /\ Tag(CDR(x)) = "STRING" /\ Tag(CDR(y)) = "STRING"
        /\ heap[CDR(x).obj].str = heap[CDR(y).obj].str
  BY DEF TwinEnds
<1>3. PICK u : u = CDR(x) OBVIOUS
<1>4. PICK v : v = CDR(y) OBVIOUS
<1>5. /\ IsPair(x)' /\ u = CDR(x)' /\ Held(u, B)
      /\ IsPair(y)' /\ v = CDR(y)' /\ Held(v, B)
  BY <1>1, <1>2, <1>3, <1>4, KeptValue
<1>6. u # v /\ Tag(u) = "STRING" /\ Tag(v) = "STRING" /\ heap[u.obj].str = heap[v.obj].str
  BY <1>2, <1>3, <1>4
<1>7. IsRef(u) /\ IsRef(v) BY <1>6, Tags
<1>8. /\ Tag(u)' = "STRING" /\ Tag(v)' = "STRING"
      /\ heap'[u.obj].str = heap'[v.obj].str
  BY <1>5, <1>6, <1>7, KeptValue
<1>9. /\ CDR(x)' # CDR(y)' /\ Tag(CDR(x))' = "STRING" /\ Tag(CDR(y))' = "STRING"
      /\ heap'[CDR(x)'.obj].str = heap'[CDR(y)'.obj].str
  BY <1>5, <1>6, <1>8 DEF Tag
<1>10. x \in Within(a)' /\ y \in Within(b)' BY <1>1
<1> QED BY <1>5, <1>9, <1>10 DEF TwinEnds

LEMMA EqualApply ==
  ASSUME CallsInv, Apply, Done', call'.p = "equal?", result'.kind = "value"
  PROVE  EqualIsStructural'
<1>1. PICK B \in Nat :
        /\ Passing(call.args, call.l, B) /\ call' = call
        /\ result' = apply(call.p, call.l) /\ Objects(heap', Len(heap')) /\ Len(heap') \in Nat
        /\ result'.kind \notin {"new", "store"} =>
             Len(heap') = B /\ \A i \in 1 .. B : heap'[i] = heap[i]
  BY ApplyFacts
<1>2. Len(heap') = B /\ \A i \in 1 .. B : heap'[i] = heap[i] BY <1>1
<1>3. \E t : Trees(t, Len(heap))' /\ \A v : Tree(v)' = Part(t, v)
  BY <1>1, TreeNext DEF TreeOfHeap, Part
<1>4. PICK t : Trees(t, Len(heap))' /\ \A v : Tree(v)' = Part(t, v) BY <1>3
<1>5. Trees(t, B)
  <2>1. t = [i \in 1 .. B |-> Node(t, heap'[i], i)] BY <1>2, <1>4 DEF Trees, Node, Part
  <2>2. [i \in 1 .. B |-> Node(t, heap'[i], i)] = [i \in 1 .. B |-> Node(t, heap[i], i)] BY <1>2
  <2> QED BY <2>1, <2>2 DEF Trees
<1>6. result' = prim_equal(call.l)
  <2>1. call.p = "equal?" BY <1>1
  <2> QED BY <1>1, <2>1 DEF apply
<1>7. PICK q : q = call.args OBVIOUS
<1>8. /\ result'.v = TRUEV => Part(t, q[1]) = Part(t, q[2])
      /\ Part(t, q[1]) = Part(t, q[2]) => result'.v = TRUEV \/ TwinEnds(q[1], q[2])
  BY <1>1, <1>5, <1>6, <1>7, EqualAnswers
<1>9. Args' = q BY <1>1, <1>7 DEF Args
<1>10. (Tree(Args[1]) = Tree(Args[2]))' <=> Part(t, q[1]) = Part(t, q[2])
  <2>1. Tree(q[1])' = Part(t, q[1]) /\ Tree(q[2])' = Part(t, q[2]) BY <1>4
  <2>2. Tree(Args[1])' = Part(t, q[1]) /\ Tree(Args[2])' = Part(t, q[2])
    BY <1>4, <1>9
  <2> QED BY <2>2
<1>11. TwinEnds(q[1], q[2]) => TwinEnds(Args[1], Args[2])'
  <2> SUFFICES ASSUME TwinEnds(q[1], q[2]) PROVE TwinEnds(Args[1], Args[2])' OBVIOUS
  <2>1. Len(q) = 2
    <3>1. prim_equal(call.l).kind # "error" BY <1>6
    <3> QED BY <1>1, <1>7, <3>1, EqualityFine
  <2>2. 1 \in 1 .. Len(q) /\ 2 \in 1 .. Len(q) BY <2>1
  <2>3. /\ B \in Nat /\ Objects(heap, B) /\ B <= Len(heap) /\ Kept(B)
        /\ Held(q[1], B) /\ Held(q[2], B)
    BY <1>1, <1>2, <1>7, <2>2, ArgIs DEF Kept
  <2>4. TwinEnds(q[1], q[2])' BY <2>3, KeptTwins
  <2> QED BY <1>9, <2>4 DEF TwinEnds
<1>12. /\ result'.v = TRUEV => (Tree(Args[1]) = Tree(Args[2]))'
       /\ (Tree(Args[1]) = Tree(Args[2]))' => result'.v = TRUEV \/ TwinEnds(Args[1], Args[2])'
  BY <1>8, <1>10, <1>11
<1> QED BY <1>12 DEF EqualIsStructural

(* What is within a value depends on the heap alone.                       *)
LEMMA StillThere ==
  ASSUME heap' = heap
  PROVE  /\ \A v : Within(v)' = Within(v)
         /\ \A v : Tag(v)' = Tag(v) /\ CAR(v)' = CAR(v) /\ CDR(v)' = CDR(v)
         /\ \A v : (IsPair(v)' <=> IsPair(v)) /\ (Quoted(v)' <=> Quoted(v))
<1> DEFINE tag(h, v) == IF IsRef(v) THEN h[v.obj].tag
                        ELSE IF v = NIL THEN "CELL"
                        ELSE IF "sym" \in DOMAIN v THEN "SYMBOL" ELSE "OTHER"
           first(h, v) == IF IsRef(v) THEN h[v.obj].car ELSE NULL
           rest(h, v) == IF IsRef(v) THEN h[v.obj].cdr ELSE NULL
           inside(h, x) == CASE tag(h, x) = "CELL" /\ x # NIL -> {first(h, x), rest(h, x)}
                             [] tag(h, x) = "VECTOR" -> Elems(h[x.obj].elems)
                             [] OTHER -> {}
           within(h, v) ==
             LET r == CHOOSE f : f = [k \in 0 .. Len(h) |->
                        IF k = 0 THEN {v} ELSE UNION {{x} \cup inside(h, x) : x \in f[k - 1]}]
             IN r[Len(h)]
<1>1. /\ \A v : Tag(v) = tag(heap, v) /\ CAR(v) = first(heap, v) /\ CDR(v) = rest(heap, v)
      /\ \A v : Tag(v)' = tag(heap', v) /\ CAR(v)' = first(heap', v) /\ CDR(v)' = rest(heap', v)
  BY DEF Tag, CAR, CDR
<1>2. \A v : Within(v) = within(heap, v) BY DEF Within, Inside, IsPair, Tag, CAR, CDR
<1>3. \A v : Within(v)' = within(heap', v) BY DEF Within, Inside, IsPair, Tag, CAR, CDR, Elems
<1> HIDE DEF tag, first, rest, within
<1>4. /\ \A v : Within(v)' = Within(v)
      /\ \A v : Tag(v)' = Tag(v) /\ CAR(v)' = CAR(v) /\ CDR(v)' = CDR(v)
  BY <1>1, <1>2, <1>3
<1>5. \A v : IsPair(v)' <=> IsPair(v) BY <1>4 DEF IsPair
<1>6. \A v : Quoted(v)' <=> Quoted(v) BY <1>4, <1>5 DEF Quoted
<1> QED BY <1>4, <1>5, <1>6

LEMMA EqualStep == CallsInv /\ EqualIsStructural /\ [Next]_vars => EqualIsStructural'
<1> SUFFICES ASSUME CallsInv, EqualIsStructural, [Next]_vars
             PROVE  EqualIsStructural'
  OBVIOUS
<1>1. CASE Apply
  <2>1. CASE Done' /\ call'.p = "equal?" /\ result'.kind = "value" BY <1>1, <2>1, EqualApply
  <2>2. CASE ~(Done' /\ call'.p = "equal?" /\ result'.kind = "value")
    BY <2>2 DEF EqualIsStructural
  <2> QED BY <2>1, <2>2
<1>2. CASE UNCHANGED vars
  <2> DEFINE tree(h, v) ==
               LET t == CHOOSE f : f = [i \in DOMAIN h |-> Node(f, h[i], i)]
               IN IF IsRef(v) THEN t[v.obj] ELSE v
  <2>1. \A v : Tree(v) = tree(heap, v) BY DEF Tree, Node, Part
  <2>2. \A v : Tree(v)' = tree(heap', v) BY DEF Tree, Node, Part
  <2>3. heap' = heap /\ result' = result /\ call' = call BY <1>2 DEF vars
  <2> HIDE DEF tree
  <2>4. \A v : Tree(v)' = Tree(v) BY <2>1, <2>2, <2>3
  <2>5. \A a, b : TwinEnds(a, b) => TwinEnds(a, b)'
    <3> SUFFICES ASSUME NEW a, NEW b, TwinEnds(a, b) PROVE TwinEnds(a, b)' OBVIOUS
    <3>1. PICK x \in Within(a), y \in Within(b) :
            /\ IsPair(x) /\ IsPair(y) /\ CDR(x) # CDR(y)
            /\ Tag(CDR(x)) = "STRING" /\ Tag(CDR(y)) = "STRING"
            /\ heap[CDR(x).obj].str = heap[CDR(y).obj].str
      BY DEF TwinEnds
    <3>2. PICK u : u = CDR(x) OBVIOUS
    <3>3. PICK v : v = CDR(y) OBVIOUS
    <3>4. /\ u # v /\ Tag(u)' = "STRING" /\ Tag(v)' = "STRING"
          /\ heap'[u.obj].str = heap'[v.obj].str
      BY <2>3, <3>1, <3>2, <3>3, StillThere
    <3>5. /\ x \in Within(a)' /\ y \in Within(b)' /\ IsPair(x)' /\ IsPair(y)'
          /\ u = CDR(x)' /\ v = CDR(y)'
      BY <2>3, <3>1, <3>2, <3>3, StillThere
    <3>6. /\ CDR(x)' # CDR(y)' /\ Tag(CDR(x))' = "STRING" /\ Tag(CDR(y))' = "STRING"
          /\ heap'[CDR(x)'.obj].str = heap'[CDR(y)'.obj].str
      BY <3>4, <3>5 DEF Tag
    <3> QED BY <3>5, <3>6 DEF TwinEnds
  <2> QED BY <2>3, <2>4, <2>5 DEF EqualIsStructural, Done, Args
<1>3. CASE ~Done' BY <1>3 DEF EqualIsStructural
<1> QED BY <1>1, <1>2, <1>3, DoneAfter

(* equal? (primitive.c:77-94) answers #t only for the same tree, and #f    *)
(* for the same tree only if both values hold a list that ends in a string,*)
(* another one with the same text.                                         *)
THEOREM EqualComparesTrees == Spec => []EqualIsStructural
<1>1. Init => EqualIsStructural BY NotDone DEF EqualIsStructural
<1>2. CallsInv /\ EqualIsStructural /\ [Next]_vars => EqualIsStructural' BY EqualStep
<1> QED BY <1>1, <1>2, CallsInvariant, PTL DEF Spec

-----------------------------------------------------------------------------
Crashing == {"car", "cdr", "display", "make-vector", "div", "modulo", "equal?"}
Cause(p, c1, c2, c3, c4, c5) ==
  CASE p \in {"car", "cdr"} -> c1
    [] p = "display" -> c2
    [] p = "make-vector" -> c3
    [] p \in {"div", "modulo"} -> c4
    [] p = "equal?" -> c5
    [] OTHER -> FALSE
LEMMA CauseIs ==
  ASSUME NEW p, NEW c1, NEW c2, NEW c3, NEW c4, NEW c5
  PROVE  Cause(p, c1, c2, c3, c4, c5) <=>
           /\ p \in Crashing /\ (p \in {"car", "cdr"} => c1) /\ (p = "display" => c2)
           /\ (p = "make-vector" => c3) /\ (p \in {"div", "modulo"} => c4) /\ (p = "equal?" => c5)
<1>1. CASE p \in {"car", "cdr"}
  <2>1. Cause(p, c1, c2, c3, c4, c5) <=> c1 BY <1>1 DEF Cause
  <2> QED BY <1>1, <2>1 DEF Crashing
<1>2. CASE p = "display"
  <2>1. Cause(p, c1, c2, c3, c4, c5) <=> c2 BY <1>2 DEF Cause
  <2> QED BY <1>2, <2>1 DEF Crashing
<1>3. CASE p = "make-vector"
  <2>1. Cause(p, c1, c2, c3, c4, c5) <=> c3 BY <1>3 DEF Cause
  <2> QED BY <1>3, <2>1 DEF Crashing
<1>4. CASE p \in {"div", "modulo"}
  <2>1. Cause(p, c1, c2, c3, c4, c5) <=> c4 BY <1>4 DEF Cause
  <2> QED BY <1>4, <2>1 DEF Crashing
<1>5. CASE p = "equal?"
  <2>1. Cause(p, c1, c2, c3, c4, c5) <=> c5 BY <1>5 DEF Cause
  <2> QED BY <1>5, <2>1 DEF Crashing
<1>6. CASE p \notin Crashing
  <2>1. ~Cause(p, c1, c2, c3, c4, c5) BY <1>6 DEF Cause, Crashing
  <2> QED BY <1>6, <2>1
<1> QED BY <1>1, <1>2, <1>3, <1>4, <1>5, <1>6 DEF Crashing

LEMMA CrashApply ==
  ASSUME CallsInv, Apply, result'.kind = "crash"
  PROVE  CrashesExplained'
<1>1. PICK B \in Nat :
        /\ Passing(call.args, call.l, B) /\ call.p \in Prim /\ call' = call
        /\ result' = apply(call.p, call.l) /\ Objects(heap', Len(heap'))
        /\ result'.kind \notin {"new", "store"} =>
             Len(heap') = B /\ \A i \in 1 .. B : heap'[i] = heap[i]
  BY ApplyFacts
<1>2. Kept(B) BY <1>1 DEF Kept
<1>3. PICK q : q = call.args OBVIOUS
<1>4. PICK p : p = call.p OBVIOUS
<1>5. Passing(q, call.l, B) /\ p \in Prim /\ Crashed(apply(p, call.l))
  BY <1>1, <1>3, <1>4 DEF Crashed
<1>6. Causes(p, q) BY <1>5, CrashCauses
<1>7. /\ Objects(heap, B) /\ B <= Len(heap) /\ Len(q) \in Nat
      /\ \A k \in 1 .. Len(q) : Held(q[k], B)
  BY <1>5, ArgIs
<1>8. \A k \in 1 .. Len(q) : /\ IsInt(q[k]) => IntOf(q[k])' = IntOf(q[k])
                             /\ Improper(q[k]) => Improper(q[k])'
                             /\ HoldsItself(q[k]) => HoldsItself(q[k])'
                             /\ LoneQuote(q[k]) => LoneQuote(q[k])'
  <2> SUFFICES ASSUME NEW k \in 1 .. Len(q)
               PROVE  /\ IsInt(q[k]) => IntOf(q[k])' = IntOf(q[k])
                      /\ Improper(q[k]) => Improper(q[k])'
                      /\ HoldsItself(q[k]) => HoldsItself(q[k])'
                      /\ LoneQuote(q[k]) => LoneQuote(q[k])'
    OBVIOUS
  <2>1. PICK v : v = q[k] OBVIOUS
  <2>2. Held(v, B) BY <1>7, <2>1
  <2>3. /\ Improper(v) => Improper(v)'
        /\ HoldsItself(v) => HoldsItself(v)'
        /\ LoneQuote(v) => LoneQuote(v)'
    BY <1>2, <1>7, <2>2, KeptCauses
  <2>4. IsInt(v) => IntOf(v)' = IntOf(v)
    <3>1. IsInt(v) => IsRef(v) BY Tags
    <3>2. IsRef(v) => heap'[v.obj] = heap[v.obj] BY <1>2, <1>7, <2>2, KeptValue
    <3> QED BY <3>1, <3>2 DEF IntOf
  <2> QED BY <2>1, <2>3, <2>4
<1>9. Args' = q /\ Count' = Len(q) /\ call'.p = p BY <1>1, <1>3, <1>4 DEF Args, Count
<1>10. p = "display" => Count' = 0 \/ HoldsItself(Args[1])' \/ LoneQuote(Args[1])'
  <2> SUFFICES ASSUME p = "display", Len(q) # 0
               PROVE  HoldsItself(Args[1])' \/ LoneQuote(Args[1])'
    BY <1>9
  <2>1. HoldsItself(q[1]) \/ LoneQuote(q[1]) BY <1>6 DEF Causes
  <2>2. 1 \in 1 .. Len(q) BY <1>7
  <2>3. HoldsItself(q[1])' \/ LoneQuote(q[1])' BY <1>8, <2>1, <2>2
  <2> QED BY <1>9, <2>3 DEF HoldsItself, LoneQuote
<1>11. p = "make-vector" => Num(1)' < 0
  <2> SUFFICES ASSUME p = "make-vector" PROVE Num(1)' < 0 OBVIOUS
  <2>1. Len(q) > 0 /\ IsInt(q[1]) /\ IntOf(q[1]) < 0 BY <1>6 DEF Causes
  <2>2. 1 \in 1 .. Len(q) BY <1>7, <2>1
  <2>3. IntOf(q[1])' = IntOf(q[1]) BY <1>8, <2>1, <2>2
  <2>4. Num(1)' = IntOf(q[1])' BY <1>9 DEF Num, IntOf
  <2> QED BY <2>1, <2>3, <2>4
<1>12. p \in {"div", "modulo"} => Num(1)' = LongMin /\ Num(2)' = -1
  <2> SUFFICES ASSUME p \in {"div", "modulo"} PROVE Num(1)' = LongMin /\ Num(2)' = -1 OBVIOUS
  <2>1. Divisible(q) /\ IntOf(q[1]) = LongMin /\ IntOf(q[2]) = -1 BY <1>6 DEF Causes
  <2>2. Len(q) = 2 /\ IsInt(q[1]) /\ IsInt(q[2]) BY <2>1 DEF Divisible
  <2>3. IntOf(q[1])' = IntOf(q[1]) /\ IntOf(q[2])' = IntOf(q[2])
    <3>1. 1 \in 1 .. Len(q) /\ 2 \in 1 .. Len(q) BY <2>2
    <3> QED BY <1>8, <2>2, <3>1
  <2>4. Num(1)' = IntOf(q[1])' /\ Num(2)' = IntOf(q[2])' BY <1>9 DEF Num, IntOf
  <2> QED BY <2>1, <2>3, <2>4
<1>13. p = "equal?" => Improper(Args[1])' /\ Improper(Args[2])'
  <2> SUFFICES ASSUME p = "equal?" PROVE Improper(Args[1])' /\ Improper(Args[2])' OBVIOUS
  <2>1. Len(q) = 2 /\ Improper(q[1]) /\ Improper(q[2]) BY <1>6 DEF Causes
  <2>2. Improper(q[1])' /\ Improper(q[2])'
    <3>1. 1 \in 1 .. Len(q) /\ 2 \in 1 .. Len(q) BY <2>1
    <3> QED BY <1>8, <2>1, <3>1
  <2> QED BY <1>9, <2>2 DEF Improper
<1>14. p \in {"car", "cdr"} => Count' = 0 BY <1>6, <1>9 DEF Causes
<1>15. p \in Crashing BY <1>6 DEF Causes, Crashing
<1>16. Cause(p, Count' = 0, Count' = 0 \/ HoldsItself(Args[1])' \/ LoneQuote(Args[1])',
             Num(1)' < 0, Num(1)' = LongMin /\ Num(2)' = -1,
             Improper(Args[1])' /\ Improper(Args[2])')
  BY <1>10, <1>11, <1>12, <1>13, <1>14, <1>15, CauseIs
<1>17. p = call.p /\ p = call'.p BY <1>4, <1>9
<1> QED BY <1>16, <1>17 DEF CrashesExplained, Cause

LEMMA CrashStep == CallsInv /\ CrashesExplained /\ [Next]_vars => CrashesExplained'
<1> SUFFICES ASSUME CallsInv, CrashesExplained, [Next]_vars
             PROVE  CrashesExplained'
  OBVIOUS
<1>1. CASE Apply
  <2>1. CASE result'.kind = "crash" BY <1>1, <2>1, CrashApply
  <2>2. CASE result'.kind # "crash" BY <2>2 DEF CrashesExplained
  <2> QED BY <2>1, <2>2
<1>2. CASE UNCHANGED vars
  <2>4. heap' = heap /\ result' = result /\ call' = call BY <1>2 DEF vars
  <2>5. /\ \A v : Within(v)' = Within(v)
        /\ \A v : Tag(v)' = Tag(v) /\ CAR(v)' = CAR(v) /\ CDR(v)' = CDR(v)
    BY <2>4, StillThere
  <2>6. \A v : IsPair(v)' <=> IsPair(v) BY <2>4, StillThere
  <2>7. \A v : Quoted(v)' <=> Quoted(v) BY <2>4, StillThere
  <2>8. \A v : Improper(v) => Improper(v)'
    <3> SUFFICES ASSUME NEW v, Improper(v) PROVE Improper(v)' OBVIOUS
    <3>1. PICK x \in Within(v) : IsPair(x) /\ CDR(x) # NIL /\ ~IsPair(CDR(x)) BY DEF Improper
    <3>2. PICK y : y = CDR(x) OBVIOUS
    <3>3. y = CDR(x)' /\ ~(IsPair(y)') /\ y # NIL /\ IsPair(x)' BY <2>5, <2>6, <3>1, <3>2
    <3>4. ~(IsPair(CDR(x))') BY <3>3 DEF IsPair, Tag
    <3>5. x \in Within(v)' BY <2>5
    <3> QED BY <3>3, <3>4, <3>5 DEF Improper
  <2>9. \A v : HoldsItself(v) => HoldsItself(v)' BY <2>4, <2>5 DEF HoldsItself, Elems
  <2>10. \A v : LoneQuote(v) => LoneQuote(v)' BY <2>5, <2>7 DEF LoneQuote
  <2>11. /\ Args' = Args /\ Count' = Count /\ Done' = Done /\ result'.kind = result.kind
         /\ Num(1)' = Num(1) /\ Num(2)' = Num(2)
    BY <2>4 DEF Args, Count, Done, Num, IntOf
  <2> SUFFICES ASSUME Done, result.kind = "crash" PROVE CrashesExplained'
    BY <2>11 DEF CrashesExplained
  <2>12. PICK a : a = Args[1] OBVIOUS
  <2>13. PICK b : b = Args[2] OBVIOUS
  <2>14. PICK p : p = call.p OBVIOUS
  <2>15. Cause(p, Count = 0, Count = 0 \/ HoldsItself(a) \/ LoneQuote(a),
               Num(1) < 0, Num(1) = LongMin /\ Num(2) = -1, Improper(a) /\ Improper(b))
    BY <2>12, <2>13, <2>14 DEF CrashesExplained, Cause
  <2>16. Cause(p, Count' = 0, Count' = 0 \/ HoldsItself(a)' \/ LoneQuote(a)',
               Num(1)' < 0, Num(1)' = LongMin /\ Num(2)' = -1, Improper(a)' /\ Improper(b)')
    BY <2>8, <2>9, <2>10, <2>11, <2>15, CauseIs
  <2>17. a = Args[1]' /\ b = Args[2]' /\ p = call'.p BY <2>4, <2>11, <2>12, <2>13, <2>14
  <2>18. Cause(p, Count' = 0, Count' = 0 \/ HoldsItself(Args[1])' \/ LoneQuote(Args[1])',
               Num(1)' < 0, Num(1)' = LongMin /\ Num(2)' = -1,
               Improper(Args[1])' /\ Improper(Args[2])')
    BY <2>16, <2>17 DEF HoldsItself, LoneQuote, Improper
  <2> QED BY <2>17, <2>18 DEF CrashesExplained, Cause
<1>3. CASE ~Done' BY <1>3 DEF CrashesExplained
<1> QED BY <1>1, <1>2, <1>3, DoneAfter

(* A call crashes only for one of the causes named: car, cdr or display    *)
(* without an argument, a negative size, LONG_MIN over -1, equal? of two   *)
(* values that hold improper lists, or printing a value that holds itself  *)
(* or a list of the symbol quote alone (object.c, print_obj).              *)
THEOREM CrashesOnlySo == Spec => []CrashesExplained
<1>1. Init => CrashesExplained BY NotDone DEF CrashesExplained
<1>2. CallsInv /\ CrashesExplained /\ [Next]_vars => CrashesExplained' BY CrashStep
<1> QED BY <1>1, <1>2, CallsInvariant, PTL DEF Spec
=============================================================================
