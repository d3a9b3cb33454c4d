----------------------------- MODULE ReaderProofs -----------------------------
(***************************************************************************)
(* Proofs about the objects that the reader builds (modules Reader and     *)
(* Repl): what it holds survives every collection, how the behaviour can   *)
(* become undefined, and that RPAREN_FOUND does not leave the reader.      *)
(***************************************************************************)
EXTENDS ReplProofs

-----------------------------------------------------------------------------
(* What objects reach.                                                     *)

IsCell(o) == o.tag = "CELL"
Parts(o) == Items(o.car) \cup Items(o.cdr)
Closed(hp, I) == \A i \in I : IsCell(hp[i]) => Parts(hp[i]) \subseteq I

\* one round of Reach
More(I) == I \cup UNION {Parts(heap[i]) : i \in {i \in I \cap DOMAIN heap : IsCell(heap[i])}}

(* Reach obeys its recursion. *)
LEMMA ReachRounds ==
  ASSUME IsFiniteSet(DOMAIN heap), NEW start
  PROVE  \E r : LET c == Cardinality(DOMAIN heap) IN
           /\ c \in Nat /\ r[0] = start /\ Reach(start) = r[c]
           /\ \A k \in Nat : k < c => r[k + 1] = More(r[k])
<1> DEFINE c == Cardinality(DOMAIN heap)
           U == start \cup UNION {Parts(heap[i]) : i \in DOMAIN heap}
           D == 0 .. c
           Q == SUBSET U
           E(f) == [k \in D |-> IF k = 0 THEN start ELSE More(f[k - 1])]
           r == CHOOSE f : f = E(f)
           m == [k \in D |-> k]
           g == [k \in D |-> [f \in [D -> Q] |-> IF k = 0 THEN start ELSE More(f[k - 1])]]
<1>1. c \in Nat BY FS_CardinalityType
<1>2. Reach(start) = r[c] BY DEF Reach, More, Parts, IsCell
<1> HIDE DEF c
<1>3. \E f : f = E(f)
  <2>1. m \in [D -> 0 .. c] BY <1>1
  <2>2. \A k \in D, f \in [D -> Q] : g[k][f] = IF k = 0 THEN start ELSE More(f[k - 1]) OBVIOUS
  <2>3. start \in Q OBVIOUS
  <2>4. ASSUME NEW I \in Q PROVE More(I) \in Q BY DEF More
  <2>5. ASSUME NEW k \in D, k # 0 PROVE k - 1 \in D /\ m[k - 1] < m[k]
    BY <1>1, <2>5
  <2> HIDE DEF Q
  <2>6. g \in [D -> [[D -> Q] -> Q]]
    <3>1. ASSUME NEW k \in D, NEW f \in [D -> Q]
          PROVE  (IF k = 0 THEN start ELSE More(f[k - 1])) \in Q
      BY <2>3, <2>4, <2>5
    <3> QED BY <3>1
  <2>7. ASSUME NEW k \in D, NEW f \in [D -> Q], NEW h \in [D -> Q],
               \A j \in D : m[j] < m[k] => f[j] = h[j]
        PROVE  g[k][f] = g[k][h]
    <3>1. CASE k = 0 BY <3>1, <2>2
    <3>2. CASE k # 0
      <4>1. f[k - 1] = h[k - 1] BY <3>2, <2>5, <2>7
      <4> QED BY <4>1, <3>2, <2>2
    <3> QED BY <3>1, <3>2
  <2>8. Recursive(D, Q, m, g) BY <2>6, <2>7 DEF Recursive
  <2>9. Q # {} BY <2>3
  <2> HIDE DEF g, m, D
  <2>10. PICK f \in [D -> Q] : Solves(f, D, g) BY <1>1, <2>1, <2>8, <2>9, Defined
  <2>11. \A k \in D : f[k] = IF k = 0 THEN start ELSE More(f[k - 1])
    BY <2>2, <2>10 DEF Solves
  <2> QED BY <2>10, <2>11
<1>4. r = E(r) BY <1>3
<1> HIDE DEF r
<1>5. \A k \in D : r[k] = IF k = 0 THEN start ELSE More(r[k - 1]) BY <1>4
<1>6. r[0] = start
  <2>1. 0 \in D BY <1>1
  <2> QED BY <2>1, <1>5
<1>7. \A k \in Nat : k < c => r[k + 1] = More(r[k])
  <2> SUFFICES ASSUME NEW k \in Nat, k < c PROVE r[k + 1] = More(r[k]) OBVIOUS
  <2>1. k + 1 \in D /\ k + 1 # 0 /\ (k + 1) - 1 = k BY <1>1
  <2> QED BY <2>1, <1>5
<1> QED BY <1>1, <1>2, <1>6, <1>7 DEF c

LEMMA ReachHas == ASSUME IsFiniteSet(DOMAIN heap), NEW start PROVE start \subseteq Reach(start)
<1> DEFINE c == Cardinality(DOMAIN heap)
<1>1. PICK r : /\ c \in Nat /\ r[0] = start /\ Reach(start) = r[c]
               /\ \A k \in Nat : k < c => r[k + 1] = More(r[k])
  BY ReachRounds
<1> DEFINE S == {k \in Nat : k <= c => start \subseteq r[k]}
<1> HIDE DEF c
<1>2. 0 \in S BY <1>1
<1>3. ASSUME NEW k \in Nat, k \in S PROVE k + 1 \in S
  <2> SUFFICES ASSUME k + 1 <= c PROVE start \subseteq r[k + 1] OBVIOUS
  <2>1. k < c /\ k <= c BY <1>1
  <2>2. r[k + 1] = More(r[k]) /\ start \subseteq r[k] BY <2>1, <1>1, <1>3
  <2> QED BY <2>2 DEF More
<1> HIDE DEF S
<1>4. c \in S BY <1>1, <1>2, <1>3, NatInd
<1>5. c <= c BY <1>1
<1> QED BY <1>1, <1>4, <1>5 DEF S

LEMMA Smaller ==
  ASSUME NEW S, IsFiniteSet(S), NEW R \in SUBSET S, R # S
  PROVE  Cardinality(R) < Cardinality(S) /\ Cardinality(R) \in Nat /\ Cardinality(S) \in Nat
<1>1. IsFiniteSet(R) /\ Cardinality(R) <= Cardinality(S) /\ Cardinality(S) # Cardinality(R)
  BY FS_Subset
<1>2. Cardinality(R) \in Nat /\ Cardinality(S) \in Nat BY <1>1, FS_CardinalityType
<1> QED BY <1>1, <1>2

(* A heap without dangling references: what is reached from its objects    *)
(* is in it and has no dangling references either.                         *)
LEMMA ReachInside ==
  ASSUME IsFiniteSet(DOMAIN heap), Closed(heap, DOMAIN heap), NEW start, start \subseteq DOMAIN heap
  PROVE  Reach(start) \subseteq DOMAIN heap /\ Closed(heap, Reach(start))
<1> DEFINE D == DOMAIN heap
           c == Cardinality(D)
<1>1. PICK r : /\ c \in Nat /\ r[0] = start /\ Reach(start) = r[c]
               /\ \A k \in Nat : k < c => r[k + 1] = More(r[k])
  BY ReachRounds
<1>2. ASSUME NEW I \in SUBSET D PROVE More(I) \subseteq D BY DEF More, Closed
<1>3. ASSUME NEW I \in SUBSET D, More(I) = I PROVE Closed(heap, I)
  <2> SUFFICES ASSUME NEW i \in I, IsCell(heap[i]) PROVE Parts(heap[i]) \subseteq I BY DEF Closed
  <2>1. i \in {j \in I \cap D : IsCell(heap[j])} OBVIOUS
  <2>2. Parts(heap[i]) \subseteq More(I) BY <2>1 DEF More
  <2> QED BY <2>2, <1>3
<1>4. ASSUME NEW I \in SUBSET D, Closed(heap, I) PROVE More(I) = I BY <1>4 DEF More, Closed
<1> DEFINE S == {k \in Nat : k <= c => /\ r[k] \subseteq D
                                       /\ Closed(heap, r[k]) \/ Cardinality(r[k]) >= k}
<1>5. 0 \in S
  <2>1. IsFiniteSet(start) BY FS_Subset
  <2>2. Cardinality(start) \in Nat BY <2>1, FS_CardinalityType
  <2>3. Cardinality(r[0]) >= 0 BY <2>2, <1>1
  <2> QED BY <2>3, <1>1
<1>6. ASSUME NEW k \in Nat, k \in S PROVE k + 1 \in S
  <2> SUFFICES ASSUME k + 1 <= c
               PROVE  /\ r[k + 1] \subseteq D
                      /\ Closed(heap, r[k + 1]) \/ Cardinality(r[k + 1]) >= k + 1
    OBVIOUS
  <2> HIDE DEF c
  <2>1. k < c /\ k <= c BY <1>1
  <2>2. /\ r[k + 1] = More(r[k]) /\ r[k] \subseteq D
        /\ Closed(heap, r[k]) \/ Cardinality(r[k]) >= k
    BY <2>1, <1>1, <1>6
  <2>3. r[k + 1] \subseteq D BY <2>2, <1>2
  <2>4. CASE Closed(heap, r[k]) BY <2>2, <2>3, <2>4, <1>4
  <2>5. CASE ~Closed(heap, r[k])
    <3>1. r[k] # r[k + 1] /\ r[k] \subseteq r[k + 1]
      BY <2>2, <2>5, <1>3 DEF More
    <3>2. IsFiniteSet(r[k + 1]) BY <2>3, FS_Subset
    <3>3. Cardinality(r[k]) < Cardinality(r[k + 1]) BY <3>1, <3>2, Smaller
    <3>5. Cardinality(r[k]) \in Nat /\ Cardinality(r[k + 1]) \in Nat
      BY <3>1, <3>2, Smaller
    <3>6. Cardinality(r[k]) >= k BY <2>2, <2>5
    <3> DEFINE x == Cardinality(r[k])
               y == Cardinality(r[k + 1])
    <3> HIDE DEF x, y
    <3>7. x < y /\ x >= k /\ x \in Nat /\ y \in Nat BY <3>3, <3>5, <3>6 DEF x, y
    <3>8. y >= k + 1 BY <3>7
    <3> QED BY <3>8, <2>3 DEF y
  <2> QED BY <2>4, <2>5
<1> HIDE DEF S
<1>7. c \in S BY <1>1, <1>5, <1>6, NatInd
<1>8. c <= c BY <1>1
<1>9. r[c] \subseteq D /\ (Closed(heap, r[c]) \/ Cardinality(r[c]) >= c) BY <1>7, <1>8 DEF S
<1>10. Cardinality(r[c]) >= c => r[c] = D
  <2> SUFFICES ASSUME Cardinality(r[c]) >= c, r[c] # D PROVE FALSE OBVIOUS
  <2>1. Cardinality(r[c]) < Cardinality(D) /\ Cardinality(r[c]) \in Nat BY <1>9, Smaller
  <2> DEFINE x == Cardinality(r[c])
  <2> HIDE DEF x
  <2>4. x < c /\ x >= c /\ x \in Nat BY <2>1 DEF x
  <2> HIDE DEF c
  <2> QED BY <2>4, <1>1
<1>11. Closed(heap, r[c]) BY <1>9, <1>10
<1> QED BY <1>1, <1>9, <1>11

-----------------------------------------------------------------------------
(* The reader's invariant.                                                 *)

HeapOK(hp) ==
  /\ IsFiniteSet(DOMAIN hp) /\ Closed(hp, DOMAIN hp)
  /\ \A i \in DOMAIN hp : IsCell(hp[i]) => hp[i] = Cell(hp[i].car, hp[i].cdr)

(* An activation: while parse_objs reads its first datum it holds nothing. *)
Quoting(a) == a = [fn |-> "quote", pc |-> a.pc] /\ a.pc \in {"datum", "inner"}
Listing(a) ==
  /\ a = [fn |-> "list", pc |-> a.pc, head |-> a.head, cur |-> a.cur, obj |-> a.obj, dot |-> a.dot]
  /\ \/ a.pc = "head" /\ a.head = NULL /\ a.cur = NULL /\ a.obj = NULL
     \/ a.pc \in {"next", "item"} /\ IsRef(a.head)
Waiting(a) == a.pc \notin {"next", "inner"}

StackSeq == \E S : stack \in Seq(S)
StackOK ==
  /\ StackSeq
  /\ \A n \in DOMAIN stack :
       /\ Quoting(stack[n]) \/ Listing(stack[n])
       /\ HeldBy(stack[n]) \subseteq DOMAIN heap
       /\ n > 1 => Waiting(stack[n])
  /\ stack # <<>> /\ A.pc = "inner" => IsRef(ret)
ReaderInv == HeapOK(heap) /\ Items(ret) \subseteq DOMAIN heap /\ StackOK

\* one activation more, less, or replaced
LEMMA Pushed ==
  ASSUME StackSeq, NEW a
  PROVE  LET st == <<a>> \o stack IN
         /\ \E S : st \in Seq(S)
         /\ Len(stack) \in Nat /\ DOMAIN stack = 1 .. Len(stack)
         /\ Len(st) = Len(stack) + 1 /\ DOMAIN st = 1 .. Len(stack) + 1 /\ st # <<>>
         /\ st[1] = a /\ Head(st) = a
         /\ \A n \in DOMAIN stack : st[n + 1] = stack[n]
         /\ \A n \in DOMAIN st : n > 1 => n - 1 \in DOMAIN stack /\ st[n] = stack[n - 1]
<1> DEFINE st == <<a>> \o stack
<1>1. PICK S : stack \in Seq(S) BY DEF StackSeq
<1> DEFINE R == S \cup {a}
<1>2. a \in R /\ stack \in Seq(R)
  <2>1. stack \in [1 .. Len(stack) -> S] /\ Len(stack) \in Nat BY <1>1
  <2>2. stack \in [1 .. Len(stack) -> R] BY <2>1
  <2> QED BY <2>1, <2>2
<1> HIDE DEF R
<1>3. /\ st \in Seq(R) /\ Len(st) = Len(stack) + 1 /\ st[1] = a
      /\ \A n \in 2 .. Len(stack) + 1 : st[n] = stack[n - 1]
      /\ \A n \in DOMAIN stack : st[n + 1] = stack[n]
  BY <1>2, Cons
<1> HIDE DEF st
<1>4. Len(stack) \in Nat /\ DOMAIN stack = 1 .. Len(stack) BY <1>1
<1>5. DOMAIN st = 1 .. Len(stack) + 1 BY <1>3, <1>4
<1>6. \A n \in DOMAIN st : n > 1 => n - 1 \in DOMAIN stack /\ st[n] = stack[n - 1]
  <2> SUFFICES ASSUME NEW n \in DOMAIN st, n > 1
               PROVE  n - 1 \in DOMAIN stack /\ st[n] = stack[n - 1]
    OBVIOUS
  <2>1. n \in 2 .. Len(stack) + 1 /\ n - 1 \in 1 .. Len(stack) BY <1>4, <1>5
  <2> QED BY <2>1, <1>3, <1>4
<1>7. st # <<>> /\ Head(st) = a
  <2>1. 1 \in DOMAIN st BY <1>4, <1>5
  <2> QED BY <2>1, <1>3
<1> QED BY <1>3, <1>4, <1>5, <1>6, <1>7 DEF st

LEMMA Popped ==
  ASSUME StackSeq, stack # <<>>
  PROVE  /\ \E S : Tail(stack) \in Seq(S)
         /\ A = stack[1] /\ 1 \in DOMAIN stack
         /\ Len(stack) \in Nat /\ DOMAIN stack = 1 .. Len(stack)
         /\ Len(Tail(stack)) = Len(stack) - 1 /\ DOMAIN Tail(stack) = 1 .. Len(stack) - 1
         /\ \A n \in DOMAIN Tail(stack) : n + 1 \in DOMAIN stack /\ Tail(stack)[n] = stack[n + 1]
<1>1. PICK S : stack \in Seq(S) BY DEF StackSeq
<1>2. /\ Tail(stack) \in Seq(S) /\ Len(Tail(stack)) = Len(stack) - 1
      /\ \A n \in 1 .. Len(Tail(stack)) : Tail(stack)[n] = stack[n + 1]
  BY <1>1, HeadTailProperties
<1>3. Len(stack) \in Nat /\ DOMAIN stack = 1 .. Len(stack) /\ A = stack[1] BY <1>1 DEF A
<1>4. Len(stack) # 0 BY <1>1
<1>5. DOMAIN Tail(stack) = 1 .. Len(stack) - 1 BY <1>2
<1>6. \A n \in 1 .. Len(stack) - 1 : n + 1 \in DOMAIN stack BY <1>3
<1>7. 1 \in DOMAIN stack BY <1>3, <1>4
<1> QED BY <1>2, <1>3, <1>5, <1>6, <1>7

LEMMA Replaced ==
  ASSUME StackSeq, stack # <<>>, NEW a
  PROVE  LET st == <<a>> \o Tail(stack) IN
         /\ \E S : st \in Seq(S)
         /\ Len(st) = Len(stack) /\ DOMAIN st = DOMAIN stack /\ st # <<>>
         /\ st[1] = a /\ Head(st) = a
         /\ \A n \in DOMAIN stack : n > 1 => st[n] = stack[n]
<1> DEFINE t == Tail(stack)
           st == <<a>> \o t
<1>1. /\ \E S : t \in Seq(S)
      /\ Len(stack) \in Nat /\ DOMAIN stack = 1 .. Len(stack) /\ 1 \in DOMAIN stack
      /\ Len(t) = Len(stack) - 1 /\ DOMAIN t = 1 .. Len(stack) - 1
      /\ \A n \in DOMAIN t : t[n] = stack[n + 1]
  BY Popped
<1> HIDE DEF t
<1>2. PICK S : t \in Seq(S) BY <1>1
<1> DEFINE R == S \cup {a}
<1>3. a \in R /\ t \in Seq(R)
  <2>1. t \in [1 .. Len(t) -> S] /\ Len(t) \in Nat BY <1>2
  <2>2. t \in [1 .. Len(t) -> R] BY <2>1
  <2> QED BY <2>1, <2>2
<1> HIDE DEF R
<1>5. /\ st \in Seq(R) /\ Len(st) = Len(t) + 1 /\ st[1] = a
      /\ \A n \in 2 .. Len(t) + 1 : st[n] = t[n - 1]
  BY <1>3, Cons
<1> HIDE DEF st
<1>6. Len(st) = Len(stack) BY <1>1, <1>5
<1>7. DOMAIN st = DOMAIN stack BY <1>1, <1>5, <1>6
<1>8. \A n \in DOMAIN stack : n > 1 => st[n] = stack[n]
  <2> SUFFICES ASSUME NEW n \in DOMAIN stack, n > 1 PROVE st[n] = stack[n] OBVIOUS
  <2>1. n \in 2 .. Len(t) + 1 /\ n - 1 \in DOMAIN t /\ (n - 1) + 1 = n BY <1>1
  <2> QED BY <2>1, <1>1, <1>5
<1>9. st # <<>> /\ Head(st) = a BY <1>1, <1>5, <1>7
<1> QED BY <1>5, <1>6, <1>7, <1>8, <1>9 DEF st, t

-----------------------------------------------------------------------------
(* An allocation.                                                          *)

LEMMA ItemsOf ==
  /\ Items(NULL) = {} /\ Items(NIL) = {} /\ Items(RPAREN_FOUND) = {} /\ Items(Pending) = {}
  /\ ~IsRef(NULL) /\ ~IsRef(NIL) /\ ~IsRef(RPAREN_FOUND) /\ ~IsRef(Pending)
  /\ \A x : Items(Symbol(x)) = {} /\ ~IsRef(Symbol(x))
  /\ \A x : Items([static |-> x]) = {} /\ ~IsRef([static |-> x])
  /\ \A i : Items(Ref(i)) = {i} /\ IsRef(Ref(i)) /\ Ref(i).obj = i
<1>1. \A x : ~IsRef([static |-> x]) BY DEF IsRef
<1>2. \A x : ~IsRef(Symbol(x)) BY DEF IsRef, Symbol
<1>3. \A i : IsRef(Ref(i)) /\ Ref(i).obj = i BY DEF IsRef, Ref
<1> QED BY <1>1, <1>2, <1>3 DEF Items, NULL, NIL, RPAREN_FOUND, Pending

\* what an object contains
Contents(o) == IF o.tag = "CELL" THEN Items(o.car) \cup Items(o.cdr) ELSE {}
IsObject(o) == IsCell(o) => o = Cell(o.car, o.cdr)
Parens(hp) == \E i \in DOMAIN hp : IsCell(hp[i]) /\ hp[i].car = RPAREN_FOUND

LEMMA ParensThere == \A I : HoldsParen(I) => Parens(heap)
  BY DEF HoldsParen, Parens, IsCell

LEMMA HeldOnly ==
  ASSUME NEW a, Quoting(a) \/ Listing(a), a.pc # "next"
  PROVE  HeldBy(a) \subseteq Registered(a)
<1>1. CASE Quoting(a)
  <2>1. a.fn = "quote" BY <1>1 DEF Quoting
  <2> QED BY <2>1 DEF HeldBy
<1>2. CASE Listing(a)
  <2>1. a.fn = "list" BY <1>2 DEF Listing
  <2>2. CASE a.pc = "head" BY <1>2, <2>2, ItemsOf DEF Listing, HeldBy
  <2>3. CASE a.pc = "item" BY <2>1, <2>3 DEF HeldBy, Registered
  <2> QED BY <1>2, <2>2, <2>3 DEF Listing
<1> QED BY <1>1, <1>2

(* A new object, and what is left of the heap when it was allocated. *)
LEMMA NewObject ==
  ASSUME ReaderInv, stack # <<>> => A.pc # "next",
         NEW o, IsObject(o), Contents(o) \subseteq DOMAIN heap,
         NEW held, held \subseteq DOMAIN heap,
         NEW r \in Allocate(o, held), r.status = "ok"
  PROVE  /\ HeapOK(r.heap)
         /\ \E i : r.new = Ref(i) /\ i \in DOMAIN r.heap
         /\ Contents(o) \subseteq DOMAIN r.heap /\ held \subseteq DOMAIN r.heap
         /\ \A n \in DOMAIN stack : HeldBy(stack[n]) \subseteq DOMAIN r.heap
         /\ Parens(r.heap) => Parens(heap) \/ (IsCell(o) /\ o.car = RPAREN_FOUND)
<1> DEFINE roots == ParserRoots \cup held
<1>1. \A n \in DOMAIN stack : HeldBy(stack[n]) \subseteq Registered(stack[n])
  <2> SUFFICES ASSUME NEW n \in DOMAIN stack
               PROVE  HeldBy(stack[n]) \subseteq Registered(stack[n])
    OBVIOUS
  <2>1. Quoting(stack[n]) \/ Listing(stack[n]) BY DEF ReaderInv, StackOK
  <2>2. stack[n].pc # "next"
    <3>1. CASE n > 1 BY <3>1 DEF ReaderInv, StackOK, Waiting
    <3>2. CASE ~(n > 1)
      <4>1. PICK S : stack \in Seq(S) BY DEF ReaderInv, StackOK, StackSeq
      <4>2. n = 1 /\ stack # <<>> BY <4>1, <3>2
      <4>3. A = stack[1] BY <4>2, Popped DEF ReaderInv, StackOK
      <4> QED BY <4>2, <4>3
    <3> QED BY <3>1, <3>2
  <2> QED BY <2>1, <2>2, HeldOnly
<1>2. \A a : Registered(a) \subseteq HeldBy(a) BY DEF Registered, HeldBy
<1>3. roots \subseteq DOMAIN heap
  <2>1. \A n \in DOMAIN stack : Registered(stack[n]) \subseteq DOMAIN heap
    BY <1>2 DEF ReaderInv, StackOK
  <2> QED BY <2>1 DEF ParserRoots
<1>4. /\ IsFiniteSet(DOMAIN heap) /\ Closed(heap, DOMAIN heap)
      /\ \A i \in DOMAIN heap : IsObject(heap[i])
  BY DEF ReaderInv, HeapOK, IsObject
<1>5. \A n \in DOMAIN stack : HeldBy(stack[n]) \subseteq roots BY <1>1 DEF ParserRoots
<1> HIDE DEF roots
<1>6. PICK live : /\ r = Result(live, o) /\ live \subseteq DOMAIN heap /\ Closed(heap, live)
                  /\ roots \subseteq live /\ Contents(o) \subseteq live
  <2>1. CASE r = Result(DOMAIN heap, o) BY <2>1, <1>3, <1>4
  <2>2. CASE r = Result(Reach(roots), o) /\ Sound(o, held)
    <3>1. Reach(roots) \subseteq DOMAIN heap /\ Closed(heap, Reach(roots))
      BY <1>3, <1>4, ReachInside
    <3>2. roots \subseteq Reach(roots) BY <1>4, ReachHas
    <3>3. Contents(o) \subseteq Reach(roots) BY <2>2 DEF Sound, Contents, roots
    <3> QED BY <2>2, <3>1, <3>2, <3>3
  <2> QED BY <2>1, <2>2, Allocated DEF roots
<1>7. PICK i : /\ r.new = Ref(i)
               /\ r.heap = [k \in live \cup {i} |-> IF k = i THEN o ELSE heap[k]]
  BY <1>6 DEF Result
<1> DEFINE hp == r.heap
<1>8. DOMAIN hp = live \cup {i} BY <1>7
<1>9. \A k \in DOMAIN hp : hp[k] = IF k = i THEN o ELSE heap[k] BY <1>7
<1> HIDE DEF hp
<1>10. HeapOK(hp)
  <2>1. IsFiniteSet(DOMAIN hp)
    <3>1. IsFiniteSet(live) BY <1>4, <1>6, FS_Subset
    <3> QED BY <3>1, <1>8, FS_AddElement
  <2>2. Closed(hp, DOMAIN hp)
    <3> SUFFICES ASSUME NEW k \in DOMAIN hp, IsCell(hp[k])
                 PROVE  Parts(hp[k]) \subseteq DOMAIN hp
      BY DEF Closed
    <3>1. CASE k = i
      <4>1. hp[k] = o BY <3>1, <1>9
      <4> QED BY <4>1, <1>6, <1>8 DEF Contents, Parts, IsCell
    <3>2. CASE k # i
      <4>1. hp[k] = heap[k] /\ k \in live BY <3>2, <1>8, <1>9
      <4> QED BY <4>1, <1>6, <1>8 DEF Closed
    <3> QED BY <3>1, <3>2
  <2>3. ASSUME NEW k \in DOMAIN hp PROVE IsObject(hp[k])
    <3>1. CASE k = i
      <4>1. hp[k] = o BY <3>1, <1>9
      <4> QED BY <4>1
    <3>2. CASE k # i
      <4>1. hp[k] = heap[k] /\ k \in DOMAIN heap BY <3>2, <1>6, <1>8, <1>9
      <4>2. IsObject(heap[k]) BY <4>1, <1>4
      <4> QED BY <4>1, <4>2
    <3> QED BY <3>1, <3>2
  <2> QED BY <2>1, <2>2, <2>3 DEF HeapOK, IsObject
<1>11. Parens(hp) => Parens(heap) \/ (IsCell(o) /\ o.car = RPAREN_FOUND)
  <2> SUFFICES ASSUME NEW k \in DOMAIN hp, IsCell(hp[k]), hp[k].car = RPAREN_FOUND
               PROVE  Parens(heap) \/ (IsCell(o) /\ o.car = RPAREN_FOUND)
    BY DEF Parens
  <2>1. CASE k = i
    <3>1. hp[k] = o BY <2>1, <1>9
    <3> QED BY <3>1
  <2>2. CASE k # i
    <3>1. hp[k] = heap[k] /\ k \in DOMAIN heap BY <2>2, <1>6, <1>8, <1>9
    <3> QED BY <3>1 DEF Parens
  <2> QED BY <2>1, <2>2
<1>12. held \subseteq roots BY DEF roots
<1> QED BY <1>5, <1>6, <1>7, <1>8, <1>10, <1>11, <1>12 DEF hp

LEMMA SetCdrKeeps ==
  ASSUME NEW hp, HeapOK(hp), NEW v, NEW x, Items(x) \subseteq DOMAIN hp
  PROVE  LET h == SetCdr(hp, v, x) IN
         DOMAIN h = DOMAIN hp /\ HeapOK(h) /\ (Parens(h) => Parens(hp))
<1> DEFINE h == SetCdr(hp, v, x)
<1>1. CASE ~(IsRef(v) /\ hp[v.obj].tag = "CELL") BY <1>1 DEF SetCdr
<1>2. CASE IsRef(v) /\ hp[v.obj].tag = "CELL"
  <2> DEFINE j == v.obj
  <2>1. h = [hp EXCEPT ![j] = [hp[j] EXCEPT !.cdr = x]] BY <1>2 DEF SetCdr
  <2> HIDE DEF h, j
  <2>2. DOMAIN h = DOMAIN hp BY <2>1
  <2>3. \A k \in DOMAIN hp : h[k] = IF k = j THEN [hp[j] EXCEPT !.cdr = x] ELSE hp[k] BY <2>1
  <2>4. j \in DOMAIN hp => h[j] = Cell(hp[j].car, x) /\ h[j].car = hp[j].car /\ h[j].cdr = x
                           /\ IsCell(h[j])
    <3> SUFFICES ASSUME j \in DOMAIN hp
                 PROVE  h[j] = Cell(hp[j].car, x) /\ h[j].car = hp[j].car /\ h[j].cdr = x
                        /\ IsCell(h[j])
      OBVIOUS
    <3>1. hp[j] = Cell(hp[j].car, hp[j].cdr) BY <1>2 DEF HeapOK, IsCell, j
    <3>2. h[j] = [hp[j] EXCEPT !.cdr = x] BY <2>3
    <3> DEFINE y == hp[j].car
               z == hp[j].cdr
    <3> HIDE DEF y, z
    <3>3. hp[j] = [tag |-> "CELL", car |-> y, cdr |-> z] BY <3>1 DEF y, z, Cell
    <3>4. h[j] = [tag |-> "CELL", car |-> y, cdr |-> x] BY <3>2, <3>3
    <3> QED BY <3>4 DEF y, Cell, IsCell
  <2>5. Closed(h, DOMAIN hp)
    <3> SUFFICES ASSUME NEW k \in DOMAIN hp, IsCell(h[k]) PROVE Parts(h[k]) \subseteq DOMAIN hp
      BY DEF Closed
    <3>1. CASE k = j
      <4>1. Parts(hp[j]) \subseteq DOMAIN hp BY <1>2, <3>1 DEF HeapOK, Closed, IsCell, j
      <4>2. h[j].car = hp[j].car /\ h[j].cdr = x BY <2>4, <3>1
      <4> QED BY <4>1, <4>2, <3>1 DEF Parts
    <3>2. CASE k # j
      <4>1. h[k] = hp[k] BY <3>2, <2>3
      <4> QED BY <4>1 DEF HeapOK, Closed
    <3> QED BY <3>1, <3>2
  <2>6. ASSUME NEW k \in DOMAIN hp, IsCell(h[k]) PROVE h[k] = Cell(h[k].car, h[k].cdr)
    <3>1. CASE k = j BY <3>1, <2>4
    <3>2. CASE k # j
      <4>1. h[k] = hp[k] BY <3>2, <2>3
      <4> QED BY <4>1, <2>6 DEF HeapOK
    <3> QED BY <3>1, <3>2
  <2>7. Parens(h) => Parens(hp)
    <3> SUFFICES ASSUME NEW k \in DOMAIN hp, IsCell(h[k]), h[k].car = RPAREN_FOUND
                 PROVE  Parens(hp)
      BY <2>2 DEF Parens
    <3>1. CASE k = j BY <3>1, <2>4, <1>2 DEF Parens, IsCell, j
    <3>2. CASE k # j
      <4>1. h[k] = hp[k] BY <3>2, <2>3
      <4> QED BY <4>1 DEF Parens
    <3> QED BY <3>1, <3>2
  <2> QED BY <2>2, <2>5, <2>6, <2>7 DEF HeapOK, h
<1> QED BY <1>1, <1>2

-----------------------------------------------------------------------------
(* The steps of the reader.                                                *)

LEMMA PushKeeps ==
  ASSUME StackOK, UNCHANGED heap, NEW a, stack' = <<a>> \o stack,
         stack # <<>> => Waiting(A), Quoting(a) \/ Listing(a), a.pc # "inner", HeldBy(a) = {}
  PROVE  StackOK'
<1>1. /\ StackSeq' /\ DOMAIN stack' = 1 .. Len(stack) + 1 /\ Len(stack) \in Nat
      /\ stack'[1] = a /\ Head(stack') = a /\ DOMAIN stack = 1 .. Len(stack)
      /\ \A n \in DOMAIN stack' : n > 1 => n - 1 \in DOMAIN stack /\ stack'[n] = stack[n - 1]
  <2> DEFINE st == <<a>> \o stack
  <2>1. StackSeq BY DEF StackOK
  <2>3. /\ \E S : st \in Seq(S)
        /\ Len(stack) \in Nat /\ DOMAIN stack = 1 .. Len(stack)
        /\ DOMAIN st = 1 .. Len(stack) + 1 /\ st[1] = a /\ Head(st) = a
        /\ \A n \in DOMAIN st : n > 1 => n - 1 \in DOMAIN stack /\ st[n] = stack[n - 1]
    BY <2>1, Pushed
  <2>4. stack' = st OBVIOUS
  <2> HIDE DEF st
  <2> QED BY <2>3, <2>4 DEF StackSeq
<1>2. ASSUME NEW n \in DOMAIN stack'
      PROVE  /\ Quoting(stack'[n]) \/ Listing(stack'[n])
             /\ HeldBy(stack'[n]) \subseteq DOMAIN heap
             /\ n > 1 => Waiting(stack'[n])
  <2>1. CASE n = 1 BY <2>1, <1>1
  <2>2. CASE n # 1
    <3>1. n > 1 /\ n - 1 \in DOMAIN stack /\ stack'[n] = stack[n - 1] BY <2>2, <1>1
    <3>2. Waiting(stack[n - 1])
      <4>1. CASE n - 1 > 1 BY <3>1, <4>1 DEF StackOK
      <4>2. CASE ~(n - 1 > 1)
        <5>1. n - 1 = 1 /\ stack # <<>> BY <4>2, <3>1, <1>1
        <5>2. A = stack[1] BY <5>1, Popped DEF StackOK
        <5> QED BY <5>1, <5>2
      <4> QED BY <4>1, <4>2
    <3> QED BY <3>1, <3>2 DEF StackOK
  <2> QED BY <2>1, <2>2
<1>3. A' = a BY <1>1 DEF A
<1> QED BY <1>1, <1>2, <1>3 DEF StackOK

LEMMA PopKeeps ==
  ASSUME StackOK, stack # <<>>, stack' = Tail(stack),
         \A n \in DOMAIN stack : n > 1 => HeldBy(stack[n]) \subseteq DOMAIN heap'
  PROVE  StackOK'
<1>1. /\ StackSeq' /\ DOMAIN stack' = 1 .. Len(stack) - 1 /\ Len(stack) \in Nat
      /\ \A n \in DOMAIN stack' : n + 1 \in DOMAIN stack /\ stack'[n] = stack[n + 1]
  BY Popped DEF StackOK, StackSeq
<1>2. ASSUME NEW n \in DOMAIN stack'
      PROVE  /\ Quoting(stack'[n]) \/ Listing(stack'[n])
             /\ HeldBy(stack'[n]) \subseteq DOMAIN heap'
             /\ Waiting(stack'[n])
  <2>1. n + 1 > 1 /\ n + 1 \in DOMAIN stack /\ stack'[n] = stack[n + 1] BY <1>1
  <2> QED BY <2>1 DEF StackOK
<1>3. stack' # <<>> => A'.pc # "inner"
  <2> SUFFICES ASSUME stack' # <<>> PROVE A'.pc # "inner" OBVIOUS
  <2>1. PICK S : stack' \in Seq(S) BY <1>1 DEF StackSeq
  <2>2. 1 \in DOMAIN stack' /\ A' = stack'[1] BY <2>1 DEF A
  <2> QED BY <2>2, <1>2 DEF Waiting
<1> QED BY <1>1, <1>2, <1>3 DEF StackOK

LEMMA ReplaceKeeps ==
  ASSUME StackOK, stack # <<>>, NEW a, stack' = <<a>> \o Tail(stack),
         Quoting(a) \/ Listing(a), HeldBy(a) \subseteq DOMAIN heap',
         a.pc = "inner" => IsRef(ret'),
         \A n \in DOMAIN stack : n > 1 => HeldBy(stack[n]) \subseteq DOMAIN heap'
  PROVE  StackOK'
<1>1. /\ StackSeq' /\ DOMAIN stack' = DOMAIN stack /\ DOMAIN stack = 1 .. Len(stack)
      /\ Len(stack) \in Nat /\ stack'[1] = a /\ Head(stack') = a
      /\ \A n \in DOMAIN stack : n > 1 => stack'[n] = stack[n]
  <2> DEFINE st == <<a>> \o Tail(stack)
  <2>1. StackSeq BY DEF StackOK
  <2>3. /\ \E S : st \in Seq(S)
        /\ DOMAIN st = DOMAIN stack /\ st[1] = a /\ Head(st) = a
        /\ \A n \in DOMAIN stack : n > 1 => st[n] = stack[n]
    BY <2>1, Replaced
  <2>4. Len(stack) \in Nat /\ DOMAIN stack = 1 .. Len(stack) BY <2>1, Popped
  <2>5. stack' = st OBVIOUS
  <2> HIDE DEF st
  <2> QED BY <2>3, <2>4, <2>5 DEF StackSeq
<1>2. ASSUME NEW n \in DOMAIN stack'
      PROVE  /\ Quoting(stack'[n]) \/ Listing(stack'[n])
             /\ HeldBy(stack'[n]) \subseteq DOMAIN heap'
             /\ n > 1 => Waiting(stack'[n])
  <2>1. CASE n = 1 BY <2>1, <1>1
  <2>2. CASE n # 1
    <3>1. n > 1 /\ n \in DOMAIN stack /\ stack'[n] = stack[n] BY <2>2, <1>1
    <3> QED BY <3>1 DEF StackOK
  <2> QED BY <2>1, <2>2
<1>3. A' = a BY <1>1 DEF A
<1> QED BY <1>1, <1>2, <1>3 DEF StackOK

LEMMA SameKeeps ==
  ASSUME StackOK, UNCHANGED stack,
         \A n \in DOMAIN stack : HeldBy(stack[n]) \subseteq DOMAIN heap',
         stack # <<>> /\ A.pc = "inner" => ret' = ret
  PROVE  StackOK'
  BY DEF StackOK, StackSeq, A

LEMMA ImmediateKeeps ==
  ASSUME ReaderInv, ParseNull \/ ParseImmediate
  PROVE  ReaderInv'
<1>1. UNCHANGED <<stack, heap>> /\ ret = Pending /\ Items(ret') = {}
  <2>1. CASE ParseNull BY <2>1, ItemsOf DEF ParseNull, Calling, Returns
  <2>2. CASE ParseImmediate
    <3>1. Immediate(T) \in {NULL, RPAREN_FOUND, Symbol(T.val), [static |-> T.tag]}
      BY DEF Immediate
    <3> QED BY <2>2, <3>1, ItemsOf DEF ParseImmediate, Calling, Returns
  <2> QED BY <2>1, <2>2
<1>2. stack # <<>> => A.pc # "inner"
  BY <1>1, ItemsOf DEF ReaderInv, StackOK
<1>3. StackOK' BY <1>1, <1>2, SameKeeps DEF ReaderInv, StackOK
<1> QED BY <1>1, <1>3 DEF ReaderInv

LEMMA NewKeeps == ASSUME ReaderInv, ParseNew PROVE ReaderInv'
<1> DEFINE o == [tag |-> T.tag, val |-> T.val]
<1>1. PICK r \in Allocate(o, {}) :
        Proceed(r, Returns(r.new) /\ heap' = r.heap /\ NextToken /\ UNCHANGED stack)
  BY DEF ParseNew
<1>2. ~IsCell(o) /\ Contents(o) = {} BY DEF ParseNew, IsCell, Contents
<1>3. CASE r.status # "ok"
  <2>1. UNCHANGED <<stack, ret, heap>> BY <1>1, <1>3 DEF Proceed
  <2> QED BY <2>1, SameKeeps DEF ReaderInv, StackOK
<1>4. CASE r.status = "ok"
  <2>1. ret' = r.new /\ heap' = r.heap /\ stack' = stack BY <1>1, <1>4 DEF Proceed, Returns
  <2>2. stack # <<>> => A.pc # "next" BY DEF ParseNew, Calling
  <2>3. IsObject(o) /\ Contents(o) \subseteq DOMAIN heap BY <1>2 DEF IsObject
  <2> HIDE DEF o
  <2>4. /\ HeapOK(r.heap) /\ \E i : r.new = Ref(i) /\ i \in DOMAIN r.heap
        /\ \A n \in DOMAIN stack : HeldBy(stack[n]) \subseteq DOMAIN r.heap
    BY <1>1, <1>4, <2>2, <2>3, NewObject
  <2>5. stack # <<>> => A.pc # "inner"
    BY ItemsOf DEF ReaderInv, StackOK, ParseNew, Calling
  <2>6. StackOK' BY <2>1, <2>4, <2>5, SameKeeps DEF ReaderInv
  <2> QED BY <2>1, <2>4, <2>6, ItemsOf DEF ReaderInv
<1> QED BY <1>3, <1>4

LEMMA PushedKeeps == ASSUME ReaderInv, ParseList \/ ParseQuote PROVE ReaderInv'
<1>1. UNCHANGED <<ret, heap>> /\ (stack # <<>> => Waiting(A))
  <2>1. UNCHANGED <<ret, heap>> /\ ret = Pending /\ (stack # <<>> => A.pc # "next")
    BY DEF ParseList, ParseQuote, Calling
  <2>2. stack # <<>> => A.pc # "inner" BY <2>1, ItemsOf DEF ReaderInv, StackOK
  <2> QED BY <2>1, <2>2 DEF Waiting
<1>2. PICK a : /\ stack' = <<a>> \o stack
               /\ Quoting(a) \/ Listing(a)
               /\ a.pc # "inner" /\ HeldBy(a) = {}
  <2>1. CASE ParseList
    <3> DEFINE a == [fn |-> "list", pc |-> "head", head |-> NULL, cur |-> NULL, obj |-> NULL,
                     dot |-> 0]
    <3>1. stack' = <<a>> \o stack BY <2>1 DEF ParseList
    <3>2. Listing(a) /\ a.pc # "inner" BY DEF Listing
    <3>3. HeldBy(a) = {} BY ItemsOf DEF HeldBy
    <3> QED BY <3>1, <3>2, <3>3
  <2>2. CASE ParseQuote
    <3> DEFINE a == [fn |-> "quote", pc |-> "datum"]
    <3>1. stack' = <<a>> \o stack BY <2>2 DEF ParseQuote
    <3>2. Quoting(a) /\ a.pc # "inner" /\ HeldBy(a) = {} BY DEF Quoting, HeldBy
    <3> QED BY <3>1, <3>2
  <2> QED BY <2>1, <2>2
<1>3. StackOK' BY <1>1, <1>2, PushKeeps DEF ReaderInv
<1> QED BY <1>1, <1>3 DEF ReaderInv

\* the running activation, which holds what it holds
LEMMA Running ==
  ASSUME ReaderInv, stack # <<>>
  PROVE  /\ Quoting(A) \/ Listing(A)
         /\ HeldBy(A) \subseteq DOMAIN heap
<1>1. A = stack[1] /\ 1 \in DOMAIN stack BY Popped DEF ReaderInv, StackOK
<1> QED BY <1>1 DEF ReaderInv, StackOK

LEMMA LeftKeeps ==
  ASSUME ReaderInv, stack # <<>>, stack' = Tail(stack), UNCHANGED heap,
         Items(ret') \subseteq DOMAIN heap
  PROVE  ReaderInv'
<1>1. StackOK' BY PopKeeps DEF ReaderInv, StackOK
<1> QED BY <1>1 DEF ReaderInv

LEMMA LeaveKeeps ==
  ASSUME ReaderInv, QuoteFails \/ ListEmpty \/ ListFails \/ ListEnds \/ ListAfterTail
  PROVE  ReaderInv'
<1>1. stack # <<>> /\ stack' = Tail(stack) /\ UNCHANGED heap
  BY DEF QuoteFails, ListEmpty, ListFails, ListEnds, ListAfterTail, Datum, Returned, Leave
<1>2. Items(ret') \subseteq DOMAIN heap
  <2>1. CASE ListEnds
    <3>1. ret' = NULL \/ ret' = A.head BY <2>1 DEF ListEnds, Leave, Returns
    <3>2. A.fn = "list" BY <2>1 DEF ListEnds, Returned
    <3>3. Items(A.head) \subseteq DOMAIN heap BY <1>1, <3>2, Running DEF HeldBy
    <3> QED BY <3>1, <3>3, ItemsOf
  <2>2. CASE QuoteFails \/ ListEmpty \/ ListFails \/ ListAfterTail
    <3>1. ret' \in {NULL, NIL}
      BY <2>2 DEF QuoteFails, ListEmpty, ListFails, ListAfterTail, Leave, Returns
    <3> QED BY <3>1, ItemsOf
  <2> QED BY <2>1, <2>2
<1> QED BY <1>1, <1>2, LeftKeeps

LEMMA QuoteInnerKeeps == ASSUME ReaderInv, QuoteInner PROVE ReaderInv'
<1> DEFINE o == Cell(ret, NIL)
<1>1. PICK r \in Allocate(o, {}) :
        Proceed(r, /\ stack' = <<[A EXCEPT !.pc = "inner"]>> \o Tail(stack)
                   /\ Returns(r.new) /\ heap' = r.heap /\ UNCHANGED tok)
  BY DEF QuoteInner
<1>2. stack # <<>> /\ A.fn = "quote" /\ A.pc = "datum" BY DEF QuoteInner, Returned
<1>3. CASE r.status # "ok"
  <2>1. UNCHANGED <<stack, ret, heap>> BY <1>1, <1>3 DEF Proceed
  <2> QED BY <2>1, SameKeeps DEF ReaderInv, StackOK
<1>4. CASE r.status = "ok"
  <2> DEFINE a == [A EXCEPT !.pc = "inner"]
  <2>1. ret' = r.new /\ heap' = r.heap /\ stack' = <<a>> \o Tail(stack)
    BY <1>1, <1>4 DEF Proceed, Returns
  <2>2. stack # <<>> => A.pc # "next" BY <1>2
  <2>3. IsObject(o) /\ Contents(o) \subseteq DOMAIN heap
    BY ItemsOf DEF IsObject, Contents, Cell, ReaderInv
  <2> HIDE DEF o
  <2>4. /\ HeapOK(r.heap) /\ \E i : r.new = Ref(i) /\ i \in DOMAIN r.heap
        /\ \A n \in DOMAIN stack : HeldBy(stack[n]) \subseteq DOMAIN r.heap
    BY <1>1, <1>4, <2>2, <2>3, NewObject
  <2>5. Quoting(a) /\ HeldBy(a) = {} /\ a.pc = "inner"
    <3>1. Quoting(A) BY <1>2, Running DEF Listing
    <3>2. A = [fn |-> "quote", pc |-> "datum"] BY <3>1, <1>2 DEF Quoting
    <3>3. a = [fn |-> "quote", pc |-> "inner"] BY <3>2
    <3> QED BY <3>3 DEF Quoting, HeldBy
  <2>6. IsRef(ret') BY <2>1, <2>4, ItemsOf
  <2> HIDE DEF a
  <2>7. StackOK' BY <1>2, <2>1, <2>4, <2>5, <2>6, ReplaceKeeps DEF ReaderInv
  <2> QED BY <2>1, <2>4, <2>7, ItemsOf DEF ReaderInv
<1> QED BY <1>3, <1>4

LEMMA QuoteOuterKeeps == ASSUME ReaderInv, QuoteOuter PROVE ReaderInv'
<1> DEFINE q == Symbol(<<"q", "u", "o", "t", "e">>)
           o == Cell(q, ret)
<1>1. PICK r \in Allocate(o, {}) :
        Proceed(r, Leave(r.new) /\ heap' = r.heap /\ UNCHANGED tok)
  BY DEF QuoteOuter
<1>2. stack # <<>> /\ A.pc = "inner" BY DEF QuoteOuter, Returned
<1>3. CASE r.status # "ok"
  <2>1. UNCHANGED <<stack, ret, heap>> BY <1>1, <1>3 DEF Proceed
  <2> QED BY <2>1, SameKeeps DEF ReaderInv, StackOK
<1>4. CASE r.status = "ok"
  <2>1. ret' = r.new /\ heap' = r.heap /\ stack' = Tail(stack)
    BY <1>1, <1>4 DEF Proceed, Leave, Returns
  <2>2. stack # <<>> => A.pc # "next" BY <1>2
  <2>3. IsObject(o) /\ Contents(o) \subseteq DOMAIN heap
    <3>1. Items(q) = {} BY ItemsOf
    <3> HIDE DEF q
    <3> QED BY <3>1 DEF IsObject, Contents, Cell, ReaderInv
  <2> HIDE DEF o
  <2>4. /\ HeapOK(r.heap) /\ \E i : r.new = Ref(i) /\ i \in DOMAIN r.heap
        /\ \A n \in DOMAIN stack : HeldBy(stack[n]) \subseteq DOMAIN r.heap
    BY <1>1, <1>4, <2>2, <2>3, NewObject
  <2>5. StackOK' BY <1>2, <2>1, <2>4, PopKeeps DEF ReaderInv
  <2> QED BY <2>1, <2>4, <2>5, ItemsOf DEF ReaderInv
<1> QED BY <1>3, <1>4

LEMMA ListHeadKeeps == ASSUME ReaderInv, ListHead PROVE ReaderInv'
<1> DEFINE o == Cell(ret, NIL)
<1>1. PICK r \in Allocate(o, Items(ret)) :
        Proceed(r, /\ Goes([A EXCEPT !.pc = "next", !.head = r.new, !.cur = r.new])
                   /\ heap' = r.heap /\ UNCHANGED tok)
  BY DEF ListHead
<1>2. stack # <<>> /\ A.fn = "list" /\ A.pc = "head" BY DEF ListHead, Returned
<1>3. CASE r.status # "ok"
  <2>1. UNCHANGED <<stack, ret, heap>> BY <1>1, <1>3 DEF Proceed
  <2> QED BY <2>1, SameKeeps DEF ReaderInv, StackOK
<1>4. CASE r.status = "ok"
  <2> DEFINE a == [A EXCEPT !.pc = "next", !.head = r.new, !.cur = r.new]
  <2>1. ret' = Pending /\ heap' = r.heap /\ stack' = <<a>> \o Tail(stack)
    BY <1>1, <1>4 DEF Proceed, Goes
  <2>2. stack # <<>> => A.pc # "next" BY <1>2
  <2>3. IsObject(o) /\ Contents(o) \subseteq DOMAIN heap /\ Items(ret) \subseteq DOMAIN heap
    BY ItemsOf DEF IsObject, Contents, Cell, ReaderInv
  <2> HIDE DEF o
  <2>4. /\ HeapOK(r.heap) /\ \E i : r.new = Ref(i) /\ i \in DOMAIN r.heap
        /\ \A n \in DOMAIN stack : HeldBy(stack[n]) \subseteq DOMAIN r.heap
    BY <1>1, <1>4, <2>2, <2>3, NewObject
  <2>5. Listing(a) /\ HeldBy(a) \subseteq DOMAIN r.heap /\ a.pc # "inner"
    <3>1. Listing(A) BY <1>2, Running DEF Quoting
    <3>2. A = [fn |-> "list", pc |-> "head", head |-> NULL, cur |-> NULL, obj |-> NULL,
               dot |-> A.dot]
      BY <3>1, <1>2 DEF Listing
    <3> DEFINE d == A.dot
               v == r.new
    <3> HIDE DEF d, v
    <3>3. a = [fn |-> "list", pc |-> "next", head |-> v, cur |-> v, obj |-> NULL, dot |-> d]
      <4>1. A = [fn |-> "list", pc |-> "head", head |-> NULL, cur |-> NULL, obj |-> NULL,
                 dot |-> d]
        BY <3>2 DEF d
      <4>2. a = [A EXCEPT !.pc = "next", !.head = v, !.cur = v] BY DEF v
      <4> HIDE DEF a
      <4> QED BY <4>1, <4>2
    <3>4. IsRef(v) /\ Items(v) \subseteq DOMAIN r.heap BY <2>4, ItemsOf DEF v
    <3> HIDE DEF a
    <3> QED BY <3>3, <3>4, ItemsOf DEF Listing, HeldBy
  <2> HIDE DEF a
  <2>7. StackOK' BY <1>2, <2>1, <2>4, <2>5, ReplaceKeeps DEF ReaderInv
  <2> QED BY <2>1, <2>4, <2>7, ItemsOf DEF ReaderInv
<1> QED BY <1>3, <1>4

LEMMA ListNextKeeps == ASSUME ReaderInv, ListNext PROVE ReaderInv'
<1>1. stack # <<>> /\ A.pc = "next" /\ UNCHANGED <<ret, heap>> BY DEF ListNext
<1>2. CASE UNCHANGED stack BY <1>1, <1>2, SameKeeps DEF ReaderInv, StackOK
<1>3. CASE tok # 0
  <2> DEFINE a == [A EXCEPT !.pc = "item", !.dot = NextDot(@)]
  <2>1. stack' = <<a>> \o Tail(stack) BY <1>3 DEF ListNext
  <2>2. Listing(A) /\ HeldBy(A) \subseteq DOMAIN heap
    BY <1>1, Running DEF Quoting
  <2> DEFINE h == A.head
             c == A.cur
             b == A.obj
             d == A.dot
             e == NextDot(d)
  <2>3. A = [fn |-> "list", pc |-> "next", head |-> h, cur |-> c, obj |-> b, dot |-> d] /\ IsRef(h)
    BY <1>1, <2>2 DEF Listing
  <2>4. a = [A EXCEPT !.pc = "item", !.dot = e] OBVIOUS
  <2> HIDE DEF h, c, b, d, e, a
  <2>5. a = [fn |-> "list", pc |-> "item", head |-> h, cur |-> c, obj |-> b, dot |-> e]
    BY <2>3, <2>4
  <2>6. Listing(a) /\ HeldBy(a) = HeldBy(A) /\ a.pc # "inner"
    BY <2>3, <2>5 DEF Listing, HeldBy
  <2>7. StackOK' BY <1>1, <2>1, <2>2, <2>6, ReplaceKeeps DEF ReaderInv, StackOK
  <2> QED BY <1>1, <2>7 DEF ReaderInv
<1> QED BY <1>2, <1>3 DEF ListNext

LEMMA ListTailKeeps == ASSUME ReaderInv, ListTail PROVE ReaderInv'
<1> DEFINE a == [A EXCEPT !.pc = "next", !.cur = ret, !.obj = ret]
<1>1. /\ stack # <<>> /\ A.pc = "item" /\ A.fn = "list"
      /\ heap' = SetCdr(heap, A.cur, ret) /\ ret' = Pending /\ stack' = <<a>> \o Tail(stack)
  BY DEF ListTail, Datum, Returned, Goes
<1>2. Listing(A) /\ HeldBy(A) \subseteq DOMAIN heap
  BY <1>1, Running DEF Quoting
<1>3. DOMAIN heap' = DOMAIN heap /\ HeapOK(heap')
  BY <1>1, SetCdrKeeps DEF ReaderInv
<1> DEFINE h == A.head
           c == A.cur
           b == A.obj
           d == A.dot
<1>4. A = [fn |-> "list", pc |-> "item", head |-> h, cur |-> c, obj |-> b, dot |-> d] /\ IsRef(h)
  BY <1>1, <1>2 DEF Listing
<1> HIDE DEF h, c, b, d
<1>5. a = [fn |-> "list", pc |-> "next", head |-> h, cur |-> ret, obj |-> ret, dot |-> d]
  <2>1. a = [A EXCEPT !.pc = "next", !.cur = ret, !.obj = ret] OBVIOUS
  <2> HIDE DEF a
  <2> QED BY <1>4, <2>1
<1> HIDE DEF a
<1>6. Items(h) \subseteq DOMAIN heap BY <1>2, <1>4 DEF HeldBy
<1>7. Listing(a) /\ HeldBy(a) \subseteq DOMAIN heap /\ a.pc # "inner"
  BY <1>4, <1>5, <1>6 DEF Listing, HeldBy, ReaderInv
<1>8. StackOK' BY <1>1, <1>3, <1>7, ReplaceKeeps DEF ReaderInv, StackOK
<1> QED BY <1>1, <1>3, <1>8, ItemsOf DEF ReaderInv

LEMMA ListItemKeeps == ASSUME ReaderInv, ListItem PROVE ReaderInv'
<1> DEFINE o == Cell(ret, NIL)
<1>1. PICK r \in Allocate(o, Items(ret)) :
        Proceed(r, /\ heap' = SetCdr(r.heap, A.cur, r.new)
                   /\ Goes([A EXCEPT !.pc = "next", !.cur = r.new, !.obj = ret])
                   /\ UNCHANGED tok)
  BY DEF ListItem
<1>2. stack # <<>> /\ A.fn = "list" /\ A.pc = "item" BY DEF ListItem, Datum, Returned
<1>3. CASE r.status # "ok"
  <2>1. UNCHANGED <<stack, ret, heap>> BY <1>1, <1>3 DEF Proceed
  <2> QED BY <2>1, SameKeeps DEF ReaderInv, StackOK
<1>4. CASE r.status = "ok"
  <2> DEFINE v == r.new
             a == [A EXCEPT !.pc = "next", !.cur = v, !.obj = ret]
  <2>1. ret' = Pending /\ heap' = SetCdr(r.heap, A.cur, r.new) /\ stack' = <<a>> \o Tail(stack)
    BY <1>1, <1>4 DEF Proceed, Goes
  <2>2. stack # <<>> => A.pc # "next" BY <1>2
  <2>3. IsObject(o) /\ Contents(o) \subseteq DOMAIN heap /\ Items(ret) \subseteq DOMAIN heap
    BY ItemsOf DEF IsObject, Contents, Cell, ReaderInv
  <2>4. Contents(o) = Items(ret) BY ItemsOf DEF Contents, Cell
  <2> HIDE DEF o
  <2>5. /\ HeapOK(r.heap) /\ \E i : r.new = Ref(i) /\ i \in DOMAIN r.heap
        /\ Items(ret) \subseteq DOMAIN r.heap
        /\ \A n \in DOMAIN stack : HeldBy(stack[n]) \subseteq DOMAIN r.heap
    BY <1>1, <1>4, <2>2, <2>3, NewObject
  <2>6. Items(r.new) \subseteq DOMAIN r.heap BY <2>5, ItemsOf
  <2>7. DOMAIN heap' = DOMAIN r.heap /\ HeapOK(heap') BY <2>1, <2>5, <2>6, SetCdrKeeps
  <2>8. Listing(a) /\ HeldBy(a) \subseteq DOMAIN r.heap /\ a.pc # "inner"
    <3>1. Listing(A) BY <1>2, Running DEF Quoting
    <3>2. 1 \in DOMAIN stack /\ A = stack[1] BY <1>2, Popped DEF ReaderInv, StackOK
    <3>3. HeldBy(A) \subseteq DOMAIN r.heap BY <3>2, <2>5
    <3> DEFINE h == A.head
               c == A.cur
               b == A.obj
               d == A.dot
    <3>4. /\ A = [fn |-> "list", pc |-> "item", head |-> h, cur |-> c, obj |-> b, dot |-> d]
          /\ IsRef(h)
      BY <1>2, <3>1 DEF Listing
    <3>5. a = [A EXCEPT !.pc = "next", !.cur = v, !.obj = ret] OBVIOUS
    <3>6. Items(v) \subseteq DOMAIN r.heap BY <2>6
    <3> HIDE DEF h, c, b, d, v, a
    <3>7. a = [fn |-> "list", pc |-> "next", head |-> h, cur |-> v, obj |-> ret, dot |-> d]
      BY <3>4, <3>5
    <3>8. Items(h) \subseteq DOMAIN r.heap BY <3>3, <3>4 DEF HeldBy
    <3> QED BY <2>5, <3>4, <3>6, <3>7, <3>8 DEF Listing, HeldBy
  <2> HIDE DEF a
  <2>9. StackOK' BY <1>2, <2>1, <2>5, <2>7, <2>8, ReplaceKeeps DEF ReaderInv
  <2> QED BY <2>1, <2>7, <2>9, ItemsOf DEF ReaderInv
<1> QED BY <1>3, <1>4

LEMMA ReaderStep == ASSUME ReaderInv, ParseStep PROVE ReaderInv'
  BY ImmediateKeeps, NewKeeps, PushedKeeps, LeaveKeeps, QuoteInnerKeeps, QuoteOuterKeeps,
     ListHeadKeeps, ListNextKeeps, ListTailKeeps, ListItemKeeps
  DEF ParseStep

-----------------------------------------------------------------------------
(* The objects of a form.                                                  *)

HeapInv ==
  /\ ReaderInv
  /\ at # "parse" => stack = <<>>
  /\ at \notin {"parse", "run"} => DOMAIN heap = {}

LEMMA HeapInit == Init => HeapInv
<1> SUFFICES ASSUME Init PROVE HeapInv OBVIOUS
<1>1. heap = [i \in {} |-> NIL] /\ stack = <<>> /\ ret = NULL /\ at = "prompt"
  BY DEF Init, ReaderInit
<1>2. DOMAIN heap = {} BY <1>1
<1>3. HeapOK(heap) BY <1>2, FS_EmptySet DEF HeapOK, Closed
<1>4. StackOK
  <2>1. stack \in Seq({}) /\ DOMAIN stack = {} BY <1>1
  <2> QED BY <1>1, <2>1 DEF StackOK, StackSeq
<1> QED BY <1>1, <1>2, <1>3, <1>4, ItemsOf DEF HeapInv, ReaderInv

\* a step that clears the heap, or leaves the reader's objects alone
LEMMA EmptyStack ==
  ASSUME ReaderInv, stack = <<>>, UNCHANGED stack, HeapOK(heap'), Items(ret') \subseteq DOMAIN heap'
  PROVE  ReaderInv'
<1>1. DOMAIN stack' = {} OBVIOUS
<1>2. StackOK' BY <1>1 DEF ReaderInv, StackOK, StackSeq
<1> QED BY <1>2 DEF ReaderInv

LEMMA HeapStep == ASSUME HeapInv, [Next]_vars PROVE HeapInv'
<1>1. CASE UNCHANGED <<stack, ret, heap, at>>
  BY <1>1 DEF HeapInv, ReaderInv, StackOK, StackSeq, A
<1>2. CASE Read
  <2>1. ReaderInv' BY <1>2, ReaderStep DEF HeapInv, Read
  <2>2. at' = "parse" BY <1>2 DEF Read
  <2> QED BY <2>1, <2>2 DEF HeapInv
<1>3. CASE at \notin {"parse", "run"} /\ UNCHANGED <<stack, heap>> /\ ret' \in {ret, Pending}
  <2>1. stack = <<>> BY <1>3 DEF HeapInv
  <2>2. Items(ret') \subseteq DOMAIN heap BY <1>3, ItemsOf DEF HeapInv, ReaderInv
  <2>3. ReaderInv' BY <1>3, <2>1, <2>2, EmptyStack DEF HeapInv, ReaderInv
  <2> QED BY <1>3, <2>1, <2>3 DEF HeapInv
<1>4. CASE ClearRoots
  <2>1. stack = <<>> /\ UNCHANGED <<stack, heap, ret>> /\ at' = "run"
    BY <1>4 DEF ClearRoots, Parsed
  <2>2. ReaderInv' BY <2>1, EmptyStack DEF HeapInv, ReaderInv
  <2> QED BY <2>1, <2>2 DEF HeapInv
<1>5. CASE FreeForm /\ stack = <<>> /\ UNCHANGED stack
  <2>1. heap' = [i \in {} |-> NIL] /\ ret' = NULL /\ at' = "prompt" BY <1>5 DEF FreeForm
  <2>2. DOMAIN heap' = {} BY <2>1
  <2>3. HeapOK(heap') BY <2>2, FS_EmptySet DEF HeapOK, Closed
  <2>4. ReaderInv' BY <1>5, <2>1, <2>2, <2>3, ItemsOf, EmptyStack DEF HeapInv
  <2> QED BY <1>5, <2>1, <2>2, <2>4 DEF HeapInv
<1>6. CASE EndOfInput \/ ReadLine \/ Tokenize \/ Discard \/ Continue \/ Parse
  <2>1. at \notin {"parse", "run"} /\ UNCHANGED <<stack, heap>> /\ ret' \in {ret, Pending}
    BY <1>6 DEF EndOfInput, ReadLine, Reading, Tokenize, Discard, Continue, Parse, rvars
  <2> QED BY <2>1, <1>3
<1>7. CASE Run
  <2>1. stack = <<>> BY <1>7 DEF Run, HeapInv
  <2> QED BY <2>1, <1>5, <1>7 DEF Run
<1>8. CASE NotRead BY <1>5, <1>8 DEF NotRead, Parsed
<1>9. CASE UNCHANGED vars BY <1>1, <1>9 DEF vars, rvars
<1> QED BY <1>2, <1>4, <1>6, <1>7, <1>8, <1>9 DEF Next

(* The heap has no dangling reference, and what the activations of the     *)
(* reader hold is in it.                                                   *)
THEOREM HeapInvariance == Spec => []HeapInv
<1>1. HeapInv /\ [Next]_vars => HeapInv' BY HeapStep
<1> QED BY HeapInit, <1>1, PTL DEF Spec

(* Whatever an activation of the reader holds, whatever was just returned  *)
(* and whatever they contain is still in the heap after any collections.   *)
THEOREM HeldStaysAlive == Spec => []HeldAlive
<1>1. HeapInv => HeldAlive
  <2> SUFFICES ASSUME HeapInv PROVE HeldAlive OBVIOUS
  <2> DEFINE held == Items(ret) \cup UNION {HeldBy(stack[n]) : n \in DOMAIN stack}
  <2>1. held \subseteq DOMAIN heap BY DEF HeapInv, ReaderInv, StackOK
  <2>2. Reach(held) \subseteq DOMAIN heap BY <2>1, ReachInside DEF HeapInv, ReaderInv, HeapOK
  <2> QED BY <2>2 DEF HeldAlive
<1> QED BY <1>1, HeapInvariance, PTL

-----------------------------------------------------------------------------
(* How the behaviour becomes undefined.                                    *)

Explained == UndefinedExplained /\ (at = "run" => dead = 0)
Reasons == dead > 0 \/ (stack # <<>> /\ A.fn = "quote") \/ HoldsParen(DOMAIN heap)

\* an allocation whose arguments are rooted is undone by older mistakes only
LEMMA RootedSound ==
  ASSUME HeapInv, dead \in Nat, NEW o, NEW held, Contents(o) \subseteq held, ~Sound(o, held)
  PROVE  Reasons
<1> DEFINE live == Reach(ParserRoots \cup held)
<1>1. IsFiniteSet(DOMAIN heap) BY DEF HeapInv, ReaderInv, HeapOK
<1>2. ParserRoots \cup held \subseteq live BY <1>1, ReachHas
<1>3. Contents(o) \subseteq live BY <1>2
<1>4. dead # 0 \/ HoldsParen(live) BY <1>3 DEF Sound, Contents
<1>5. HoldsParen(live) => HoldsParen(DOMAIN heap) BY DEF HoldsParen
<1>6. dead # 0 => dead > 0 OBVIOUS
<1> QED BY <1>4, <1>5, <1>6 DEF Reasons

LEMMA ReadExplained ==
  ASSUME HeapInv, dead \in Nat, ParseStep, status' = "undefined"
  PROVE  Reasons'
<1>1. Reasons /\ UNCHANGED <<stack, heap, dead>> => Reasons'
  BY DEF Reasons, A, HoldsParen
<1>2. CASE ParseNew
  <2> DEFINE o == [tag |-> T.tag, val |-> T.val]
  <2>1. PICK r \in Allocate(o, {}) :
          Proceed(r, Returns(r.new) /\ heap' = r.heap /\ NextToken /\ UNCHANGED stack)
    BY <1>2 DEF ParseNew
  <2>2. Contents(o) \subseteq {} BY <1>2 DEF ParseNew, Contents
  <2>3. r.status = "undefined" BY <2>1 DEF Proceed
  <2> HIDE DEF o
  <2>4. ~Sound(o, {}) BY <2>1, <2>3, Allocated
  <2>5. Reasons BY <2>2, <2>4, RootedSound
  <2> QED BY <1>1, <2>1, <2>3, <2>5 DEF Proceed
<1>3. CASE ListHead
  <2> DEFINE o == Cell(ret, NIL)
  <2>1. PICK r \in Allocate(o, Items(ret)) :
          Proceed(r, /\ Goes([A EXCEPT !.pc = "next", !.head = r.new, !.cur = r.new])
                     /\ heap' = r.heap /\ UNCHANGED tok)
    BY <1>3 DEF ListHead
  <2>2. Contents(o) \subseteq Items(ret) BY ItemsOf DEF Contents, Cell
  <2>3. r.status = "undefined" BY <2>1 DEF Proceed
  <2> HIDE DEF o
  <2>4. ~Sound(o, Items(ret)) BY <2>1, <2>3, Allocated
  <2>5. Reasons BY <2>2, <2>4, RootedSound
  <2> QED BY <1>1, <2>1, <2>3, <2>5 DEF Proceed
<1>4. CASE ListItem
  <2> DEFINE o == Cell(ret, NIL)
  <2>1. PICK r \in Allocate(o, Items(ret)) :
          Proceed(r, /\ heap' = SetCdr(r.heap, A.cur, r.new)
                     /\ Goes([A EXCEPT !.pc = "next", !.cur = r.new, !.obj = ret])
                     /\ UNCHANGED tok)
    BY <1>4 DEF ListItem
  <2>2. Contents(o) \subseteq Items(ret) BY ItemsOf DEF Contents, Cell
  <2>3. r.status = "undefined" BY <2>1 DEF Proceed
  <2> HIDE DEF o
  <2>4. ~Sound(o, Items(ret)) BY <2>1, <2>3, Allocated
  <2>5. Reasons BY <2>2, <2>4, RootedSound
  <2> QED BY <1>1, <2>1, <2>3, <2>5 DEF Proceed
<1>5. CASE QuoteInner
  <2>1. PICK r \in Allocate(Cell(ret, NIL), {}) :
          Proceed(r, /\ stack' = <<[A EXCEPT !.pc = "inner"]>> \o Tail(stack)
                     /\ Returns(r.new) /\ heap' = r.heap /\ UNCHANGED tok)
    BY <1>5 DEF QuoteInner
  <2>2. UNCHANGED <<stack, heap, dead>> BY <2>1 DEF Proceed
  <2>3. Reasons BY <1>5 DEF QuoteInner, Returned, Reasons
  <2> QED BY <1>1, <2>2, <2>3
<1>6. CASE QuoteOuter
  <2>1. PICK r \in Allocate(Cell(Symbol(<<"q", "u", "o", "t", "e">>), ret), {}) :
          Proceed(r, Leave(r.new) /\ heap' = r.heap /\ UNCHANGED tok)
    BY <1>6 DEF QuoteOuter
  <2>2. UNCHANGED <<stack, heap, dead>> BY <2>1 DEF Proceed
  <2>3. Reasons BY <1>6 DEF QuoteOuter, Returned, Reasons
  <2> QED BY <1>1, <2>2, <2>3
<1>7. CASE ParseNull \/ ParseImmediate \/ ParseList \/ ParseQuote
  BY <1>7 DEF ParseNull, ParseImmediate, ParseList, ParseQuote, Calling
<1>8. CASE QuoteFails \/ ListEmpty \/ ListFails \/ ListEnds \/ ListTail \/ ListAfterTail
  BY <1>8 DEF QuoteFails, ListEmpty, ListFails, ListEnds, ListTail, ListAfterTail, Datum, Returned
<1>9. CASE ListNext BY <1>9 DEF ListNext
<1> QED BY <1>2, <1>3, <1>4, <1>5, <1>6, <1>7, <1>8, <1>9 DEF ParseStep

LEMMA ExplainedStep ==
  ASSUME FormInv, HeapInv, Explained, [Next]_vars PROVE Explained'
<1>1. dead \in Nat BY DEF FormInv, Types
<1>2. CASE UNCHANGED vars
  BY <1>2 DEF vars, rvars, Explained, UndefinedExplained, A, HoldsParen, EndsInBackslash, Char
<1>3. CASE Read
  <2>1. at = "parse" /\ at' = "parse" /\ ParseStep BY <1>3 DEF Read
  <2>2. status' = "undefined" => Reasons' BY <1>1, <2>1, ReadExplained
  <2> QED BY <2>1, <2>2 DEF Explained, UndefinedExplained, Reasons
<1>4. CASE Tokenize
  <2> DEFINE ts == tokenize(buffer)
  <2>1. /\ at = "tokenize" /\ buffer' = buffer /\ at' \in {"prompt", "level"}
        /\ status' = "undefined" =>
             ts # <<>> /\ ts[Len(ts)] = Stray /\ (at' = "level" \/ ts[Len(ts)] = Bad)
    BY <1>4 DEF Tokenize
  <2>2. Stray # Bad
    <3>1. Bad.tag = "bad" /\ Stray.tag = "stray" BY DEF Bad, Stray, Token
    <3> QED BY <3>1
  <2>3. ASSUME status' = "undefined" PROVE at' = "level" /\ EndsInBackslash'
    <3>1. at' = "level" BY <2>1, <2>2, <2>3
    <3>2. ts \in Seq(Lexed(buffer))
      <4>1. buffer \in Seq(Typed \cup {NUL, Unknown}) BY BufferSeq DEF FormInv
      <4> QED BY <4>1, Tokenized
    <3> DEFINE n == Len(ts)
    <3>3. n \in DOMAIN ts /\ ts[n] = Stray BY <3>2, <2>1, <2>3
    <3> HIDE DEF n
    <3>4. EndsInBackslash BY <3>3, <2>1, StrayExplained
    <3>5. EndsInBackslash' BY <3>4, <2>1 DEF EndsInBackslash, Char
    <3> QED BY <3>1, <3>5
  <2>4. at' # "run" BY <2>1
  <2> QED BY <2>3, <2>4 DEF Explained, UndefinedExplained
<1>5. CASE Run
  <2>1. dead = 0 BY <1>5 DEF Run, Explained
  <2>2. status' # "undefined" /\ at' = "prompt" BY <1>5, <2>1 DEF Run, FreeForm
  <2> QED BY <2>2 DEF Explained, UndefinedExplained
<1>6. CASE EndOfInput \/ ReadLine \/ Discard \/ Continue \/ Parse \/ ClearRoots \/ NotRead
  <2>1. status' # "undefined"
    BY <1>6 DEF EndOfInput, ReadLine, Reading, Discard, Continue, Parse, ClearRoots, NotRead,
                Parsed, rvars
  <2>2. at' = "run" => dead' = 0
    BY <1>6 DEF EndOfInput, ReadLine, Reading, Discard, Continue, Parse, ClearRoots, NotRead,
                FreeForm
  <2> QED BY <2>1, <2>2 DEF Explained, UndefinedExplained
<1> QED BY <1>2, <1>3, <1>4, <1>5, <1>6 DEF Next

(* Reading becomes undefined behaviour only through the pair of a 'x under *)
(* construction, through ParserRootNodes left behind, through a quote that *)
(* took a closing parenthesis, or on a line that ends in a backslash; and  *)
(* running a form never does.                                              *)
THEOREM UndefinedOnlySo == Spec => []UndefinedExplained
<1>1. Init => Explained BY DEF Init, ReaderInit, Explained, UndefinedExplained
<1>2. FormInv /\ HeapInv /\ Explained /\ [Next]_vars => Explained' BY ExplainedStep
<1>3. Explained => UndefinedExplained BY DEF Explained
<1> QED BY <1>1, <1>2, <1>3, FormInvariance, HeapInvariance, PTL DEF Spec

-----------------------------------------------------------------------------
(* Parentheses and lists.                                                  *)

(* d[n] of the activations from the n-th on are lists.                     *)
Weight(a) == IF a.fn = "list" THEN 1 ELSE 0
Depth(st, d) ==
  /\ d \in [1 .. Len(st) + 1 -> Nat] /\ d[Len(st) + 1] = 0
  /\ \A n \in 1 .. Len(st) : d[n] = d[n + 1] + Weight(st[n])

LEMMA DepthPush ==
  ASSUME StackSeq, NEW d, Depth(stack, d), NEW a
  PROVE  \E e : Depth(<<a>> \o stack, e) /\ e[1] = d[1] + Weight(a)
<1> DEFINE N == Len(stack)
           st == <<a>> \o stack
           e == [n \in 1 .. N + 2 |-> IF n = 1 THEN d[1] + Weight(a) ELSE d[n - 1]]
<1>1. /\ N \in Nat /\ Len(st) = N + 1 /\ st[1] = a
      /\ \A n \in 1 .. N + 1 : n > 1 => st[n] = stack[n - 1]
  BY Pushed
<1> HIDE DEF N, st
<1>2. Weight(a) \in Nat BY DEF Weight
<1>3. /\ \A n \in 1 .. N + 1 : d[n] \in Nat
      /\ d[N + 1] = 0 /\ \A n \in 1 .. N : d[n] = d[n + 1] + Weight(stack[n])
  BY DEF Depth, N
<1>4. \A n \in 1 .. N + 2 : e[n] = IF n = 1 THEN d[1] + Weight(a) ELSE d[n - 1] OBVIOUS
<1>5. \A n \in 1 .. N + 2 : e[n] \in Nat
  <2>1. \A n \in 1 .. N + 2 : n # 1 => n - 1 \in 1 .. N + 1 BY <1>1
  <2>2. 1 \in 1 .. N + 1 BY <1>1
  <2> HIDE DEF e
  <2> QED BY <2>1, <2>2, <1>2, <1>3, <1>4
<1>6. e \in [1 .. N + 2 -> Nat] BY <1>5
<1> HIDE DEF e
<1>7. e[1] = d[1] + Weight(a)
  <2>1. 1 \in 1 .. N + 2 BY <1>1
  <2> QED BY <2>1, <1>4
<1>8. e[N + 2] = 0
  <2>1. N + 2 \in 1 .. N + 2 /\ N + 2 # 1 /\ (N + 2) - 1 = N + 1 BY <1>1
  <2> QED BY <2>1, <1>3, <1>4
<1>9. ASSUME NEW n \in 1 .. N + 1 PROVE e[n] = e[n + 1] + Weight(st[n])
  <2>1. n + 1 \in 1 .. N + 2 /\ n + 1 # 1 /\ (n + 1) - 1 = n /\ n \in 1 .. N + 2 BY <1>1
  <2>2. e[n + 1] = d[n] BY <2>1, <1>4
  <2>3. CASE n = 1 BY <2>2, <2>3, <1>1, <1>7
  <2>4. CASE n # 1
    <3>1. n - 1 \in 1 .. N /\ n > 1 /\ (n - 1) + 1 = n BY <2>4, <1>1
    <3>2. d[n - 1] = d[n] + Weight(stack[n - 1]) BY <3>1, <1>3
    <3>3. e[n] = d[n - 1] BY <2>1, <2>4, <1>4
    <3> QED BY <3>1, <3>2, <3>3, <2>2, <1>1
  <2> QED BY <2>3, <2>4
<1>10. N + 1 + 1 = N + 2 BY <1>1
<1>11. Depth(st, e) BY <1>1, <1>6, <1>8, <1>9, <1>10 DEF Depth
<1> QED BY <1>7, <1>11 DEF st

LEMMA DepthPop ==
  ASSUME StackSeq, stack # <<>>, NEW d, Depth(stack, d)
  PROVE  \E e : Depth(Tail(stack), e) /\ d[1] = e[1] + Weight(A)
<1> DEFINE N == Len(stack)
           st == Tail(stack)
           e == [n \in 1 .. N |-> d[n + 1]]
<1>1. /\ N \in Nat /\ N >= 1 /\ Len(st) = N - 1 /\ A = stack[1]
      /\ \A n \in 1 .. N - 1 : st[n] = stack[n + 1]
  <2>1. /\ N \in Nat /\ Len(st) = N - 1 /\ A = stack[1] /\ 1 \in DOMAIN stack
        /\ DOMAIN stack = 1 .. N
        /\ \A n \in 1 .. N - 1 : st[n] = stack[n + 1]
    BY Popped
  <2> HIDE DEF N, st
  <2> QED BY <2>1
<1> HIDE DEF N, st
<1>3. /\ \A n \in 1 .. N + 1 : d[n] \in Nat
      /\ d[N + 1] = 0 /\ \A n \in 1 .. N : d[n] = d[n + 1] + Weight(stack[n])
  BY DEF Depth, N
<1>4. \A n \in 1 .. N : e[n] = d[n + 1] /\ n + 1 \in 1 .. N + 1 BY <1>1
<1>5. e \in [1 .. N -> Nat] BY <1>3, <1>4
<1> HIDE DEF e
<1>6. 1 \in 1 .. N /\ N \in 1 .. N /\ (N - 1) + 1 = N BY <1>1
<1>7. d[1] = e[1] + Weight(A) BY <1>1, <1>3, <1>4, <1>6
<1>8. e[N] = 0 BY <1>3, <1>4, <1>6
<1>9. ASSUME NEW n \in 1 .. N - 1 PROVE e[n] = e[n + 1] + Weight(st[n])
  <2>1. n \in 1 .. N /\ n + 1 \in 1 .. N BY <1>1
  <2> QED BY <2>1, <1>1, <1>3, <1>4
<1>10. Depth(st, e) BY <1>1, <1>5, <1>6, <1>8, <1>9 DEF Depth
<1> QED BY <1>7, <1>10 DEF st

LEMMA DepthReplace ==
  ASSUME StackSeq, stack # <<>>, NEW d, Depth(stack, d), NEW a, a.fn = A.fn
  PROVE  Depth(<<a>> \o Tail(stack), d)
<1> DEFINE st == <<a>> \o Tail(stack)
           N == Len(stack)
<1>1. /\ Len(st) = N /\ DOMAIN stack = 1 .. N /\ A = stack[1] /\ st[1] = a
      /\ \A n \in DOMAIN stack : n > 1 => st[n] = stack[n]
  BY Popped, Replaced
<1> HIDE DEF st
<1>2. ASSUME NEW n \in 1 .. N PROVE Weight(st[n]) = Weight(stack[n])
  <2>1. CASE n = 1 BY <2>1, <1>1 DEF Weight
  <2>2. CASE n # 1
    <3>1. n > 1 BY <2>2
    <3> QED BY <3>1, <1>1
  <2> QED BY <2>1, <2>2
<1>3. Depth(st, d) BY <1>1, <1>2 DEF Depth
<1> QED BY <1>3 DEF st

(* While a form is read, at least so many lists are open as the tokens     *)
(* read so far leave open, one more if a closing parenthesis was just      *)
(* read, and one more if a quote has taken one; unless reading failed.     *)
Here == IF tok = 0 THEN Len(token) + 1 ELSE tok
Mark == IF ret = RPAREN_FOUND THEN 1 ELSE 0
Kept == IF Parens(heap) THEN 1 ELSE 0
Nested(lev, d) ==
  /\ Levels(token, lev, top_tok, Len(token)) /\ Depth(stack, d)
  /\ Here \in top_tok .. Len(token) + 1
  /\ d[1] >= lev[Here] + Mark + Kept
Nest == at \in {"parse", "run"} /\ ret # NULL => \E lev, d : Nested(lev, d)

LEMMA Tally ==
  ASSUME NEW lev, NEW d, Nested(lev, d), NEW e, Depth(stack', e), Len(stack) \in Nat,
         Len(stack') \in Nat, Len(token) \in Nat, top_tok \in Nat,
         NEW w \in Int, e[1] = d[1] + w, UNCHANGED <<token, top_tok>>,
         NEW s \in Int, Here' \in top_tok .. Len(token) + 1, lev[Here'] = lev[Here] + s,
         Mark' + Kept' <= Mark + Kept + w - s
  PROVE  Nest'
<1>1. Levels(token, lev, top_tok, Len(token))' BY DEF Nested
<1>2. lev[Here] \in Nat /\ lev[Here'] \in Nat BY DEF Nested, Levels
<1>3. d[1] \in Nat /\ e[1] \in Nat
  <2>1. 1 \in 1 .. Len(stack) + 1 /\ 1 \in 1 .. Len(stack') + 1 OBVIOUS
  <2> QED BY <2>1 DEF Nested, Depth
<1>4. Mark \in Nat /\ Kept \in Nat /\ Mark' \in Nat /\ Kept' \in Nat BY DEF Mark, Kept
<1>5. d[1] >= lev[Here] + Mark + Kept BY DEF Nested
<1> HIDE DEF Here, Mark, Kept
<1>6. e[1] >= lev[Here'] + Mark' + Kept'
  <2> DEFINE x == d[1]
             y == lev[Here]
             z == lev[Here']
             v == e[1]
             k == Mark
             l == Kept
             kk == Mark'
             ll == Kept'
  <2>1. /\ x \in Nat /\ y \in Nat /\ z \in Nat /\ v \in Nat /\ k \in Nat /\ l \in Nat
        /\ kk \in Nat /\ ll \in Nat /\ v = x + w /\ z = y + s /\ kk + ll <= k + l + w - s
        /\ x >= y + k + l
    BY <1>2, <1>3, <1>4, <1>5
  <2> HIDE DEF x, y, z, v, k, l, kk, ll
  <2>2. v >= z + kk + ll BY <2>1
  <2> QED BY <2>2 DEF v, z, kk, ll
<1>7. Nested(lev, e)' BY <1>1, <1>6 DEF Nested
<1> QED BY <1>7 DEF Nest

\* a step of the reader takes a token, or none
LEMMA Consumed ==
  ASSUME FormInv, at = "parse", NEW lev, NEW d, Nested(lev, d), UNCHANGED <<token, top_tok>>
  PROVE  /\ tok # 0 /\ tok' = T.next =>
              /\ Here' \in top_tok .. Len(token) + 1
              /\ lev[Here'] = lev[Here] + Step(T.tag)
         /\ tok' = tok =>
              /\ Here' \in top_tok .. Len(token) + 1
              /\ lev[Here'] = lev[Here] + 0
<1> DEFINE b == Len(token)
<1>1. b \in Nat /\ DOMAIN token = 1 .. b BY TokenFacts DEF FormInv
<1>2. top_tok \in 1 .. b /\ Row(token, top_tok, b) BY DEF FormInv, Whole
<1>3. Here \in top_tok .. b + 1 /\ tok \in 0 .. b BY DEF Nested, FormInv, Types
<1>4. Levels(token, lev, top_tok, b) BY DEF Nested
<1> HIDE DEF b
<1>5. ASSUME tok # 0, tok' = T.next
      PROVE  Here' \in top_tok .. b + 1 /\ lev[Here'] = lev[Here] + Step(T.tag)
  <2>1. Here = tok /\ tok \in top_tok .. b BY <1>1, <1>3, <1>5 DEF Here
  <2>2. lev[tok + 1] = lev[tok] + Step(token[tok].tag) BY <2>1, <1>4 DEF Levels
  <2>3. Here' = tok + 1
    <3>1. CASE tok = b
      <4>1. tok' = 0 BY <3>1, <1>2, <1>5 DEF Row, T
      <4>2. Len(token') = b BY DEF b
      <4> QED BY <3>1, <4>1, <4>2 DEF Here
    <3>2. CASE tok # b
      <4>1. tok \in top_tok .. b - 1 BY <3>2, <2>1, <1>1, <1>2
      <4>2. tok' = tok + 1 BY <4>1, <1>2, <1>5 DEF Row, T
      <4>3. tok' # 0 BY <4>2, <1>3
      <4> QED BY <4>2, <4>3 DEF Here
    <3> QED BY <3>1, <3>2
  <2>4. tok + 1 \in top_tok .. b + 1 BY <2>1, <1>1, <1>2
  <2> QED BY <2>1, <2>2, <2>3, <2>4 DEF T
<1>6. ASSUME tok' = tok PROVE Here' \in top_tok .. b + 1 /\ lev[Here'] = lev[Here] + 0
  <2>1. Here' = Here BY <1>6 DEF Here
  <2>2. lev[Here] \in Nat BY <1>3, <1>4 DEF Levels
  <2> QED BY <2>1, <2>2, <1>3
<1> QED BY <1>5, <1>6 DEF b

\* what the reader starts a step with
NestStart ==
  /\ FormInv /\ ReaderInv /\ Nest /\ at = "parse" /\ ret # NULL
  /\ UNCHANGED <<token, top_tok, at>>

LEMMA NestSame == ASSUME NestStart, UNCHANGED <<tok, stack, ret, heap>> PROVE Nest'
<1>1. PICK lev, d : Nested(lev, d) BY DEF NestStart, Nest
<1>2. Here' = Here /\ Mark' = Mark /\ Kept' = Kept BY DEF NestStart, Here, Mark, Kept, Parens
<1>3. Nested(lev, d)' BY <1>1, <1>2 DEF Nested, NestStart
<1> QED BY <1>3 DEF Nest

\* the number of open lists after a step that changes the activations
Change(w) ==
  \/ w = 0 /\ UNCHANGED stack
  \/ \E a : stack' = <<a>> \o stack /\ w = Weight(a)
  \/ stack # <<>> /\ stack' = Tail(stack) /\ w = 0 - Weight(A)
  \/ stack # <<>> /\ w = 0 /\ \E a : stack' = <<a>> \o Tail(stack) /\ a.fn = A.fn

LEMMA Changed ==
  ASSUME StackSeq, StackSeq', NEW d, Depth(stack, d), NEW w, Change(w)
  PROVE  /\ \E e : Depth(stack', e) /\ e[1] = d[1] + w
         /\ w \in Int /\ Len(stack) \in Nat /\ Len(stack') \in Nat
<1>1. Len(stack) \in Nat /\ Len(stack') \in Nat BY DEF StackSeq
<1>2. \A a : Weight(a) \in Int BY DEF Weight
<1>3. \A f, st : Depth(st, f) /\ Len(st) \in Nat => f[1] \in Nat
  <2> SUFFICES ASSUME NEW f, NEW st, Depth(st, f), Len(st) \in Nat PROVE f[1] \in Nat OBVIOUS
  <2>1. 1 \in 1 .. Len(st) + 1 OBVIOUS
  <2> QED BY <2>1 DEF Depth
<1>4. d[1] \in Nat BY <1>1, <1>3
<1>5. CASE w = 0 /\ UNCHANGED stack
  <2>1. Depth(stack', d) /\ d[1] = d[1] + w /\ w \in Int BY <1>4, <1>5
  <2> QED BY <2>1, <1>1
<1>6. ASSUME NEW a, stack' = <<a>> \o stack, w = Weight(a)
      PROVE  \E e : Depth(stack', e) /\ e[1] = d[1] + w
  BY <1>6, DepthPush
<1>7. CASE stack # <<>> /\ stack' = Tail(stack) /\ w = 0 - Weight(A)
  <2>1. PICK e : Depth(Tail(stack), e) /\ d[1] = e[1] + Weight(A) BY <1>7, DepthPop
  <2>2. Depth(stack', e) BY <2>1, <1>7
  <2>3. e[1] \in Nat /\ Weight(A) \in Int BY <2>2, <1>1, <1>2, <1>3
  <2> DEFINE x == e[1]
             y == Weight(A)
             z == d[1]
  <2>4. x \in Nat /\ y \in Int /\ z = x + y /\ w = 0 - y BY <2>1, <2>3, <1>7
  <2> HIDE DEF x, y, z
  <2>5. x = z + w /\ w \in Int BY <2>4
  <2> QED BY <2>2, <2>5, <1>1 DEF x, z
<1>8. ASSUME NEW a, stack # <<>>, w = 0, stack' = <<a>> \o Tail(stack), a.fn = A.fn
      PROVE  \E e : Depth(stack', e) /\ e[1] = d[1] + w
  <2>1. Depth(stack', d) BY <1>8, DepthReplace
  <2> QED BY <2>1, <1>4, <1>8
<1>9. w \in Int
  <2>1. Weight(A) \in Int BY <1>2
  <2>2. 0 - Weight(A) \in Int BY <2>1
  <2>3. w = 0 \/ (\E a : w = Weight(a)) \/ w = 0 - Weight(A) BY DEF Change
  <2> QED BY <1>2, <2>2, <2>3
<1> QED BY <1>1, <1>5, <1>6, <1>7, <1>8, <1>9 DEF Change

\* a step accounts for the tokens it takes and the activations it changes
LEMMA Accounted ==
  ASSUME NestStart, ReaderInv', NEW w, Change(w), NEW s \in Int,
         \/ tok # 0 /\ tok' = T.next /\ s = Step(T.tag)
         \/ tok' = tok /\ s = 0,
         Mark' + Kept' <= Mark + Kept + w - s
  PROVE  Nest'
<1>1. PICK lev, d : Nested(lev, d) BY DEF NestStart, Nest
<1>2. PICK e : Depth(stack', e) /\ e[1] = d[1] + w
  BY <1>1, Changed DEF NestStart, ReaderInv, StackOK, Nested
<1>3. w \in Int /\ Len(stack) \in Nat /\ Len(stack') \in Nat
  BY <1>1, Changed DEF NestStart, ReaderInv, StackOK, Nested
<1>4. Len(token) \in Nat /\ top_tok \in Nat
  <2>1. top_tok \in 0 .. Len(token) BY DEF NestStart, FormInv, Types
  <2> QED BY <2>1, TokenFacts DEF NestStart, FormInv
<1>5. Here' \in top_tok .. Len(token) + 1 /\ lev[Here'] = lev[Here] + s
  BY <1>1, Consumed DEF NestStart
<1> QED BY <1>1, <1>2, <1>3, <1>4, <1>5, Tally DEF NestStart

LEMMA MarkKept ==
  /\ Mark \in 0 .. 1 /\ Kept \in 0 .. 1
  /\ Mark' \in 0 .. 1 /\ Kept' \in 0 .. 1
  /\ ret = RPAREN_FOUND => Mark = 1
  /\ ret # RPAREN_FOUND => Mark = 0
  /\ ret' = RPAREN_FOUND => Mark' = 1
  /\ ret' # RPAREN_FOUND => Mark' = 0
  /\ Parens(heap) => Kept = 1
  /\ (Parens(heap') => Parens(heap)) => Kept' <= Kept
  /\ (Parens(heap') => Parens(heap) \/ ret = RPAREN_FOUND) => Kept' <= Kept + Mark
<1>1. Parens(heap)' <=> Parens(heap') BY DEF Parens
<1> QED BY <1>1 DEF Mark, Kept

\* the marks that steps account for
LEMMA Marks ==
  /\ Kept' <= Kept /\ (Mark = 0 => Mark' = 0) => Mark' + Kept' <= Mark + Kept + 0 - 0
  /\ Kept' <= Kept + Mark /\ Mark' = 0 => Mark' + Kept' <= Mark + Kept + 0 - 0
  /\ Kept' <= Kept /\ Mark = 0 => Mark' + Kept' <= Mark + Kept + 0 - (0 - 1)
  /\ Kept' <= Kept /\ Mark = 1 /\ Mark' = 0 => Mark' + Kept' <= Mark + Kept + (0 - 1) - 0
<1> DEFINE m == Mark
           k == Kept
           mm == Mark'
           kk == Kept'
<1>1. m \in 0 .. 1 /\ k \in 0 .. 1 /\ mm \in 0 .. 1 /\ kk \in 0 .. 1 BY MarkKept
<1> HIDE DEF m, k, mm, kk
<1>2. /\ kk <= k /\ (m = 0 => mm = 0) => mm + kk <= m + k + 0 - 0
      /\ kk <= k + m /\ mm = 0 => mm + kk <= m + k + 0 - 0
      /\ kk <= k /\ m = 0 => mm + kk <= m + k + 0 - (0 - 1)
      /\ kk <= k /\ m = 1 /\ mm = 0 => mm + kk <= m + k + (0 - 1) - 0
  BY <1>1
<1> QED BY <1>2 DEF m, k, mm, kk

LEMMA NotParen ==
  /\ NULL # RPAREN_FOUND /\ NIL # RPAREN_FOUND /\ Pending # RPAREN_FOUND
  /\ Pending # NULL
  /\ \A v : IsRef(v) => v # RPAREN_FOUND /\ v # NULL
  /\ \A x : Symbol(x) # RPAREN_FOUND
  /\ \A x : x # "RPAREN_FOUND" => [static |-> x] # RPAREN_FOUND
<1>1. \A x, y : [static |-> x] = [static |-> y] => x = y
  <2> SUFFICES ASSUME NEW x, NEW y, [static |-> x] = [static |-> y] PROVE x = y OBVIOUS
  <2>1. [static |-> x].static = x /\ [static |-> y].static = y OBVIOUS
  <2> QED BY <2>1
<1>2. \A x : Symbol(x) # RPAREN_FOUND
  <2>1. \A x : DOMAIN Symbol(x) = {"sym"} BY DEF Symbol
  <2>2. DOMAIN RPAREN_FOUND = {"static"} BY DEF RPAREN_FOUND
  <2> QED BY <2>1, <2>2
<1> QED BY <1>1, <1>2, ItemsOf DEF NULL, NIL, Pending, RPAREN_FOUND

LEMMA StepOf ==
  /\ Step("LPAREN") = 1 /\ Step("RPAREN") = 0 - 1
  /\ \A tag : tag # "LPAREN" /\ tag # "RPAREN" => Step(tag) = 0
  BY DEF Step

LEMMA NestImmediate ==
  ASSUME NestStart, ReaderInv', ParseImmediate, ret' # NULL
  PROVE  Nest'
<1>1. /\ ret = Pending /\ tok # 0 /\ tok' = T.next /\ ret' = Immediate(T) /\ UNCHANGED <<stack, heap>>
      /\ T.tag \in {"DOT", "RPAREN", "IDENT", "TRUE", "FALSE"}
  BY DEF ParseImmediate, Calling, Returns, NextToken
<1>2. Change(0) BY <1>1 DEF Change
<1>3. Kept' <= Kept /\ Kept \in 0 .. 1 /\ Kept' \in 0 .. 1 BY <1>1, MarkKept
<1>4. Mark = 0 BY <1>1, MarkKept, NotParen
<1>5. CASE T.tag = "RPAREN"
  <2>1. Step(T.tag) = 0 - 1 BY <1>5, StepOf
  <2>3. Mark' + Kept' <= Mark + Kept + 0 - (0 - 1) BY <1>3, <1>4, Marks
  <2>4. 0 - 1 \in Int OBVIOUS
  <2> QED BY <1>1, <1>2, <2>1, <2>3, <2>4, Accounted
<1>6. CASE T.tag # "RPAREN"
  <2>1. Step(T.tag) = 0 BY <1>1, <1>6, StepOf
  <2>2. T.tag # "DOT"
    <3> SUFFICES ASSUME T.tag = "DOT" PROVE FALSE OBVIOUS
    <3>1. Immediate(T) = NULL BY DEF Immediate
    <3> QED BY <3>1, <1>1
  <2>3. ret' \in {Symbol(T.val), [static |-> "TRUE"], [static |-> "FALSE"]}
    BY <1>1, <1>6, <2>2 DEF Immediate
  <2>4. ret' # RPAREN_FOUND BY <2>3, NotParen
  <2>5. Mark' = 0 BY <2>4, MarkKept
  <2>6. Mark' + Kept' <= Mark + Kept + 0 - 0 BY <1>3, <2>5, Marks
  <2> QED BY <1>1, <1>2, <2>1, <2>6, Accounted
<1> QED BY <1>5, <1>6

LEMMA NestNew == ASSUME NestStart, ReaderInv', ParseNew PROVE Nest'
<1> DEFINE o == [tag |-> T.tag, val |-> T.val]
<1>1. PICK r \in Allocate(o, {}) :
        Proceed(r, Returns(r.new) /\ heap' = r.heap /\ NextToken /\ UNCHANGED stack)
  BY DEF ParseNew
<1>2. ~IsCell(o) /\ Contents(o) = {} /\ ret = Pending /\ tok # 0 /\ T.tag \in {"INT", "STR"}
  BY DEF ParseNew, IsCell, Contents, Calling
<1>3. CASE r.status # "ok" BY <1>1, <1>3, NestSame DEF Proceed
<1>4. CASE r.status = "ok"
  <2>1. ret' = r.new /\ heap' = r.heap /\ stack' = stack /\ tok' = T.next
    BY <1>1, <1>4 DEF Proceed, Returns, NextToken
  <2>2. stack # <<>> => A.pc # "next" BY DEF ParseNew, Calling
  <2>3. IsObject(o) /\ Contents(o) \subseteq DOMAIN heap BY <1>2 DEF IsObject
  <2> HIDE DEF o
  <2>4. /\ \E i : r.new = Ref(i)
        /\ Parens(r.heap) => Parens(heap)
    BY <1>1, <1>2, <1>4, <2>2, <2>3, NewObject DEF NestStart
  <2>5. Mark = 0 /\ Mark' = 0 BY <1>2, <2>1, <2>4, ItemsOf, NotParen, MarkKept
  <2>6. Kept' <= Kept /\ Kept \in 0 .. 1 /\ Kept' \in 0 .. 1 BY <2>1, <2>4, MarkKept
  <2>7. Mark' + Kept' <= Mark + Kept + 0 - 0 BY <2>5, <2>6, Marks
  <2>8. Step(T.tag) = 0 BY <1>2, StepOf
  <2>9. Change(0) BY <2>1 DEF Change
  <2> QED BY <1>2, <2>1, <2>7, <2>8, <2>9, Accounted
<1> QED BY <1>3, <1>4

LEMMA NestPushed == ASSUME NestStart, ReaderInv', ParseList \/ ParseQuote PROVE Nest'
<1>1. UNCHANGED <<ret, heap>> /\ tok # 0 /\ tok' = T.next
  BY DEF ParseList, ParseQuote, NextToken
<1>2. Mark' = Mark /\ Kept' = Kept /\ Mark \in 0 .. 1 /\ Kept \in 0 .. 1
  BY <1>1, MarkKept DEF Mark, Kept, Parens
<1>3. CASE ParseList
  <2>1. Change(1) /\ Step(T.tag) = 1 BY <1>3, StepOf DEF ParseList, Change, Weight
  <2>2. Mark' + Kept' <= Mark + Kept + 1 - 1 BY <1>2
  <2> QED BY <1>1, <2>1, <2>2, Accounted
<1>4. CASE ParseQuote
  <2> DEFINE a == [fn |-> "quote", pc |-> "datum"]
  <2>3. stack' = <<a>> \o stack /\ T.tag = "QUOTE" BY <1>4 DEF ParseQuote
  <2>4. Weight(a) = 0 BY DEF Weight
  <2> HIDE DEF a
  <2>1. Change(0) /\ Step(T.tag) = 0 BY <2>3, <2>4, StepOf DEF Change
  <2>2. Mark' + Kept' <= Mark + Kept + 0 - 0 BY <1>2
  <2> QED BY <1>1, <2>1, <2>2, Accounted
<1> QED BY <1>3, <1>4

LEMMA NestQuoteInner == ASSUME NestStart, ReaderInv', QuoteInner PROVE Nest'
<1> DEFINE o == Cell(ret, NIL)
           a == [A EXCEPT !.pc = "inner"]
<1>1. PICK r \in Allocate(o, {}) :
        Proceed(r, /\ stack' = <<a>> \o Tail(stack)
                   /\ Returns(r.new) /\ heap' = r.heap /\ UNCHANGED tok)
  BY DEF QuoteInner
<1>2. stack # <<>> /\ A.fn = "quote" /\ A.pc = "datum" BY DEF QuoteInner, Returned
<1>3. CASE r.status # "ok" BY <1>1, <1>3, NestSame DEF Proceed
<1>4. CASE r.status = "ok"
  <2>1. ret' = r.new /\ heap' = r.heap /\ stack' = <<a>> \o Tail(stack) /\ tok' = tok
    BY <1>1, <1>4 DEF Proceed, Returns
  <2>2. stack # <<>> => A.pc # "next" BY <1>2
  <2>3. IsObject(o) /\ Contents(o) \subseteq DOMAIN heap
    BY ItemsOf DEF IsObject, Contents, Cell, ReaderInv, NestStart
  <2>4. IsCell(o) /\ o.car = ret BY DEF IsCell, Cell
  <2> HIDE DEF o
  <2>5. /\ \E i : r.new = Ref(i)
        /\ Parens(r.heap) => Parens(heap) \/ ret = RPAREN_FOUND
    BY <1>1, <1>4, <2>2, <2>3, <2>4, NewObject DEF NestStart
  <2>6. Mark' = 0 BY <2>1, <2>5, ItemsOf, NotParen, MarkKept
  <2>7. Kept' <= Kept + Mark BY <2>1, <2>5, MarkKept
  <2>8. Mark' + Kept' <= Mark + Kept + 0 - 0 BY <2>6, <2>7, Marks
  <2>9. a.fn = A.fn
    <3>1. Quoting(A) BY <1>2, Running DEF Listing, NestStart
    <3>2. A = [fn |-> "quote", pc |-> "datum"] BY <3>1, <1>2 DEF Quoting
    <3>3. a = [fn |-> "quote", pc |-> "inner"] BY <3>2
    <3> QED BY <3>3, <1>2
  <2> HIDE DEF a
  <2>10. Change(0) BY <1>2, <2>1, <2>9 DEF Change
  <2> QED BY <2>1, <2>8, <2>10, Accounted
<1> QED BY <1>3, <1>4

LEMMA NestQuoteOuter == ASSUME NestStart, ReaderInv', QuoteOuter PROVE Nest'
<1> DEFINE q == Symbol(<<"q", "u", "o", "t", "e">>)
           o == Cell(q, ret)
<1>1. PICK r \in Allocate(o, {}) :
        Proceed(r, Leave(r.new) /\ heap' = r.heap /\ UNCHANGED tok)
  BY DEF QuoteOuter
<1>2. stack # <<>> /\ A.fn = "quote" /\ A.pc = "inner" BY DEF QuoteOuter, Returned
<1>3. CASE r.status # "ok" BY <1>1, <1>3, NestSame DEF Proceed
<1>4. CASE r.status = "ok"
  <2>1. ret' = r.new /\ heap' = r.heap /\ stack' = Tail(stack) /\ tok' = tok
    BY <1>1, <1>4 DEF Proceed, Leave, Returns
  <2>2. stack # <<>> => A.pc # "next" BY <1>2
  <2>3. Items(q) = {} /\ q # RPAREN_FOUND BY ItemsOf, NotParen
  <2> HIDE DEF q
  <2>4. IsObject(o) /\ Contents(o) \subseteq DOMAIN heap
    BY <2>3 DEF IsObject, Contents, Cell, ReaderInv, NestStart
  <2>5. o.car = q BY DEF Cell
  <2> HIDE DEF o
  <2>6. /\ \E i : r.new = Ref(i)
        /\ Parens(r.heap) => Parens(heap)
    BY <1>1, <1>4, <2>2, <2>3, <2>4, <2>5, NewObject DEF NestStart
  <2>7. Mark' = 0 /\ Kept' <= Kept BY <2>1, <2>6, ItemsOf, NotParen, MarkKept
  <2>8. Mark' + Kept' <= Mark + Kept + 0 - 0 BY <2>7, Marks
  <2>9. Change(0) BY <1>2, <2>1 DEF Change, Weight
  <2> QED BY <2>1, <2>8, <2>9, Accounted
<1> QED BY <1>3, <1>4

LEMMA NestListLeft ==
  ASSUME NestStart, ReaderInv', ListEmpty \/ ListEnds, ret' # NULL
  PROVE  Nest'
<1>1. /\ stack # <<>> /\ A.fn = "list" /\ stack' = Tail(stack) /\ UNCHANGED <<tok, heap>>
      /\ ret = RPAREN_FOUND
  BY DEF ListEmpty, ListEnds, Returned, Leave, NestStart
<1>2. ret' # RPAREN_FOUND
  <2>1. CASE ListEmpty
    <3>1. ret' = NIL BY <2>1, <1>1, NotParen DEF ListEmpty, Leave, Returns
    <3> QED BY <3>1, NotParen
  <2>2. CASE ListEnds
    <3>1. A.pc = "item" BY <2>2 DEF ListEnds, Returned
    <3>2. Listing(A) BY <1>1, Running DEF Quoting, NestStart
    <3>3. IsRef(A.head) BY <3>1, <3>2 DEF Listing
    <3>4. ret' = A.head BY <2>2 DEF ListEnds, Leave, Returns
    <3> QED BY <3>3, <3>4, NotParen
  <2> QED BY <2>1, <2>2
<1>3. Mark = 1 /\ Mark' = 0 /\ Kept' <= Kept BY <1>1, <1>2, MarkKept
<1>4. Mark' + Kept' <= Mark + Kept + (0 - 1) - 0 BY <1>3, Marks
<1>5. Change(0 - 1) BY <1>1 DEF Change, Weight
<1>6. 0 \in Int OBVIOUS
<1> QED BY <1>1, <1>4, <1>5, <1>6, Accounted

LEMMA NestListHead == ASSUME NestStart, ReaderInv', ListHead PROVE Nest'
<1> DEFINE o == Cell(ret, NIL)
<1>1. PICK r \in Allocate(o, Items(ret)) :
        Proceed(r, /\ Goes([A EXCEPT !.pc = "next", !.head = r.new, !.cur = r.new])
                   /\ heap' = r.heap /\ UNCHANGED tok)
  BY DEF ListHead
<1>2. stack # <<>> /\ A.fn = "list" /\ A.pc = "head" /\ ret # RPAREN_FOUND
  BY DEF ListHead, Returned
<1>3. CASE r.status # "ok" BY <1>1, <1>3, NestSame DEF Proceed
<1>4. CASE r.status = "ok"
  <2> DEFINE v == r.new
             a == [A EXCEPT !.pc = "next", !.head = v, !.cur = v]
  <2>1. ret' = Pending /\ heap' = r.heap /\ stack' = <<a>> \o Tail(stack) /\ tok' = tok
    BY <1>1, <1>4 DEF Proceed, Goes
  <2>2. stack # <<>> => A.pc # "next" BY <1>2
  <2>3. IsObject(o) /\ Contents(o) \subseteq DOMAIN heap /\ Items(ret) \subseteq DOMAIN heap
    BY ItemsOf DEF IsObject, Contents, Cell, ReaderInv, NestStart
  <2>4. o.car = ret BY DEF Cell
  <2> HIDE DEF o
  <2>5. Parens(r.heap) => Parens(heap)
    BY <1>1, <1>2, <1>4, <2>2, <2>3, <2>4, NewObject DEF NestStart
  <2>6. Mark' = 0 /\ Kept' <= Kept BY <2>1, <2>5, NotParen, MarkKept
  <2>7. Mark' + Kept' <= Mark + Kept + 0 - 0 BY <2>6, Marks
  <2>8. a.fn = A.fn
    <3>1. Listing(A) BY <1>2, Running DEF Quoting, NestStart
    <3> DEFINE h == A.head
               c == A.cur
               b == A.obj
               d == A.dot
    <3>2. A = [fn |-> "list", pc |-> "head", head |-> h, cur |-> c, obj |-> b, dot |-> d]
      BY <3>1, <1>2 DEF Listing
    <3>3. a = [A EXCEPT !.pc = "next", !.head = v, !.cur = v] OBVIOUS
    <3> HIDE DEF h, c, b, d, v, a
    <3> QED BY <3>2, <3>3
  <2> HIDE DEF a
  <2>9. Change(0) BY <1>2, <2>1, <2>8 DEF Change
  <2> QED BY <2>1, <2>7, <2>9, Accounted
<1> QED BY <1>3, <1>4

LEMMA NestListNext == ASSUME NestStart, ReaderInv', ListNext PROVE Nest'
<1>1. stack # <<>> /\ A.pc = "next" /\ UNCHANGED <<ret, heap>> BY DEF ListNext
<1>2. CASE tok = 0 BY <1>1, <1>2, NestSame DEF ListNext
<1>3. CASE tok # 0
  <2> DEFINE a == [A EXCEPT !.pc = "item", !.dot = NextDot(@)]
  <2>1. stack' = <<a>> \o Tail(stack) /\ tok' = IF T.tag = "DOT" THEN T.next ELSE tok
    BY <1>3 DEF ListNext
  <2>2. Listing(A) BY <1>1, Running DEF Quoting, NestStart
  <2>3. a.fn = A.fn
    <3> DEFINE h == A.head
               c == A.cur
               b == A.obj
               d == A.dot
               e == NextDot(d)
    <3>1. A = [fn |-> "list", pc |-> "next", head |-> h, cur |-> c, obj |-> b, dot |-> d]
      BY <1>1, <2>2 DEF Listing
    <3>2. a = [A EXCEPT !.pc = "item", !.dot = e] OBVIOUS
    <3> HIDE DEF h, c, b, d, e, a
    <3> QED BY <3>1, <3>2
  <2> HIDE DEF a
  <2>4. Change(0) BY <1>1, <2>1, <2>3 DEF Change
  <2>5. Kept' <= Kept /\ (Mark = 0 => Mark' = 0)
    BY <1>1, MarkKept DEF Mark
  <2>6. Mark' + Kept' <= Mark + Kept + 0 - 0 BY <2>5, Marks
  <2>7. T.tag = "DOT" => Step(T.tag) = 0 BY StepOf
  <2> QED BY <1>3, <2>1, <2>4, <2>6, <2>7, Accounted
<1> QED BY <1>2, <1>3

LEMMA NestListTail == ASSUME NestStart, ReaderInv', ListTail PROVE Nest'
<1> DEFINE a == [A EXCEPT !.pc = "next", !.cur = ret, !.obj = ret]
<1>1. /\ stack # <<>> /\ A.fn = "list" /\ A.pc = "item" /\ ret # RPAREN_FOUND /\ tok' = tok
      /\ heap' = SetCdr(heap, A.cur, ret) /\ ret' = Pending /\ stack' = <<a>> \o Tail(stack)
  BY DEF ListTail, Datum, Returned, Goes
<1>2. Parens(heap') => Parens(heap) BY <1>1, SetCdrKeeps DEF NestStart, ReaderInv
<1>3. Mark' = 0 /\ Kept' <= Kept BY <1>1, <1>2, NotParen, MarkKept
<1>4. Mark' + Kept' <= Mark + Kept + 0 - 0 BY <1>3, Marks
<1>5. a.fn = A.fn
  <2>1. Listing(A) BY <1>1, Running DEF Quoting, NestStart
  <2> DEFINE h == A.head
             c == A.cur
             b == A.obj
             d == A.dot
  <2>2. A = [fn |-> "list", pc |-> "item", head |-> h, cur |-> c, obj |-> b, dot |-> d]
    BY <2>1, <1>1 DEF Listing
  <2>3. a = [A EXCEPT !.pc = "next", !.cur = ret, !.obj = ret] OBVIOUS
  <2> HIDE DEF h, c, b, d, a
  <2> QED BY <2>2, <2>3
<1> HIDE DEF a
<1>6. Change(0) BY <1>1, <1>5 DEF Change
<1> QED BY <1>1, <1>4, <1>6, Accounted

LEMMA NestListItem == ASSUME NestStart, ReaderInv', ListItem PROVE Nest'
<1> DEFINE o == Cell(ret, NIL)
<1>1. PICK r \in Allocate(o, Items(ret)) :
        Proceed(r, /\ heap' = SetCdr(r.heap, A.cur, r.new)
                   /\ Goes([A EXCEPT !.pc = "next", !.cur = r.new, !.obj = ret])
                   /\ UNCHANGED tok)
  BY DEF ListItem
<1>2. stack # <<>> /\ A.fn = "list" /\ A.pc = "item" /\ ret # RPAREN_FOUND
  BY DEF ListItem, Datum, Returned
<1>3. CASE r.status # "ok" BY <1>1, <1>3, NestSame DEF Proceed
<1>4. CASE r.status = "ok"
  <2> DEFINE v == r.new
             a == [A EXCEPT !.pc = "next", !.cur = v, !.obj = ret]
  <2>1. /\ ret' = Pending /\ heap' = SetCdr(r.heap, A.cur, r.new)
        /\ stack' = <<a>> \o Tail(stack) /\ tok' = tok
    BY <1>1, <1>4 DEF Proceed, Goes
  <2>2. stack # <<>> => A.pc # "next" BY <1>2
  <2>3. IsObject(o) /\ Contents(o) \subseteq DOMAIN heap /\ Items(ret) \subseteq DOMAIN heap
    BY ItemsOf DEF IsObject, Contents, Cell, ReaderInv, NestStart
  <2>4. o.car = ret BY DEF Cell
  <2> HIDE DEF o
  <2>5. /\ HeapOK(r.heap) /\ \E i : r.new = Ref(i) /\ i \in DOMAIN r.heap
        /\ Parens(r.heap) => Parens(heap)
    BY <1>1, <1>2, <1>4, <2>2, <2>3, <2>4, NewObject DEF NestStart
  <2>6. Items(r.new) \subseteq DOMAIN r.heap BY <2>5, ItemsOf
  <2>7. Parens(heap') => Parens(heap) BY <2>1, <2>5, <2>6, SetCdrKeeps
  <2>8. Mark' = 0 /\ Kept' <= Kept BY <2>1, <2>7, NotParen, MarkKept
  <2>9. Mark' + Kept' <= Mark + Kept + 0 - 0 BY <2>8, Marks
  <2>10. a.fn = A.fn
    <3>1. Listing(A) BY <1>2, Running DEF Quoting, NestStart
    <3> DEFINE h == A.head
               c == A.cur
               b == A.obj
               d == A.dot
    <3>2. A = [fn |-> "list", pc |-> "item", head |-> h, cur |-> c, obj |-> b, dot |-> d]
      BY <3>1, <1>2 DEF Listing
    <3>3. a = [A EXCEPT !.pc = "next", !.cur = v, !.obj = ret] OBVIOUS
    <3> HIDE DEF h, c, b, d, v, a
    <3> QED BY <3>2, <3>3
  <2> HIDE DEF a
  <2>11. Change(0) BY <1>2, <2>1, <2>10 DEF Change
  <2> QED BY <2>1, <2>9, <2>11, Accounted
<1> QED BY <1>3, <1>4

LEMMA NestRead == ASSUME FormInv, HeapInv, Nest, Read PROVE Nest'
<1> SUFFICES ASSUME ret' # NULL PROVE Nest' BY DEF Nest
<1>1. ParseStep /\ at = "parse" /\ UNCHANGED <<token, top_tok, at>> BY DEF Read
<1>2. ReaderInv' BY <1>1, ReaderStep DEF HeapInv
<1>3. ret # NULL
  <2> SUFFICES ASSUME ret = NULL PROVE ret' = NULL OBVIOUS
  <2>1. ret # Pending BY NotParen
  <2>2. ~(ParseNull \/ ParseImmediate \/ ParseNew \/ ParseList \/ ParseQuote \/ ListNext)
    BY <2>1 DEF ParseNull, ParseImmediate, ParseNew, ParseList, ParseQuote, ListNext, Calling
  <2>3. ~(QuoteInner \/ ListHead \/ ListTail \/ ListAfterTail \/ ListItem)
    BY DEF QuoteInner, ListHead, ListTail, ListAfterTail, ListItem, Datum
  <2>4. ~ListEnds BY NotParen DEF ListEnds
  <2>5. ~QuoteOuter
    <3>1. QuoteOuter => IsRef(ret)
      BY DEF QuoteOuter, Returned, HeapInv, ReaderInv, StackOK
    <3> QED BY <3>1, ItemsOf
  <2>6. QuoteFails \/ ListEmpty \/ ListFails BY <1>1, <2>2, <2>3, <2>4, <2>5 DEF ParseStep
  <2> QED BY <2>6 DEF QuoteFails, ListEmpty, ListFails, Leave, Returns
<1>4. NestStart BY <1>1, <1>3 DEF NestStart, HeapInv
<1>5. ~(ParseNull \/ QuoteFails \/ ListFails \/ ListAfterTail)
  BY DEF ParseNull, QuoteFails, ListFails, ListAfterTail, Leave, Returns
<1> QED BY <1>1, <1>2, <1>4, <1>5, NestImmediate, NestNew, NestPushed, NestQuoteInner,
           NestQuoteOuter, NestListLeft, NestListHead, NestListNext, NestListTail, NestListItem
        DEF ParseStep

(* The parser starts on a form that is balanced, with no list open. *)
LEMMA NestParse == ASSUME FormInv, HeapInv, Parse PROVE Nest'
<1>1. /\ at = "level" /\ tok' = top_tok /\ ret' = Pending /\ at' = "parse"
      /\ UNCHANGED <<stack, heap, top_tok>>
  BY DEF Parse
<1>2. stack = <<>> /\ DOMAIN heap = {} BY <1>1 DEF HeapInv
<1>3. FormInv' BY FormStep DEF Next
<1>4. top_tok' \in 1 .. Len(token') /\ Balanced(token, top_tok, Len(token))'
  BY <1>1, <1>3 DEF FormInv, Whole
<1>5. Len(token') \in Nat /\ top_tok' # 0
  <2>1. TokensOK' BY <1>3 DEF FormInv
  <2>2. PICK V : token' \in Seq(Records(V)) BY <2>1 DEF TokensOK
  <2> QED BY <2>2, <1>4
<1>6. PICK lev : Levels(token', lev, top_tok', Len(token')) /\ lev[top_tok'] = 0
  BY <1>4 DEF Balanced
<1> DEFINE d == [n \in 1 .. 1 |-> 0]
<1>7. Depth(stack', d)
  <2>1. stack' = <<>> /\ Len(<<>>) = 0 /\ Len(<<>>) + 1 = 1 BY <1>1, <1>2
  <2>2. d \in [1 .. 1 -> Nat] /\ d[1] = 0 OBVIOUS
  <2> QED BY <2>1, <2>2 DEF Depth
<1>8. d[1] = 0 OBVIOUS
<1>9. Here' = top_tok' BY <1>1, <1>5 DEF Here
<1>10. Mark' = 0 BY <1>1, NotParen DEF Mark
<1>11. Kept' = 0 BY <1>1, <1>2 DEF Kept, Parens
<1> HIDE DEF d
<1>12. Here' \in top_tok' .. Len(token') + 1 BY <1>9, <1>4, <1>5
<1>13. Nested(lev, d)'
  <2>1. d[1] >= lev[Here'] + Mark' + Kept' BY <1>6, <1>8, <1>9, <1>10, <1>11
  <2> QED BY <1>6, <1>7, <1>12, <2>1 DEF Nested
<1> QED BY <1>13 DEF Nest

ParenInv == Nest /\ (at = "run" => ret # NULL)

LEMMA ParenStep == ASSUME FormInv, HeapInv, ParenInv, [Next]_vars PROVE ParenInv'
<1>1. CASE Read
  <2>1. Nest' BY <1>1, NestRead DEF ParenInv
  <2> QED BY <1>1, <2>1 DEF Read, ParenInv
<1>2. CASE Parse
  <2>1. at' = "parse" BY <1>2 DEF Parse
  <2> QED BY <1>2, <2>1, NestParse DEF ParenInv
<1>3. CASE at \in {"parse", "run"} /\ ret # NULL
           /\ UNCHANGED <<token, tok, stack, ret, heap, top_tok>>
  <2>1. PICK lev, d : Nested(lev, d) BY <1>3 DEF ParenInv, Nest
  <2>2. Here' = Here /\ Mark' = Mark /\ Kept' = Kept BY <1>3 DEF Here, Mark, Kept, Parens
  <2>3. Nested(lev, d)' BY <1>3, <2>1, <2>2 DEF Nested
  <2> QED BY <1>3, <2>3 DEF ParenInv, Nest
<1>4. CASE ClearRoots
  <2>1. at = "parse" /\ ret # NULL /\ UNCHANGED <<token, tok, stack, ret, heap, top_tok>>
    BY <1>4 DEF ClearRoots, Parsed
  <2> QED BY <2>1, <1>3
<1>5. CASE at' \notin {"parse", "run"} BY <1>5 DEF ParenInv, Nest
<1>6. CASE UNCHANGED vars
  <2>1. UNCHANGED <<token, tok, stack, ret, heap, top_tok, at>> BY <1>6 DEF vars, rvars
  <2>2. CASE at \in {"parse", "run"} /\ ret # NULL BY <2>1, <2>2, <1>3
  <2>3. CASE ~(at \in {"parse", "run"} /\ ret # NULL) BY <2>1, <2>3 DEF ParenInv, Nest
  <2> QED BY <2>2, <2>3
<1>7. CASE EndOfInput
  <2>1. at' \notin {"parse", "run"} BY <1>7 DEF EndOfInput, Reading
  <2> QED BY <2>1, <1>5
<1>8. CASE ReadLine \/ Tokenize \/ Discard \/ Continue \/ Run \/ NotRead
  <2>1. at' \notin {"parse", "run"}
    BY <1>8 DEF ReadLine, Tokenize, Discard, Continue, Run, NotRead, FreeForm
  <2> QED BY <2>1, <1>5
<1> QED BY <1>1, <1>2, <1>4, <1>6, <1>7, <1>8 DEF Next

(* RPAREN_FOUND never leaves the reader: when a form has been read to its  *)
(* end no list is open, and every mark the reader returned or a quote kept *)
(* would need one.                                                         *)
THEOREM ParensStayInside == Spec => []ParenStaysInside
<1>1. Init => ParenInv
  <2>1. Init => at = "prompt" BY DEF Init
  <2> QED BY <2>1 DEF ParenInv, Nest
<1>2. FormInv /\ HeapInv /\ ParenInv /\ [Next]_vars => ParenInv' BY ParenStep
<1>3. HeapInv /\ ParenInv => ParenStaysInside
  <2> SUFFICES ASSUME HeapInv, ParenInv, at = "run"
               PROVE  ret # RPAREN_FOUND /\ ~HoldsParen(Reach(Items(ret)))
    BY DEF ParenStaysInside
  <2>1. PICK lev, d : Nested(lev, d) BY DEF ParenInv, Nest
  <2>2. stack = <<>> BY DEF HeapInv
  <2>3. d[1] = 0 BY <2>1, <2>2 DEF Nested, Depth
  <2>4. lev[Here] \in Nat BY <2>1 DEF Nested, Levels
  <2>5. Mark = 0 /\ Kept = 0
    <3>1. Mark \in Nat /\ Kept \in Nat BY MarkKept
    <3>2. 0 >= lev[Here] + Mark + Kept BY <2>1, <2>3 DEF Nested
    <3> DEFINE l == lev[Here]
               m == Mark
               k == Kept
    <3>3. l \in Nat /\ m \in Nat /\ k \in Nat /\ 0 >= l + m + k BY <2>4, <3>1, <3>2
    <3> HIDE DEF l, m, k
    <3>4. m = 0 /\ k = 0 BY <3>3
    <3> QED BY <3>4 DEF m, k
  <2>6. ret # RPAREN_FOUND BY <2>5, MarkKept
  <2>7. ~Parens(heap) BY <2>5 DEF Kept
  <2> QED BY <2>6, <2>7, ParensThere
<1> QED BY <1>1, <1>2, <1>3, FormInvariance, HeapInvariance, PTL DEF Spec
=============================================================================
