------------------------------- MODULE Induction -------------------------------
(***************************************************************************)
(* What the proofs about recursive functions use.  Induction is stated for *)
(* sets of natural numbers (NatInd), and Defined shows that a function     *)
(* which calls itself only where a measure is smaller exists.              *)
(***************************************************************************)
EXTENDS Integers, Sequences, TLAPS, FiniteSetTheorems, SequenceTheorems, WellFoundedInduction

-----------------------------------------------------------------------------
(* Induction and recursion.                                                *)

(* A set of natural numbers that is not empty has a least element. *)
LEMMA LeastNat ==
  ASSUME NEW S, S \subseteq Nat, S # {}
  PROVE  \E n \in S : \A m \in S : n <= m
<1> DEFINE R == {ss \in Nat \X Nat : ss[1] < ss[2]}
<1>1. IsWellFoundedOn(OpToRel(<, Nat), Nat) BY NatLessThanWellFounded
<1>2. OpToRel(<, Nat) = R BY DEF OpToRel
<1>3. IsWellFoundedOn(R, Nat) BY <1>1, <1>2
<1> HIDE DEF R
<1>4. PICK n \in S : \A m \in S : ~(<<m, n>> \in R) BY <1>3, WFMin
<1>5. ASSUME NEW m \in S PROVE n <= m
  <2>1. m \in Nat /\ n \in Nat OBVIOUS
  <2>2. <<m, n>> \notin R BY <1>4
  <2>3. ~(m < n) BY <2>1, <2>2 DEF R
  <2> QED BY <2>1, <2>3
<1> QED BY <1>5

(* A set with zero and with the successor of each of its numbers has all.  *)
LEMMA NatInd ==
  ASSUME NEW S, 0 \in S, \A n \in Nat : n \in S => n + 1 \in S
  PROVE  Nat \subseteq S
<1> SUFFICES ASSUME Nat \ S # {} PROVE FALSE OBVIOUS
<1>1. PICK n \in Nat \ S : \A m \in Nat \ S : n <= m BY LeastNat, Nat \ S \subseteq Nat
<1>2. n # 0 /\ n - 1 \in Nat /\ n - 1 < n OBVIOUS
<1>3. n - 1 \in S BY <1>1, <1>2
<1>4. (n - 1) + 1 \in S BY <1>2, <1>3
<1> QED BY <1>1, <1>4

(* What holds at the beginning and is kept by each step holds all along.   *)
Stays(f, a, b, Q) == f[a] \in Q /\ \A k \in a + 1 .. b : f[k - 1] \in Q => f[k] \in Q
LEMMA Along ==
  ASSUME NEW a \in Nat, NEW b \in Nat, NEW Q, NEW f, Stays(f, a, b, Q)
  PROVE  \A k \in a .. b : f[k] \in Q
<1> DEFINE S == {n \in Nat : a + n <= b => f[a + n] \in Q}
<1>1. 0 \in S BY DEF Stays
<1>2. ASSUME NEW n \in Nat, n \in S PROVE n + 1 \in S
  <2> SUFFICES ASSUME a + (n + 1) <= b PROVE f[a + (n + 1)] \in Q OBVIOUS
  <2>1. a + (n + 1) \in a + 1 .. b /\ (a + (n + 1)) - 1 = a + n /\ a + n <= b OBVIOUS
  <2>2. f[a + n] \in Q BY <1>2, <2>1
  <2> QED BY <2>1, <2>2 DEF Stays
<1> HIDE DEF S
<1>3. Nat \subseteq S BY <1>1, <1>2, NatInd
<1>4. ASSUME NEW k \in a .. b PROVE f[k] \in Q
  <2>1. k - a \in Nat /\ a + (k - a) = k /\ k <= b OBVIOUS
  <2>2. k - a \in S BY <2>1, <1>3
  <2> QED BY <2>1, <2>2 DEF S
<1> QED BY <1>4

(* What g[x] makes of a function f from D to Q depends on the values of f  *)
(* where the measure m is smaller than at x.                               *)
Recursive(D, Q, m, g) ==
  /\ g \in [D -> [[D -> Q] -> Q]]
  /\ \A x \in D : \A f, h \in [D -> Q] :
       (\A y \in D : m[y] < m[x] => f[y] = h[y]) => g[x][f] = g[x][h]
Solves(f, D, g) == \A x \in D : f[x] = g[x][f]

(* Then there is a function whose values are those g makes of it. *)
LEMMA Defined ==
  ASSUME NEW D, NEW Q, Q # {}, NEW N \in Nat, NEW m \in [D -> 0 .. N],
         NEW g, Recursive(D, Q, m, g)
  PROVE  \E f \in [D -> Q] : Solves(f, D, g)
<1> USE DEF Recursive, Solves
<1> DEFINE Upto(n, f) == \A x \in D : m[x] < n => f[x] = g[x][f]
           S == {n \in Nat : \E f \in [D -> Q] : Upto(n, f)}
<1>1. 0 \in S
  <2>1. PICK t \in Q : TRUE OBVIOUS
  <2>2. [x \in D |-> t] \in [D -> Q] OBVIOUS
  <2>3. Upto(0, [x \in D |-> t]) OBVIOUS
  <2> QED BY <2>2, <2>3
<1>2. ASSUME NEW n \in Nat, n \in S PROVE n + 1 \in S
  <2>1. PICK f \in [D -> Q] : Upto(n, f) BY <1>2
  <2> DEFINE h == [x \in D |-> IF m[x] < n THEN f[x] ELSE g[x][f]]
  <2>2. h \in [D -> Q] OBVIOUS
  <2>3. \A y \in D : m[y] < n => h[y] = f[y] OBVIOUS
  <2>4. ASSUME NEW x \in D, m[x] < n + 1 PROVE h[x] = g[x][h]
    <3>1. m[x] \in Nat /\ m[x] <= n BY <2>4
    <3>2. \A y \in D : m[y] < m[x] => f[y] = h[y] BY <3>1, <2>3
    <3> HIDE DEF h
    <3>3. g[x][f] = g[x][h] BY <2>2, <3>2
    <3>4. CASE m[x] < n BY <3>3, <3>4, <2>1, <2>3
    <3>5. CASE m[x] >= n BY <3>3, <3>5, <3>1 DEF h
    <3> QED BY <3>1, <3>4, <3>5
  <2>5. Upto(n + 1, h) BY <2>4
  <2> HIDE DEF h
  <2> QED BY <2>2, <2>5
<1> HIDE DEF S
<1>3. Nat \subseteq S BY <1>1, <1>2, NatInd
<1>4. N + 1 \in S BY <1>3
<1>5. PICK f \in [D -> Q] : Upto(N + 1, f) BY <1>4 DEF S
<1>6. \A x \in D : m[x] < N + 1 OBVIOUS
<1> QED BY <1>5, <1>6

(* A function that makes each value of the one before it. *)
Iterates(f, a, b, Q, z, step) ==
  f \in [a .. b -> Q] /\ \A k \in a .. b : f[k] = IF k = a THEN z ELSE step[k][f[k - 1]]

LEMMA Iteration ==
  ASSUME NEW a \in Nat, NEW b \in Nat, a <= b, NEW Q, NEW z \in Q,
         NEW step, step \in [a + 1 .. b -> [Q -> Q]]
  PROVE  \E f : Iterates(f, a, b, Q, z, step)
<1> DEFINE D == a .. b
           g == [k \in D |-> [f \in [D -> Q] |-> IF k = a THEN z ELSE step[k][f[k - 1]]]]
           m == [k \in D |-> k - a]
<1>1. m \in [D -> 0 .. b - a] /\ b - a \in Nat OBVIOUS
<1>2. ASSUME NEW k \in D, k # a PROVE k \in a + 1 .. b /\ k - 1 \in D /\ m[k - 1] < m[k]
  BY <1>2
<1>3. \A k \in D, f \in [D -> Q] : g[k][f] = IF k = a THEN z ELSE step[k][f[k - 1]] OBVIOUS
<1>4. g \in [D -> [[D -> Q] -> Q]]
  <2>1. ASSUME NEW k \in D, NEW f \in [D -> Q]
        PROVE  (IF k = a THEN z ELSE step[k][f[k - 1]]) \in Q
    BY <1>2
  <2> QED BY <2>1
<1>5. ASSUME NEW k \in D, NEW f \in [D -> Q], NEW h \in [D -> Q],
             \A j \in D : m[j] < m[k] => f[j] = h[j]
      PROVE  g[k][f] = g[k][h]
  <2>1. CASE k = a BY <2>1, <1>3
  <2>2. CASE k # a BY <2>2, <1>2, <1>3, <1>5
  <2> QED BY <2>1, <2>2
<1>6. Recursive(D, Q, m, g) BY <1>4, <1>5 DEF Recursive
<1> HIDE DEF g, m
<1>7. PICK f \in [D -> Q] : Solves(f, D, g) BY <1>1, <1>6, Defined
<1>8. \A k \in D : f[k] = IF k = a THEN z ELSE step[k][f[k - 1]] BY <1>3, <1>7 DEF Solves
<1>9. Iterates(f, a, b, Q, z, step) BY <1>7, <1>8 DEF Iterates
<1> QED BY <1>9

LEMMA FewerElements ==
  ASSUME NEW S, IsFiniteSet(S), NEW R \in SUBSET S, R # S
  PROVE  Cardinality(R) < Cardinality(S) /\ Cardinality(R) \in Nat /\ Cardinality(S) \in Nat
<1>1. IsFiniteSet(R) /\ Cardinality(R) <= Cardinality(S) /\ Cardinality(S) # Cardinality(R)
  BY FS_Subset
<1>2. Cardinality(R) \in Nat /\ Cardinality(S) \in Nat BY <1>1, FS_CardinalityType
<1> QED BY <1>1, <1>2

(* Walking a finite graph from a set of nodes, as many rounds as there are *)
(* nodes reach a set that is closed: every round before that adds a node.  *)
Walks(D, R, start, c, r) ==
  /\ R \in [D -> SUBSET D] /\ start \in SUBSET D /\ r \in [0 .. c -> SUBSET D] /\ r[0] = start
  /\ \A k \in 1 .. c, y \in D : y \in r[k] <=> \E x \in r[k - 1] : y = x \/ y \in R[x]

LEMMA Closure ==
  ASSUME NEW D, IsFiniteSet(D), NEW c \in Nat, Cardinality(D) <= c,
         NEW R, NEW start, NEW r, Walks(D, R, start, c, r)
  PROVE  start \subseteq r[c] /\ \A x \in r[c] : R[x] \subseteq r[c]
<1> USE DEF Walks
<1> DEFINE More(J) == UNION {{x} \cup R[x] : x \in J}
           Shut(J) == \A x \in J : R[x] \subseteq J
<1>1. \A J \in SUBSET D : J \subseteq More(J) /\ (More(J) = J <=> Shut(J))
  <2> SUFFICES ASSUME NEW J \in SUBSET D PROVE J \subseteq More(J) /\ (More(J) = J <=> Shut(J))
    OBVIOUS
  <2>1. \A x \in J : x \in More(J) /\ R[x] \subseteq More(J) OBVIOUS
  <2>2. Shut(J) => More(J) \subseteq J OBVIOUS
  <2> HIDE DEF More
  <2> QED BY <2>1, <2>2
<1> DEFINE S == {k \in Nat : k <= c => /\ start \subseteq r[k]
                                       /\ Shut(r[k]) \/ Cardinality(r[k]) >= k}
<1>2. 0 \in S
  <2>1. IsFiniteSet(start) BY FS_Subset
  <2>2. Cardinality(start) \in Nat BY <2>1, FS_CardinalityType
  <2>3. Cardinality(r[0]) >= 0 BY <2>2
  <2> QED BY <2>3
<1>3. ASSUME NEW k \in Nat, k \in S PROVE k + 1 \in S
  <2> SUFFICES ASSUME k + 1 <= c
               PROVE  /\ start \subseteq r[k + 1]
                      /\ Shut(r[k + 1]) \/ Cardinality(r[k + 1]) >= k + 1
    OBVIOUS
  <2>1. k + 1 \in 1 .. c /\ (k + 1) - 1 = k /\ k \in 0 .. c /\ k <= c OBVIOUS
  <2>2. /\ start \subseteq r[k] /\ (Shut(r[k]) \/ Cardinality(r[k]) >= k)
        /\ r[k] \in SUBSET D /\ r[k + 1] \in SUBSET D
    BY <2>1, <1>3
  <2>6. r[k + 1] = More(r[k])
    <3>1. \A y \in D : y \in r[k + 1] <=> \E x \in r[k] : y = x \/ y \in R[x] BY <2>1
    <3>2. \A y : y \in More(r[k]) <=> \E x \in r[k] : y = x \/ y \in R[x] OBVIOUS
    <3>3. More(r[k]) \subseteq D BY <2>2
    <3> DEFINE new == r[k + 1]
               old == r[k]
    <3>4. new \subseteq D BY <2>2
    <3>5. \A y \in D : y \in new <=> \E x \in old : y = x \/ y \in R[x] BY <3>1
    <3> HIDE DEF More, new, old
    <3>6. \A y : y \in More(old) <=> \E x \in old : y = x \/ y \in R[x] BY <3>2 DEF old
    <3>7. \A y : y \in new <=> y \in More(old) BY <3>3, <3>4, <3>5, <3>6 DEF old
    <3>8. new = More(old) BY <3>7
    <3> QED BY <3>8 DEF new, old
  <2> HIDE DEF More, Shut
  <2>3. CASE Shut(r[k]) BY <2>2, <2>3, <2>6, <1>1
  <2>4. CASE ~Shut(r[k])
    <3>1. r[k] # r[k + 1] /\ r[k] \subseteq r[k + 1] BY <2>2, <2>4, <2>6, <1>1
    <3>2. IsFiniteSet(r[k + 1]) BY <2>2, FS_Subset
    <3>3. /\ Cardinality(r[k]) < Cardinality(r[k + 1])
          /\ Cardinality(r[k]) \in Nat /\ Cardinality(r[k + 1]) \in Nat
      BY <3>1, <3>2, FewerElements
    <3>4. Cardinality(r[k]) >= k BY <2>2, <2>4
    <3>5. Cardinality(r[k + 1]) >= k + 1 BY <3>3, <3>4
    <3> QED BY <3>1, <3>5, <2>2
  <2> QED BY <2>3, <2>4
<1> HIDE DEF S, Shut
<1>4. c \in S BY <1>2, <1>3, NatInd
<1>5. start \subseteq r[c] /\ (Shut(r[c]) \/ Cardinality(r[c]) >= c) BY <1>4 DEF S
<1>6. r[c] \in SUBSET D BY 0 <= c
<1>7. CASE r[c] = D BY <1>5, <1>7
<1>8. CASE r[c] # D
  <2>1. /\ Cardinality(r[c]) < Cardinality(D)
        /\ Cardinality(r[c]) \in Nat /\ Cardinality(D) \in Nat
    BY <1>6, <1>8, FewerElements
  <2>2. ~(Cardinality(r[c]) >= c) BY <2>1
  <2> QED BY <1>5, <2>2 DEF Shut
<1> QED BY <1>7, <1>8

(* From the end of an interval to its beginning. *)
LEMMA Downward ==
  ASSUME NEW a \in Nat, NEW b \in Nat, NEW S,
         \A i \in a .. b : (\A j \in i + 1 .. b : j \in S) => i \in S
  PROVE  a .. b \subseteq S
<1> SUFFICES ASSUME a .. b \ S # {} PROVE FALSE OBVIOUS
<1> DEFINE M == {n \in Nat : b - n \in a .. b \ S}
<1>1. M # {} /\ M \subseteq Nat
  <2>1. PICK i \in a .. b \ S : TRUE OBVIOUS
  <2>2. b - i \in Nat /\ b - (b - i) = i OBVIOUS
  <2> QED BY <2>1, <2>2
<1>2. PICK n \in M : \A k \in M : n <= k BY <1>1, LeastNat
<1>3. b - n \in a .. b OBVIOUS
<1>4. ASSUME NEW j \in b - n + 1 .. b, j \notin S PROVE FALSE
  <2>1. b - j \in Nat /\ b - (b - j) = j /\ j \in a .. b BY <1>3
  <2>2. b - j \in M BY <1>4, <2>1
  <2>3. n <= b - j BY <1>2, <2>2
  <2> QED BY <2>3
<1>5. b - n \in S BY <1>3, <1>4
<1> QED BY <1>5

(* A sequence with one element more in front. *)
LEMMA Cons ==
  ASSUME NEW S, NEW x \in S, NEW q \in Seq(S)
  PROVE  /\ <<x>> \o q \in Seq(S) /\ Len(<<x>> \o q) = Len(q) + 1
         /\ (<<x>> \o q)[1] = x
         /\ \A n \in 2 .. Len(q) + 1 : (<<x>> \o q)[n] = q[n - 1]
         /\ \A n \in DOMAIN q : (<<x>> \o q)[n + 1] = q[n]
<1>1. <<x>> \in Seq(S) /\ Len(<<x>>) = 1 /\ <<x>>[1] = x OBVIOUS
<1>2. Len(q) \in Nat /\ DOMAIN q = 1 .. Len(q) OBVIOUS
<1>3. ASSUME NEW n \in 2 .. Len(q) + 1 PROVE (<<x>> \o q)[n] = q[n - 1]
  <2> DEFINE o == <<x>>
  <2>1. o \in Seq(S) /\ Len(o) = 1 BY <1>1
  <2> HIDE DEF o
  <2>2. n \in 1 .. Len(o) + Len(q) /\ ~(n <= Len(o)) /\ q \in Seq(S) BY <2>1, <1>2
  <2>3. (o \o q)[n] = q[n - Len(o)] BY <2>1, <2>2, ConcatProperties
  <2> QED BY <2>1, <2>3 DEF o
<1>4. ASSUME NEW n \in DOMAIN q PROVE (<<x>> \o q)[n + 1] = q[n]
  <2>1. n + 1 \in 2 .. Len(q) + 1 /\ (n + 1) - 1 = n BY <1>2
  <2> QED BY <2>1, <1>3
<1> QED BY <1>1, <1>2, <1>3, <1>4

(* A finite set has subsets of every size up to its own, and takes one in  *)
(* without putting two elements in one place.                              *)
LEMMA SubsetOfSize ==
  ASSUME NEW T, IsFiniteSet(T), NEW n \in Nat, n <= Cardinality(T)
  PROVE  \E G \in SUBSET T : Cardinality(G) = n
<1> DEFINE Q == {k \in Nat : k <= Cardinality(T) => \E G \in SUBSET T : Cardinality(G) = k}
<1>1. Cardinality(T) \in Nat BY FS_CardinalityType
<1>2. 0 \in Q BY FS_EmptySet
<1>3. ASSUME NEW k \in Nat, k \in Q PROVE k + 1 \in Q
  <2> SUFFICES ASSUME k + 1 <= Cardinality(T) PROVE \E G \in SUBSET T : Cardinality(G) = k + 1
    OBVIOUS
  <2>1. PICK G \in SUBSET T : Cardinality(G) = k BY <1>1, <1>3
  <2>2. IsFiniteSet(G) BY FS_Subset
  <2>3. G # T BY <2>1, <1>1
  <2>4. PICK x \in T : x \notin G BY <2>3
  <2>5. Cardinality(G \cup {x}) = k + 1 BY <2>1, <2>2, <2>4, FS_AddElement
  <2> QED BY <2>4, <2>5
<1> HIDE DEF Q
<1>4. Nat \subseteq Q BY <1>2, <1>3, NatInd
<1>5. n \in Q BY <1>4
<1> QED BY <1>5 DEF Q

Apart(f, S) == \A x, y \in S : x # y => f[x] # f[y]
LEMMA Fits ==
  ASSUME NEW S, IsFiniteSet(S), NEW T, IsFiniteSet(T), Cardinality(S) <= Cardinality(T)
  PROVE  \E f \in [S -> T] : Apart(f, S)
<1>1. Cardinality(S) \in Nat BY FS_CardinalityType
<1>2. PICK G \in SUBSET T : Cardinality(G) = Cardinality(S) BY <1>1, SubsetOfSize
<1>3. IsFiniteSet(G) BY FS_Subset
<1>4. ExistsBijection(S, G) BY <1>2, <1>3, FS_SameCardinalityBij
<1>5. PICK f \in [S -> G] : Apart(f, S)
  BY <1>4 DEF ExistsBijection, Bijection, Injection, IsInjective, Apart
<1>6. f \in [S -> T] OBVIOUS
<1> QED BY <1>5, <1>6

LEMMA ImageSize ==
  ASSUME NEW S, IsFiniteSet(S), NEW f, Apart(f, S), NEW T, T = {f[x] : x \in S}
  PROVE  IsFiniteSet(T) /\ Cardinality(T) = Cardinality(S)
<1> DEFINE g == [x \in S |-> f[x]]
<1>1. g \in Bijection(S, T) BY DEF Apart, Bijection, Injection, IsInjective, Surjection
<1>2. ExistsBijection(S, T) BY <1>1 DEF ExistsBijection
<1> QED BY <1>2, FS_Bijection

LEMMA SizeWithout ==
  ASSUME NEW S, IsFiniteSet(S), NEW T, T \subseteq S
  PROVE  IsFiniteSet(S \ T) /\ Cardinality(S \ T) = Cardinality(S) - Cardinality(T)
<1>1. IsFiniteSet(S \ T) /\ Cardinality(S \ T) = Cardinality(S) - Cardinality(S \cap T)
  BY FS_Difference
<1>2. S \cap T = T OBVIOUS
<1> QED BY <1>1, <1>2
=============================================================================
