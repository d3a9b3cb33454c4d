------------------------------ MODULE ReplProofs ------------------------------
(***************************************************************************)
(* Proofs about module Repl, for every size of the buffer and of a word    *)
(* and for every set of inputs.                                            *)
(*                                                                         *)
(* The recursive functions of Tokenizer, Reader and Repl go along a line,  *)
(* a chain of tokens or a number of rounds; module Induction shows that    *)
(* functions like these exist.                                             *)
(***************************************************************************)
EXTENDS Repl, Induction

-----------------------------------------------------------------------------
(* Tokens.                                                                 *)

(* A link leads to a younger token. *)
Tags == {"LPAREN", "RPAREN", "QUOTE", "DOT", "TRUE", "FALSE", "INT", "STR", "IDENT", "bad", "stray"}
Records(V) == [tag : Tags, val : V, next : Nat, freed : Nat]
Links(tk) == \A i \in DOMAIN tk : tk[i].next = 0 \/ tk[i].next \in i + 1 .. Len(tk)
(* The tokens from a to b, each linked to the one after it. *)
Row(tk, a, b) ==
  /\ \A i \in a .. b - 1 : tk[i].next = i + 1
  /\ tk[b].next = 0

(* Chain obeys its recursion. *)
LEMMA ChainStep ==
  ASSUME NEW V, token \in Seq(Records(V)), Links(token)
  PROVE  /\ Chain(0) = <<>>
         /\ \A i \in DOMAIN token : Chain(i) = <<i>> \o Chain(token[i].next)
<1> DEFINE N == Len(token)
           D == 0 .. N
           Q == Seq(Nat)
           E(f) == [i \in D |-> IF i = 0 THEN <<>> ELSE <<i>> \o f[token[i].next]]
           c == CHOOSE f : f = E(f)
           g == [i \in D |-> [f \in [D -> Q] |-> IF i = 0 THEN <<>> ELSE <<i>> \o f[token[i].next]]]
           m == [i \in D |-> IF i = 0 THEN 0 ELSE N + 1 - i]
<1>1. N \in Nat /\ DOMAIN token = 1 .. N /\ \A i \in 1 .. N : token[i].next \in D
  BY DEF Links, Records
<1>2. m \in [D -> 0 .. N] BY <1>1
<1>3. \A i \in D, f \in [D -> Q] : g[i][f] = IF i = 0 THEN <<>> ELSE <<i>> \o f[token[i].next]
  OBVIOUS
<1>4. g \in [D -> [[D -> Q] -> Q]]
  <2>1. ASSUME NEW i \in D, NEW f \in [D -> Q]
        PROVE  (IF i = 0 THEN <<>> ELSE <<i>> \o f[token[i].next]) \in Q
    <3>1. CASE i = 0 BY <3>1
    <3>2. CASE i # 0
      <4>1. f[token[i].next] \in Seq(Nat) BY <1>1, <3>2
      <4>2. <<i>> \in Seq(Nat) BY <1>1
      <4> QED BY <3>2, <4>1, <4>2
    <3> QED BY <3>1, <3>2
  <2> QED BY <2>1
<1>5. ASSUME NEW x \in D, NEW f \in [D -> Q], NEW h \in [D -> Q],
             \A y \in D : m[y] < m[x] => f[y] = h[y]
      PROVE  g[x][f] = g[x][h]
  <2>1. CASE x = 0 BY <2>1, <1>3
  <2>2. CASE x # 0
    <3>1. token[x].next \in D BY <1>1, <2>2
    <3>2. m[x] = N + 1 - x /\ x \in 1 .. N BY <2>2
    <3>3. token[x].next = 0 \/ token[x].next \in x + 1 .. N BY <3>2, <1>1 DEF Links
    <3>4. m[token[x].next] < m[x] BY <3>1, <3>2, <3>3, <1>1
    <3>5. f[token[x].next] = h[token[x].next] BY <1>5, <3>1, <3>4
    <3> QED BY <2>2, <3>5, <1>3
  <2> QED BY <2>1, <2>2
<1>6. \E f : f = E(f)
  <2>1. Q # {}
    <3>1. <<>> \in Q OBVIOUS
    <3> QED BY <3>1
  <2>3. Recursive(D, Q, m, g) BY <1>4, <1>5 DEF Recursive
  <2>4. N \in Nat BY <1>1
  <2> HIDE DEF g, m, D, Q, N
  <2>2. PICK f \in [D -> Q] : Solves(f, D, g)
    BY <1>2, <2>1, <2>3, <2>4, Defined
  <2>5. \A x \in D : f[x] = IF x = 0 THEN <<>> ELSE <<x>> \o f[token[x].next] BY <2>2, <1>3 DEF Solves
  <2> QED BY <2>2, <2>5
<1>7. c = E(c) BY <1>6
<1>8. \A t : Chain(t) = c[t] BY DEF Chain
<1> HIDE DEF c
<1>9. \A i \in D : c[i] = IF i = 0 THEN <<>> ELSE <<i>> \o c[token[i].next] BY <1>7
<1>10. 0 \in D /\ \A i \in 1 .. N : i \in D /\ i # 0 BY <1>1
<1> HIDE DEF D
<1>11. c[0] = <<>> BY <1>9, <1>10
<1>12. \A i \in 1 .. N : c[i] = <<i>> \o c[token[i].next] BY <1>9, <1>10
<1> QED BY <1>1, <1>8, <1>11, <1>12

(* A row is its own chain. *)
Upto(a, b) == [n \in 1 .. b - a + 1 |-> a + n - 1]
LEMMA RowChain ==
  ASSUME NEW V, token \in Seq(Records(V)), Links(token),
         NEW a \in DOMAIN token, NEW b \in a .. Len(token), Row(token, a, b)
  PROVE  \A i \in a .. b : Chain(i) = Upto(i, b)
<1> DEFINE S == {i \in a .. b : Chain(i) = Upto(i, b)}
<1>1. DOMAIN token = 1 .. Len(token) /\ a \in Nat /\ b \in Nat /\ a .. b \subseteq DOMAIN token
  OBVIOUS
<1>2. ASSUME NEW i \in a .. b, \A j \in i + 1 .. b : j \in S PROVE i \in S
  <2>1. Chain(i) = <<i>> \o Chain(token[i].next) /\ Chain(0) = <<>> BY ChainStep, <1>1
  <2>2. CASE i = b
    <3>1. Chain(i) = <<i>> \o <<>> BY <2>1, <2>2 DEF Row
    <3>2. <<i>> \o <<>> = Upto(i, b) BY <2>2, <1>1 DEF Upto
    <3> QED BY <3>1, <3>2
  <2>3. CASE i < b
    <3>1. token[i].next = i + 1 /\ i + 1 \in a .. b BY <2>3, <1>1 DEF Row
    <3>2. Chain(i) = <<i>> \o Upto(i + 1, b) BY <2>1, <3>1, <1>2, <1>1
    <3>3. Upto(i + 1, b) \in Seq(Nat) /\ Len(Upto(i + 1, b)) = b - i
      BY <1>1, <2>3 DEF Upto
    <3>4. \A n \in 1 .. b - i : Upto(i + 1, b)[n] = i + n BY <1>1 DEF Upto
    <3> DEFINE u == Upto(i + 1, b)
    <3> DEFINE w == <<i>> \o u
    <3>5. w \in Seq(Nat) /\ Len(w) = b - i + 1 /\ w[1] = i
          /\ \A n \in 2 .. b - i + 1 : w[n] = u[n - 1]
      BY <3>3, <1>1, Cons
    <3> HIDE DEF u, w
    <3>6. ASSUME NEW n \in 1 .. b - i + 1 PROVE w[n] = i + n - 1
      <4>1. CASE n = 1 BY <4>1, <3>5, <1>1
      <4>2. CASE n # 1
        <5>1. n \in 2 .. b - i + 1 /\ n - 1 \in 1 .. b - i BY <4>2, <1>1
        <5>2. w[n] = u[n - 1] BY <3>5, <5>1
        <5>3. u[n - 1] = i + (n - 1) BY <3>4, <5>1 DEF u
        <5> QED BY <5>1, <5>2, <5>3, <1>1
      <4> QED BY <4>1, <4>2
    <3>7. w = [n \in 1 .. b - i + 1 |-> i + n - 1]
      <4>1. w = [n \in 1 .. Len(w) |-> w[n]] BY <3>5
      <4> QED BY <4>1, <3>5, <3>6
    <3>8. w = Upto(i, b) BY <3>7 DEF Upto
    <3> QED BY <3>2, <3>8 DEF u, w
  <2> QED BY <2>2, <2>3, <1>1
<1> HIDE DEF S
<1>3. a .. b \subseteq S BY <1>1, <1>2, Downward
<1> QED BY <1>3 DEF S

\* the tokens a function like Freed and OwnedTokens collects from a row
LEMMA RowIds ==
  ASSUME NEW V, token \in Seq(Records(V)), Links(token),
         NEW a \in DOMAIN token, NEW b \in a .. Len(token), Row(token, a, b)
  PROVE  /\ Chain(a) \in Seq(Nat) /\ DOMAIN Chain(a) = 1 .. b - a + 1
         /\ \A n \in 1 .. b - a + 1 : Chain(a)[n] = a + n - 1
         /\ {Chain(a)[n] : n \in DOMAIN Chain(a)} = a .. b
<1>1. a \in Nat /\ b \in Nat /\ a \in a .. b OBVIOUS
<1>2. Chain(a) = Upto(a, b) BY <1>1, RowChain
<1>3. Chain(a) = [n \in 1 .. b - a + 1 |-> a + n - 1] BY <1>2 DEF Upto
<1>4. ASSUME NEW i \in a .. b PROVE \E n \in 1 .. b - a + 1 : a + n - 1 = i
  <2>1. i - a + 1 \in 1 .. b - a + 1 /\ a + (i - a + 1) - 1 = i BY <1>1
  <2> QED BY <2>1
<1>5. \A n \in 1 .. b - a + 1 : a + n - 1 \in a .. b /\ a + n - 1 \in Nat BY <1>1
<1>6. b - a + 1 \in Nat BY <1>1
<1> DEFINE k == b - a + 1
           c == Chain(a)
<1> HIDE DEF k
<1>7. c = [n \in 1 .. k |-> a + n - 1] BY <1>3 DEF k
<1> HIDE DEF c
<1>8. DOMAIN c = 1 .. k /\ \A n \in 1 .. k : c[n] = a + n - 1 BY <1>7
<1>9. c \in Seq(Nat)
  <2>1. c \in [1 .. k -> Nat] BY <1>7, <1>5 DEF k
  <2> QED BY <2>1, <1>6 DEF k
<1>10. {c[n] : n \in DOMAIN c} = a .. b
  <2>1. \A n \in DOMAIN c : c[n] \in a .. b BY <1>8, <1>5 DEF k
  <2>2. \A i \in a .. b : \E n \in DOMAIN c : c[n] = i BY <1>8, <1>4 DEF k
  <2> QED BY <2>1, <2>2
<1> QED BY <1>8, <1>9, <1>10 DEF c, k

(* The level before each token of a row; only after a quote may it be 0.   *)
Levels(tk, lev, a, b) ==
  /\ lev \in [a .. b + 1 -> Nat]
  /\ \A i \in a .. b : lev[i + 1] = lev[i] + Step(tk[i].tag)
Open(tk, lev, a, b) == \A i \in a .. b : lev[i + 1] = 0 => tk[i].tag = "QUOTE"

LEMMA StepType == \A tag : Step(tag) \in Int BY DEF Step

(* get_paren_level obeys its recursion. *)
LEMMA LevelStep ==
  ASSUME NEW V, token \in Seq(Records(V)), Links(token)
  PROVE  \A i \in DOMAIN token, before \in Int :
           LET now == before + Step(token[i].tag)
               last == token[i].next = 0
           IN get_paren_level(before, i) =
                IF now = 0 /\ (token[i].tag = "QUOTE") = last THEN [level |-> -1, end |-> i]
                ELSE IF now < 0 \/ last THEN [level |-> now, end |-> i]
                ELSE get_paren_level(now, token[i].next)
<1> DEFINE N == Len(token)
           D == DOMAIN token
           Q == [Int -> [level : Int, end : Nat]]
           B(f, i, before) ==
             LET now == before + Step(token[i].tag)
                 last == token[i].next = 0
             IN IF now = 0 /\ (token[i].tag = "QUOTE") = last THEN [level |-> -1, end |-> i]
                ELSE IF now < 0 \/ last THEN [level |-> now, end |-> i]
                ELSE f[token[i].next][now]
           E(f) == [i \in D |-> [before \in Int |-> B(f, i, before)]]
           c == CHOOSE f : f = E(f)
           g == [i \in D |-> [f \in [D -> Q] |-> [before \in Int |-> B(f, i, before)]]]
           m == [i \in D |-> N - i]
<1>1. N \in Nat /\ D = 1 .. N OBVIOUS
<1>2. m \in [D -> 0 .. N] BY <1>1
<1>10. ASSUME NEW i \in D, token[i].next # 0
       PROVE  token[i].next \in D /\ m[token[i].next] < m[i]
  <2>1. token[i].next \in i + 1 .. N BY <1>10 DEF Links
  <2>2. token[i].next \in D BY <2>1, <1>1
  <2>3. i \in Nat /\ token[i].next \in Nat /\ i < token[i].next BY <2>1, <1>1
  <2>4. m[token[i].next] = N - token[i].next /\ m[i] = N - i BY <2>2
  <2> QED BY <2>2, <2>3, <2>4, <1>1
<1>3. \A i \in D, f \in [D -> Q] : g[i][f] = [before \in Int |-> B(f, i, before)] OBVIOUS
<1>4. g \in [D -> [[D -> Q] -> Q]]
  <2>1. ASSUME NEW i \in D, NEW f \in [D -> Q], NEW before \in Int
        PROVE  B(f, i, before) \in [level : Int, end : Nat]
    <3>1. before + Step(token[i].tag) \in Int
      <4>1. Step(token[i].tag) \in Int BY StepType
      <4> QED BY <4>1
    <3>2. i \in Nat BY <1>1
    <3>3. CASE token[i].next = 0 BY <3>1, <3>2, <3>3
    <3>4. CASE token[i].next # 0
      <4>1. token[i].next \in D BY <1>10, <3>4
      <4>2. f[token[i].next][before + Step(token[i].tag)] \in [level : Int, end : Nat]
        BY <3>1, <4>1
      <4> QED BY <3>1, <3>2, <4>2
    <3> QED BY <3>3, <3>4
  <2> HIDE DEF B
  <2> QED BY <2>1
<1>5. ASSUME NEW x \in D, NEW f \in [D -> Q], NEW h \in [D -> Q],
             \A y \in D : m[y] < m[x] => f[y] = h[y]
      PROVE  g[x][f] = g[x][h]
  <2>1. CASE token[x].next = 0
    <3>1. \A before \in Int : B(f, x, before) = B(h, x, before) BY <2>1
    <3> HIDE DEF B
    <3> QED BY <3>1, <1>3
  <2>2. CASE token[x].next # 0
    <3>1. token[x].next \in D /\ m[token[x].next] < m[x] BY <1>10, <2>2
    <3>2. f[token[x].next] = h[token[x].next] BY <1>5, <3>1
    <3>3. \A before \in Int : B(f, x, before) = B(h, x, before) BY <3>2
    <3> HIDE DEF B
    <3> QED BY <3>3, <1>3
  <2> QED BY <2>1, <2>2
<1>6. \E f : f = E(f)
  <2>1. Q # {}
    <3>1. [before \in Int |-> [level |-> 0, end |-> 0]] \in Q OBVIOUS
    <3> QED BY <3>1
  <2>2. Recursive(D, Q, m, g) BY <1>4, <1>5 DEF Recursive
  <2>3. N \in Nat BY <1>1
  <2> HIDE DEF g, m, D, Q, N, B
  <2>4. PICK f \in [D -> Q] : Solves(f, D, g) BY <1>2, <2>1, <2>2, <2>3, Defined
  <2>5. \A x \in D : f[x] = [before \in Int |-> B(f, x, before)] BY <2>4, <1>3 DEF Solves
  <2> QED BY <2>4, <2>5
<1>7. c = E(c) BY <1>6
<1>8. \A t, before : get_paren_level(before, t) = c[t][before] BY DEF get_paren_level
<1> HIDE DEF c, B
<1>9. \A i \in D, before \in Int : c[i][before] = B(c, i, before) BY <1>7
<1> QED BY <1>8, <1>9 DEF B

(* A line whose level is not negative was looked at to its end. *)
Looked(a, before, r) ==
  LET b == Len(token) IN
  /\ r.end = b /\ r.level \in Nat
  /\ \E lev : /\ Levels(token, lev, a, b) /\ lev[a] = before /\ lev[b + 1] = r.level
              /\ Open(token, lev, a, b - 1)
              /\ r.level = 0 => token[b].tag # "QUOTE"

LEMMA LevelRow ==
  ASSUME NEW V, token \in Seq(Records(V)), Links(token),
         NEW a \in DOMAIN token, Row(token, a, Len(token))
  PROVE  \A before \in Nat :
           get_paren_level(before, a).level >= 0 => Looked(a, before, get_paren_level(before, a))
<1> DEFINE N == Len(token)
           L(before, i) == get_paren_level(before, i)
           S == {i \in a .. N : \A before \in Nat : L(before, i).level >= 0 => Looked(i, before, L(before, i))}
<1>1. N \in Nat /\ a \in Nat /\ a \in 1 .. N /\ DOMAIN token = 1 .. N /\ a .. N \subseteq 1 .. N
  OBVIOUS
<1>2. ASSUME NEW i \in a .. N, \A j \in i + 1 .. N : j \in S PROVE i \in S
  <2> SUFFICES ASSUME NEW before \in Nat, L(before, i).level >= 0
               PROVE  Looked(i, before, L(before, i))
    OBVIOUS
  <2> DEFINE now == before + Step(token[i].tag)
             r == L(before, i)
  <2>1. now \in Int /\ i \in Nat /\ i \in DOMAIN token
    <3>1. Step(token[i].tag) \in Int BY StepType
    <3> QED BY <3>1, <1>1
  <2>2. r = IF now = 0 /\ (token[i].tag = "QUOTE") = (token[i].next = 0)
            THEN [level |-> -1, end |-> i]
            ELSE IF now < 0 \/ token[i].next = 0 THEN [level |-> now, end |-> i]
            ELSE L(now, token[i].next)
    BY LevelStep, <2>1
  <2>3. ~(now = 0 /\ (token[i].tag = "QUOTE") = (token[i].next = 0))
    <3> SUFFICES ASSUME now = 0 /\ (token[i].tag = "QUOTE") = (token[i].next = 0) PROVE FALSE
      OBVIOUS
    <3> HIDE DEF L, now
    <3>1. r = [level |-> -1, end |-> i] BY <2>2
    <3>2. r.level = -1 BY <3>1
    <3> QED BY <3>2 DEF r
  <2>4. ~(now < 0)
    <3> SUFFICES ASSUME now < 0 PROVE FALSE OBVIOUS
    <3> HIDE DEF L, now
    <3>1. r = [level |-> now, end |-> i] BY <2>2, <2>3
    <3>2. r.level = now BY <3>1
    <3> QED BY <3>2, <2>1 DEF r
  <2> DEFINE cont(lev) == [k \in i .. N + 1 |-> IF k = i THEN before ELSE lev[k]]
  <2>5. CASE i = N
    <3>1. token[i].next = 0 BY <2>5 DEF Row
    <3>2. r = [level |-> now, end |-> i]
      <4> HIDE DEF L, now
      <4> QED BY <2>2, <2>3, <3>1
    <3> DEFINE lev == [k \in i .. N + 1 |-> IF k = i THEN before ELSE now]
    <3>3. r.level = now /\ r.end = N /\ now \in Nat BY <3>2, <2>5, <2>1, <2>4
    <3>4. lev[i] = before /\ lev[N + 1] = now /\ lev[i + 1] = now BY <2>5, <2>1
    <3>5. lev \in [i .. N + 1 -> Nat] BY <3>3
    <3> HIDE DEF lev
    <3>6. Levels(token, lev, i, N) BY <3>4, <3>5, <2>5, <1>1 DEF Levels
    <3>7. Open(token, lev, i, N - 1) BY <2>5, <1>1 DEF Open
    <3>8. now = 0 => token[N].tag # "QUOTE" BY <2>3, <3>1, <2>5
    <3> HIDE DEF r, now
    <3> QED BY <3>3, <3>4, <3>6, <3>7, <3>8 DEF Looked, r
  <2>6. CASE i < N
    <3>1. token[i].next = i + 1 /\ i + 1 \in i + 1 .. N /\ i + 1 # 0 BY <2>6, <2>1, <1>1 DEF Row
    <3>2. r = L(now, i + 1)
      <4> HIDE DEF L, now
      <4> QED BY <2>2, <2>3, <2>4, <3>1
    <3>3. now \in Nat BY <2>1, <2>4
    <3>4. i + 1 \in S BY <1>2, <3>1
    <3>5. Looked(i + 1, now, r)
      <4>1. \A b \in Nat : L(b, i + 1).level >= 0 => Looked(i + 1, b, L(b, i + 1)) BY <3>4
      <4> HIDE DEF L, now
      <4>2. L(now, i + 1).level >= 0 BY <3>2 DEF r
      <4> QED BY <4>1, <4>2, <3>2, <3>3
    <3> HIDE DEF L, r
    <3>6. PICK lev : /\ Levels(token, lev, i + 1, N) /\ lev[i + 1] = now /\ lev[N + 1] = r.level
                     /\ Open(token, lev, i + 1, N - 1)
                     /\ r.level = 0 => token[N].tag # "QUOTE"
      BY <3>5 DEF Looked
    <3>7. r.end = N /\ r.level \in Nat BY <3>5 DEF Looked
    <3> DEFINE lv == cont(lev)
    <3>8. /\ lv[i] = before /\ \A k \in i + 1 .. N + 1 : lv[k] = lev[k]
          /\ lv \in [i .. N + 1 -> Nat]
      BY <3>6, <1>1, <2>1 DEF Levels
    <3> HIDE DEF lv
    <3>9. Levels(token, lv, i, N)
      <4>1. ASSUME NEW k \in i .. N PROVE lv[k + 1] = lv[k] + Step(token[k].tag)
        <5>1. CASE k = i BY <5>1, <3>6, <3>8, <2>6, <2>1, <1>1
        <5>2. CASE k # i
          <6>1. k \in i + 1 .. N /\ k \in i + 1 .. N + 1 /\ k + 1 \in i + 1 .. N + 1 BY <5>2, <2>1, <1>1
          <6> QED BY <6>1, <3>6, <3>8 DEF Levels
        <5> QED BY <5>1, <5>2
      <4> QED BY <4>1, <3>8 DEF Levels
    <3>10. Open(token, lv, i, N - 1)
      <4>1. ASSUME NEW k \in i .. N - 1, lv[k + 1] = 0 PROVE token[k].tag = "QUOTE"
        <5>1. CASE k = i
          <6>1. now = 0 BY <5>1, <4>1, <3>6, <3>8, <2>6, <2>1, <1>1
          <6> QED BY <6>1, <2>3, <3>1, <5>1
        <5>2. CASE k # i
          <6>1. k \in i + 1 .. N - 1 /\ k + 1 \in i + 1 .. N + 1 BY <5>2, <2>1, <1>1
          <6> QED BY <6>1, <4>1, <3>6, <3>8 DEF Open
        <5> QED BY <5>1, <5>2
      <4> QED BY <4>1 DEF Open
    <3>11. lv[N + 1] = r.level BY <3>6, <3>8, <2>6, <2>1, <1>1
    <3>12. Looked(i, before, r) BY <3>6, <3>7, <3>8, <3>9, <3>10, <3>11 DEF Looked
    <3> QED BY <3>12 DEF r, L
  <2> HIDE DEF L, N
  <2>7. i = N \/ i < N BY <1>1, <2>1
  <2> QED BY <2>5, <2>6, <2>7
<1> HIDE DEF S
<1>3. a .. N \subseteq S BY <1>1, <1>2, Downward
<1>4. a \in S BY <1>1, <1>3
<1> QED BY <1>4 DEF S

-----------------------------------------------------------------------------
(* The tokenizer.                                                          *)

LEMMA CharType ==
  ASSUME NEW W, NEW buf \in Seq(W)
  PROVE  /\ Len(buf) \in Nat /\ DOMAIN buf = 1 .. Len(buf)
         /\ \A p \in 1 .. Len(buf) : Char(buf, p) = buf[p]
         /\ \A p \in Nat : p > Len(buf) => Char(buf, p) = Unknown
         /\ Char(buf, 0) = Unknown
  BY DEF Char

(* How far a position is from the end of the buffer. *)
Left(b) == [p \in Nat |-> IF p <= b THEN b + 1 - p ELSE 0]
LEMMA LeftType ==
  ASSUME NEW b \in Nat
  PROVE  /\ Left(b) \in [Nat -> 0 .. b + 1]
         /\ \A p \in Nat, q \in Nat : p <= b /\ p < q => Left(b)[q] < Left(b)[p]
<1>1. \A p \in Nat : (IF p <= b THEN b + 1 - p ELSE 0) \in 0 .. b + 1 OBVIOUS
<1>2. ASSUME NEW p \in Nat, NEW q \in Nat, p <= b, p < q PROVE Left(b)[q] < Left(b)[p]
  <2>1. Left(b)[p] = b + 1 - p /\ Left(b)[p] > 0 BY <1>2 DEF Left
  <2>2. Left(b)[q] = IF q <= b THEN b + 1 - q ELSE 0 BY DEF Left
  <2> QED BY <1>2, <2>1, <2>2
<1> QED BY <1>1, <1>2 DEF Left

(* string_literal_end obeys its recursion. *)
EndBody(buf, f, q) ==
  CASE Char(buf, q) = NUL -> Unclosed
    [] Char(buf, q) \in {"\"", Unknown} -> q
    [] Char(buf, q) = "\\" -> f[q + 2]
    [] OTHER -> f[q + 1]
LEMMA EndCases ==
  ASSUME NEW buf, NEW f, NEW q \in Nat
  PROVE  /\ Char(buf, q) = NUL => EndBody(buf, f, q) = 0
         /\ Char(buf, q) \in {"\"", Unknown} => EndBody(buf, f, q) = q
         /\ Char(buf, q) = "\\" => EndBody(buf, f, q) = f[q + 2]
         /\ Char(buf, q) \notin {NUL, "\"", Unknown, "\\"} => EndBody(buf, f, q) = f[q + 1]
         /\ EndBody(buf, f, q) \in {0, q, f[q + 1], f[q + 2]}
<1>1. NUL \notin {"\"", Unknown} /\ "\\" \notin {"\"", Unknown} /\ "\\" # NUL BY DEF NUL, Unknown
<1> QED BY <1>1 DEF EndBody, Unclosed

LEMMA EndStep ==
  ASSUME NEW W, NEW buf \in Seq(W)
  PROVE  \E c : /\ \A p : string_literal_end(buf, p) = c[p]
                /\ \A q \in Nat : c[q] = EndBody(buf, c, q)
<1> DEFINE b == Len(buf)
           E(f) == [q \in Nat |->
                      CASE Char(buf, q) = NUL -> Unclosed
                        [] Char(buf, q) \in {"\"", Unknown} -> q
                        [] Char(buf, q) = "\\" -> f[q + 2]
                        [] OTHER -> f[q + 1]]
           c == CHOOSE f : f = E(f)
           g == [q \in Nat |-> [f \in [Nat -> Nat] |-> EndBody(buf, f, q)]]
<1>1. b \in Nat /\ b + 1 \in Nat BY CharType
<1>2. \A f : E(f) = [q \in Nat |-> EndBody(buf, f, q)] BY DEF EndBody
<1>3. \A q \in Nat, f \in [Nat -> Nat] : g[q][f] = EndBody(buf, f, q) OBVIOUS
<1>4. g \in [Nat -> [[Nat -> Nat] -> Nat]]
  <2>1. ASSUME NEW q \in Nat, NEW f \in [Nat -> Nat] PROVE EndBody(buf, f, q) \in Nat
    <3>1. f[q + 1] \in Nat /\ f[q + 2] \in Nat OBVIOUS
    <3>2. EndBody(buf, f, q) \in {0, q, f[q + 1], f[q + 2]} BY EndCases
    <3> QED BY <3>1, <3>2
  <2> QED BY <2>1
<1>5. ASSUME NEW q \in Nat, NEW f \in [Nat -> Nat], NEW h \in [Nat -> Nat],
             \A y \in Nat : Left(b)[y] < Left(b)[q] => f[y] = h[y]
      PROVE  g[q][f] = g[q][h]
  <2>1. CASE q > b \/ q = 0
    <3>1. Char(buf, q) = Unknown BY <2>1, CharType
    <3>2. EndBody(buf, f, q) = q /\ EndBody(buf, h, q) = q BY <3>1, EndCases
    <3> QED BY <3>2, <1>3
  <2>2. CASE ~(q > b \/ q = 0)
    <3>1. Left(b)[q + 1] < Left(b)[q] /\ Left(b)[q + 2] < Left(b)[q] BY <2>2, <1>1, LeftType
    <3>2. f[q + 1] = h[q + 1] /\ f[q + 2] = h[q + 2] BY <3>1, <1>5
    <3>3. EndBody(buf, f, q) = EndBody(buf, h, q) BY <3>2 DEF EndBody
    <3> QED BY <3>3, <1>3
  <2> QED BY <2>1, <2>2
<1>6. \E f : f = E(f)
  <2>1. Left(b) \in [Nat -> 0 .. b + 1] BY LeftType, <1>1
  <2> DEFINE Q == Nat
             m == Left(b)
             k == b + 1
  <2>2. Recursive(Nat, Q, m, g) BY <1>4, <1>5 DEF Recursive
  <2>3. Q # {} OBVIOUS
  <2>4. m \in [Nat -> 0 .. k] /\ k \in Nat BY <2>1, <1>1
  <2> HIDE DEF g, m, Q, k
  <2>5. PICK f \in [Nat -> Q] : Solves(f, Nat, g) BY <2>2, <2>3, <2>4, Defined
  <2> USE DEF Q
  <2>6. \A x \in Nat : f[x] = EndBody(buf, f, x) BY <2>5, <1>3 DEF Solves
  <2>7. f = [x \in Nat |-> EndBody(buf, f, x)] BY <2>6
  <2> HIDE DEF E
  <2> QED BY <2>7, <1>2
<1>7. c = E(c) BY <1>6
<1>8. \A p : string_literal_end(buf, p) = c[p] BY DEF string_literal_end
<1> HIDE DEF c, E
<1>9. \A q \in Nat : c[q] = EndBody(buf, c, q) BY <1>2, <1>7
<1> QED BY <1>8, <1>9

(* The end of a literal is not before its beginning. *)
LEMMA EndAfter ==
  ASSUME NEW W, NEW buf \in Seq(W)
  PROVE  \A q \in Nat : /\ string_literal_end(buf, q) \in Nat
                        /\ string_literal_end(buf, q) = 0 \/ string_literal_end(buf, q) >= q
<1> DEFINE b == Len(buf)
<1>1. b \in Nat BY CharType
<1>2. PICK c : /\ \A p : string_literal_end(buf, p) = c[p]
               /\ \A q \in Nat : c[q] = EndBody(buf, c, q)
  BY EndStep
<1> DEFINE P(q) == c[q] \in Nat /\ (c[q] = 0 \/ c[q] >= q)
           S == {q \in 1 .. b : P(q)}
<1>3. \A q \in Nat : q > b \/ q = 0 => P(q)
  <2> SUFFICES ASSUME NEW q \in Nat, q > b \/ q = 0 PROVE c[q] = q OBVIOUS
  <2>1. Char(buf, q) = Unknown BY CharType
  <2>2. EndBody(buf, c, q) = q BY <2>1, EndCases
  <2> QED BY <1>2, <2>2
<1>4. ASSUME NEW q \in 1 .. b, \A j \in q + 1 .. b : j \in S PROVE q \in S
  <2>1. q \in Nat /\ q + 1 \in Nat /\ q + 2 \in Nat BY <1>1
  <2>2. P(q + 1) /\ P(q + 2)
    <3>1. ASSUME NEW k \in {q + 1, q + 2} PROVE P(k)
      <4>1. k \in Nat BY <2>1
      <4>2. CASE k > b BY <4>1, <4>2, <1>3
      <4>3. CASE k <= b
        <5>1. k \in q + 1 .. b BY <4>3, <2>1, <1>1
        <5> QED BY <5>1, <1>4
      <4> QED BY <4>1, <4>2, <4>3, <1>1
    <3> QED BY <3>1
  <2>3. c[q] = 0 \/ c[q] = q \/ c[q] = c[q + 1] \/ c[q] = c[q + 2]
    <3>1. c[q] = EndBody(buf, c, q) BY <1>2, <2>1
    <3>2. EndBody(buf, c, q) \in {0, q, c[q + 1], c[q + 2]} BY <2>1, EndCases
    <3> QED BY <3>1, <3>2
  <2>4. c[q + 1] \in Nat /\ c[q + 2] \in Nat BY <2>2
  <2>5. P(q) BY <2>1, <2>2, <2>3, <2>4
  <2> QED BY <2>5
<1> HIDE DEF S
<1>5. 1 .. b \subseteq S BY <1>1, <1>4, Downward
<1>6. ASSUME NEW q \in Nat PROVE P(q)
  <2>1. CASE q \in 1 .. b BY <2>1, <1>5 DEF S
  <2>2. CASE q > b \/ q = 0 BY <2>2, <1>3
  <2> QED BY <2>1, <2>2, <1>1
<1> QED BY <1>2, <1>6

(* The line in the buffer ends at z.  Only a backslash before its end, and *)
(* more text behind it, leads a string literal beyond it.                  *)
LineTo(buf, z) ==
  /\ z \in DOMAIN buf /\ buf[z] = NUL
  /\ \A n \in 1 .. z - 1 : buf[n] \notin {NUL, Unknown}
Overruns(buf, z) == z > 1 /\ buf[z - 1] = "\\" /\ Char(buf, z + 1) # NUL

LEMMA EndInLine ==
  ASSUME NEW W, NEW buf \in Seq(W), NEW z \in Nat, LineTo(buf, z), ~Overruns(buf, z)
  PROVE  \A q \in 1 .. z :
           \/ string_literal_end(buf, q) = 0
           \/ string_literal_end(buf, q) \in q .. z - 1
<1>1. PICK c : /\ \A p : string_literal_end(buf, p) = c[p]
               /\ \A q \in Nat : c[q] = EndBody(buf, c, q)
  BY EndStep
<1> DEFINE P(q) == c[q] = 0 \/ c[q] \in q .. z - 1
           S == {q \in 1 .. z : P(q)}
<1>2. /\ Len(buf) \in Nat /\ z \in 1 .. Len(buf)
      /\ Char(buf, z) = NUL
      /\ \A n \in 1 .. z - 1 : Char(buf, n) = buf[n]
      /\ \A n \in 1 .. z - 1 : Char(buf, n) \notin {NUL, Unknown}
  <2>1. Len(buf) \in Nat /\ z \in 1 .. Len(buf) BY CharType DEF LineTo
  <2>2. \A n \in 1 .. z : n \in 1 .. Len(buf) BY <2>1
  <2> QED BY <2>1, <2>2, CharType DEF LineTo
<1>6. \A q \in Nat :
        /\ Char(buf, q) = "\\" => EndBody(buf, c, q) = c[q + 2]
        /\ Char(buf, q) \notin {NUL, "\"", Unknown, "\\"} => EndBody(buf, c, q) = c[q + 1]
  BY DEF EndBody, NUL, Unknown
<1>3. P(z)
  <2>1. Char(buf, z) = NUL BY <1>2
  <2>2. EndBody(buf, c, z) = 0 BY <2>1, EndCases
  <2> QED BY <2>2, <1>1
<1>4. ASSUME NEW q \in 1 .. z, \A j \in q + 1 .. z : j \in S PROVE q \in S
  <2>1. CASE q = z BY <2>1, <1>3
  <2>2. CASE q < z
    <3>1. q \in Nat /\ q \in 1 .. z - 1 /\ q + 1 \in q + 1 .. z /\ q + 1 \in Nat BY <2>2
    <3>8. q \in Nat BY <3>1
    <3>2. c[q] = EndBody(buf, c, q) BY <1>1, <3>1
    <3>3. Char(buf, q) \notin {NUL, Unknown} BY <1>2, <3>1
    <3>4. P(q + 1) BY <1>4, <3>1
    <3>5. CASE Char(buf, q) = "\""
      <4>1. EndBody(buf, c, q) = q BY <3>5, <3>1, EndCases
      <4>2. c[q] = q BY <3>2, <4>1
      <4> QED BY <4>2, <3>1
    <3>6. CASE Char(buf, q) = "\\"
      <4>4. EndBody(buf, c, q) = c[q + 2] BY <3>6, <3>8, <1>6
      <4>1. c[q] = c[q + 2] BY <3>2, <4>4
      <4>2. CASE q + 2 <= z
        <5>1. q + 2 \in q + 1 .. z BY <4>2, <3>1
        <5>2. P(q + 2) BY <5>1, <1>4
        <5> QED BY <5>2, <4>1, <3>1
      <4>3. CASE q + 2 > z
        <5>1. q = z - 1 /\ z > 1 /\ q + 2 = z + 1 BY <4>3, <3>1
        <5>2. buf[z - 1] = "\\" BY <5>1, <3>6, <3>1, <1>2
        <5>3. Char(buf, z + 1) = NUL BY <5>1, <5>2 DEF Overruns
        <5>4. EndBody(buf, c, z + 1) = 0 BY <5>3, z + 1 \in Nat, EndCases
        <5>5. c[z + 1] = 0 BY <5>4, <1>1
        <5> QED BY <5>5, <5>1, <4>1
      <4> QED BY <4>2, <4>3, <3>1
    <3>7. CASE Char(buf, q) \notin {NUL, "\"", Unknown, "\\"}
      <4>1. EndBody(buf, c, q) = c[q + 1] BY <3>7, <3>8, <1>6
      <4>2. c[q] = c[q + 1] BY <3>2, <4>1
      <4> QED BY <4>2, <3>4, <3>1
    <3> QED BY <3>3, <3>5, <3>6, <3>7
  <2> QED BY <2>1, <2>2
<1> HIDE DEF S
<1>5. 1 .. z \subseteq S
  <2>1. 1 \in Nat OBVIOUS
  <2> QED BY <2>1, <1>4, Downward
<1> QED BY <1>1, <1>5 DEF S

(* The first position that is not in C. *)
LEMMA PastType ==
  ASSUME NEW W, NEW buf \in Seq(W), NEW C, Unknown \notin C, NEW p \in 1 .. Len(buf) + 1
  PROVE  LET q == Past(buf, p, C) IN
         /\ q \in p .. Len(buf) + 1
         /\ Char(buf, q) \notin C /\ \A n \in p .. q - 1 : buf[n] \in C
         /\ Char(buf, p) \in C => q > p
         /\ \A z \in Nat : LineTo(buf, z) /\ NUL \notin C /\ p <= z => q <= z
<1> DEFINE b == Len(buf)
           M == {q \in p .. b + 1 : Char(buf, q) \notin C}
<1>1. b \in Nat /\ p \in Nat /\ p >= 1 /\ p <= b + 1 BY CharType
<1>2. b + 1 \in M
  <2>1. Char(buf, b + 1) = Unknown BY <1>1, CharType
  <2> QED BY <2>1, <1>1
<1>3. M \subseteq Nat BY <1>1
<1>4. PICK l \in M : \A k \in M : l <= k BY <1>2, <1>3, LeastNat
<1>5. l \in p .. b + 1 /\ Char(buf, l) \notin C OBVIOUS
<1>6. \A n \in p .. l - 1 : buf[n] \in C
  <2> SUFFICES ASSUME NEW n \in p .. l - 1 PROVE buf[n] \in C OBVIOUS
  <2>1. n \in p .. b + 1 /\ n < l /\ n \in 1 .. b BY <1>1, <1>5
  <2>2. n \notin M BY <2>1, <1>4, <1>3
  <2>3. Char(buf, n) \in C BY <2>1, <2>2
  <2> QED BY <2>1, <2>3, CharType
<1> DEFINE q == Past(buf, p, C)
<1>7. q \in p .. b + 1 /\ Char(buf, q) \notin C /\ \A n \in p .. q - 1 : buf[n] \in C
  BY <1>5, <1>6 DEF Past
<1> HIDE DEF q
<1>8. Char(buf, p) \in C => q > p BY <1>7, <1>1
<1>9. ASSUME NEW z \in Nat, LineTo(buf, z), NUL \notin C, p <= z PROVE q <= z
  <2>1. buf[z] \notin C BY <1>9 DEF LineTo
  <2>2. z \notin p .. q - 1 BY <1>7, <2>1
  <2> QED BY <2>2, <1>9, <1>7, <1>1
<1> QED BY <1>7, <1>8, <1>9 DEF q

(* The tokens a buffer may yield. *)
Ident(x) == [tag |-> "IDENT", str |-> x]
Lexed(buf) ==
  {Token(t) : t \in Tags}
    \cup {IntToken(SubSeq(buf, p, q), n) : p \in Int, q \in Int, n \in {-1, 1}}
    \cup {read_string_literal(buf, p, q) : p \in Int, q \in Int}
    \cup {Ident(SubSeq(buf, p, q)) : p \in Int, q \in Int}

(* At each position tokenize ends, goes on behind it, or takes a token and *)
(* goes on behind it; within the line if nothing leads beyond.             *)
Safe(buf, z) == LineTo(buf, z) /\ ~Overruns(buf, z)
Stops(buf, z, p) == \A f : lex(buf, f, p) = <<>>
Gives(buf, z, p, t) ==
  /\ t \in Lexed(buf)
  /\ Safe(buf, z) /\ p <= z => t # Stray
Last(buf, z, p, t) == Gives(buf, z, p, t) /\ \A f : lex(buf, f, p) = <<t>>
Follows(buf, z, p, e) == e \in Nat /\ e > p /\ (Safe(buf, z) /\ p <= z => e <= z)
Skips(buf, z, p, e) == Follows(buf, z, p, e) /\ \A f : lex(buf, f, p) = f[e]
Takes(buf, z, p, t, e) ==
  /\ Gives(buf, z, p, t) /\ Follows(buf, z, p, e)
  /\ \A f : lex(buf, f, p) = <<t>> \o f[e]

LEMMA LexedTags ==
  ASSUME NEW buf, NEW t \in Lexed(buf)
  PROVE  t.tag \in Tags
<1>1. ASSUME NEW tg \in Tags, t = Token(tg) PROVE t.tag \in Tags BY <1>1 DEF Token
<1>2. ASSUME NEW ds, NEW n, t = IntToken(ds, n) PROVE t.tag \in Tags
  <2>1. t.tag = "INT" BY <1>2 DEF IntToken
  <2> QED BY <2>1 DEF Tags
<1>3. ASSUME NEW p, NEW q, t = read_string_literal(buf, p, q) PROVE t.tag \in Tags
  <2>1. t.tag = "STR" BY <1>3 DEF read_string_literal
  <2> QED BY <2>1 DEF Tags
<1>4. ASSUME NEW x, t = Ident(x) PROVE t.tag \in Tags
  <2>1. t.tag = "IDENT" BY <1>4 DEF Ident
  <2> QED BY <2>1 DEF Tags
<1> QED BY <1>1, <1>2, <1>3, <1>4 DEF Lexed

LEMMA CharSets ==
  /\ Digit \subseteq IdentChar
  /\ IdentStart \subseteq IdentChar
  /\ Unknown \notin Digit /\ NUL \notin Digit
  /\ Unknown \notin IdentChar /\ NUL \notin IdentChar
<1>1. Digit \subseteq IdentChar BY DEF IdentChar
<1>2. IdentStart \subseteq IdentChar BY DEF IdentChar, IdentStart, is_special_subsequent_char
<1>3. Unknown \notin Digit /\ NUL \notin Digit BY DEF Digit, NUL, Unknown
<1>4. Unknown \notin Letter /\ NUL \notin Letter BY DEF Letter, NUL, Unknown
<1>5. Unknown \notin is_special_initial_char /\ NUL \notin is_special_initial_char
  BY DEF is_special_initial_char, NUL, Unknown
<1>6. Unknown \notin is_special_subsequent_char /\ NUL \notin is_special_subsequent_char
  BY DEF is_special_subsequent_char, NUL, Unknown
<1> QED BY <1>1, <1>2, <1>3, <1>4, <1>5, <1>6 DEF IdentChar

(* What tokenize does at a position, by the character there. *)
After(buf, p) == Char(buf, p + 1)
Negative(buf, p) == Char(buf, p) = "-" /\ After(buf, p) \in Digit
First(buf, p) == IF Negative(buf, p) THEN p + 1 ELSE p
NumberEnd(buf, p) == Past(buf, First(buf, p), Digit)
NumberToken(buf, p) ==
  IntToken(SubSeq(buf, First(buf, p), NumberEnd(buf, p) - 1), IF Negative(buf, p) THEN -1 ELSE 1)
TruthToken(buf, p) == Token(IF After(buf, p) = "t" THEN "TRUE" ELSE "FALSE")
IdentEnd(buf, p) == Past(buf, p, IdentChar)
IdentToken(buf, p) == Ident(SubSeq(buf, p, IdentEnd(buf, p) - 1))
Behind(f, p) == f[p + 1]
LEMMA BodyCases ==
  ASSUME NEW buf, NEW f, NEW p
  PROVE  /\ Char(buf, p) = NUL => lex(buf, f, p) = <<>>
         /\ Char(buf, p) = Unknown \/ (Char(buf, p) = "#" /\ After(buf, p) = Unknown) =>
              lex(buf, f, p) = <<Stray>>
         /\ Char(buf, p) \in Blank => lex(buf, f, p) = Behind(f, p)
         /\ Negative(buf, p) \/ Char(buf, p) \in Digit =>
              lex(buf, f, p) = <<NumberToken(buf, p)>> \o f[NumberEnd(buf, p)]
         /\ Char(buf, p) = "\"" =>
              lex(buf, f, p) =
                IF string_literal_end(buf, p + 1) = Unclosed THEN <<Bad>>
                ELSE IF Char(buf, string_literal_end(buf, p + 1)) = Unknown THEN <<Stray>>
                ELSE <<read_string_literal(buf, p + 1, string_literal_end(buf, p + 1))>>
                       \o f[string_literal_end(buf, p + 1) + 1]
         /\ Char(buf, p) = "(" => lex(buf, f, p) = <<Token("LPAREN")>> \o f[p + 1]
         /\ Char(buf, p) = ")" => lex(buf, f, p) = <<Token("RPAREN")>> \o f[p + 1]
         /\ Char(buf, p) = "'" => lex(buf, f, p) = <<Token("QUOTE")>> \o f[p + 1]
         /\ Char(buf, p) = "." => lex(buf, f, p) = <<Token("DOT")>> \o f[p + 1]
         /\ Char(buf, p) = "#" /\ After(buf, p) \in {"t", "f"} =>
              lex(buf, f, p) = <<TruthToken(buf, p)>> \o f[p + 2]
         /\ Char(buf, p) \in IdentStart /\ ~Negative(buf, p) =>
              lex(buf, f, p) = <<IdentToken(buf, p)>> \o f[IdentEnd(buf, p)]
         /\ \/ lex(buf, f, p) = <<Bad>>
            \/ Char(buf, p) \in {NUL, Unknown, "\"", "(", ")", "'", "."}
                      \cup Blank \cup Digit \cup IdentStart
            \/ Char(buf, p) = "#" /\ After(buf, p) \in {Unknown, "t", "f"}
<1> DEFINE c == Char(buf, p)
           next == After(buf, p)
           negative == Negative(buf, p)
           strend == string_literal_end(buf, p + 1)
           v == lex(buf, f, p)
           A1 == c = NUL
           A2 == c = Unknown \/ (c = "#" /\ next = Unknown)
           A3 == c \in Blank
           A4 == negative \/ c \in Digit
           A5 == c = "\""
           A6 == c = "("
           A7 == c = ")"
           A8 == c = "'"
           A9 == c = "."
           A10 == c = "#" /\ next \in {"t", "f"}
           A11 == c \in IdentStart /\ ~negative
           E2 == <<Stray>>
           E3 == Behind(f, p)
           E4 == <<NumberToken(buf, p)>> \o f[NumberEnd(buf, p)]
           E5 == IF strend = Unclosed THEN <<Bad>>
                 ELSE IF Char(buf, strend) = Unknown THEN <<Stray>>
                 ELSE <<read_string_literal(buf, p + 1, strend)>> \o f[strend + 1]
           E6 == <<Token("LPAREN")>> \o f[p + 1]
           E7 == <<Token("RPAREN")>> \o f[p + 1]
           E8 == <<Token("QUOTE")>> \o f[p + 1]
           E9 == <<Token("DOT")>> \o f[p + 1]
           E10 == <<TruthToken(buf, p)>> \o f[p + 2]
           E11 == <<IdentToken(buf, p)>> \o f[IdentEnd(buf, p)]
<1>1. v = CASE A1 -> <<>> [] A2 -> E2 [] A3 -> E3 [] A4 -> E4 [] A5 -> E5 [] A6 -> E6
            [] A7 -> E7 [] A8 -> E8 [] A9 -> E9 [] A10 -> E10 [] A11 -> E11 [] OTHER -> <<Bad>>
  BY Zenon
     DEF lex, Behind, After, Ident, Negative, First, NumberEnd, NumberToken, TruthToken, IdentEnd, IdentToken
<1>2. /\ A1 => ~A2 /\ ~A3 /\ ~A4 /\ ~A5 /\ ~A6 /\ ~A7 /\ ~A8 /\ ~A9 /\ ~A10 /\ ~A11
      /\ A2 => ~A3 /\ ~A4 /\ ~A5 /\ ~A6 /\ ~A7 /\ ~A8 /\ ~A9 /\ ~A10 /\ ~A11
      /\ A3 => ~A4 /\ ~A5 /\ ~A6 /\ ~A7 /\ ~A8 /\ ~A9 /\ ~A10 /\ ~A11
      /\ A4 => ~A5 /\ ~A6 /\ ~A7 /\ ~A8 /\ ~A9 /\ ~A10 /\ ~A11
      /\ A5 => ~A6 /\ ~A7 /\ ~A8 /\ ~A9 /\ ~A10 /\ ~A11
      /\ A6 => ~A7 /\ ~A8 /\ ~A9 /\ ~A10 /\ ~A11
      /\ A7 => ~A8 /\ ~A9 /\ ~A10 /\ ~A11
      /\ A8 => ~A9 /\ ~A10 /\ ~A11
      /\ A9 => ~A10 /\ ~A11
      /\ A10 => ~A11
  <2>1. A1 => ~A2 /\ ~A3 /\ ~A4 /\ ~A5 /\ ~A6 /\ ~A7 /\ ~A8 /\ ~A9 /\ ~A10 /\ ~A11 BY DEF NUL, Unknown, Blank, Digit, IdentStart, Letter, is_special_initial_char, Negative
  <2>2. A2 => ~A3 /\ ~A4 /\ ~A5 /\ ~A6 /\ ~A7 /\ ~A8 /\ ~A9 /\ ~A10 /\ ~A11 BY DEF NUL, Unknown, Blank, Digit, IdentStart, Letter, is_special_initial_char, Negative
  <2>3. A3 => ~A4 /\ ~A5 /\ ~A6 /\ ~A7 /\ ~A8 /\ ~A9 /\ ~A10 /\ ~A11 BY DEF NUL, Unknown, Blank, Digit, IdentStart, Letter, is_special_initial_char, Negative
  <2>4. A4 => ~A5 /\ ~A6 /\ ~A7 /\ ~A8 /\ ~A9 /\ ~A10 /\ ~A11 BY DEF NUL, Unknown, Blank, Digit, IdentStart, Letter, is_special_initial_char, Negative
  <2>5. A5 => ~A6 /\ ~A7 /\ ~A8 /\ ~A9 /\ ~A10 /\ ~A11 BY DEF NUL, Unknown, Blank, Digit, IdentStart, Letter, is_special_initial_char, Negative
  <2>6. A6 => ~A7 /\ ~A8 /\ ~A9 /\ ~A10 /\ ~A11 BY DEF NUL, Unknown, Blank, Digit, IdentStart, Letter, is_special_initial_char, Negative
  <2>7. A7 => ~A8 /\ ~A9 /\ ~A10 /\ ~A11 BY DEF NUL, Unknown, Blank, Digit, IdentStart, Letter, is_special_initial_char, Negative
  <2>8. A8 => ~A9 /\ ~A10 /\ ~A11 BY DEF NUL, Unknown, Blank, Digit, IdentStart, Letter, is_special_initial_char, Negative
  <2>9. A9 => ~A10 /\ ~A11 BY DEF NUL, Unknown, Blank, Digit, IdentStart, Letter, is_special_initial_char, Negative
  <2>10. A10 => ~A11 BY DEF NUL, Unknown, Blank, Digit, IdentStart, Letter, is_special_initial_char, Negative
  <2> HIDE DEF A1, A2, A3, A4, A5, A6, A7, A8, A9, A10, A11
  <2> QED BY <2>1, <2>2, <2>3, <2>4, <2>5, <2>6, <2>7, <2>8, <2>9, <2>10
<1>3. A1 \/ A2 \/ A3 \/ A4 \/ A5 \/ A6 \/ A7 \/ A8 \/ A9 \/ A10 \/ A11 =>
        \/ c \in {NUL, Unknown, "\"", "(", ")", "'", "."}
                  \cup Blank \cup Digit \cup IdentStart
        \/ c = "#" /\ next \in {Unknown, "t", "f"}
  <2>1. c = "-" => c \in IdentStart BY DEF IdentStart
  <2> QED BY <2>1 DEF Negative
<1> HIDE DEF A1, A2, A3, A4, A5, A6, A7, A8, A9, A10, A11, E2, E3, E4, E5, E6, E7, E8, E9, E10, E11, v
<1>4. /\ A1 => v = <<>>
      /\ A2 => v = E2
      /\ A3 => v = E3
      /\ A4 => v = E4
  BY <1>1, <1>2, ZenonT(60)
<1>5. /\ A5 => v = E5
      /\ A6 => v = E6
      /\ A7 => v = E7
      /\ A8 => v = E8
  BY <1>1, <1>2, ZenonT(60)
<1>6. /\ A9 => v = E9
      /\ A10 => v = E10
      /\ A11 => v = E11
  BY <1>1, <1>2, ZenonT(60)
<1>7. ~(A1 \/ A2 \/ A3 \/ A4 \/ A5 \/ A6 \/ A7 \/ A8 \/ A9 \/ A10 \/ A11) => v = <<Bad>>
  BY <1>1, ZenonT(60)
<1> QED BY <1>3, <1>4, <1>5, <1>6, <1>7, Zenon
     DEF A1, A2, A3, A4, A5, A6, A7, A8, A9, A10, A11, E2, E3, E4, E5, E6, E7, E8, E9, E10, E11, v

LEMMA LexStep ==
  ASSUME NEW W, NEW buf \in Seq(W), NEW z \in Nat, NEW p \in 1 .. Len(buf)
  PROVE  \/ Stops(buf, z, p)
         \/ \E t : Last(buf, z, p, t)
         \/ \E e : Skips(buf, z, p, e)
         \/ \E t, e : Takes(buf, z, p, t, e)
<1> DEFINE b == Len(buf)
           c == Char(buf, p)
           next == After(buf, p)
           negative == Negative(buf, p)
           first == First(buf, p)
           strend == string_literal_end(buf, p + 1)
           line == Safe(buf, z) /\ p <= z
<1>1. b \in Nat /\ p \in Nat /\ p >= 1 /\ p <= b /\ c = buf[p] BY CharType
<1>2. line => z <= b /\ c # Unknown
  <2> SUFFICES ASSUME Safe(buf, z), p <= z PROVE z <= b /\ c # Unknown OBVIOUS
  <2>1. z <= b /\ buf[z] = NUL BY <1>1, CharType DEF Safe, LineTo
  <2>2. CASE p = z BY <1>1, <2>1, <2>2 DEF NUL, Unknown
  <2>3. CASE p # z
    <3>1. p \in 1 .. z - 1 BY <1>1, <2>3
    <3> QED BY <1>1, <2>1, <3>1 DEF Safe, LineTo
  <2> QED BY <2>2, <2>3
<1>3. line /\ c # NUL => p + 1 <= z /\ next # Unknown
  <2> SUFFICES ASSUME Safe(buf, z), p <= z, c # NUL PROVE p + 1 <= z /\ next # Unknown OBVIOUS
  <2>1. z <= b /\ buf[z] = NUL BY <1>1, CharType DEF Safe, LineTo
  <2>2. p # z BY <1>1, <2>1
  <2>3. p + 1 <= z /\ p + 1 \in 1 .. b BY <1>1, <2>1, <2>2
  <2>4. next = buf[p + 1] BY <2>3, CharType DEF After
  <2>5. CASE p + 1 = z BY <2>1, <2>3, <2>4, <2>5 DEF NUL, Unknown
  <2>6. CASE p + 1 # z
    <3>1. p + 1 \in 1 .. z - 1 BY <1>1, <2>3, <2>6
    <3> QED BY <2>3, <2>4, <3>1 DEF Safe, LineTo
  <2> QED BY <2>5, <2>6
<1>4. p + 1 \in Nat /\ p + 1 > p /\ p + 2 \in Nat /\ p + 2 > p BY <1>1
<1>5. c # NUL => Follows(buf, z, p, p + 1) BY <1>3, <1>4 DEF Follows
<1>6. \A tag \in Tags : Token(tag) \in Lexed(buf) BY DEF Lexed
<1>7. Stray \in Lexed(buf) /\ Bad \in Lexed(buf) /\ Bad # Stray
  <2>1. "stray" \in Tags /\ "bad" \in Tags BY DEF Tags
  <2>2. Stray \in Lexed(buf) /\ Bad \in Lexed(buf) BY <1>6, <2>1 DEF Stray, Bad
  <2>3. Bad.tag = "bad" /\ Stray.tag = "stray" BY DEF Bad, Stray, Token
  <2> QED BY <2>2, <2>3
<1>8. \A tag \in Tags \ {"stray"} : Gives(buf, z, p, Token(tag))
  <2> SUFFICES ASSUME NEW tag \in Tags \ {"stray"} PROVE Gives(buf, z, p, Token(tag)) OBVIOUS
  <2>1. Token(tag).tag = tag /\ Stray.tag = "stray" BY DEF Stray, Token
  <2>2. Token(tag) # Stray BY <2>1
  <2> QED BY <1>6, <2>2 DEF Gives
<1>9. Gives(buf, z, p, Bad) BY <1>7 DEF Gives
<1>0. next = Char(buf, p + 1) BY DEF After
<1> HIDE DEF c, next
<1>10. CASE c = NUL
  <2>1. \A f : lex(buf, f, p) = <<>> BY <1>10, BodyCases DEF c
  <2> QED BY <2>1 DEF Stops
<1>11. CASE c # NUL /\ (c = Unknown \/ (c = "#" /\ next = Unknown))
  <2>1. \A f : lex(buf, f, p) = <<Stray>> BY <1>11, BodyCases DEF c, next
  <2>2. ~line BY <1>2, <1>3, <1>11
  <2>3. Last(buf, z, p, Stray) BY <2>1, <2>2, <1>7 DEF Last, Gives
  <2> QED BY <2>3
<1>12. CASE c # NUL /\ c \in Blank
  <2>1. \A f : lex(buf, f, p) = f[p + 1] BY <1>12, BodyCases DEF c, Behind
  <2>2. Skips(buf, z, p, p + 1) BY <2>1, <1>5, <1>12 DEF Skips
  <2> QED BY <2>2
<1>13. CASE c # NUL /\ (negative \/ c \in Digit)
  <2> DEFINE e == NumberEnd(buf, p)
             t == NumberToken(buf, p)
  <2>1. \A f : lex(buf, f, p) = <<t>> \o f[e] BY <1>13, BodyCases DEF c
  <2>2. first \in 1 .. b + 1 /\ Char(buf, first) \in Digit
    BY <1>1, <1>13 DEF c, First, Negative, After
  <2>3. e \in first .. b + 1 /\ e > first BY <2>2, PastType, CharSets DEF NumberEnd
  <2>4. first \in Nat /\ first >= p BY <1>1 DEF First
  <2>5. line => e <= z
    <3> SUFFICES ASSUME line PROVE e <= z OBVIOUS
    <3>1. first <= z BY <1>3, <1>13, <1>1, CharSets DEF First, Negative, c
    <3>2. LineTo(buf, z) BY DEF Safe
    <3> QED BY <2>2, <3>1, <3>2, PastType, CharSets DEF NumberEnd
  <2>6. Gives(buf, z, p, t)
    <3>1. first \in Int /\ e - 1 \in Int BY <2>3, <2>4
    <3>2. t \in Lexed(buf) BY <3>1 DEF Lexed, NumberToken
    <3>3. t.tag = "INT" /\ Stray.tag = "stray" BY DEF NumberToken, IntToken, Stray, Token
    <3>4. t # Stray BY <3>3
    <3> QED BY <3>2, <3>4 DEF Gives
  <2>7. Follows(buf, z, p, e)
    <3>1. e \in Nat /\ e > p BY <2>3, <2>4, <1>1
    <3> QED BY <3>1, <2>5 DEF Follows
  <2>8. Takes(buf, z, p, t, e) BY <2>1, <2>6, <2>7 DEF Takes
  <2> QED BY <2>8
<1>14. CASE c = "\""
  <2>1. \A f : lex(buf, f, p) = IF strend = Unclosed THEN <<Bad>>
                ELSE IF Char(buf, strend) = Unknown THEN <<Stray>>
                ELSE <<read_string_literal(buf, p + 1, strend)>> \o f[strend + 1]
    BY <1>14, BodyCases DEF c
  <2>2. strend \in Nat /\ (strend = 0 \/ strend >= p + 1) BY <1>4, EndAfter
  <2>3. c # NUL BY <1>14 DEF NUL
  <2>4. line => strend = 0 \/ strend \in p + 1 .. z - 1
    <3> SUFFICES ASSUME line PROVE strend = 0 \/ strend \in p + 1 .. z - 1 OBVIOUS
    <3>1. p + 1 \in 1 .. z BY <1>1, <1>3, <2>3
    <3> QED BY <3>1, EndInLine DEF Safe
  <2>5. CASE strend = Unclosed
    <3>1. Last(buf, z, p, Bad) BY <2>1, <2>5, <1>9 DEF Last
    <3> QED BY <3>1
  <2>6. CASE strend # Unclosed /\ Char(buf, strend) = Unknown
    <3>1. ~line
      <4> SUFFICES ASSUME line PROVE FALSE OBVIOUS
      <4>1. strend \in 1 .. z - 1 /\ strend \in 1 .. b BY <2>4, <2>6, <1>1, <1>2 DEF Unclosed
      <4>2. Char(buf, strend) = buf[strend] BY <4>1, CharType
      <4> QED BY <4>1, <4>2, <2>6 DEF Safe, LineTo
    <3>2. Last(buf, z, p, Stray) BY <2>1, <2>6, <3>1, <1>7 DEF Last, Gives
    <3> QED BY <3>2
  <2>7. CASE strend # Unclosed /\ Char(buf, strend) # Unknown
    <3> DEFINE t == read_string_literal(buf, p + 1, strend)
    <3>1. \A f : lex(buf, f, p) = <<t>> \o f[strend + 1] BY <2>1, <2>7
    <3>2. Gives(buf, z, p, t)
      <4>1. p + 1 \in Int /\ strend \in Int BY <1>4, <2>2
      <4>2. t \in Lexed(buf) BY <4>1 DEF Lexed
      <4>3. t.tag = "STR" /\ Stray.tag = "stray" BY DEF read_string_literal, Stray, Token
      <4>4. t # Stray BY <4>3
      <4> QED BY <4>2, <4>4 DEF Gives
    <3>3. Follows(buf, z, p, strend + 1)
      <4>1. strend + 1 \in Nat /\ strend + 1 > p BY <2>2, <2>7, <1>1 DEF Unclosed
      <4>2. line => strend + 1 <= z BY <2>4, <2>7, <1>1 DEF Unclosed
      <4> QED BY <4>1, <4>2 DEF Follows
    <3>4. Takes(buf, z, p, t, strend + 1) BY <3>1, <3>2, <3>3 DEF Takes
    <3> QED BY <3>4
  <2> QED BY <2>5, <2>6, <2>7
<1>15. ASSUME NEW tag \in Tags \ {"stray"}, c # NUL, \A f : lex(buf, f, p) = <<Token(tag)>> \o f[p + 1]
       PROVE  \E t, e : Takes(buf, z, p, t, e)
  <2>1. Takes(buf, z, p, Token(tag), p + 1) BY <1>15, <1>8, <1>5 DEF Takes
  <2> QED BY <2>1
<1>16. CASE c \in {"(", ")", "'", "."}
  <2>1. c # NUL BY <1>16 DEF NUL
  <2>2. CASE c = "("
    <3>1. \A f : lex(buf, f, p) = <<Token("LPAREN")>> \o f[p + 1] BY <2>2, BodyCases DEF c
    <3> QED BY <2>1, <3>1, <1>15 DEF Tags
  <2>3. CASE c = ")"
    <3>1. \A f : lex(buf, f, p) = <<Token("RPAREN")>> \o f[p + 1] BY <2>3, BodyCases DEF c
    <3> QED BY <2>1, <3>1, <1>15 DEF Tags
  <2>4. CASE c = "'"
    <3>1. \A f : lex(buf, f, p) = <<Token("QUOTE")>> \o f[p + 1] BY <2>4, BodyCases DEF c
    <3> QED BY <2>1, <3>1, <1>15 DEF Tags
  <2>5. CASE c = "."
    <3>1. \A f : lex(buf, f, p) = <<Token("DOT")>> \o f[p + 1] BY <2>5, BodyCases DEF c
    <3> QED BY <2>1, <3>1, <1>15 DEF Tags
  <2> QED BY <1>16, <2>2, <2>3, <2>4, <2>5
<1>17. CASE c = "#" /\ next \in {"t", "f"}
  <2> DEFINE tag == IF next = "t" THEN "TRUE" ELSE "FALSE"
  <2>1. \A f : lex(buf, f, p) = <<Token(tag)>> \o f[p + 2]
    <3>1. \A f : lex(buf, f, p) = <<TruthToken(buf, p)>> \o f[p + 2]
      BY <1>17, BodyCases DEF c, next
    <3>2. TruthToken(buf, p) = Token(tag) BY DEF TruthToken, next
    <3> QED BY <3>1, <3>2
  <2>2. c # NUL /\ next # NUL BY <1>17 DEF NUL
  <2>3. tag \in Tags \ {"stray"} BY <1>17 DEF Tags
  <2>4. line => p + 2 <= z
    <3> SUFFICES ASSUME line PROVE p + 2 <= z OBVIOUS
    <3>1. p + 1 <= z /\ z <= b BY <1>2, <1>3, <2>2
    <3>2. p + 1 # z
      <4> SUFFICES ASSUME p + 1 = z PROVE FALSE OBVIOUS
      <4>1. next = buf[z] BY <3>1, <1>1, <1>0, CharType
      <4> QED BY <4>1, <2>2 DEF Safe, LineTo
    <3> QED BY <3>1, <3>2, <1>1
  <2>5. Follows(buf, z, p, p + 2) BY <1>4, <2>4 DEF Follows
  <2>6. Takes(buf, z, p, Token(tag), p + 2) BY <2>1, <2>3, <2>5, <1>8 DEF Takes
  <2> QED BY <2>6
<1>18. CASE c \in IdentStart /\ ~negative
  <2> DEFINE e == IdentEnd(buf, p)
             t == IdentToken(buf, p)
  <2>1. \A f : lex(buf, f, p) = <<t>> \o f[e] BY <1>18, BodyCases DEF c
  <2>2. Char(buf, p) \in IdentChar BY <1>18, CharSets DEF c
  <2>3. e \in p .. b + 1 /\ e > p BY <2>2, PastType, CharSets, <1>1 DEF IdentEnd
  <2>4. line => e <= z
    <3> SUFFICES ASSUME line PROVE e <= z OBVIOUS
    <3>1. LineTo(buf, z) /\ p <= z BY DEF Safe
    <3>2. p \in 1 .. b + 1 BY <1>1
    <3> QED BY <3>1, <3>2, PastType, CharSets DEF IdentEnd
  <2>5. Gives(buf, z, p, t)
    <3>1. p \in Int /\ e - 1 \in Int BY <2>3, <1>1
    <3>2. t \in Lexed(buf) BY <3>1 DEF Lexed, IdentToken
    <3>3. t.tag = "IDENT" /\ Stray.tag = "stray" BY DEF IdentToken, Ident, Stray, Token
    <3>4. t # Stray BY <3>3
    <3> QED BY <3>2, <3>4 DEF Gives
  <2>6. Follows(buf, z, p, e)
    <3>1. e \in Nat /\ e > p BY <2>3, <1>1
    <3> QED BY <3>1, <2>4 DEF Follows
  <2>7. Takes(buf, z, p, t, e) BY <2>1, <2>5, <2>6 DEF Takes
  <2> QED BY <2>7
<1>19. CASE \A f : lex(buf, f, p) = <<Bad>>
  <2>1. Last(buf, z, p, Bad) BY <1>19, <1>9 DEF Last
  <2> QED BY <2>1
<1>20. \/ \A f : lex(buf, f, p) = <<Bad>>
       \/ c \in {NUL, Unknown, "\"", "(", ")", "'", "."} \cup Blank \cup Digit \cup IdentStart
       \/ c = "#" /\ next \in {Unknown, "t", "f"}
  BY BodyCases DEF c, next
<1> QED BY <1>10, <1>11, <1>12, <1>13, <1>14, <1>16, <1>17, <1>18, <1>19, <1>20

(* tokenize obeys its recursion. *)
LEMMA FromStep ==
  ASSUME NEW W, NEW buf \in Seq(W)
  PROVE  \E c : /\ tokenize(buf) = c[1]
                /\ \A p \in Nat : c[p] = lex(buf, c, p)
<1> DEFINE b == Len(buf)
           Q == Seq(Lexed(buf))
           E(f) == [p \in Nat |-> lex(buf, f, p)]
           c == CHOOSE f : f = E(f)
           g == [p \in Nat |-> [f \in [Nat -> Q] |-> lex(buf, f, p)]]
<1>1. b \in Nat /\ b + 1 \in Nat BY CharType
<1>2. tokenize(buf) = c[1] BY DEF tokenize
<1>3. \A p \in Nat, f \in [Nat -> Q] : g[p][f] = lex(buf, f, p) OBVIOUS
<1>4. \A f : \A p \in Nat : p > b \/ p = 0 => lex(buf, f, p) = <<Stray>>
  <2> SUFFICES ASSUME NEW p \in Nat, NEW f, p > b \/ p = 0 PROVE lex(buf, f, p) = <<Stray>>
    OBVIOUS
  <2>1. Char(buf, p) = Unknown BY CharType
  <2> QED BY <2>1, BodyCases
<1>5. \A p \in 1 .. b : \/ Stops(buf, 0, p)
                        \/ \E t : Last(buf, 0, p, t)
                        \/ \E e : Skips(buf, 0, p, e)
                        \/ \E t, e : Takes(buf, 0, p, t, e)
  BY LexStep
<1>6. Stray \in Lexed(buf)
  <2>1. "stray" \in Tags BY DEF Tags
  <2> QED BY <2>1 DEF Lexed, Stray
<1>7. g \in [Nat -> [[Nat -> Q] -> Q]]
  <2>1. ASSUME NEW p \in Nat, NEW f \in [Nat -> Q] PROVE lex(buf, f, p) \in Q
    <3> HIDE DEF E, c, g
    <3>1. CASE p > b \/ p = 0
      <4>1. <<Stray>> \in Seq(Lexed(buf)) BY <1>6
      <4> QED BY <4>1, <3>1, <1>4
    <3>2. CASE p \in 1 .. b
      <4>1. CASE Stops(buf, 0, p)
        <5>1. <<>> \in Seq(Lexed(buf)) OBVIOUS
        <5> QED BY <5>1, <4>1 DEF Stops
      <4>2. ASSUME NEW t, Last(buf, 0, p, t) PROVE lex(buf, f, p) \in Q
        <5>1. t \in Lexed(buf) BY <4>2 DEF Last, Gives
        <5>2. <<t>> \in Seq(Lexed(buf)) BY <5>1
        <5> QED BY <5>2, <4>2 DEF Last
      <4>3. ASSUME NEW e, Skips(buf, 0, p, e) PROVE lex(buf, f, p) \in Q
        BY <4>3 DEF Skips, Follows
      <4>4. ASSUME NEW t, NEW e, Takes(buf, 0, p, t, e) PROVE lex(buf, f, p) \in Q
        <5>1. t \in Lexed(buf) /\ e \in Nat /\ lex(buf, f, p) = <<t>> \o f[e]
          BY <4>4 DEF Takes, Gives, Follows
        <5>2. f[e] \in Seq(Lexed(buf)) BY <5>1
        <5> QED BY <5>1, <5>2, Cons
      <4> QED BY <3>2, <4>1, <4>2, <4>3, <4>4, <1>5
    <3> QED BY <3>1, <3>2, <1>1
  <2> HIDE DEF Q
  <2> QED BY <2>1
<1>8. ASSUME NEW p \in Nat, NEW f \in [Nat -> Q], NEW h \in [Nat -> Q],
             \A y \in Nat : Left(b)[y] < Left(b)[p] => f[y] = h[y]
      PROVE  g[p][f] = g[p][h]
  <2> SUFFICES lex(buf, f, p) = lex(buf, h, p) BY <1>3
  <2> HIDE DEF E, c, g, Q
  <2>1. CASE p > b \/ p = 0 BY <2>1, <1>4
  <2>2. CASE p \in 1 .. b
    <3>1. \A e \in Nat : e > p => f[e] = h[e]
      <4> SUFFICES ASSUME NEW e \in Nat, e > p PROVE f[e] = h[e] OBVIOUS
      <4>1. Left(b)[e] < Left(b)[p] BY <2>2, <1>1, LeftType
      <4> QED BY <4>1, <1>8
    <3>2. CASE Stops(buf, 0, p) BY <3>2 DEF Stops
    <3>3. ASSUME NEW t, Last(buf, 0, p, t) PROVE lex(buf, f, p) = lex(buf, h, p)
      BY <3>3 DEF Last
    <3>4. ASSUME NEW e, Skips(buf, 0, p, e) PROVE lex(buf, f, p) = lex(buf, h, p)
      BY <3>1, <3>4 DEF Skips, Follows
    <3>5. ASSUME NEW t, NEW e, Takes(buf, 0, p, t, e) PROVE lex(buf, f, p) = lex(buf, h, p)
      <4>1. f[e] = h[e] BY <3>1, <3>5 DEF Takes, Follows
      <4>2. lex(buf, f, p) = <<t>> \o f[e] /\ lex(buf, h, p) = <<t>> \o h[e] BY <3>5 DEF Takes
      <4> QED BY <4>1, <4>2
    <3> QED BY <2>2, <3>2, <3>3, <3>4, <3>5, <1>5
  <2> QED BY <2>1, <2>2, <1>1
<1>9. \E f : f = E(f)
  <2>1. Left(b) \in [Nat -> 0 .. b + 1] BY LeftType, <1>1
  <2> DEFINE m == Left(b)
             k == b + 1
  <2>2. Recursive(Nat, Q, m, g) BY <1>7, <1>8 DEF Recursive
  <2>3. Q # {}
    <3>1. <<>> \in Q OBVIOUS
    <3> QED BY <3>1
  <2>4. m \in [Nat -> 0 .. k] /\ k \in Nat BY <2>1, <1>1
  <2> HIDE DEF g, m, Q, k
  <2>5. PICK f \in [Nat -> Q] : Solves(f, Nat, g) BY <2>2, <2>3, <2>4, Defined
  <2>6. \A p \in Nat : f[p] = lex(buf, f, p) BY <2>5, <1>3 DEF Solves
  <2> QED BY <2>5, <2>6
<1>10. c = E(c) BY <1>9
<1> HIDE DEF c
<1>11. \A p \in Nat : c[p] = lex(buf, c, p) BY <1>10
<1> QED BY <1>2, <1>11

(* tokenize yields tokens, and never looks behind the line without need. *)
LEMMA Tokenized ==
  ASSUME NEW W, NEW buf \in Seq(W)
  PROVE  /\ tokenize(buf) \in Seq(Lexed(buf))
         /\ \A z \in Nat : Safe(buf, z) =>
              \A n \in DOMAIN tokenize(buf) : tokenize(buf)[n] # Stray
<1> DEFINE b == Len(buf)
           Q == Seq(Lexed(buf))
           Strays(q) == \E n \in DOMAIN q : q[n] = Stray
<1>1. b \in Nat BY CharType
<1>2. PICK c : /\ tokenize(buf) = c[1]
               /\ \A p \in Nat : c[p] = lex(buf, c, p)
  BY FromStep
<1>3. Stray \in Lexed(buf)
  <2>1. "stray" \in Tags BY DEF Tags
  <2> QED BY <2>1 DEF Lexed, Stray
<1>4. \A p \in Nat : p > b \/ p = 0 => c[p] \in Q
  <2> SUFFICES ASSUME NEW p \in Nat, p > b \/ p = 0 PROVE c[p] \in Q OBVIOUS
  <2>1. Char(buf, p) = Unknown BY CharType
  <2>2. lex(buf, c, p) = <<Stray>> BY <2>1, BodyCases
  <2>3. <<Stray>> \in Seq(Lexed(buf)) BY <1>3
  <2> QED BY <1>2, <2>2, <2>3
<1> DEFINE S == {p \in 1 .. b : c[p] \in Q}
<1>5. ASSUME NEW p \in 1 .. b, \A j \in p + 1 .. b : j \in S PROVE p \in S
  <2> SUFFICES c[p] \in Q OBVIOUS
  <2>1. c[p] = lex(buf, c, p) /\ p \in Nat BY <1>2, <1>1
  <2>2. \A e \in Nat : e > p => c[e] \in Q
    <3> SUFFICES ASSUME NEW e \in Nat, e > p PROVE c[e] \in Q OBVIOUS
    <3>1. CASE e > b BY <3>1, <1>4
    <3>2. CASE e <= b
      <4>1. e \in p + 1 .. b BY <3>2, <2>1, <1>1
      <4> QED BY <4>1, <1>5
    <3> QED BY <3>1, <3>2, <1>1
  <2>3. CASE Stops(buf, 0, p)
    <3>1. <<>> \in Seq(Lexed(buf)) OBVIOUS
    <3> QED BY <3>1, <2>1, <2>3 DEF Stops
  <2>4. ASSUME NEW t, Last(buf, 0, p, t) PROVE c[p] \in Q
    <3>1. t \in Lexed(buf) BY <2>4 DEF Last, Gives
    <3>2. <<t>> \in Seq(Lexed(buf)) BY <3>1
    <3> QED BY <3>2, <2>1, <2>4 DEF Last
  <2>5. ASSUME NEW e, Skips(buf, 0, p, e) PROVE c[p] \in Q
    BY <2>1, <2>2, <2>5 DEF Skips, Follows
  <2>6. ASSUME NEW t, NEW e, Takes(buf, 0, p, t, e) PROVE c[p] \in Q
    <3>1. t \in Lexed(buf) /\ e \in Nat /\ e > p /\ lex(buf, c, p) = <<t>> \o c[e]
      BY <2>6 DEF Takes, Gives, Follows
    <3>2. c[e] \in Seq(Lexed(buf)) BY <2>2, <3>1
    <3> QED BY <2>1, <3>1, <3>2, Cons
  <2> QED BY <2>3, <2>4, <2>5, <2>6, LexStep
<1> HIDE DEF S
<1>6. 1 .. b \subseteq S
  <2>1. 1 \in Nat OBVIOUS
  <2> QED BY <2>1, <1>1, <1>5, Downward
<1>7. \A p \in Nat : c[p] \in Q
  <2> SUFFICES ASSUME NEW p \in Nat PROVE c[p] \in Q OBVIOUS
  <2>1. CASE p \in 1 .. b BY <2>1, <1>6 DEF S
  <2>2. CASE p > b \/ p = 0 BY <2>2, <1>4
  <2> QED BY <2>1, <2>2, <1>1
<1>8. ASSUME NEW z \in Nat, Safe(buf, z) PROVE ~Strays(c[1])
  <2> DEFINE M == {p \in 1 .. z : ~Strays(c[p])}
  <2>1. z \in 1 .. b BY <1>8, CharType DEF Safe, LineTo
  <2>2. ASSUME NEW p \in 1 .. z, \A j \in p + 1 .. z : j \in M PROVE p \in M
    <3> SUFFICES ~Strays(c[p]) OBVIOUS
    <3>1. c[p] = lex(buf, c, p) /\ p \in Nat /\ p \in 1 .. b /\ p <= z BY <1>2, <1>1, <2>1
    <3>2. \A e \in Nat : e > p /\ e <= z => ~Strays(c[e])
      <4> SUFFICES ASSUME NEW e \in Nat, e > p, e <= z PROVE ~Strays(c[e]) OBVIOUS
      <4>1. e \in p + 1 .. z BY <3>1
      <4> QED BY <4>1, <2>2
    <3>3. CASE Stops(buf, z, p)
      <4>1. c[p] = <<>> BY <3>1, <3>3 DEF Stops
      <4> QED BY <4>1
    <3>4. ASSUME NEW t, Last(buf, z, p, t) PROVE ~Strays(c[p])
      <4>1. c[p] = <<t>> /\ t # Stray BY <3>1, <3>4, <1>8 DEF Last, Gives
      <4> QED BY <4>1
    <3>5. ASSUME NEW e, Skips(buf, z, p, e) PROVE ~Strays(c[p])
      <4>1. c[p] = c[e] /\ e \in Nat /\ e > p /\ e <= z BY <3>1, <3>5, <1>8 DEF Skips, Follows
      <4> QED BY <4>1, <3>2
    <3>6. ASSUME NEW t, NEW e, Takes(buf, z, p, t, e) PROVE ~Strays(c[p])
      <4>1. /\ c[p] = <<t>> \o c[e] /\ e \in Nat /\ e > p /\ e <= z
            /\ t # Stray /\ t \in Lexed(buf)
        BY <3>1, <3>6, <1>8 DEF Takes, Gives, Follows
      <4>2. ~Strays(c[e]) /\ c[e] \in Seq(Lexed(buf)) BY <4>1, <3>2, <1>7
      <4> DEFINE q == c[e]
                 w == <<t>> \o q
      <4> HIDE DEF q
      <4>3. q \in Seq(Lexed(buf)) /\ \A n \in 1 .. Len(q) : q[n] # Stray BY <4>2 DEF q
      <4>4. w \in Seq(Lexed(buf)) /\ Len(w) = Len(q) + 1 /\ w[1] = t
            /\ \A n \in 2 .. Len(q) + 1 : w[n] = q[n - 1]
        BY <4>1, <4>3, Cons
      <4> HIDE DEF w
      <4>5. ASSUME NEW n \in DOMAIN w PROVE w[n] # Stray
        <5>1. n \in 1 .. Len(q) + 1 /\ Len(q) \in Nat BY <4>3, <4>4
        <5>2. CASE n = 1 BY <5>2, <4>1, <4>4
        <5>3. CASE n # 1
          <6>1. n \in 2 .. Len(q) + 1 /\ n - 1 \in 1 .. Len(q) BY <5>1, <5>3
          <6> QED BY <6>1, <4>3, <4>4
        <5> QED BY <5>2, <5>3
      <4>6. c[p] = w BY <4>1 DEF w, q
      <4> QED BY <4>5, <4>6
    <3> HIDE DEF Strays
    <3> QED BY <3>1, <3>3, <3>4, <3>5, <3>6, LexStep
  <2> HIDE DEF M
  <2>3. 1 .. z \subseteq M
    <3>1. 1 \in Nat OBVIOUS
    <3> QED BY <3>1, <2>2, Downward
  <2>4. 1 \in 1 .. z BY <2>1, <1>1
  <2> QED BY <2>3, <2>4 DEF M
<1> QED BY <1>2, <1>7, <1>8

-----------------------------------------------------------------------------
(* The invariant about lines and tokens.                                   *)

(* The tokens from a to b, before which the level is 0, leave n            *)
(* parentheses open and never close the first one in between.              *)
Gathered(tk, a, b, n) ==
  \E lev : Levels(tk, lev, a, b) /\ lev[a] = 0 /\ lev[b + 1] = n /\ Open(tk, lev, a, b)
Balanced(tk, a, b) ==
  \E lev : /\ Levels(tk, lev, a, b) /\ lev[a] = 0 /\ lev[b + 1] = 0
           /\ Open(tk, lev, a, b - 1) /\ tk[b].tag # "QUOTE"

\* what repl keeps of the lines before ends with token b, or is nothing
Nothing == top_tok = 0 /\ cur_tok = 0 /\ paren_level = 0
Begun(b) ==
  /\ top_tok \in 1 .. b /\ cur_tok = b /\ paren_level > 0
  /\ Row(token, top_tok, b)
  /\ Gathered(token, top_tok, b, paren_level)

TokensOK == \E V : token \in Seq(Records(V)) /\ Links(token)
Types ==
  /\ status \in {"ok", "exit", "crash", "undefined"}
  /\ at \in {"prompt", "tokenize", "level", "parse", "run"}
  /\ {tok, top_tok, cur_tok, line_tok} \subseteq 0 .. Len(token)
  /\ paren_level \in Nat /\ dead \in Nat
  /\ stdin \in Seq(Typed)
  /\ buffer \in [1 .. BufSize -> Typed \cup {NUL, Unknown}]
LineInBuffer == at = "tokenize" => \E z \in Nat : LineTo(buffer, z)
Unfreed == top_tok # 0 => \A i \in top_tok .. Len(token) : token[i].freed = 0
Between ==
  at \in {"prompt", "tokenize"} \/ (at = "level" /\ status # "ok") =>
    line_tok = 0 /\ (Nothing \/ Begun(Len(token)))
AtLevel ==
  at = "level" /\ status = "ok" =>
    /\ line_tok \in 1 .. Len(token) /\ Row(token, line_tok, Len(token))
    /\ \/ top_tok = line_tok /\ cur_tok = 0 /\ paren_level = 0
       \/ Begun(line_tok - 1)
Whole ==
  at \in {"parse", "run"} =>
    /\ line_tok = 0 /\ paren_level = 0 /\ top_tok \in 1 .. Len(token)
    /\ Row(token, top_tok, Len(token))
    /\ Balanced(token, top_tok, Len(token))
FormInv == TokensOK /\ Types /\ LineInBuffer /\ Unfreed /\ Between /\ AtLevel /\ Whole

LEMMA TokenFacts ==
  ASSUME TokensOK
  PROVE  /\ Len(token) \in Nat /\ DOMAIN token = 1 .. Len(token)
         /\ \A i \in DOMAIN token :
              /\ token[i].next \in Nat /\ token[i].freed \in Nat /\ token[i].tag \in Tags
              /\ token[i].next = 0 \/ token[i].next \in i + 1 .. Len(token)
<1>1. PICK V : token \in Seq(Records(V)) /\ Links(token) BY DEF TokensOK
<1>2. Len(token) \in Nat /\ DOMAIN token = 1 .. Len(token) BY <1>1
<1>3. \A i \in DOMAIN token : token[i] \in Records(V) BY <1>1
<1>4. \A i \in DOMAIN token :
        token[i].next \in Nat /\ token[i].freed \in Nat /\ token[i].tag \in Tags
  BY <1>3 DEF Records
<1> QED BY <1>1, <1>2, <1>4 DEF Links

(* What a form depends on. *)
LEMMA RowSame ==
  ASSUME NEW tk, NEW tl, NEW a, NEW b, Row(tk, a, b), b \in Nat, a \in 1 .. b,
         \A i \in a .. b : tl[i].next = tk[i].next
  PROVE  Row(tl, a, b)
<1>1. \A i \in a .. b - 1 : i \in a .. b OBVIOUS
<1>2. b \in a .. b OBVIOUS
<1> QED BY <1>1, <1>2 DEF Row

LEMMA LevelsSame ==
  ASSUME NEW tk, NEW tl, NEW a, NEW b, \A i \in a .. b : tl[i].tag = tk[i].tag
  PROVE  /\ \A lev : Levels(tk, lev, a, b) => Levels(tl, lev, a, b)
         /\ \A lev : Open(tk, lev, a, b) => Open(tl, lev, a, b)
         /\ \A n : Gathered(tk, a, b, n) => Gathered(tl, a, b, n)
  BY DEF Levels, Open, Gathered

(* Two rows of tokens and their levels become one.                         *)
LEMMA JoinLevels ==
  ASSUME NEW tk, NEW a \in Nat, NEW b \in Nat, NEW c \in Nat, a <= b, b < c,
         NEW l, NEW m, Levels(tk, l, a, b), Levels(tk, m, b + 1, c), l[b + 1] = m[b + 1],
         Open(tk, l, a, b)
  PROVE  \E lev : /\ Levels(tk, lev, a, c) /\ lev[a] = l[a] /\ lev[c + 1] = m[c + 1]
                  /\ Open(tk, m, b + 1, c) => Open(tk, lev, a, c)
                  /\ Open(tk, m, b + 1, c - 1) => Open(tk, lev, a, c - 1)
<1> DEFINE lev == [i \in a .. c + 1 |-> IF i <= b THEN l[i] ELSE m[i]]
<1>1. \A i \in a .. b + 1 : lev[i] = l[i] /\ l[i] \in Nat
  BY DEF Levels
<1>2. \A i \in b + 1 .. c + 1 : lev[i] = m[i] /\ m[i] \in Nat
  BY DEF Levels
<1>3. lev \in [a .. c + 1 -> Nat]
  <2>1. \A i \in a .. c + 1 : i \in a .. b + 1 \/ i \in b + 1 .. c + 1 OBVIOUS
  <2> QED BY <2>1, <1>1, <1>2
<1> HIDE DEF lev
<1>4. ASSUME NEW i \in a .. c PROVE lev[i + 1] = lev[i] + Step(tk[i].tag)
  <2>1. CASE i <= b
    <3>1. i \in a .. b /\ i \in a .. b + 1 /\ i + 1 \in a .. b + 1 BY <2>1
    <3> QED BY <3>1, <1>1 DEF Levels
  <2>2. CASE i > b
    <3>1. i \in b + 1 .. c /\ i \in b + 1 .. c + 1 /\ i + 1 \in b + 1 .. c + 1 BY <2>2
    <3> QED BY <3>1, <1>2 DEF Levels
  <2> QED BY <2>1, <2>2
<1>5. ASSUME NEW d \in {c - 1, c}, Open(tk, m, b + 1, d) PROVE Open(tk, lev, a, d)
  <2> SUFFICES ASSUME NEW i \in a .. d, lev[i + 1] = 0 PROVE tk[i].tag = "QUOTE" BY DEF Open
  <2>1. CASE i <= b
    <3>1. i \in a .. b /\ i + 1 \in a .. b + 1 BY <2>1
    <3> QED BY <3>1, <1>1 DEF Open
  <2>2. CASE i > b
    <3>1. i \in b + 1 .. d /\ i + 1 \in b + 1 .. c + 1 BY <2>2
    <3> QED BY <3>1, <1>2, <1>5 DEF Open
  <2> QED BY <2>1, <2>2
<1>6. lev[a] = l[a] /\ lev[c + 1] = m[c + 1]
  <2>1. a \in a .. b + 1 /\ c + 1 \in b + 1 .. c + 1 OBVIOUS
  <2> QED BY <2>1, <1>1, <1>2
<1>7. Levels(tk, lev, a, c) BY <1>3, <1>4 DEF Levels
<1> QED BY <1>5, <1>6, <1>7

(* The form so far when the last line is linked to it.                     *)
LEMMA JoinedForm ==
  ASSUME FormInv, at = "level", status = "ok", Level.level >= 0
  PROVE  LET b == Len(token) IN
         /\ Level.end = b /\ Level.level \in Nat
         /\ \E V : Joined \in Seq(Records(V)) /\ Links(Joined)
         /\ Len(Joined) = b /\ top_tok \in 1 .. b
         /\ \A i \in 1 .. b : Joined[i].tag = token[i].tag /\ Joined[i].freed = token[i].freed
         /\ \A i \in 1 .. b : token[i].freed > 0 => Joined[i] = token[i]
         /\ Row(Joined, top_tok, b)
         /\ Level.level > 0 => Gathered(Joined, top_tok, b, Level.level)
         /\ Level.level = 0 => Balanced(Joined, top_tok, b)
<1> DEFINE b == Len(token)
<1>1. PICK V : token \in Seq(Records(V)) /\ Links(token) BY DEF FormInv, TokensOK
<1>2. b \in Nat /\ DOMAIN token = 1 .. b BY <1>1
<1>3. /\ line_tok \in 1 .. b /\ Row(token, line_tok, b) /\ paren_level \in Nat
      /\ \/ top_tok = line_tok /\ cur_tok = 0 /\ paren_level = 0
         \/ Begun(line_tok - 1)
  BY DEF FormInv, AtLevel, Types
<1>4. Looked(line_tok, paren_level, Level)
  <2>1. line_tok \in DOMAIN token BY <1>2, <1>3
  <2>2. \A before \in Nat : get_paren_level(before, line_tok).level >= 0 =>
          Looked(line_tok, before, get_paren_level(before, line_tok))
    BY <2>1, <1>1, <1>3, LevelRow
  <2>3. Level = get_paren_level(paren_level, line_tok) BY DEF Level
  <2> QED BY <2>2, <2>3, <1>3
<1>5. Level.end = b /\ Level.level \in Nat BY <1>4 DEF Looked
<1>6. PICK m : /\ Levels(token, m, line_tok, b) /\ m[line_tok] = paren_level
               /\ m[b + 1] = Level.level
               /\ Open(token, m, line_tok, b - 1)
               /\ Level.level = 0 => token[b].tag # "QUOTE"
  BY <1>4 DEF Looked
<1>7. Level.level > 0 => Open(token, m, line_tok, b)
  <2> SUFFICES ASSUME Level.level > 0, NEW i \in line_tok .. b, m[i + 1] = 0
               PROVE  token[i].tag = "QUOTE"
    BY DEF Open
  <2> HIDE DEF b
  <2>1. i # b BY <1>5, <1>6
  <2>2. i \in line_tok .. b - 1 BY <2>1, <1>2, <1>3
  <2> QED BY <2>2, <1>6 DEF Open
<1>8. CASE top_tok = line_tok /\ cur_tok = 0 /\ paren_level = 0
  <2>1. Joined = token BY <1>8 DEF Joined
  <2>2. Level.level > 0 => Gathered(token, top_tok, b, Level.level)
    BY <1>6, <1>7, <1>8 DEF Gathered
  <2>3. Level.level = 0 => Balanced(token, top_tok, b)
    BY <1>6, <1>8 DEF Balanced
  <2> QED BY <1>1, <1>3, <1>5, <1>8, <2>1, <2>2, <2>3
<1>9. CASE Begun(line_tok - 1)
  <2> DEFINE c == line_tok - 1
  <2>1. /\ top_tok \in 1 .. c /\ cur_tok = c /\ Row(token, top_tok, c)
        /\ c \in Nat /\ c >= 1 /\ c < b /\ c + 1 = line_tok
    BY <1>9, <1>3, <1>2 DEF Begun
  <2>2. PICK l : /\ Levels(token, l, top_tok, c) /\ l[top_tok] = 0 /\ l[c + 1] = paren_level
                 /\ Open(token, l, top_tok, c)
    BY <1>9 DEF Begun, Gathered
  <2> HIDE DEF c
  <2>3. Joined = [token EXCEPT ![c].next = line_tok] BY <2>1 DEF Joined
  <2>4. /\ Joined \in Seq(Records(V)) /\ Len(Joined) = b
        /\ \A i \in 1 .. b : i # c => Joined[i] = token[i]
        /\ Joined[c] = [token[c] EXCEPT !.next = line_tok]
    <3>1. token[c] \in Records(V) BY <1>1, <1>2, <2>1
    <3>2. [token[c] EXCEPT !.next = line_tok] \in Records(V) BY <3>1, <1>3 DEF Records
    <3>3. Joined = [token EXCEPT ![c] = [token[c] EXCEPT !.next = line_tok]] BY <2>3
    <3> QED BY <3>2, <3>3, <1>1, <1>2, <2>1
  <2>5. \A i \in 1 .. b : /\ Joined[i].tag = token[i].tag /\ Joined[i].freed = token[i].freed
                          /\ Joined[i].next = IF i = c THEN line_tok ELSE token[i].next
    <3>1. \A i \in 1 .. b : token[i] \in Records(V) BY <1>1, <1>2
    <3>2. /\ Joined[c].tag = token[c].tag /\ Joined[c].freed = token[c].freed
          /\ Joined[c].next = line_tok
      BY <3>1, <2>1, <2>4, <1>2 DEF Records
    <3> QED BY <3>2, <2>4
  <2>6. Links(Joined)
    <3> SUFFICES ASSUME NEW i \in 1 .. b
                 PROVE  Joined[i].next = 0 \/ Joined[i].next \in i + 1 .. b
      BY <2>4 DEF Links
    <3>1. CASE i = c BY <3>1, <2>1, <2>5, <1>3, <1>2
    <3>2. CASE i # c BY <3>2, <2>5, <1>1, <1>2 DEF Links
    <3> QED BY <3>1, <3>2
  <2>7. Row(Joined, top_tok, b)
    <3>1. ASSUME NEW i \in top_tok .. b - 1 PROVE Joined[i].next = i + 1
      <4>1. i \in 1 .. b BY <2>1, <1>2
      <4>2. CASE i = c BY <4>1, <4>2, <2>1, <2>5
      <4>3. CASE i < c
        <5>1. i \in top_tok .. c - 1 BY <4>3, <2>1
        <5> QED BY <5>1, <4>1, <4>3, <2>1, <2>5 DEF Row
      <4>4. CASE i > c
        <5>1. i \in line_tok .. b - 1 BY <4>4, <2>1, <1>2
        <5> QED BY <5>1, <4>1, <4>4, <1>3, <2>5 DEF Row
      <4> QED BY <4>1, <4>2, <4>3, <4>4, <2>1
    <3>2. Joined[b].next = 0
      <4> HIDE DEF b
      <4>1. b \in 1 .. b /\ b # c BY <2>1, <1>2
      <4> QED BY <4>1, <2>5, <1>3 DEF Row
    <3> QED BY <3>1, <3>2 DEF Row
  <2>8. PICK lev : /\ Levels(token, lev, top_tok, b) /\ lev[top_tok] = 0
                   /\ lev[b + 1] = Level.level
                   /\ Open(token, m, line_tok, b) => Open(token, lev, top_tok, b)
                   /\ Open(token, m, line_tok, b - 1) => Open(token, lev, top_tok, b - 1)
    <3>1. top_tok \in Nat /\ top_tok <= c BY <2>1
    <3>2. Levels(token, m, c + 1, b) /\ l[c + 1] = m[c + 1] BY <1>6, <2>1, <2>2
    <3> QED BY <3>1, <3>2, <1>2, <1>6, <2>1, <2>2, JoinLevels
  <2>9. \A i \in top_tok .. b : Joined[i].tag = token[i].tag
    <3>1. \A i \in top_tok .. b : i \in 1 .. b BY <2>1
    <3> QED BY <3>1, <2>5
  <2>10. Level.level > 0 => Gathered(Joined, top_tok, b, Level.level)
    <3> SUFFICES ASSUME Level.level > 0 PROVE Gathered(Joined, top_tok, b, Level.level) OBVIOUS
    <3>1. Gathered(token, top_tok, b, Level.level) BY <2>8, <1>7 DEF Gathered
    <3> HIDE DEF b
    <3> QED BY <3>1, <2>9, LevelsSame
  <2>11. Level.level = 0 => Balanced(Joined, top_tok, b)
    <3> SUFFICES ASSUME Level.level = 0 PROVE Balanced(Joined, top_tok, b) OBVIOUS
    <3>1. Levels(Joined, lev, top_tok, b) BY <2>8, <2>9, LevelsSame
    <3>2. \A i \in top_tok .. b - 1 : i \in top_tok .. b BY <1>2
    <3>3. Open(Joined, lev, top_tok, b - 1) BY <2>8, <2>9, <3>2, <1>6 DEF Open
    <3>4. Joined[b].tag # "QUOTE"
      <4>1. b \in 1 .. b BY <2>1, <1>2
      <4> QED BY <4>1, <2>5, <1>6
    <3> QED BY <3>1, <3>3, <3>4, <2>8 DEF Balanced
  <2>12. \A i \in 1 .. b : token[i].freed > 0 => Joined[i] = token[i]
    <3>1. top_tok # 0 /\ c \in top_tok .. b /\ b = Len(token) BY <2>1
    <3>2. token[c].freed = 0 BY <3>1 DEF FormInv, Unfreed
    <3> QED BY <3>2, <2>4
  <2>13. top_tok \in 1 .. b BY <2>1
  <2> QED BY <1>5, <2>4, <2>5, <2>6, <2>7, <2>10, <2>11, <2>12, <2>13
<1> QED BY <1>3, <1>8, <1>9

(* free_token goes along a row. *)
LEMMA FreedRow ==
  ASSUME TokensOK, NEW a \in DOMAIN token, NEW b \in a .. Len(token), Row(token, a, b)
  PROVE  /\ \E V : Freed(a) \in Seq(Records(V)) /\ Links(Freed(a))
         /\ Len(Freed(a)) = Len(token)
         /\ \A i \in DOMAIN token :
              /\ i \notin a .. b => Freed(a)[i] = token[i]
              /\ i \in a .. b => Freed(a)[i].freed = token[i].freed + 1
<1>1. PICK V : token \in Seq(Records(V)) /\ Links(token) BY DEF TokensOK
<1> DEFINE n == Len(token)
           F == [i \in DOMAIN token |->
                   IF i \in a .. b THEN [token[i] EXCEPT !.freed = @ + 1] ELSE token[i]]
<1>2. n \in Nat /\ DOMAIN token = 1 .. n BY <1>1
<1>3. {Chain(a)[k] : k \in DOMAIN Chain(a)} = a .. b BY <1>1, RowIds
<1>4. Freed(a) = F BY <1>3 DEF Freed
<1>5. ASSUME NEW i \in 1 .. n
      PROVE  /\ F[i] \in Records(V)
             /\ F[i].next = token[i].next
             /\ i \notin a .. b => F[i] = token[i]
             /\ i \in a .. b => F[i].freed = token[i].freed + 1
  <2>1. token[i] \in Records(V) BY <1>1, <1>2, <1>5
  <2>2. CASE i \in a .. b
    <3>1. F[i] = [token[i] EXCEPT !.freed = token[i].freed + 1] BY <2>2, <1>2
    <3> HIDE DEF F
    <3> QED BY <3>1, <2>1, <2>2 DEF Records
  <2>3. CASE i \notin a .. b
    <3>1. F[i] = token[i] BY <2>3, <1>2
    <3> QED BY <3>1, <2>1, <2>3
  <2> QED BY <2>2, <2>3
<1>6. DOMAIN F = 1 .. n BY <1>2
<1>7. F \in Seq(Records(V)) /\ Len(F) = n
  <2>1. F = [i \in 1 .. n |-> F[i]] BY <1>2
  <2> HIDE DEF F
  <2>2. F \in [1 .. n -> Records(V)] BY <2>1, <1>5, <1>6
  <2> QED BY <2>2, <1>2
<1> HIDE DEF F
<1>8. Links(F) BY <1>1, <1>2, <1>5, <1>6, <1>7 DEF Links
<1> QED BY <1>2, <1>4, <1>5, <1>7, <1>8

(* What an allocation of the reader results in. *)
Sound(o, held) ==
  LET live == Reach(ParserRoots \cup held)
      used == IF o.tag = "CELL" THEN Items(o.car) \cup Items(o.cdr) ELSE {}
  IN dead = 0 /\ used \subseteq live /\ ~HoldsParen(live)
LEMMA Allocated ==
  ASSUME NEW o, NEW held, NEW r \in Allocate(o, held)
  PROVE  \/ r.status = "ok" /\ r = Result(DOMAIN heap, o)
         \/ r.status = "ok" /\ r = Result(Reach(ParserRoots \cup held), o) /\ Sound(o, held)
         \/ r.status = "exit"
         \/ r.status = "undefined" /\ ~Sound(o, held)
<1>1. \A l : Result(l, o).status = "ok" BY DEF Result
<1>2. CASE Sound(o, held)
  <2>1. r \in {Result(DOMAIN heap, o), Result(Reach(ParserRoots \cup held), o), [status |-> "exit"]}
    BY <1>2 DEF Allocate, Sound
  <2>2. CASE r = [status |-> "exit"] BY <2>2
  <2> QED BY <2>1, <2>2, <1>1, <1>2
<1>3. CASE ~Sound(o, held)
  <2>1. r \in {Result(DOMAIN heap, o), [status |-> "undefined"]}
    BY <1>3 DEF Allocate, Sound
  <2>2. CASE r = [status |-> "undefined"] BY <2>2, <1>3
  <2> QED BY <2>1, <2>2, <1>1
<1> QED BY <1>2, <1>3

Statuses == {"ok", "exit", "crash", "undefined"}
LEMMA ReaderTypes ==
  ASSUME TokensOK, tok \in 0 .. Len(token), dead \in Nat, ParseStep
  PROVE  tok' \in 0 .. Len(token) /\ dead' \in Nat /\ status' \in Statuses
<1>1. \A i \in 1 .. Len(token) : token[i].next \in 0 .. Len(token) BY TokenFacts
<1>2. tok # 0 => T.next \in 0 .. Len(token)
  <2>1. tok # 0 => tok \in 1 .. Len(token) BY TokenFacts
  <2> QED BY <2>1, <1>1 DEF T
<1>3. \A o, held : \A r \in Allocate(o, held) : r.status \in Statuses
  BY Allocated DEF Statuses
<1>4. CASE ParseNull BY <1>4 DEF ParseNull, Calling, Statuses
<1>5. CASE ParseImmediate BY <1>5, <1>2 DEF ParseImmediate, NextToken, Calling, Statuses
<1>6. CASE ParseNew
  <2>1. PICK r \in Allocate([tag |-> T.tag, val |-> T.val], {}) :
          Proceed(r, Returns(r.new) /\ heap' = r.heap /\ NextToken /\ UNCHANGED stack)
    BY <1>6 DEF ParseNew
  <2>2. r.status \in Statuses BY <1>3
  <2> QED BY <2>1, <2>2, <1>2, <1>6 DEF ParseNew, Proceed, NextToken
<1>7. CASE ParseList BY <1>7, <1>2 DEF ParseList, NextToken, Calling, Statuses
<1>8. CASE ParseQuote BY <1>8, <1>2 DEF ParseQuote, NextToken, Calling, Statuses
<1>9. CASE QuoteFails \/ ListEmpty \/ ListFails \/ ListEnds
  BY <1>9 DEF QuoteFails, ListEmpty, ListFails, ListEnds, Returned, Statuses
<1>10. CASE QuoteInner
  <2>1. PICK r \in Allocate(Cell(ret, NIL), {}) :
          Proceed(r, /\ stack' = <<[A EXCEPT !.pc = "inner"]>> \o Tail(stack)
                     /\ Returns(r.new) /\ heap' = r.heap /\ UNCHANGED tok)
    BY <1>10 DEF QuoteInner
  <2>2. r.status \in Statuses BY <1>3
  <2> QED BY <2>1, <2>2 DEF Proceed
<1>11. CASE QuoteOuter
  <2>1. PICK r \in Allocate(Cell(Symbol(<<"q", "u", "o", "t", "e">>), ret), {}) :
          Proceed(r, Leave(r.new) /\ heap' = r.heap /\ UNCHANGED tok)
    BY <1>11 DEF QuoteOuter
  <2>2. r.status \in Statuses BY <1>3
  <2> QED BY <2>1, <2>2 DEF Proceed
<1>12. CASE ListHead
  <2>1. PICK r \in Allocate(Cell(ret, NIL), Items(ret)) :
          Proceed(r, /\ Goes([A EXCEPT !.pc = "next", !.head = r.new, !.cur = r.new])
                     /\ heap' = r.heap /\ UNCHANGED tok)
    BY <1>12 DEF ListHead
  <2>2. r.status \in Statuses BY <1>3
  <2> QED BY <2>1, <2>2 DEF Proceed
<1>13. CASE ListNext BY <1>13, <1>2 DEF ListNext, Statuses
<1>14. CASE ListTail BY <1>14 DEF ListTail, Datum, Returned, Statuses
<1>15. CASE ListAfterTail BY <1>15 DEF ListAfterTail, Datum, Returned, Statuses
<1>16. CASE ListItem
  <2>1. PICK r \in Allocate(Cell(ret, NIL), Items(ret)) :
          Proceed(r, /\ heap' = SetCdr(r.heap, A.cur, r.new)
                     /\ Goes([A EXCEPT !.pc = "next", !.cur = r.new, !.obj = ret])
                     /\ UNCHANGED tok)
    BY <1>16 DEF ListItem
  <2>2. r.status \in Statuses BY <1>3
  <2> QED BY <2>1, <2>2 DEF Proceed
<1> QED BY <1>4, <1>5, <1>6, <1>7, <1>8, <1>9, <1>10, <1>11, <1>12, <1>13, <1>14, <1>15, <1>16
     DEF ParseStep

(* A chunk of the input becomes a line in the buffer. *)
LEMMA BufferSeq ==
  ASSUME Types
  PROVE  buffer \in Seq(Typed \cup {NUL, Unknown}) /\ BufSize \in Nat /\ BufSize > 1
<1>1. BufSize \in Nat /\ BufSize > 1 BY BufSizeAssumption
<1> QED BY <1>1 DEF Types

LEMMA ChunkLine ==
  ASSUME Types, stdin # <<>>
  PROVE  /\ SubSeq(stdin, Len(Chunk) + 1, Len(stdin)) \in Seq(Typed)
         /\ Filled(Chunk) \in [1 .. BufSize -> Typed \cup {NUL, Unknown}]
         /\ \E z \in Nat : LineTo(Filled(Chunk), z)
<1> DEFINE N == Len(stdin)
           ends == {n \in DOMAIN stdin : n = BufSize - 1 \/ n = Len(stdin) \/ n \in Newlines}
           k == CHOOSE n \in ends : \A m \in ends : n <= m
<1>1. stdin \in Seq(Typed) /\ N \in Nat /\ DOMAIN stdin = 1 .. N /\ N >= 1 BY DEF Types
<1>2. N \in ends /\ ends \subseteq Nat BY <1>1
<1>3. k \in ends /\ \A m \in ends : k <= m
  <2>1. ends # {} BY <1>2
  <2> HIDE DEF ends
  <2>2. \E n \in ends : \A m \in ends : n <= m BY <2>1, <1>2, LeastNat
  <2> QED BY <2>2
<1>4. Chunk = SubSeq(stdin, 1, k) BY DEF Chunk
<1> HIDE DEF k
<1>5. k \in 1 .. N /\ k <= BufSize - 1 /\ BufSize \in Nat
  <2>1. BufSize \in Nat /\ BufSize > 1 BY BufferSeq
  <2>2. BufSize - 1 <= N => BufSize - 1 \in ends BY <2>1, <1>1
  <2> QED BY <2>1, <2>2, <1>1, <1>3
<1>6. \A n \in 1 .. k - 1 : stdin[n] # "\n"
  <2> SUFFICES ASSUME NEW n \in 1 .. k - 1, stdin[n] = "\n" PROVE FALSE OBVIOUS
  <2>1. n \in DOMAIN stdin /\ n < k BY <1>1, <1>5
  <2>2. n \in Newlines BY <2>1 DEF Newlines
  <2>3. n \in ends BY <2>1, <2>2
  <2> QED BY <2>1, <2>3, <1>3, <1>5
<1> HIDE DEF ends
<1>7. \A n \in 1 .. N : stdin[n] \in Typed BY <1>1
<1>8. /\ Len(Chunk) = k /\ DOMAIN Chunk = 1 .. k
      /\ \A n \in 1 .. k : Chunk[n] = stdin[n]
  <2>1. 1 \in Int /\ k \in Int /\ \A n \in 1 .. k : stdin[n] \in Typed BY <1>5, <1>7
  <2>2. /\ SubSeq(stdin, 1, k) \in Seq(Typed)
        /\ Len(SubSeq(stdin, 1, k)) = IF 1 <= k THEN k - 1 + 1 ELSE 0
        /\ \A i \in 1 .. k - 1 + 1 : SubSeq(stdin, 1, k)[i] = stdin[1 + i - 1]
    BY <2>1, SubSeqProperties
  <2>3. \A i \in 1 .. k : i \in 1 .. k - 1 + 1 /\ 1 + i - 1 = i BY <1>5
  <2> QED BY <2>2, <2>3, <1>4, <1>5
<1>9. SubSeq(stdin, Len(Chunk) + 1, N) \in Seq(Typed)
  <2>1. Len(Chunk) + 1 \in Int /\ N \in Int /\ \A n \in Len(Chunk) + 1 .. N : stdin[n] \in Typed
    BY <1>1, <1>5, <1>7, <1>8
  <2> QED BY <2>1, SubSeqProperties
<1> DEFINE F == Filled(Chunk)
           held == Typed \cup {NUL, Unknown}
<1>10. \A n \in 1 .. k : Text(Chunk)[n] = IF stdin[n] = "\n" THEN NUL ELSE stdin[n]
  BY <1>8 DEF Text
<1>11. /\ DOMAIN F = 1 .. BufSize /\ F = [m \in 1 .. BufSize |-> F[m]]
       /\ \A n \in 1 .. BufSize :
            /\ n <= Len(Chunk) => F[n] = Text(Chunk)[n]
            /\ ~(n <= Len(Chunk)) /\ n = Len(Chunk) + 1 => F[n] = NUL
            /\ ~(n <= Len(Chunk)) /\ n # Len(Chunk) + 1 => F[n] = buffer[n]
  <2>1. DOMAIN F = 1 .. BufSize /\ F = [m \in 1 .. BufSize |-> F[m]] BY DEF Filled
  <2>2. ASSUME NEW n \in 1 .. BufSize
        PROVE  F[n] = CASE n <= Len(Chunk) -> Text(Chunk)[n] [] n = Len(Chunk) + 1 -> NUL
                        [] OTHER -> buffer[n]
    BY DEF Filled
  <2> HIDE DEF F
  <2>3. ASSUME NEW n \in 1 .. BufSize
        PROVE  /\ n <= Len(Chunk) => F[n] = Text(Chunk)[n]
               /\ ~(n <= Len(Chunk)) /\ n = Len(Chunk) + 1 => F[n] = NUL
               /\ ~(n <= Len(Chunk)) /\ n # Len(Chunk) + 1 => F[n] = buffer[n]
    <3> DEFINE A1 == n <= Len(Chunk)
               A2 == n = Len(Chunk) + 1
               E1 == Text(Chunk)[n]
               E3 == buffer[n]
    <3>1. F[n] = CASE A1 -> E1 [] A2 -> NUL [] OTHER -> E3 BY <2>2
    <3>2. A1 => ~A2 BY <1>5, <1>8
    <3> HIDE DEF A1, A2, E1, E3
    <3>3. /\ A1 => F[n] = E1
          /\ ~A1 /\ A2 => F[n] = NUL
          /\ ~A1 /\ ~A2 => F[n] = E3
      BY <3>1, <3>2, Zenon
    <3> QED BY <3>3 DEF A1, A2, E1, E3
  <2> QED BY <2>1, <2>3
<1> HIDE DEF F
<1>12. \A n \in 1 .. BufSize : F[n] \in held
  <2> SUFFICES ASSUME NEW n \in 1 .. BufSize PROVE F[n] \in held OBVIOUS
  <2>1. buffer[n] \in held BY DEF Types
  <2>2. CASE n <= k
    <3>1. n \in 1 .. k /\ n \in 1 .. N BY <2>2, <1>1, <1>5
    <3>2. F[n] = Text(Chunk)[n] BY <2>2, <1>8, <1>11
    <3> QED BY <3>1, <3>2, <1>7, <1>10
  <2>3. CASE n = k + 1
    <3>1. F[n] = NUL BY <2>3, <1>5, <1>8, <1>11
    <3> QED BY <3>1
  <2>4. CASE n > k + 1
    <3>1. F[n] = buffer[n] BY <2>4, <1>5, <1>8, <1>11
    <3> QED BY <3>1, <2>1
  <2> QED BY <2>2, <2>3, <2>4, <1>5
<1>13. F \in [1 .. BufSize -> held]
  <2>1. 1 \in 1 .. BufSize BY <1>5
  <2>2. F = [m \in 1 .. BufSize |-> F[m]] BY <2>1, <1>11
  <2> QED BY <2>2, <1>12
<1> DEFINE z == IF stdin[k] = "\n" THEN k ELSE k + 1
<1>14. z \in Nat /\ z \in 1 .. BufSize BY <1>5
<1>15. F[z] = NUL
  <2>1. CASE stdin[k] = "\n"
    <3>1. z = k /\ k \in 1 .. k /\ k \in 1 .. BufSize BY <2>1, <1>5
    <3>2. F[k] = Text(Chunk)[k] BY <3>1, <1>5, <1>8, <1>11
    <3> QED BY <3>1, <3>2, <2>1, <1>10
  <2>2. CASE stdin[k] # "\n"
    <3>1. z = k + 1 /\ k + 1 \in 1 .. BufSize BY <2>2, <1>5
    <3> QED BY <3>1, <1>5, <1>8, <1>11
  <2> QED BY <2>1, <2>2
<1>16. ASSUME NEW n \in 1 .. z - 1 PROVE F[n] \notin {NUL, Unknown}
  <2>1. n \in 1 .. k /\ n \in 1 .. N /\ n \in 1 .. BufSize /\ stdin[n] # "\n"
    BY <1>1, <1>5, <1>6
  <2>2. F[n] = stdin[n]
    <3>1. F[n] = Text(Chunk)[n] BY <2>1, <1>8, <1>11, <1>5
    <3> QED BY <3>1, <2>1, <1>10
  <2>3. stdin[n] \in Typed BY <2>1, <1>7
  <2> QED BY <2>2, <2>3 DEF Typed
<1>17. LineTo(F, z) BY <1>11, <1>14, <1>15, <1>16 DEF LineTo
<1> QED BY <1>9, <1>13, <1>14, <1>17 DEF F

(* The tokens of a line behind those of the lines before. *)
LEMMA Appended ==
  ASSUME TokensOK, NEW L, NEW ts \in Seq(L), ts # <<>>, \A n \in DOMAIN ts : ts[n].tag \in Tags
  PROVE  LET tk == token \o Linked(ts)
             a == Len(token)
             b == Len(tk) IN
         /\ \E V : tk \in Seq(Records(V)) /\ Links(tk)
         /\ b \in Nat /\ b > a
         /\ \A i \in 1 .. a : tk[i] = token[i]
         /\ \A i \in a + 1 .. b : tk[i].freed = 0
         /\ Row(tk, a + 1, b)
<1> DEFINE a == Len(token)
           k == Len(ts)
           new == Linked(ts)
<1>1. PICK V : token \in Seq(Records(V)) /\ Links(token) BY DEF TokensOK
<1>2. /\ a \in Nat /\ DOMAIN token = 1 .. a /\ k \in Nat /\ DOMAIN ts = 1 .. k /\ k > 0
  <2>1. k # 0 OBVIOUS
  <2> QED BY <1>1, <2>1
<1> DEFINE W == V \cup {new[n].val : n \in 1 .. k}
<1>3. /\ DOMAIN new = 1 .. k
      /\ \A n \in 1 .. k : /\ new[n].tag \in Tags
                           /\ new[n].next = IF n = k THEN 0 ELSE a + n + 1
                           /\ new[n].freed = 0
                           /\ new[n] \in Records(W)
  <2>1. DOMAIN new = 1 .. k BY <1>2 DEF Linked
  <2>2. ASSUME NEW n \in 1 .. k
        PROVE  \E v : new[n] = [tag |-> ts[n].tag, val |-> v,
                                next |-> IF n = k THEN 0 ELSE a + n + 1, freed |-> 0]
    BY <1>2 DEF Linked
  <2> HIDE DEF new
  <2>3. ASSUME NEW n \in 1 .. k
        PROVE  /\ new[n].tag \in Tags
               /\ new[n].next = IF n = k THEN 0 ELSE a + n + 1
               /\ new[n].freed = 0
               /\ new[n] \in Records(W)
    <3>1. PICK v : new[n] = [tag |-> ts[n].tag, val |-> v,
                             next |-> IF n = k THEN 0 ELSE a + n + 1, freed |-> 0]
      BY <2>2
    <3>4. n \in DOMAIN ts BY <1>2
    <3>5. ts[n].tag \in Tags BY <3>4
    <3>6. a + n + 1 \in Nat
      <4> HIDE DEF a, k
      <4> QED BY <1>2
    <3>7. (IF n = k THEN 0 ELSE a + n + 1) \in Nat
      <4> HIDE DEF a, k
      <4> QED BY <3>6
    <3>2. ts[n].tag \in Tags /\ (IF n = k THEN 0 ELSE a + n + 1) \in Nat BY <3>5, <3>7
    <3>3. new[n].val = v /\ v \in W BY <3>1
    <3> QED BY <3>1, <3>2, <3>3 DEF Records
  <2> QED BY <2>1, <2>3
<1>4. new = [n \in 1 .. k |-> new[n]] BY <1>2 DEF Linked
<1> HIDE DEF new
<1>5. new \in Seq(Records(W)) /\ Len(new) = k
  <2>1. new \in [1 .. k -> Records(W)] BY <1>3, <1>4
  <2> QED BY <2>1, <1>2
<1>6. token \in Seq(Records(W))
  <2>4. \A i \in 1 .. a : token[i] \in Records(V) BY <1>1, <1>2
  <2>5. Records(V) \subseteq Records(W) BY DEF Records
  <2>1. \A i \in 1 .. a : token[i] \in Records(W) BY <2>4, <2>5
  <2>2. token = [i \in 1 .. a |-> token[i]] BY <1>1, <1>2
  <2>3. token \in [1 .. a -> Records(W)] BY <2>1, <2>2
  <2> QED BY <2>3, <1>2
<1> DEFINE tk == token \o new
<1> HIDE DEF W
<1>7. /\ tk \in Seq(Records(W)) /\ Len(tk) = a + k
      /\ \A i \in 1 .. a + k : tk[i] = IF i <= a THEN token[i] ELSE new[i - a]
  <2>1. /\ token \o new \in Seq(Records(W)) /\ Len(token \o new) = Len(token) + Len(new)
        /\ \A i \in 1 .. Len(token) + Len(new) :
             (token \o new)[i] = IF i <= Len(token) THEN token[i] ELSE new[i - Len(token)]
    BY <1>5, <1>6, ConcatProperties
  <2> QED BY <2>1, <1>5
<1> HIDE DEF tk
<1>8. \A i \in 1 .. a : tk[i] = token[i]
  <2>1. \A i \in 1 .. a : i \in 1 .. a + k /\ i <= a BY <1>2
  <2> QED BY <2>1, <1>7
<1>9. \A i \in a + 1 .. a + k : /\ tk[i].next = IF i = a + k THEN 0 ELSE i + 1
                                /\ tk[i].freed = 0
  <2> SUFFICES ASSUME NEW i \in a + 1 .. a + k
               PROVE  tk[i].next = (IF i = a + k THEN 0 ELSE i + 1) /\ tk[i].freed = 0
    OBVIOUS
  <2>1. i - a \in 1 .. k /\ i \in 1 .. a + k /\ ~(i <= a) BY <1>2
  <2>2. tk[i] = new[i - a] BY <2>1, <1>7
  <2>3. new[i - a].next = (IF i - a = k THEN 0 ELSE a + (i - a) + 1) /\ new[i - a].freed = 0
    BY <2>1, <1>3
  <2>4. (i - a = k) <=> (i = a + k) BY <1>2
  <2>5. a + (i - a) + 1 = i + 1 BY <1>2
  <2> QED BY <2>2, <2>3, <2>4, <2>5
<1>10. Links(tk)
  <2> SUFFICES ASSUME NEW i \in 1 .. a + k
               PROVE  tk[i].next = 0 \/ tk[i].next \in i + 1 .. a + k
    BY <1>7 DEF Links
  <2>1. CASE i <= a
    <3>1. i \in 1 .. a BY <2>1
    <3>2. token[i].next = 0 \/ token[i].next \in i + 1 .. a BY <3>1, <1>1, <1>2 DEF Links
    <3>3. i + 1 .. a \subseteq i + 1 .. a + k BY <1>2
    <3> QED BY <3>1, <3>2, <3>3, <1>8
  <2>2. CASE i > a
    <3>1. i \in a + 1 .. a + k BY <2>2, <1>2
    <3>2. i # a + k => i + 1 \in i + 1 .. a + k BY <3>1, <1>2
    <3> QED BY <3>1, <3>2, <1>9
  <2> QED BY <2>1, <2>2, <1>2
<1>11. Row(tk, a + 1, a + k)
  <2>1. \A i \in a + 1 .. a + k - 1 : i \in a + 1 .. a + k /\ i # a + k BY <1>2
  <2>2. a + k \in a + 1 .. a + k BY <1>2
  <2> QED BY <2>1, <2>2, <1>9 DEF Row
<1>12. Len(tk) = a + k /\ a + k \in Nat /\ a + k > a BY <1>2, <1>7
<1> QED BY <1>7, <1>8, <1>9, <1>10, <1>11, <1>12 DEF tk, new

LEMMA FormInit == Init => FormInv
<1> SUFFICES ASSUME Init PROVE FormInv OBVIOUS
<1> USE DEF Init, ReaderInit
<1>1. TokensOK
  <2>1. token \in Seq(Records({})) BY DEF Records
  <2>2. Links(token) BY DEF Links
  <2> QED BY <2>1, <2>2 DEF TokensOK
<1>2. Types
  <2>1. Len(token) = 0 OBVIOUS
  <2>2. buffer \in [1 .. BufSize -> Typed \cup {NUL, Unknown}] OBVIOUS
  <2>3. stdin \in Seq(Typed) BY StreamsAssumption
  <2> QED BY <2>1, <2>2, <2>3 DEF Types
<1>3. Unfreed /\ LineInBuffer /\ AtLevel /\ Whole BY DEF Unfreed, LineInBuffer, AtLevel, Whole
<1>4. Between BY DEF Between, Nothing
<1> QED BY <1>1, <1>2, <1>3, <1>4 DEF FormInv

\* what a step of the reader, or one that only moves on, leaves of the form
LEMMA FormKept ==
  ASSUME FormInv, UNCHANGED <<token, top_tok>>
  PROVE  TokensOK' /\ Unfreed' /\ Len(token') = Len(token)
         /\ \A a, b, n : /\ Row(token, a, b) => Row(token', a, b)
                         /\ Gathered(token, a, b, n) => Gathered(token', a, b, n)
                         /\ Balanced(token, a, b) => Balanced(token', a, b)
<1>1. TokensOK' BY DEF FormInv, TokensOK
<1>2. Unfreed' BY DEF FormInv, Unfreed
<1> QED BY <1>1, <1>2

LEMMA ReadLineForm == ASSUME FormInv, ReadLine PROVE FormInv'
<1> USE DEF ReadLine, Reading
<1>1. UNCHANGED <<token, tok, stack, ret, heap, nilcdr, dead, status, top_tok, cur_tok, line_tok, paren_level>>
  BY DEF rvars
<1>2. Types BY DEF FormInv
<1>3. Types'
  <2>1. stdin' \in Seq(Typed) /\ buffer' \in [1 .. BufSize -> Typed \cup {NUL, Unknown}]
    BY <1>2, ChunkLine
  <2>2. at' \in {"prompt", "tokenize", "level", "parse", "run"} OBVIOUS
  <2> QED BY <1>1, <1>2, <2>1, <2>2 DEF Types
<1>4. LineInBuffer'
  <2>1. \E z \in Nat : LineTo(buffer', z) BY <1>2, ChunkLine
  <2> QED BY <2>1 DEF LineInBuffer
<1>5. Between'
  <2>1. line_tok = 0 /\ (Nothing \/ Begun(Len(token))) BY DEF FormInv, Between
  <2> QED BY <2>1, <1>1 DEF Between, Nothing, Begun
<1>6. AtLevel' /\ Whole' BY DEF AtLevel, Whole
<1> QED BY <1>1, <1>3, <1>4, <1>5, <1>6, FormKept DEF FormInv

LEMMA EndOfInputForm == ASSUME FormInv, EndOfInput PROVE FormInv'
<1> USE DEF EndOfInput, Reading
<1>1. Types' BY DEF FormInv, Types
<1>2. LineInBuffer' /\ AtLevel' /\ Whole' BY DEF LineInBuffer, AtLevel, Whole
<1>3. Between' BY DEF FormInv, Between, Nothing, Begun
<1> QED BY <1>1, <1>2, <1>3, FormKept DEF FormInv

(* A line leads beyond its end if it ends in a backslash. *)
LEMMA OverrunIs ==
  ASSUME NEW W, buffer \in Seq(W), NEW z \in Nat, LineTo(buffer, z)
  PROVE  EndsInBackslash <=> Overruns(buffer, z)
<1> DEFINE P(k) == buffer[k] = NUL /\ \A m \in 1 .. k - 1 : buffer[m] # NUL
           k == CHOOSE j \in DOMAIN buffer : P(j)
<1>1. z \in DOMAIN buffer /\ P(z) /\ DOMAIN buffer = 1 .. Len(buffer) /\ Len(buffer) \in Nat
  BY DEF LineTo
<1>2. k \in DOMAIN buffer /\ P(k) BY <1>1
<1>3. EndsInBackslash <=> (k > 1 /\ buffer[k - 1] = "\\" /\ Char(buffer, k + 1) # NUL)
  BY DEF EndsInBackslash
<1> HIDE DEF k
<1>4. k = z
  <2>1. k \in Nat /\ k >= 1 /\ z >= 1 BY <1>1, <1>2
  <2>2. CASE k < z
    <3>1. k \in 1 .. z - 1 BY <2>1, <2>2
    <3> QED BY <3>1, <1>1, <1>2
  <2>3. CASE z < k
    <3>1. z \in 1 .. k - 1 BY <2>1, <2>3
    <3> QED BY <3>1, <1>1, <1>2
  <2> QED BY <2>1, <2>2, <2>3
<1> QED BY <1>3, <1>4 DEF Overruns

(* A stray character is read only behind a line that ends in a backslash.  *)
LEMMA StrayExplained ==
  ASSUME FormInv, at = "tokenize", NEW n \in DOMAIN tokenize(buffer), tokenize(buffer)[n] = Stray
  PROVE  EndsInBackslash
<1>1. PICK z \in Nat : LineTo(buffer, z) BY DEF FormInv, LineInBuffer
<1>2. buffer \in Seq(Typed \cup {NUL, Unknown}) BY BufferSeq DEF FormInv
<1>3. ~Safe(buffer, z) BY <1>2, Tokenized
<1>4. Overruns(buffer, z) BY <1>1, <1>3 DEF Safe
<1> QED BY <1>1, <1>2, <1>4, OverrunIs

LEMMA TokenizeForm == ASSUME FormInv, Tokenize PROVE FormInv'
<1> DEFINE ts == tokenize(buffer)
           rejected == ts = <<>> \/ ts[Len(ts)] = Bad
           stray == ts # <<>> /\ ts[Len(ts)] = Stray
<1>1. ts \in Seq(Lexed(buffer))
  <2>1. buffer \in Seq(Typed \cup {NUL, Unknown}) BY BufferSeq DEF FormInv
  <2> QED BY <2>1, Tokenized
<1>2. /\ status = "ok" /\ at = "tokenize"
      /\ token' = IF rejected \/ stray THEN token ELSE token \o Linked(ts)
      /\ line_tok' = IF rejected \/ stray THEN 0 ELSE Len(token) + 1
      /\ top_tok' = IF top_tok = 0 THEN line_tok' ELSE top_tok
      /\ at' = IF rejected THEN "prompt" ELSE "level"
      /\ status' = IF stray THEN "undefined" ELSE "ok"
      /\ UNCHANGED <<tok, stack, ret, heap, nilcdr, dead, stdin, buffer, cur_tok, paren_level>>
  BY DEF Tokenize
<1>3. line_tok = 0 /\ (Nothing \/ Begun(Len(token))) BY <1>2 DEF FormInv, Between
<1>4. ~(rejected /\ stray)
  <2>1. Bad.tag = "bad" /\ Stray.tag = "stray" BY DEF Bad, Stray, Token
  <2> QED BY <2>1
<1> HIDE DEF ts
<1>5. CASE rejected \/ stray
  <2>1. token' = token /\ line_tok' = 0 BY <1>2, <1>5
  <2>2. top_tok' = top_tok
    <3>1. top_tok = 0 \/ top_tok # 0 OBVIOUS
    <3> QED BY <3>1, <2>1, <1>2
  <2> HIDE DEF rejected, stray
  <2>3. Types' BY <1>2, <1>3, <2>1, <2>2 DEF FormInv, Types
  <2>4. Between' BY <1>2, <1>3, <2>1, <2>2 DEF Between, Nothing, Begun
  <2>5. LineInBuffer' /\ AtLevel' /\ Whole'
    BY <1>2, <1>4, <1>5 DEF LineInBuffer, AtLevel, Whole
  <2> QED BY <2>1, <2>2, <2>3, <2>4, <2>5, FormKept DEF FormInv
<1>6. CASE ~(rejected \/ stray)
  <2> DEFINE a == Len(token)
             b == Len(token')
  <2>1. /\ token' = token \o Linked(ts) /\ line_tok' = a + 1
        /\ at' = "level" /\ status' = "ok" /\ ts # <<>>
    BY <1>2, <1>6
  <2>2. \A n \in DOMAIN ts : ts[n].tag \in Tags
    <3> SUFFICES ASSUME NEW n \in DOMAIN ts PROVE ts[n].tag \in Tags OBVIOUS
    <3>1. ts[n] \in Lexed(buffer) BY <1>1
    <3> QED BY <3>1, LexedTags
  <2> HIDE DEF rejected, stray
  <2>3. /\ TokensOK' /\ b \in Nat /\ b > a /\ a \in Nat
        /\ \A i \in 1 .. a : token'[i] = token[i]
        /\ \A i \in a + 1 .. b : token'[i].freed = 0
        /\ Row(token', a + 1, b)
    <3>1. TokensOK /\ a \in Nat BY TokenFacts DEF FormInv
    <3> QED BY <3>1, <1>1, <2>1, <2>2, Appended DEF TokensOK
  <2> HIDE DEF a, b
  <2>4. {tok, top_tok, cur_tok} \subseteq 0 .. a BY DEF FormInv, Types, a
  <2>5. top_tok' \in 0 .. b /\ line_tok' \in 1 .. b
    BY <1>2, <2>1, <2>3, <2>4
  <2>6. Types'
    <3>1. {tok, top_tok, cur_tok, line_tok}' \subseteq 0 .. b BY <1>2, <2>3, <2>4, <2>5
    <3> QED BY <3>1, <1>2, <2>1 DEF FormInv, Types, b
  <2>7. Unfreed'
    <3> SUFFICES ASSUME top_tok' # 0, NEW i \in top_tok' .. b PROVE token'[i].freed = 0
      BY DEF Unfreed, b
    <3>1. CASE i > a
      <4>1. i \in a + 1 .. b BY <3>1, <2>3, <2>5
      <4> QED BY <4>1, <2>3
    <3>2. CASE i <= a
      <4>1. top_tok # 0 /\ top_tok' = top_tok
        <5>1. CASE top_tok = 0
          <6>1. top_tok' = a + 1 BY <5>1, <1>2, <2>1
          <6> QED BY <6>1, <3>2, <2>3
        <5> QED BY <5>1, <1>2
      <4>2. i \in top_tok .. a /\ i \in 1 .. a BY <3>2, <4>1, <2>3, <2>4
      <4>3. token[i].freed = 0 BY <4>1, <4>2 DEF FormInv, Unfreed, a
      <4> QED BY <4>2, <4>3, <2>3
    <3> QED BY <3>1, <3>2, <2>3, <2>5
  <2>8. AtLevel'
    <3>1. CASE Nothing
      <4>1. top_tok' = line_tok' /\ cur_tok' = 0 /\ paren_level' = 0 BY <3>1, <1>2 DEF Nothing
      <4> QED BY <4>1, <2>1, <2>3, <2>5 DEF AtLevel, b
    <3>2. CASE Begun(a)
      <4>1. top_tok \in 1 .. a /\ cur_tok = a /\ paren_level > 0 /\ Row(token, top_tok, a)
            /\ Gathered(token, top_tok, a, paren_level)
        BY <3>2 DEF Begun
      <4>2. top_tok' = top_tok /\ line_tok' - 1 = a BY <4>1, <1>2, <2>1, <2>3
      <4>3. \A i \in top_tok .. a : token'[i] = token[i]
        <5>1. \A i \in top_tok .. a : i \in 1 .. a BY <4>1, <2>3
        <5> QED BY <5>1, <2>3
      <4>4. Row(token', top_tok, a) BY <4>1, <4>3, <2>3, RowSame
      <4>5. Gathered(token', top_tok, a, paren_level) BY <4>1, <4>3, LevelsSame
      <4>6. Begun(line_tok - 1)' BY <4>1, <4>2, <4>4, <4>5, <1>2 DEF Begun
      <4> QED BY <4>6, <2>1, <2>3, <2>5 DEF AtLevel, b
    <3> QED BY <3>1, <3>2, <1>3 DEF a
  <2>9. Between' /\ Whole' /\ LineInBuffer'
    BY <2>1 DEF Between, Whole, LineInBuffer
  <2> QED BY <2>3, <2>6, <2>7, <2>8, <2>9 DEF FormInv
<1> QED BY <1>5, <1>6

\* where the row of top_tok ends
FormEnd == IF at = "level" /\ cur_tok # 0 THEN cur_tok ELSE Len(token)
HasForm == status = "ok" /\ at \in {"level", "parse", "run"}
LEMMA FormRow ==
  ASSUME FormInv, HasForm
  PROVE  /\ top_tok \in DOMAIN token /\ FormEnd \in top_tok .. Len(token)
         /\ Row(token, top_tok, FormEnd)
<1>1. Len(token) \in Nat /\ DOMAIN token = 1 .. Len(token) BY TokenFacts DEF FormInv
<1> DEFINE b == Len(token)
<1> HIDE DEF b
<1>5. b \in Nat /\ DOMAIN token = 1 .. b /\ b = Len(token) BY <1>1 DEF b
<1>2. CASE at = "level"
  <2>1. /\ line_tok \in 1 .. b /\ Row(token, line_tok, b)
        /\ \/ top_tok = line_tok /\ cur_tok = 0 /\ paren_level = 0
           \/ Begun(line_tok - 1)
    BY <1>2 DEF FormInv, AtLevel, HasForm, b
  <2>2. CASE top_tok = line_tok /\ cur_tok = 0
    <3>1. FormEnd = b BY <2>2 DEF FormEnd, b
    <3> QED BY <1>5, <2>1, <2>2, <3>1
  <2>3. CASE Begun(line_tok - 1)
    <3>1. top_tok \in 1 .. line_tok - 1 /\ cur_tok = line_tok - 1 /\ Row(token, top_tok, cur_tok)
      BY <2>3 DEF Begun
    <3>2. cur_tok # 0 BY <3>1, <2>1, <1>5
    <3>3. FormEnd = cur_tok BY <3>2, <1>2 DEF FormEnd
    <3> QED BY <3>1, <3>3, <2>1, <1>5
  <2> QED BY <2>1, <2>2, <2>3
<1>3. CASE at \in {"parse", "run"}
  <2>1. FormEnd = b BY <1>3 DEF FormEnd, b
  <2> QED BY <1>3, <1>5, <2>1 DEF FormInv, Whole
<1> QED BY <1>2, <1>3 DEF HasForm

LEMMA FormFreed ==
  ASSUME FormInv, HasForm, token' = Freed(top_tok)
  PROVE  /\ TokensOK' /\ Len(token') = Len(token)
         /\ \A i \in DOMAIN token :
              /\ i \notin top_tok .. FormEnd => token'[i] = token[i]
              /\ i \in top_tok .. FormEnd => token'[i].freed = token[i].freed + 1
<1>1. TokensOK BY DEF FormInv
<1>2. /\ top_tok \in DOMAIN token /\ FormEnd \in top_tok .. Len(token)
      /\ Row(token, top_tok, FormEnd)
  BY FormRow
<1> QED BY <1>1, <1>2, FreedRow DEF TokensOK

LEMMA DiscardForm == ASSUME FormInv, Discard PROVE FormInv'
<1>1. HasForm /\ token' = Freed(top_tok) BY DEF Discard, HasForm
<1>2. TokensOK' /\ Len(token') = Len(token) BY <1>1, FormFreed
<1>3. Types' BY <1>2, TokenFacts DEF FormInv, Types, Discard, rvars
<1>4. LineInBuffer' /\ Unfreed' /\ AtLevel' /\ Whole'
  BY DEF Discard, LineInBuffer, Unfreed, AtLevel, Whole
<1>5. Between' BY DEF Discard, Between, Nothing
<1> QED BY <1>2, <1>3, <1>4, <1>5 DEF FormInv

\* what Continue and Parse have in common
LEMMA JoinedKeeps ==
  ASSUME FormInv, at = "level", status = "ok", Level.level >= 0, token' = Joined, top_tok' = top_tok
  PROVE  TokensOK' /\ Unfreed' /\ Len(token') = Len(token) /\ Len(token) \in Nat
<1>1. /\ TokensOK' /\ Len(token') = Len(token) /\ top_tok \in 1 .. Len(token)
      /\ \A i \in 1 .. Len(token) : token'[i].freed = token[i].freed
  BY JoinedForm DEF TokensOK
<1>2. Len(token) \in Nat BY TokenFacts DEF FormInv
<1>3. \A i \in top_tok .. Len(token) : i \in 1 .. Len(token) /\ token[i].freed = 0
  <2> DEFINE b == Len(token)
  <2> HIDE DEF b
  <2>1. \A i \in top_tok .. b : i \in 1 .. b BY <1>1, <1>2 DEF b
  <2>2. top_tok # 0 BY <1>1
  <2> QED BY <2>1, <2>2 DEF b, FormInv, Unfreed
<1> QED BY <1>1, <1>2, <1>3 DEF Unfreed

(* The level at the end of a line is a number. *)
LEMMA LevelType ==
  ASSUME TokensOK, NEW a \in DOMAIN token, NEW before \in Int
  PROVE  get_paren_level(before, a).level \in Int
<1> DEFINE N == Len(token)
           S == {i \in 1 .. N : \A from \in Int : get_paren_level(from, i).level \in Int}
<1>1. N \in Nat /\ DOMAIN token = 1 .. N BY TokenFacts
<1>2. ASSUME NEW i \in 1 .. N, \A j \in i + 1 .. N : j \in S PROVE i \in S
  <2> SUFFICES ASSUME NEW from \in Int PROVE get_paren_level(from, i).level \in Int OBVIOUS
  <2> DEFINE now == from + Step(token[i].tag)
             last == token[i].next = 0
  <2>1. now \in Int /\ i \in DOMAIN token
    <3>1. Step(token[i].tag) \in Int BY StepType
    <3> QED BY <3>1, <1>1
  <2>2. get_paren_level(from, i) =
          IF now = 0 /\ (token[i].tag = "QUOTE") = last THEN [level |-> -1, end |-> i]
          ELSE IF now < 0 \/ last THEN [level |-> now, end |-> i]
          ELSE get_paren_level(now, token[i].next)
    BY <2>1, LevelStep DEF TokensOK
  <2>3. ~last => get_paren_level(now, token[i].next).level \in Int
    <3> SUFFICES ASSUME ~last PROVE get_paren_level(now, token[i].next).level \in Int OBVIOUS
    <3>1. token[i].next \in i + 1 .. N BY <2>1, TokenFacts
    <3> HIDE DEF now
    <3> QED BY <3>1, <2>1, <1>2
  <2> HIDE DEF now, last
  <2>4. CASE now = 0 /\ (token[i].tag = "QUOTE") = last BY <2>4, <2>2
  <2>5. CASE ~(now = 0 /\ (token[i].tag = "QUOTE") = last) /\ (now < 0 \/ last)
    BY <2>5, <2>1, <2>2
  <2>6. CASE ~(now = 0 /\ (token[i].tag = "QUOTE") = last) /\ ~(now < 0 \/ last)
    BY <2>6, <2>2, <2>3
  <2> QED BY <2>4, <2>5, <2>6
<1> HIDE DEF S
<1>3. 1 .. N \subseteq S
  <2>1. 1 \in Nat OBVIOUS
  <2> QED BY <2>1, <1>1, <1>2, Downward
<1> QED BY <1>1, <1>3 DEF S

LEMMA ContinueForm == ASSUME FormInv, Continue PROVE FormInv'
<1>1. /\ at = "level" /\ status = "ok" /\ Level.level > 0 /\ Level.level >= 0
      /\ token' = Joined /\ top_tok' = top_tok
  <2>1. TokensOK /\ line_tok \in DOMAIN token /\ paren_level \in Int
    <3>1. line_tok \in 1 .. Len(token) /\ paren_level \in Nat
      BY DEF FormInv, AtLevel, Types, Continue
    <3> QED BY <3>1, TokenFacts DEF FormInv
  <2>2. Level.level \in Int BY <2>1, LevelType DEF Level
  <2>3. Level.level > 0 => Level.level >= 0 BY <2>2
  <2> QED BY <2>3 DEF Continue
<1>2. TokensOK' /\ Unfreed' /\ Len(token') = Len(token) /\ Len(token) \in Nat
  BY <1>1, JoinedKeeps
<1>3. /\ Level.end = Len(token) /\ Level.level \in Nat /\ top_tok \in 1 .. Len(token)
      /\ Row(Joined, top_tok, Len(token))
      /\ Gathered(Joined, top_tok, Len(token), Level.level)
  BY <1>1, JoinedForm
<1> HIDE DEF Level
<1>4. cur_tok' = Len(token) /\ paren_level' = Level.level BY <1>3 DEF Continue
<1>5. Types' BY <1>2, <1>3, <1>4 DEF FormInv, Types, Continue, rvars
<1>6. LineInBuffer' /\ AtLevel' /\ Whole' BY DEF Continue, LineInBuffer, AtLevel, Whole
<1>7. Begun(Len(token))' BY <1>1, <1>2, <1>3, <1>4 DEF Begun
<1>8. Between' BY <1>7 DEF Continue, Between
<1> QED BY <1>2, <1>5, <1>6, <1>8 DEF FormInv

LEMMA ParseForm == ASSUME FormInv, Parse PROVE FormInv'
<1>1. /\ at = "level" /\ status = "ok" /\ Level.level = 0 /\ Level.level >= 0
      /\ token' = Joined /\ top_tok' = top_tok
  <2>1. Level.level = 0 => Level.level >= 0 OBVIOUS
  <2> QED BY <2>1 DEF Parse
<1>2. TokensOK' /\ Unfreed' /\ Len(token') = Len(token) /\ Len(token) \in Nat
  BY <1>1, JoinedKeeps
<1>3. /\ top_tok \in 1 .. Len(token)
      /\ Row(Joined, top_tok, Len(token)) /\ Balanced(Joined, top_tok, Len(token))
  BY <1>1, JoinedForm
<1>5. Types' BY <1>2, <1>3 DEF FormInv, Types, Parse
<1>6. LineInBuffer' /\ AtLevel' /\ Between' BY DEF Parse, LineInBuffer, AtLevel, Between
<1>7. Whole' BY <1>1, <1>2, <1>3 DEF Whole, Parse
<1> QED BY <1>2, <1>5, <1>6, <1>7 DEF FormInv

LEMMA ReadForm == ASSUME FormInv, Read PROVE FormInv'
<1>1. TokensOK /\ Types BY DEF FormInv
<1>2. tok' \in 0 .. Len(token) /\ dead' \in Nat /\ status' \in Statuses
  <2>1. tok \in 0 .. Len(token) /\ dead \in Nat /\ ParseStep BY <1>1 DEF Types, Read
  <2> QED BY <1>1, <2>1, ReaderTypes
<1>3. UNCHANGED <<token, stdin, buffer, top_tok, cur_tok, line_tok, paren_level, at>>
      /\ at = "parse"
  BY DEF Read
<1>4. Types' BY <1>1, <1>2, <1>3 DEF Types, Statuses
<1>5. TokensOK' /\ Unfreed' BY <1>3, FormKept
<1>6. LineInBuffer' /\ AtLevel' /\ Between' BY <1>3 DEF LineInBuffer, AtLevel, Between
<1>7. Whole' BY <1>3 DEF FormInv, Whole
<1> QED BY <1>4, <1>5, <1>6, <1>7 DEF FormInv

LEMMA ClearRootsForm == ASSUME FormInv, ClearRoots PROVE FormInv'
<1>1. /\ UNCHANGED <<token, tok, status, stdin, buffer, top_tok, cur_tok, line_tok, paren_level>>
      /\ at = "parse" /\ at' = "run" /\ dead' = 0
  BY DEF ClearRoots, Parsed
<1>2. Types' BY <1>1 DEF FormInv, Types
<1>3. TokensOK' /\ Unfreed' BY <1>1, FormKept
<1>4. LineInBuffer' /\ AtLevel' /\ Between' BY <1>1 DEF LineInBuffer, AtLevel, Between
<1>5. Whole' BY <1>1 DEF FormInv, Whole
<1> QED BY <1>2, <1>3, <1>4, <1>5 DEF FormInv

LEMMA FreeFormForm ==
  ASSUME FormInv, HasForm, at # "level", FreeForm, status' \in Statuses,
         UNCHANGED <<dead, stdin, buffer, line_tok, paren_level>>
  PROVE  FormInv'
<1>1. TokensOK' /\ Len(token') = Len(token) BY FormFreed DEF FreeForm
<1>2. /\ UNCHANGED <<dead, stdin, buffer, line_tok, paren_level>>
      /\ top_tok' = 0 /\ cur_tok' = 0 /\ tok' = 0 /\ at' = "prompt"
  BY DEF FreeForm
<1>3. line_tok = 0 /\ paren_level = 0 BY DEF FormInv, Whole, HasForm
<1>4. Len(token) \in Nat BY TokenFacts DEF FormInv
<1>5. Types' BY <1>1, <1>2, <1>3, <1>4 DEF FormInv, Types, Statuses
<1>6. LineInBuffer' /\ AtLevel' /\ Whole' /\ Unfreed' BY <1>2 DEF LineInBuffer, AtLevel, Whole, Unfreed
<1>7. Between' BY <1>2, <1>3 DEF Between, Nothing
<1> QED BY <1>1, <1>5, <1>6, <1>7 DEF FormInv

LEMMA RunForm == ASSUME FormInv, Run PROVE FormInv'
<1>1. status' \in Statuses /\ HasForm /\ at # "level" BY DEF Run, HasForm, Statuses
<1> QED BY <1>1, FreeFormForm DEF Run

LEMMA NotReadForm == ASSUME FormInv, NotRead PROVE FormInv'
<1>1. status' \in Statuses /\ HasForm /\ at # "level" BY DEF NotRead, Parsed, HasForm, Statuses
<1> QED BY <1>1, FreeFormForm DEF NotRead

LEMMA FormStep == ASSUME FormInv, [Next]_vars PROVE FormInv'
<1>1. CASE UNCHANGED vars
  <2>1. UNCHANGED <<token, tok, dead, status, stdin, buffer, top_tok, cur_tok, line_tok,
                    paren_level, at>>
    BY <1>1 DEF vars, rvars
  <2>2. Types' /\ LineInBuffer' /\ Between' /\ AtLevel' /\ Whole'
    BY <2>1 DEF FormInv, Types, LineInBuffer, Between, AtLevel, Whole, Nothing, Begun
  <2> QED BY <2>1, <2>2, FormKept DEF FormInv
<1> QED BY <1>1, EndOfInputForm, ReadLineForm, TokenizeForm, DiscardForm, ContinueForm,
           ParseForm, ReadForm, ClearRootsForm, RunForm, NotReadForm DEF Next

(* What repl keeps between two lines, and what it has when it parses and   *)
(* runs a form, are the tokens of one form in a row, with the level that   *)
(* paren_level says.                                                       *)
THEOREM FormInvariance == Spec => []FormInv
<1>1. FormInv /\ [Next]_vars => FormInv' BY FormStep
<1> QED BY FormInit, <1>1, PTL DEF Spec

(* Types; a token's link leads to a younger token. *)
THEOREM TypesHold == Spec => []TypeOK
<1>1. FormInv => TypeOK
  <2> SUFFICES ASSUME FormInv PROVE TypeOK OBVIOUS
  <2>1. \A i \in DOMAIN token : token[i].next = 0 \/ token[i].next \in i + 1 .. Len(token)
    BY TokenFacts DEF FormInv
  <2> QED BY <2>1 DEF FormInv, Types, TypeOK
<1> QED BY <1>1, FormInvariance, PTL

-----------------------------------------------------------------------------
(* What happens to the tokens.                                             *)

LEMMA FreedStep ==
  ASSUME FormInv, [Next]_vars
  PROVE  \A i \in DOMAIN token : token[i].freed > 0 => token'[i] = token[i]
<1> SUFFICES ASSUME NEW i \in DOMAIN token, token[i].freed > 0 PROVE token'[i] = token[i]
  OBVIOUS
<1>1. TokensOK /\ Len(token) \in Nat /\ DOMAIN token = 1 .. Len(token)
  BY TokenFacts DEF FormInv
<1>2. top_tok # 0 => i \notin top_tok .. Len(token) BY DEF FormInv, Unfreed
<1>3. CASE UNCHANGED token BY <1>3
<1>4. CASE HasForm /\ token' = Freed(top_tok)
  <2>1. i \notin top_tok .. FormEnd
    <3>1. top_tok \in DOMAIN token /\ FormEnd \in top_tok .. Len(token) BY <1>4, FormRow
    <3> HIDE DEF FormEnd
    <3> QED BY <3>1, <1>1, <1>2
  <2> QED BY <2>1, <1>4, FormFreed
<1>5. CASE at = "level" /\ status = "ok" /\ Level.level >= 0 /\ token' = Joined
  BY <1>1, <1>5, JoinedForm
<1>6. CASE Tokenize
  <2> DEFINE ts == tokenize(buffer)
  <2>1. ts \in Seq(Lexed(buffer))
    <3>1. buffer \in Seq(Typed \cup {NUL, Unknown}) BY BufferSeq DEF FormInv
    <3> QED BY <3>1, Tokenized
  <2>2. token' = token \/ (ts # <<>> /\ token' = token \o Linked(ts)) BY <1>6 DEF Tokenize
  <2>3. \A n \in DOMAIN ts : ts[n].tag \in Tags
    <3> SUFFICES ASSUME NEW n \in DOMAIN ts PROVE ts[n].tag \in Tags OBVIOUS
    <3>1. ts[n] \in Lexed(buffer) BY <2>1
    <3> QED BY <3>1, LexedTags
  <2> HIDE DEF ts
  <2>4. CASE ts # <<>> /\ token' = token \o Linked(ts)
    BY <1>1, <2>1, <2>3, <2>4, Appended
  <2> QED BY <2>2, <2>4
<1>7. CASE Discard BY <1>7, <1>4 DEF Discard, HasForm
<1>8. CASE Run BY <1>8, <1>4 DEF Run, FreeForm, HasForm
<1>9. CASE NotRead BY <1>9, <1>4 DEF NotRead, Parsed, FreeForm, HasForm
<1>10. CASE Continue
  <2>1. TokensOK /\ line_tok \in DOMAIN token /\ paren_level \in Int
    <3>1. line_tok \in 1 .. Len(token) /\ paren_level \in Nat
      BY <1>10 DEF FormInv, AtLevel, Types, Continue
    <3> QED BY <3>1, <1>1
  <2>2. Level.level \in Int BY <2>1, LevelType DEF Level
  <2>3. Level.level >= 0 BY <1>10, <2>2 DEF Continue
  <2> QED BY <2>3, <1>10, <1>5 DEF Continue
<1>11. CASE Parse
  <2>1. Level.level >= 0 BY <1>11 DEF Parse
  <2> QED BY <2>1, <1>11, <1>5 DEF Parse
<1>12. CASE UNCHANGED vars BY <1>3, <1>12 DEF vars
<1>13. CASE EndOfInput \/ ReadLine \/ Read \/ ClearRoots
  BY <1>3, <1>13 DEF EndOfInput, ReadLine, Read, ClearRoots
<1> QED BY <1>6, <1>7, <1>8, <1>9, <1>10, <1>11, <1>12, <1>13 DEF Next

(* free_token frees a token once, and nothing links to a token or changes  *)
(* it after that.                                                          *)
THEOREM FreedStays == Spec => FreedUntouched
<1>1. FormInv /\ [Next]_vars => [\A i \in DOMAIN token : token[i].freed > 0 => token'[i] = token[i]]_vars
  BY FreedStep
<1> QED BY <1>1, FormInvariance, PTL DEF Spec, FreedUntouched

\* the elements of two sequences, one behind the other
Together(p, q) ==
  {(p \o q)[n] : n \in DOMAIN (p \o q)} = {p[n] : n \in DOMAIN p} \cup {q[n] : n \in DOMAIN q}
LEMMA JoinedRange ==
  ASSUME NEW p \in Seq(Nat), NEW q \in Seq(Nat)
  PROVE  Together(p, q)
<1> USE DEF Together
<1> DEFINE c == p \o q
<1>1. /\ Len(p) \in Nat /\ Len(q) \in Nat /\ DOMAIN p = 1 .. Len(p) /\ DOMAIN q = 1 .. Len(q)
      /\ c \in Seq(Nat) /\ Len(c) = Len(p) + Len(q) /\ DOMAIN c = 1 .. Len(p) + Len(q)
      /\ \A n \in 1 .. Len(p) + Len(q) : c[n] = IF n <= Len(p) THEN p[n] ELSE q[n - Len(p)]
  BY ConcatProperties
<1> HIDE DEF c
<1>2. ASSUME NEW n \in DOMAIN c PROVE c[n] \in {p[m] : m \in DOMAIN p} \cup {q[m] : m \in DOMAIN q}
  <2>1. CASE n <= Len(p)
    <3>1. n \in DOMAIN p /\ c[n] = p[n] BY <2>1, <1>1
    <3> QED BY <3>1
  <2>2. CASE n > Len(p)
    <3>1. n - Len(p) \in DOMAIN q /\ c[n] = q[n - Len(p)] BY <2>2, <1>1
    <3> QED BY <3>1
  <2> QED BY <2>1, <2>2, <1>1
<1>3. ASSUME NEW m \in DOMAIN p PROVE p[m] \in {c[n] : n \in DOMAIN c}
  <2>1. m \in DOMAIN c /\ c[m] = p[m] BY <1>1
  <2> QED BY <2>1
<1>4. ASSUME NEW m \in DOMAIN q PROVE q[m] \in {c[n] : n \in DOMAIN c}
  <2>1. Len(p) + m \in DOMAIN c /\ ~(Len(p) + m <= Len(p)) /\ (Len(p) + m) - Len(p) = m BY <1>1
  <2>2. c[Len(p) + m] = q[m] BY <2>1, <1>1
  <2> QED BY <2>1, <2>2
<1> QED BY <1>2, <1>3, <1>4 DEF c

(* The tokens repl can still free are those from top_tok on. *)
OwnedRow == IF top_tok = 0 THEN {} ELSE top_tok .. Len(token)
LEMMA OwnedIs == FormInv => OwnedTokens = OwnedRow
<1> USE DEF OwnedRow
<1> SUFFICES ASSUME FormInv PROVE OwnedTokens = IF top_tok = 0 THEN {} ELSE top_tok .. Len(token)
  OBVIOUS
<1> DEFINE b == Len(token)
           Ids(t) == {Chain(t)[n] : n \in DOMAIN Chain(t)}
<1>1. PICK V : token \in Seq(Records(V)) /\ Links(token) BY DEF FormInv, TokensOK
<1>2. b \in Nat /\ DOMAIN token = 1 .. b BY <1>1
<1>3. Chain(0) = <<>> BY <1>1, ChainStep
<1>4. \A s, e \in 1 .. b : s <= e /\ Row(token, s, e) => Chain(s) \in Seq(Nat) /\ Ids(s) = s .. e
  <2> SUFFICES ASSUME NEW s \in 1 .. b, NEW e \in 1 .. b, s <= e, Row(token, s, e)
               PROVE  Chain(s) \in Seq(Nat) /\ Ids(s) = s .. e
    OBVIOUS
  <2>1. s \in DOMAIN token /\ e \in s .. Len(token) BY <1>2
  <2> QED BY <2>1, <1>1, RowIds
<1>5. <<>> \in Seq(Nat) /\ Ids(0) = {} BY <1>3
<1>6. CASE at # "level" \/ status # "ok"
  <2>1. Owned = Chain(top_tok) \o <<>>
    <3>1. at = "level" => line_tok = 0 BY <1>6 DEF FormInv, Between
    <3> QED BY <3>1, <1>3 DEF Owned
  <2>2. top_tok = 0 \/ (top_tok \in 1 .. b /\ Row(token, top_tok, b))
    BY <1>6 DEF FormInv, Types, Between, Whole, Nothing, Begun
  <2>3. CASE top_tok = 0
    <3>1. Owned = <<>> BY <2>1, <2>3, <1>3
    <3> QED BY <3>1, <2>3 DEF OwnedTokens
  <2>4. CASE top_tok \in 1 .. b /\ Row(token, top_tok, b)
    <3>1. b \in 1 .. b /\ top_tok <= b /\ top_tok # 0 BY <2>4, <1>2
    <3>2. Chain(top_tok) \in Seq(Nat) /\ Ids(top_tok) = top_tok .. b BY <3>1, <2>4, <1>4
    <3>3. Owned = Chain(top_tok) BY <2>1, <3>2
    <3> QED BY <3>1, <3>2, <3>3 DEF OwnedTokens
  <2> QED BY <2>2, <2>3, <2>4
<1>7. CASE at = "level" /\ status = "ok"
  <2>1. /\ line_tok \in 1 .. b /\ Row(token, line_tok, b)
        /\ \/ top_tok = line_tok
           \/ Begun(line_tok - 1)
    BY <1>7 DEF FormInv, AtLevel
  <2>2. Owned = Chain(top_tok) \o Chain(line_tok) BY <1>7 DEF Owned
  <2>3. Chain(line_tok) \in Seq(Nat) /\ Ids(line_tok) = line_tok .. b
    <3>1. b \in 1 .. b /\ line_tok <= b BY <2>1, <1>2
    <3> QED BY <3>1, <2>1, <1>4
  <2>4. CASE top_tok = line_tok
    <3>1. Together(Chain(top_tok), Chain(line_tok)) BY <2>3, <2>4, JoinedRange
    <3>2. OwnedTokens = Ids(top_tok) \cup Ids(line_tok)
      BY <2>2, <3>1 DEF OwnedTokens, Together
    <3>3. top_tok # 0 BY <2>1, <2>4
    <3> QED BY <3>2, <3>3, <2>3, <2>4
  <2>5. CASE Begun(line_tok - 1)
    <3> DEFINE c == line_tok - 1
    <3>1. top_tok \in 1 .. c /\ Row(token, top_tok, c) /\ c \in 1 .. b /\ top_tok \in 1 .. b /\ top_tok <= c
      BY <2>5, <2>1, <1>2 DEF Begun
    <3>2. Chain(top_tok) \in Seq(Nat) /\ Ids(top_tok) = top_tok .. c BY <3>1, <1>4
    <3>5. Together(Chain(top_tok), Chain(line_tok)) BY <2>3, <3>2, JoinedRange
    <3>3. OwnedTokens = Ids(top_tok) \cup Ids(line_tok)
      BY <2>2, <3>5 DEF OwnedTokens, Together
    <3>4. (top_tok .. c) \cup (line_tok .. b) = top_tok .. b
      <4> HIDE DEF b
      <4> QED BY <3>1, <2>1, <1>2
    <3>6. top_tok # 0 BY <3>1
    <3> HIDE DEF Ids, c
    <3>7. Ids(top_tok) = top_tok .. line_tok - 1 BY <3>2 DEF c
    <3>8. (top_tok .. line_tok - 1) \cup (line_tok .. b) = top_tok .. b BY <3>4 DEF c
    <3>9. OwnedTokens = top_tok .. b BY <3>3, <3>7, <3>8, <2>3
    <3> QED BY <3>6, <3>9
  <2> QED BY <2>1, <2>4, <2>5
<1> QED BY <1>6, <1>7

LEMMA OwnedStep ==
  ASSUME FormInv, [Next]_vars
  PROVE  \A i \in OwnedTokens :
           \/ i \in OwnedTokens'
           \/ token'[i].freed > 0
           \/ at = "level" /\ cur_tok # 0 /\ Level.level < 0
<1> SUFFICES ASSUME NEW i \in OwnedTokens
             PROVE  \/ i \in OwnedTokens'
                    \/ token'[i].freed > 0
                    \/ at = "level" /\ cur_tok # 0 /\ Level.level < 0
  OBVIOUS
<1>1. top_tok # 0 /\ i \in top_tok .. Len(token) BY OwnedIs DEF OwnedRow
<1>2. /\ Len(token) \in Nat /\ DOMAIN token = 1 .. Len(token) /\ i \in DOMAIN token
      /\ top_tok \in Nat
  <2>1. Len(token) \in Nat /\ DOMAIN token = 1 .. Len(token) BY TokenFacts DEF FormInv
  <2>2. top_tok \in 0 .. Len(token) BY DEF FormInv, Types
  <2> QED BY <1>1, <2>1, <2>2
<1>3. CASE top_tok' = top_tok /\ Len(token') >= Len(token) /\ Len(token') \in Nat
  <2>1. FormInv' BY FormStep
  <2>2. (FormInv => OwnedTokens = OwnedRow)' BY OwnedIs, PTL
  <2>3. i \in top_tok' .. Len(token') BY <1>1, <1>2, <1>3
  <2> QED BY <2>1, <2>2, <2>3, <1>1, <1>3 DEF OwnedRow
<1>4. CASE HasForm /\ token' = Freed(top_tok) /\ FormEnd = Len(token)
  <2>1. token'[i].freed = token[i].freed + 1 BY <1>1, <1>2, <1>4, FormFreed
  <2>2. token[i].freed = 0 BY <1>1 DEF FormInv, Unfreed
  <2> QED BY <2>1, <2>2
<1>5. CASE UNCHANGED token /\ top_tok' = top_tok BY <1>2, <1>3, <1>5
<1>6. CASE UNCHANGED vars \/ EndOfInput \/ ReadLine \/ Read \/ ClearRoots
  BY <1>5, <1>6 DEF vars, EndOfInput, ReadLine, Read, ClearRoots
<1>7. CASE Tokenize
  <2>1. top_tok' = top_tok BY <1>1, <1>7 DEF Tokenize
  <2>2. token' = token \/ token' = token \o Linked(tokenize(buffer)) BY <1>7 DEF Tokenize
  <2>3. CASE token' = token BY <2>1, <2>3, <1>5
  <2>4. CASE token' # token
    <3> DEFINE ts == tokenize(buffer)
    <3>1. ts \in Seq(Lexed(buffer))
      <4>1. buffer \in Seq(Typed \cup {NUL, Unknown}) BY BufferSeq DEF FormInv
      <4> QED BY <4>1, Tokenized
    <3>2. ts # <<>> BY <2>4, <1>7 DEF Tokenize
    <3>3. \A n \in DOMAIN ts : ts[n].tag \in Tags
      <4> SUFFICES ASSUME NEW n \in DOMAIN ts PROVE ts[n].tag \in Tags OBVIOUS
      <4>1. ts[n] \in Lexed(buffer) BY <3>1
      <4> QED BY <4>1, LexedTags
    <3> HIDE DEF ts
    <3>4. Len(token \o Linked(ts)) \in Nat /\ Len(token \o Linked(ts)) > Len(token)
      BY <3>1, <3>2, <3>3, Appended DEF FormInv
    <3>5. token' = token \o Linked(ts) BY <2>2, <2>4 DEF ts
    <3> QED BY <2>1, <3>4, <3>5, <1>2, <1>3
  <2> QED BY <2>3, <2>4
<1>8. CASE Discard
  <2>1. CASE cur_tok # 0 BY <2>1, <1>8 DEF Discard
  <2>2. CASE cur_tok = 0 BY <2>2, <1>4, <1>8 DEF Discard, HasForm, FormEnd
  <2> QED BY <2>1, <2>2
<1>9. CASE Run BY <1>4, <1>9 DEF Run, FreeForm, HasForm, FormEnd
<1>10. CASE NotRead BY <1>4, <1>10 DEF NotRead, Parsed, FreeForm, HasForm, FormEnd
<1>11. CASE Continue \/ Parse
  <2>1. top_tok' = top_tok /\ token' = Joined BY <1>11 DEF Continue, Parse
  <2>2. Len(Joined) = Len(token)
    <3>1. PICK V : token \in Seq(Records(V)) BY DEF FormInv, TokensOK
    <3>2. CASE cur_tok = 0 BY <3>2 DEF Joined
    <3>3. CASE cur_tok # 0
      <4>1. Joined = [token EXCEPT ![cur_tok].next = line_tok] BY <3>3 DEF Joined
      <4>2. DOMAIN Joined = 1 .. Len(token) BY <4>1, <1>2
      <4>3. Joined = [k \in 1 .. Len(token) |-> Joined[k]] BY <4>1, <1>2
      <4> QED BY <4>2, <1>2
    <3> QED BY <3>2, <3>3
  <2> QED BY <2>1, <2>2, <1>2, <1>3
<1> QED BY <1>6, <1>7, <1>8, <1>9, <1>10, <1>11 DEF Next

(* A token is dropped without being freed only on a line that goes on with *)
(* a form and closes more parentheses than are open, or has a token behind *)
(* the end of the form (get_paren_level answers -1, repl.c:17 and 20-24).  *)
THEOREM LeaksOneWay == Spec => LeaksExplained
<1>1. FormInv /\ [Next]_vars => [\A i \in OwnedTokens :
           \/ i \in OwnedTokens'
           \/ token'[i].freed > 0
           \/ at = "level" /\ cur_tok # 0 /\ Level.level < 0]_vars
  BY OwnedStep
<1> QED BY <1>1, FormInvariance, PTL DEF Spec, LeaksExplained

-----------------------------------------------------------------------------
(* The form that has not ended.                                            *)

(* LevelOf adds up the steps of a sequence of tokens. *)
LEMMA LevelSum ==
  ASSUME NEW ts \in Seq(Nat), NEW l \in [0 .. Len(ts) -> Int], l[0] = 0,
         \A n \in 1 .. Len(ts) : l[n] = l[n - 1] + Step(token[ts[n]].tag)
  PROVE  LevelOf(ts) = l[Len(ts)]
<1> DEFINE k == Len(ts)
           E(f) == [n \in 0 .. k |-> IF n = 0 THEN 0 ELSE f[n - 1] + Step(token[ts[n]].tag)]
           c == CHOOSE f : f = E(f)
<1>1. k \in Nat OBVIOUS
<1>2. l = E(l)
  <2> HIDE DEF k
  <2>1. \A n \in 0 .. k : l[n] = IF n = 0 THEN 0 ELSE l[n - 1] + Step(token[ts[n]].tag)
    <3> SUFFICES ASSUME NEW n \in 0 .. k
                 PROVE  l[n] = IF n = 0 THEN 0 ELSE l[n - 1] + Step(token[ts[n]].tag)
      OBVIOUS
    <3>1. n # 0 => n \in 1 .. k BY <1>1
    <3> QED BY <3>1 DEF k
  <2>2. l = [n \in 0 .. k |-> l[n]] BY DEF k
  <2> QED BY <2>1, <2>2
<1>3. LevelOf(ts) = c[k] BY DEF LevelOf
<1>4. c = E(c) BY <1>2
<1> DEFINE S == {n \in Nat : n <= k => c[n] = l[n]}
<1> HIDE DEF c, k
<1>5. \A n \in 0 .. k : c[n] = IF n = 0 THEN 0 ELSE c[n - 1] + Step(token[ts[n]].tag) BY <1>4
<1>6. 0 \in S
  <2>1. 0 \in 0 .. k BY <1>1
  <2> QED BY <2>1, <1>5
<1>7. ASSUME NEW n \in Nat, n \in S PROVE n + 1 \in S
  <2> SUFFICES ASSUME n + 1 <= k PROVE c[n + 1] = l[n + 1] OBVIOUS
  <2>1. n + 1 \in 0 .. k /\ n + 1 \in 1 .. k /\ n + 1 # 0 /\ (n + 1) - 1 = n /\ n <= k BY <1>1
  <2>2. c[n + 1] = c[n] + Step(token[ts[n + 1]].tag) BY <2>1, <1>5
  <2>3. l[n + 1] = l[n] + Step(token[ts[n + 1]].tag) BY <2>1 DEF k
  <2>4. c[n] = l[n] BY <1>7, <2>1
  <2> QED BY <2>2, <2>3, <2>4
<1> HIDE DEF S
<1>8. Nat \subseteq S BY <1>6, <1>7, NatInd
<1>9. k \in S /\ k <= k BY <1>1, <1>8
<1>10. c[k] = l[k] BY <1>9 DEF S
<1> QED BY <1>3, <1>10 DEF k

(* The beginnings of a row and their levels. *)
LEMMA RowLevels ==
  ASSUME TokensOK, NEW a \in DOMAIN token, NEW b \in a .. Len(token), Row(token, a, b),
         NEW lev, Levels(token, lev, a, b), lev[a] = 0
  PROVE  LET form == Chain(a) IN
         /\ form \in Seq(Nat) /\ Len(form) = b - a + 1
         /\ \A n \in 1 .. b - a + 1 : form[n] = a + n - 1
         /\ \A n \in 0 .. b - a + 1 : LevelOf(SubSeq(form, 1, n)) = lev[a + n]
         /\ LevelOf(form) = lev[b + 1]
<1> DEFINE k == b - a + 1
           form == Chain(a)
<1>1. a \in Nat /\ b \in Nat /\ k \in Nat /\ b + 1 = a + k
  <2>1. Len(token) \in Nat /\ DOMAIN token = 1 .. Len(token) BY TokenFacts
  <2> QED BY <2>1
<1>2. form \in Seq(Nat) /\ DOMAIN form = 1 .. k /\ \A n \in 1 .. k : form[n] = a + n - 1
  BY RowIds DEF TokensOK
<1> HIDE DEF k, form
<1>3. Len(form) = k BY <1>1, <1>2
<1>4. ASSUME NEW n \in 0 .. k, NEW ts \in Seq(Nat), Len(ts) = n,
             \A j \in 1 .. n : ts[j] = form[j]
      PROVE  LevelOf(ts) = lev[a + n]
  <2> DEFINE l == [j \in 0 .. n |-> lev[a + j]]
  <2>1. ASSUME NEW j \in 0 .. n PROVE l[j] \in Int
    <3>1. a + j \in a .. b + 1 BY <1>1
    <3>2. lev[a + j] \in Nat BY <3>1 DEF Levels
    <3> QED BY <3>2
  <2>2. l \in [0 .. n -> Int] BY <2>1
  <2>3. l[0] = 0
    <3>1. 0 \in 0 .. n /\ a + 0 = a BY <1>1
    <3> QED BY <3>1
  <2>4. ASSUME NEW j \in 1 .. n PROVE l[j] = l[j - 1] + Step(token[ts[j]].tag)
    <3>1. /\ j \in 0 .. n /\ j - 1 \in 0 .. n /\ j \in 1 .. k
          /\ a + j - 1 \in a .. b /\ (a + j - 1) + 1 = a + j /\ a + (j - 1) = a + j - 1
      BY <1>1
    <3>2. ts[j] = a + j - 1 BY <3>1, <1>2, <1>4
    <3>3. lev[(a + j - 1) + 1] = lev[a + j - 1] + Step(token[a + j - 1].tag)
      BY <3>1 DEF Levels
    <3> QED BY <3>1, <3>2, <3>3
  <2>5. l[n] = lev[a + n]
    <3>1. n \in 0 .. n OBVIOUS
    <3> QED BY <3>1
  <2> HIDE DEF l
  <2> QED BY <2>2, <2>3, <2>4, <2>5, <1>4, LevelSum
<1>5. \A n \in 0 .. k : LevelOf(SubSeq(form, 1, n)) = lev[a + n]
  <2> SUFFICES ASSUME NEW n \in 0 .. k PROVE LevelOf(SubSeq(form, 1, n)) = lev[a + n] OBVIOUS
  <2> DEFINE ts == SubSeq(form, 1, n)
  <2>1. ts \in Seq(Nat) /\ Len(ts) = n /\ \A j \in 1 .. n : ts[j] = form[j]
    BY <1>1, <1>2, <1>3
  <2> HIDE DEF ts
  <2>2. LevelOf(ts) = lev[a + n] BY <2>1, <1>4
  <2> QED BY <2>2 DEF ts
<1>6. LevelOf(form) = lev[b + 1]
  <2>1. k \in 0 .. k BY <1>1
  <2> QED BY <2>1, <1>1, <1>2, <1>3, <1>4
<1> QED BY <1>2, <1>3, <1>5, <1>6 DEF form, k

(* As long as no parenthesis is open, there are only quotes. *)
OnlyQuotes(tk, a, n) == \A m \in 1 .. n : tk[a + m - 1].tag = "QUOTE"
LEMMA QuotesFirst ==
  ASSUME NEW tk, NEW lev, NEW a \in Nat, NEW b \in Nat, NEW c \in Nat, c <= b,
         Levels(tk, lev, a, b), Open(tk, lev, a, c)
  PROVE  \A n \in Nat : a + n <= c + 1 /\ lev[a + n] = 0 => OnlyQuotes(tk, a, n)
<1> DEFINE Quotes(n) == \A m \in 1 .. n : tk[a + m - 1].tag = "QUOTE"
           S == {n \in Nat : a + n <= c + 1 /\ lev[a + n] = 0 => Quotes(n)}
<1>1. 0 \in S OBVIOUS
<1>2. ASSUME NEW n \in Nat, n \in S PROVE n + 1 \in S
  <2> SUFFICES ASSUME a + (n + 1) <= c + 1, lev[a + (n + 1)] = 0 PROVE Quotes(n + 1) OBVIOUS
  <2>1. /\ a + n \in a .. c /\ a + n \in a .. b /\ a + n \in a .. b + 1
        /\ a + (n + 1) = (a + n) + 1 /\ a + n <= c + 1
    OBVIOUS
  <2>2. tk[a + n].tag = "QUOTE" BY <2>1 DEF Open
  <2>3. lev[(a + n) + 1] = lev[a + n] + Step(tk[a + n].tag) /\ lev[a + n] \in Nat
    BY <2>1 DEF Levels
  <2>4. Step(tk[a + n].tag) = 0 BY <2>2 DEF Step
  <2>5. lev[a + n] = 0 BY <2>1, <2>3, <2>4
  <2>6. Quotes(n) BY <1>2, <2>1, <2>5
  <2>7. ASSUME NEW m \in 1 .. n + 1 PROVE tk[a + m - 1].tag = "QUOTE"
    <3>1. CASE m = n + 1
      <4>1. a + m - 1 = a + n BY <3>1
      <4> QED BY <2>2, <4>1
    <3>2. CASE m # n + 1
      <4>1. m \in 1 .. n BY <3>2
      <4> QED BY <4>1, <2>6
    <3> QED BY <3>1, <3>2
  <2> QED BY <2>7
<1> HIDE DEF S
<1>3. Nat \subseteq S BY <1>1, <1>2, NatInd
<1> QED BY <1>3 DEF S, OnlyQuotes

(* At the prompt, what repl keeps of the lines before is a form that has   *)
(* not ended.                                                              *)
LEMMA PendingForm == ASSUME FormInv PROVE PendingIsOpen
<1> SUFFICES ASSUME at = "prompt", status = "ok"
             PROVE  LET form == Chain(top_tok) IN
                    /\ paren_level = LevelOf(form)
                    /\ (top_tok = 0) = (paren_level = 0) /\ (cur_tok = 0) = (top_tok = 0)
                    /\ form # <<>> => form[Len(form)] = cur_tok
                    /\ \A n \in DOMAIN form :
                         \/ LevelOf(SubSeq(form, 1, n)) > 0
                         \/ \A m \in 1 .. n : token[form[m]].tag = "QUOTE"
  BY DEF PendingIsOpen
<1> DEFINE b == Len(token)
<1>1. TokensOK /\ b \in Nat /\ DOMAIN token = 1 .. b BY TokenFacts DEF FormInv
<1>2. Nothing \/ Begun(b) BY DEF FormInv, Between
<1>3. CASE Nothing
  <2>1. Chain(0) = <<>> BY <1>1, ChainStep DEF TokensOK
  <2>2. LevelOf(<<>>) = 0
    <3> DEFINE l == [n \in 0 .. 0 |-> 0]
               ts == <<>>
    <3>1. /\ ts \in Seq(Nat) /\ Len(ts) = 0 /\ l \in [0 .. 0 -> Int] /\ l[0] = 0 OBVIOUS
    <3> HIDE DEF ts, l
    <3>2. \A n \in 1 .. Len(ts) : l[n] = l[n - 1] + Step(token[ts[n]].tag) BY <3>1
    <3>3. LevelOf(ts) = l[Len(ts)] BY <3>1, <3>2, LevelSum
    <3>4. LevelOf(ts) = 0 BY <3>1, <3>3
    <3> QED BY <3>4 DEF ts
  <2> QED BY <1>3, <2>1, <2>2 DEF Nothing
<1>4. CASE Begun(b)
  <2> DEFINE a == top_tok
             form == Chain(a)
             k == b - a + 1
  <2>1. a \in 1 .. b /\ cur_tok = b /\ paren_level > 0 /\ Row(token, a, b)
    BY <1>4 DEF Begun
  <2>2. PICK lev : /\ Levels(token, lev, a, b) /\ lev[a] = 0 /\ lev[b + 1] = paren_level
                   /\ Open(token, lev, a, b)
    BY <1>4 DEF Begun, Gathered
  <2>3. a \in DOMAIN token /\ b \in a .. Len(token) /\ k \in Nat /\ k >= 1 /\ a \in Nat
        /\ a + k = b + 1
    BY <1>1, <2>1
  <2>4. /\ form \in Seq(Nat) /\ Len(form) = k
        /\ \A n \in 1 .. k : form[n] = a + n - 1
        /\ \A n \in 0 .. k : LevelOf(SubSeq(form, 1, n)) = lev[a + n]
        /\ LevelOf(form) = lev[b + 1]
    BY <1>1, <2>1, <2>2, <2>3, RowLevels
  <2> HIDE DEF form, k, a, b
  <2>5. form[Len(form)] = cur_tok
    <3>1. k \in 1 .. k /\ a + k - 1 = b
      <4>1. b \in Nat BY <1>1
      <4>2. k \in 1 .. k BY <2>3
      <4>3. a + k - 1 = b BY <2>3, <4>1
      <4> QED BY <4>2, <4>3
    <3> QED BY <3>1, <2>1, <2>4
  <2> DEFINE Quotes(n) == \A m \in 1 .. n : token[form[m]].tag = "QUOTE"
  <2>6. \A n \in Nat : a + n <= b + 1 /\ lev[a + n] = 0 => OnlyQuotes(token, a, n)
    <3>1. b \in Nat /\ b <= b BY <1>1
    <3> QED BY <2>2, <2>3, <3>1, QuotesFirst
  <2>7. ASSUME NEW n \in DOMAIN form PROVE LevelOf(SubSeq(form, 1, n)) > 0 \/ Quotes(n)
    <3>1. n \in 1 .. k /\ n \in 0 .. k /\ n \in Nat BY <2>3, <2>4
    <3>2. LevelOf(SubSeq(form, 1, n)) = lev[a + n] BY <3>1, <2>4
    <3>3. a + n \in a .. b + 1
      <4>1. b \in Nat BY <1>1
      <4> QED BY <2>3, <3>1, <4>1
    <3>4. lev[a + n] \in Nat BY <3>3, <2>2 DEF Levels
    <3>5. ASSUME lev[a + n] = 0 PROVE Quotes(n)
      <4>1. a + n <= b + 1 BY <1>1, <3>3
      <4>2. OnlyQuotes(token, a, n) BY <2>6, <3>1, <3>5, <4>1
      <4>3. \A m \in 1 .. n : form[m] = a + m - 1
        <5>1. \A m \in 1 .. n : m \in 1 .. k BY <2>3, <3>1
        <5> QED BY <2>4, <5>1
      <4> QED BY <4>2, <4>3 DEF OnlyQuotes
    <3> HIDE DEF Quotes
    <3> QED BY <3>2, <3>4, <3>5
  <2>8. paren_level = LevelOf(form) BY <2>2, <2>4
  <2>9. a # 0 /\ cur_tok # 0 /\ paren_level # 0
    <3>1. b \in Nat /\ paren_level \in Nat BY <1>1 DEF FormInv, Types
    <3> QED BY <2>1, <3>1
  <2> QED BY <2>5, <2>7, <2>8, <2>9 DEF form, a
<1> QED BY <1>2, <1>3, <1>4

(* At the prompt, what repl keeps of the lines before has paren_level      *)
(* parentheses open and never had none open since its first parenthesis.   *)
THEOREM PendingStaysOpen == Spec => []PendingIsOpen
<1>1. FormInv => PendingIsOpen BY PendingForm
<1> QED BY <1>1, FormInvariance, PTL

-----------------------------------------------------------------------------
(* The form that has ended.                                                *)

(* The first datum of a form that has ended takes all of it: its first     *)
(* parenthesis is closed by its last token and by none before it.          *)
LEMMA WholeForm == ASSUME FormInv PROVE FormIsOneDatum
<1> SUFFICES ASSUME at = "parse"
             PROVE  Datum_(Chain(top_tok)) = Len(Chain(top_tok))
  BY DEF FormIsOneDatum
<1> DEFINE a == top_tok
           b == Len(token)
           form == Chain(a)
           k == b - a + 1
<1>1. TokensOK /\ b \in Nat /\ DOMAIN token = 1 .. b BY TokenFacts DEF FormInv
<1>2. a \in 1 .. b /\ Row(token, a, b) /\ Balanced(token, a, b) BY DEF FormInv, Whole
<1>3. PICK lev : /\ Levels(token, lev, a, b) /\ lev[a] = 0 /\ lev[b + 1] = 0
                 /\ Open(token, lev, a, b - 1) /\ token[b].tag # "QUOTE"
  BY <1>2 DEF Balanced
<1>4. /\ a \in DOMAIN token /\ b \in a .. Len(token) /\ a \in Nat
      /\ k \in Nat /\ k >= 1 /\ a + k = b + 1 /\ a + k - 1 = b /\ b - 1 \in Nat /\ b - 1 <= b
  BY <1>1, <1>2
<1>5. /\ form \in Seq(Nat) /\ Len(form) = k
      /\ \A n \in 1 .. k : form[n] = a + n - 1
      /\ \A n \in 0 .. k : LevelOf(SubSeq(form, 1, n)) = lev[a + n]
  BY <1>1, <1>2, <1>3, <1>4, RowLevels
<1> DEFINE Ends(n) == /\ LevelOf(SubSeq(form, 1, n)) <= 0
                      /\ \E m \in 1 .. n : token[form[m]].tag # "QUOTE"
           ends == {n \in DOMAIN form : Ends(n)}
<1> HIDE DEF a, b, form, k
<1>6. DOMAIN form = 1 .. k BY <1>5
<1>7. k \in ends
  <2>1. k \in 1 .. k /\ k \in 0 .. k BY <1>4
  <2>2. LevelOf(SubSeq(form, 1, k)) = 0 BY <2>1, <1>3, <1>4, <1>5
  <2>3. form[k] = b BY <2>1, <1>4, <1>5
  <2>4. token[form[k]].tag # "QUOTE" BY <2>3, <1>3
  <2> QED BY <1>6, <2>1, <2>2, <2>4
<1>8. ASSUME NEW n \in ends, n # k PROVE FALSE
  <2>1. n \in 1 .. k /\ n \in 0 .. k /\ n \in Nat /\ Ends(n) BY <1>6
  <2>2. n < k BY <1>4, <1>8, <2>1
  <2>3. a + n \in a .. b + 1 /\ a + n <= (b - 1) + 1 BY <1>1, <1>4, <2>1, <2>2
  <2>4. lev[a + n] \in Nat BY <1>3, <2>3 DEF Levels
  <2>5. lev[a + n] <= 0 BY <1>5, <2>1
  <2>6. lev[a + n] = 0 BY <2>4, <2>5
  <2>7. \A m \in 1 .. n : token[a + m - 1].tag = "QUOTE"
    <3> DEFINE c == b - 1
    <3>1. c \in Nat /\ c <= b /\ Open(token, lev, a, c) BY <1>3, <1>4
    <3>2. a + n <= c + 1 BY <2>3
    <3> HIDE DEF c
    <3>3. \A j \in Nat : a + j <= c + 1 /\ lev[a + j] = 0 => OnlyQuotes(token, a, j)
      BY <1>1, <1>3, <1>4, <3>1, QuotesFirst
    <3> QED BY <2>1, <2>6, <3>2, <3>3 DEF OnlyQuotes
  <2>8. PICK m \in 1 .. n : token[form[m]].tag # "QUOTE" BY <2>1
  <2>9. m \in 1 .. k BY <2>1, <2>8, <1>4
  <2>10. form[m] = a + m - 1 BY <1>5, <2>9
  <2> QED BY <2>7, <2>8, <2>10
<1>9. ends = {k} BY <1>7, <1>8
<1>10. Datum_(form) = IF ends = {} THEN Len(form) + 1
                      ELSE CHOOSE n \in ends : \A m \in ends : n <= m
  BY DEF Datum_
<1> HIDE DEF ends
<1>11. (CHOOSE n \in ends : \A m \in ends : n <= m) = k BY <1>4, <1>9
<1>12. Datum_(form) = k BY <1>9, <1>10, <1>11
<1> QED BY <1>5, <1>12 DEF form, a

(* What the repl hands to the reader is the tokens of one datum.           *)
THEOREM FormStaysOneDatum == Spec => []FormIsOneDatum
<1>1. FormInv => FormIsOneDatum BY WholeForm
<1> QED BY <1>1, FormInvariance, PTL

-----------------------------------------------------------------------------
(* What the digits of a number are worth.                                  *)

LEMMA DigitValues == \A c \in Digit : DigitValue[c] \in 0 .. 9
<1> DEFINE cs == <<"0", "1", "2", "3", "4", "5", "6", "7", "8", "9">>
<1>1. ASSUME NEW c \in Digit PROVE \E n \in 0 .. 9 : c = cs[n + 1]
  <2>1. /\ cs[0 + 1] = "0" /\ cs[1 + 1] = "1" /\ cs[2 + 1] = "2" /\ cs[3 + 1] = "3"
        /\ cs[4 + 1] = "4" /\ cs[5 + 1] = "5" /\ cs[6 + 1] = "6" /\ cs[7 + 1] = "7"
        /\ cs[8 + 1] = "8" /\ cs[9 + 1] = "9"
    OBVIOUS
  <2> HIDE DEF cs
  <2> QED BY <2>1 DEF Digit
<1>2. \A c \in Digit : DigitValue[c] = CHOOSE n \in 0 .. 9 : c = cs[n + 1] BY DEF DigitValue
<1> HIDE DEF cs
<1> QED BY <1>1, <1>2

(* A word is its own residue. *)
LEMMA WordStays == \A n \in Words : ToSigned(n) = n
<1>1. LongMax \in Nat BY LongAssumption
<1> DEFINE M == 2 * (LongMax + 1)
<1>2. M = Modulus /\ M \in Nat /\ M > 0 BY <1>1 DEF Modulus
<1> SUFFICES ASSUME NEW n \in Words PROVE ToSigned(n) = n OBVIOUS
<1>3. n \in Int /\ -(LongMax + 1) <= n /\ n <= LongMax BY <1>1 DEF Words, LongMin
<1>4. ToSigned(n) = IF n % M > LongMax THEN (n % M) - M ELSE n % M BY <1>2 DEF ToSigned
<1>5. CASE n >= 0
  <2>1. 0 <= n /\ n < M BY <1>1, <1>3, <1>5
  <2> HIDE DEF M
  <2>2. n % M = n BY <2>1, <1>2, <1>3
  <2> QED BY <2>2, <1>1, <1>3, <1>4
<1>6. CASE n < 0
  <2>1. 0 <= n + M /\ n + M < M /\ n + M > LongMax BY <1>1, <1>3, <1>6
  <2> HIDE DEF M
  <2>2. n % M = n + M BY <2>1, <1>2, <1>3
  <2> QED BY <2>1, <2>2, <1>1, <1>2, <1>3, <1>4
<1> QED BY <1>3, <1>5, <1>6

(* strtoul and Numeral count alike until the value is too large. *)
LEMMA Counted ==
  ASSUME NEW ds \in Seq(Digit)
  PROVE  Numeral(ds) \in Nat /\ (Numeral(ds) < Modulus => strtoul(ds) = Numeral(ds))
<1> DEFINE b == Len(ds)
           D == 0 .. b
           Worth(v) == IF v < Modulus THEN v ELSE Modulus - 1
           E(f) == [k \in D |-> IF k = 0 THEN 0 ELSE 10 * f[k - 1] + DigitValue[ds[k]]]
           F(f) == [k \in D |-> IF k = 0 THEN 0
                                ELSE LET n == 10 * f[k - 1] + DigitValue[ds[k]]
                                     IN IF n < Modulus THEN n ELSE Modulus - 1]
           num == CHOOSE f : f = E(f)
           val == CHOOSE f : f = F(f)
<1>1. b \in Nat /\ Modulus \in Nat /\ Modulus > 0
  BY LongAssumption DEF Modulus
<1>2. \A k \in 1 .. b : DigitValue[ds[k]] \in 0 .. 9 BY DigitValues
<1>3. num = E(num)
  <2> DEFINE step == [k \in 0 + 1 .. b |-> [v \in Nat |-> 10 * v + DigitValue[ds[k]]]]
  <2>1. \A k \in 0 + 1 .. b, v \in Nat : step[k][v] = 10 * v + DigitValue[ds[k]] OBVIOUS
  <2>2. step \in [0 + 1 .. b -> [Nat -> Nat]]
    <3>1. \A k \in 0 + 1 .. b, v \in Nat : 10 * v + DigitValue[ds[k]] \in Nat BY <1>2
    <3> QED BY <3>1
  <2> HIDE DEF step, b
  <2>3. PICK f : Iterates(f, 0, b, Nat, 0, step)
    BY <2>2, <1>1, 0 \in Nat, 0 <= b, Iteration, Zenon
  <2>4. \A k \in D : f[k] = IF k = 0 THEN 0 ELSE 10 * f[k - 1] + DigitValue[ds[k]]
    <3> SUFFICES ASSUME NEW k \in D, k # 0 PROVE f[k] = 10 * f[k - 1] + DigitValue[ds[k]]
      BY <2>3 DEF Iterates
    <3>1. k \in 0 + 1 .. b /\ k - 1 \in D BY <1>1
    <3>2. f[k - 1] \in Nat /\ f[k] = step[k][f[k - 1]] BY <2>3, <3>1 DEF Iterates
    <3> QED BY <2>1, <3>1, <3>2
  <2>5. f = E(f) BY <2>3, <2>4 DEF Iterates
  <2> QED BY <2>5
<1>4. val = F(val)
  <2> DEFINE step == [k \in 0 + 1 .. b |-> [v \in Nat |-> Worth(10 * v + DigitValue[ds[k]])]]
  <2>1. \A k \in 0 + 1 .. b, v \in Nat : step[k][v] = Worth(10 * v + DigitValue[ds[k]]) OBVIOUS
  <2>2. step \in [0 + 1 .. b -> [Nat -> Nat]]
    <3>1. \A k \in 0 + 1 .. b, v \in Nat : 10 * v + DigitValue[ds[k]] \in Nat BY <1>2
    <3>2. \A v \in Nat : Worth(v) \in Nat BY <1>1
    <3> HIDE DEF Worth
    <3> QED BY <3>1, <3>2
  <2> HIDE DEF step, b, Worth
  <2>3. PICK f : Iterates(f, 0, b, Nat, 0, step)
    BY <2>2, <1>1, 0 \in Nat, 0 <= b, Iteration, Zenon
  <2>4. \A k \in D : f[k] = IF k = 0 THEN 0 ELSE Worth(10 * f[k - 1] + DigitValue[ds[k]])
    <3> SUFFICES ASSUME NEW k \in D, k # 0
                 PROVE  f[k] = Worth(10 * f[k - 1] + DigitValue[ds[k]])
      BY <2>3 DEF Iterates
    <3>1. k \in 0 + 1 .. b /\ k - 1 \in D BY <1>1
    <3>2. f[k - 1] \in Nat /\ f[k] = step[k][f[k - 1]] BY <2>3, <3>1 DEF Iterates
    <3> QED BY <2>1, <3>1, <3>2
  <2>5. f = F(f) BY <2>3, <2>4 DEF Iterates, Worth
  <2> QED BY <2>5
<1>5. Numeral(ds) = num[b] /\ strtoul(ds) = val[b] BY DEF Numeral, strtoul
<1> HIDE DEF num, val
<1>6. \A k \in D : num[k] = IF k = 0 THEN 0 ELSE 10 * num[k - 1] + DigitValue[ds[k]] BY <1>3
<1>7. \A k \in D : val[k] = IF k = 0 THEN 0 ELSE Worth(10 * val[k - 1] + DigitValue[ds[k]])
  BY <1>4
<1> HIDE DEF b, Worth
<1> DEFINE S == {k \in Nat : k <= b => num[k] \in Nat /\ (num[k] < Modulus => val[k] = num[k])}
<1>8. 0 \in S
  <2>1. 0 \in D BY <1>1
  <2>2. num[0] = 0 /\ val[0] = 0 BY <2>1, <1>6, <1>7
  <2> QED BY <2>2
<1>9. ASSUME NEW k \in Nat, k \in S PROVE k + 1 \in S
  <2> SUFFICES ASSUME k + 1 <= b
               PROVE  /\ num[k + 1] \in Nat
                      /\ num[k + 1] < Modulus => val[k + 1] = num[k + 1]
    OBVIOUS
  <2>1. k + 1 \in D /\ k + 1 # 0 /\ (k + 1) - 1 = k /\ k <= b /\ k + 1 \in 1 .. b BY <1>1
  <2>2. num[k + 1] = 10 * num[k] + DigitValue[ds[k + 1]] BY <2>1, <1>6
  <2>3. val[k + 1] = Worth(10 * val[k] + DigitValue[ds[k + 1]]) BY <2>1, <1>7
  <2>4. num[k] \in Nat /\ (num[k] < Modulus => val[k] = num[k]) BY <1>9, <2>1
  <2>5. DigitValue[ds[k + 1]] \in 0 .. 9 BY <1>2, <2>1
  <2>6. num[k + 1] \in Nat /\ num[k] <= num[k + 1]
    <3> DEFINE v == num[k]
               d == DigitValue[ds[k + 1]]
    <3>1. v \in Nat /\ d \in 0 .. 9 BY <2>4, <2>5
    <3> HIDE DEF v, d
    <3>2. 10 * v + d \in Nat /\ v <= 10 * v + d BY <3>1
    <3> QED BY <2>2, <3>2 DEF v, d
  <2>7. ASSUME num[k + 1] < Modulus PROVE val[k + 1] = num[k + 1]
    <3>1. num[k] < Modulus BY <2>4, <2>6, <2>7, <1>1
    <3>2. 10 * val[k] + DigitValue[ds[k + 1]] = num[k + 1] BY <2>2, <2>4, <3>1
    <3> QED BY <2>3, <2>7, <3>2 DEF Worth
  <2> QED BY <2>6, <2>7
<1> HIDE DEF S
<1>10. Nat \subseteq S BY <1>8, <1>9, NatInd
<1>11. num[b] \in Nat /\ (num[b] < Modulus => val[b] = num[b])
  <2>1. b \in S /\ b <= b BY <1>1, <1>10
  <2> QED BY <2>1 DEF S
<1> QED BY <1>5, <1>11

(* The token of a number holds its value if a word can. *)
LEMMA NumberHeld ==
  ASSUME NEW ds \in Seq(Digit)
  PROVE  /\ Numeral(ds) \in Words => IntToken(ds, 1).val = Numeral(ds)
         /\ -Numeral(ds) \in Words => IntToken(ds, -1).val = -Numeral(ds)
<1> DEFINE n == Numeral(ds)
<1>1. n \in Nat /\ (n < Modulus => strtoul(ds) = n) BY Counted
<1>2. LongMax \in Nat BY LongAssumption
<1> HIDE DEF n
<1>3. \A s \in {1, -1} : IntToken(ds, s).val = ToSigned(s * strtoul(ds)) BY DEF IntToken
<1>4. ASSUME n \in Words PROVE IntToken(ds, 1).val = n
  <2>1. n < Modulus BY <1>1, <1>2, <1>4 DEF Words, LongMin, Modulus
  <2>2. 1 * strtoul(ds) = n BY <1>1, <2>1
  <2> QED BY <1>3, <1>4, <2>2, WordStays
<1>5. ASSUME -n \in Words PROVE IntToken(ds, -1).val = -n
  <2>1. n < Modulus BY <1>1, <1>2, <1>5 DEF Words, LongMin, Modulus
  <2>2. (-1) * strtoul(ds) = -n BY <1>1, <2>1
  <2>3. IntToken(ds, -1).val = ToSigned((-1) * strtoul(ds)) BY DEF IntToken
  <2> QED BY <1>5, <2>2, <2>3, WordStays
<1> QED BY <1>4, <1>5 DEF n

-----------------------------------------------------------------------------
(* Words of a line.                                                        *)

(* w is the text from p to n. *)
Word(W, buf, p, n, w) ==
  /\ w \in Seq(W) /\ Len(w) = n - p + 1 /\ w # <<>>
  /\ DOMAIN w = 1 .. n - p + 1
  /\ \A i \in 1 .. n - p + 1 : w[i] = buf[p + i - 1]
  /\ w[1] = buf[p] /\ w[Len(w)] = buf[n]
  /\ n > p => w[2] = buf[p + 1] /\ Tail(w) = SubSeq(buf, p + 1, n)
  /\ n = p => Tail(w) = <<>>
LEMMA WordIs ==
  ASSUME NEW W, NEW buf \in Seq(W), NEW p \in 1 .. Len(buf), NEW n \in p .. Len(buf)
  PROVE  Word(W, buf, p, n, SubSeq(buf, p, n))
<1> DEFINE w == SubSeq(buf, p, n)
           k == n - p + 1
<1>1. /\ Len(buf) \in Nat /\ p \in Nat /\ n \in Nat /\ k \in Nat /\ k >= 1 /\ p >= 1
      /\ p + k - 1 = n /\ p + 1 - 1 = p /\ (n > p => k >= 2 /\ p + 2 - 1 = p + 1)
      /\ (n = p => k = 1)
  BY CharType
<1>2. w \in Seq(W) /\ Len(w) = k /\ \A i \in 1 .. k : w[i] = buf[p + i - 1]
  BY <1>1
<1> HIDE DEF w, k
<1>3. w # <<>> /\ DOMAIN w = 1 .. k BY <1>1, <1>2
<1>4. w[1] = buf[p] /\ w[k] = buf[n] /\ (n > p => w[2] = buf[p + 1]) BY <1>1, <1>2
<1>5. Tail(w) \in Seq(W) /\ Len(Tail(w)) = k - 1 /\ \A i \in 1 .. k - 1 : Tail(w)[i] = w[i + 1]
  BY <1>1, <1>2, <1>3
<1> DEFINE u == Tail(w)
<1>0. u \in Seq(W) /\ Len(u) = k - 1 /\ \A i \in 1 .. k - 1 : u[i] = w[i + 1] BY <1>5
<1> HIDE DEF u
<1>6. ASSUME n > p PROVE u = SubSeq(buf, p + 1, n)
  <2> DEFINE v == SubSeq(buf, p + 1, n)
  <2>1. v \in Seq(W) /\ Len(v) = k - 1 /\ \A i \in 1 .. k - 1 : v[i] = buf[(p + 1) + i - 1]
    BY <1>1, <1>6 DEF k
  <2> HIDE DEF v
  <2>2. ASSUME NEW i \in 1 .. k - 1 PROVE u[i] = v[i]
    <3>1. i + 1 \in 1 .. k /\ p + (i + 1) - 1 = (p + 1) + i - 1 BY <1>1
    <3> QED BY <3>1, <2>1, <1>2, <1>0
  <2>3. u = [i \in 1 .. k - 1 |-> u[i]] BY <1>0
  <2>4. v = [i \in 1 .. k - 1 |-> v[i]] BY <2>1
  <2>5. u = v BY <2>2, <2>3, <2>4
  <2> QED BY <2>5 DEF v
<1>7. ASSUME n = p PROVE u = <<>>
  <2>1. k - 1 = 0 BY <1>1, <1>7
  <2> QED BY <1>0, <2>1
<1> HIDE DEF u
<1>8. Word(W, buf, p, n, w)
  <2>1. u = Tail(w) BY DEF u
  <2> QED BY <2>1, <1>1, <1>2, <1>3, <1>4, <1>6, <1>7 DEF Word, k
<1> QED BY <1>8 DEF w

LEMMA LineIs ==
  ASSUME NEW W, NEW buf \in Seq(W), NEW z \in Nat, LineTo(buf, z)
  PROVE  LET line == Line(buf) IN
         /\ z \in 1 .. Len(buf) /\ line \in Seq(W) /\ Len(line) = z - 1
         /\ \A p \in 1 .. z - 1 : line[p] = buf[p]
         /\ \A p \in 1 .. z - 1 : \A n \in p .. z - 1 : SubSeq(line, p, n) = SubSeq(buf, p, n)
<1> DEFINE P(k) == buf[k] = NUL /\ \A m \in 1 .. k - 1 : buf[m] # NUL
           k == CHOOSE j \in DOMAIN buf : P(j)
           line == SubSeq(buf, 1, z - 1)
<1>1. z \in 1 .. Len(buf) /\ Len(buf) \in Nat /\ DOMAIN buf = 1 .. Len(buf) /\ P(z)
  BY CharType DEF LineTo
<1>2. k \in DOMAIN buf /\ P(k) BY <1>1
<1>3. Line(buf) = SubSeq(buf, 1, k - 1) BY DEF Line
<1> HIDE DEF k
<1>4. k = z
  <2>1. k \in Nat /\ k >= 1 /\ z >= 1 BY <1>1, <1>2
  <2>2. CASE k < z
    <3>1. k \in 1 .. z - 1 BY <2>1, <2>2
    <3> QED BY <3>1, <1>1, <1>2
  <2>3. CASE z < k
    <3>1. z \in 1 .. k - 1 BY <2>1, <2>3
    <3> QED BY <3>1, <1>1, <1>2
  <2> QED BY <2>1, <2>2, <2>3
<1>5. Line(buf) = line BY <1>3, <1>4
<1>6. line \in Seq(W) /\ Len(line) = z - 1 /\ \A p \in 1 .. z - 1 : line[p] = buf[p]
  BY <1>1
<1> HIDE DEF line
<1>7. ASSUME NEW p \in 1 .. z - 1, NEW n \in p .. z - 1 PROVE SubSeq(line, p, n) = SubSeq(buf, p, n)
  <2> DEFINE w == SubSeq(line, p, n)
             v == SubSeq(buf, p, n)
             l == n - p + 1
  <2>1. p \in 1 .. Len(line) /\ n \in p .. Len(line) /\ p \in 1 .. Len(buf) /\ n \in p .. Len(buf)
    BY <1>1, <1>6
  <2>7. Word(W, line, p, n, w) /\ Word(W, buf, p, n, v) BY <2>1, <1>6, WordIs
  <2> HIDE DEF w, v
  <2>2. w \in Seq(W) /\ DOMAIN w = 1 .. l /\ \A i \in 1 .. l : w[i] = line[p + i - 1]
    BY <2>7 DEF Word
  <2>3. v \in Seq(W) /\ DOMAIN v = 1 .. l /\ \A i \in 1 .. l : v[i] = buf[p + i - 1]
    BY <2>7 DEF Word
  <2>4. ASSUME NEW i \in 1 .. l PROVE w[i] = v[i]
    <3>1. p + i - 1 \in 1 .. z - 1 BY <1>1
    <3> QED BY <3>1, <2>2, <2>3, <1>6
  <2> HIDE DEF l
  <2>5. w = [i \in 1 .. l |-> w[i]] /\ v = [i \in 1 .. l |-> v[i]] BY <2>2, <2>3
  <2>6. w = v BY <2>4, <2>5
  <2> QED BY <2>6 DEF w, v
<1> QED BY <1>1, <1>5, <1>6, <1>7

(* The first characters tell the lexemes apart. *)
LEMMA FirstChars ==
  /\ "\"" \notin Digit \cup IdentStart /\ Digit \cap IdentStart = {} /\ "-" \in IdentStart
  /\ "-" \notin Digit
  /\ \A c \in {"(", ")", "'", ".", "#"} : c \notin Digit \cup IdentStart \cup {"\""}
<1>1. \A c \in {"\"", "(", ")", "'", ".", "#"} :
        /\ c \notin Digit /\ c \notin Letter /\ c \notin is_special_initial_char /\ c # "+" /\ c # "-"
  <2>1. "\"" \notin Letter /\ "(" \notin Letter /\ ")" \notin Letter BY DEF Letter
  <2>2. "'" \notin Letter /\ "." \notin Letter /\ "#" \notin Letter BY DEF Letter
  <2> QED BY <2>1, <2>2 DEF Digit, is_special_initial_char
<1>2. Digit \cap Letter = {} /\ Digit \cap is_special_initial_char = {} /\ "+" \notin Digit
      /\ "-" \notin Digit
  BY DEF Digit, Letter, is_special_initial_char
<1>3. "\"" \notin {"(", ")", "'", ".", "#"} OBVIOUS
<1> QED BY <1>1, <1>2, <1>3 DEF IdentStart

\* the sign of a number and the digit after it
Signed(w) == w[1] = "-" /\ Len(w) > 1 /\ w[2] \in Digit
LEMMA Punctuations ==
  /\ DOMAIN Punctuation = {"LPAREN", "RPAREN", "QUOTE", "DOT", "TRUE", "FALSE"}
  /\ Punctuation["LPAREN"] = <<"(">> /\ Punctuation["RPAREN"] = <<")">>
  /\ Punctuation["QUOTE"] = <<"'">> /\ Punctuation["DOT"] = <<".">>
  /\ Punctuation["TRUE"] = <<"#", "t">> /\ Punctuation["FALSE"] = <<"#", "f">>
  BY DEF Punctuation

LEMMA Kinds ==
  ASSUME NEW W, NEW w \in Seq(W), w # <<>>
  PROVE  /\ IsString(w) => w[1] = "\""
         /\ IsNumber(w) => w[1] \in Digit \/ Signed(w)
         /\ IsIdent(w) => w[1] \in IdentStart /\ ~Signed(w)
         /\ \A m \in DOMAIN Punctuation : w = Punctuation[m] =>
              \/ Len(w) = 1 /\ w[1] \in {"(", ")", "'", "."}
              \/ Len(w) = 2 /\ w[1] = "#" /\ w[2] \in {"t", "f"}
<1>1. IsString(w) => w[1] = "\"" BY DEF IsString
<1>2. ASSUME IsNumber(w) PROVE w[1] \in Digit \/ Signed(w)
  <2>1. CASE w[1] = "-"
    <3> DEFINE v == Tail(w)
    <3>1. Digits(w) = v BY <2>1 DEF Digits
    <3>2. v \in Seq(W) /\ Len(v) = Len(w) - 1 /\ \A i \in 1 .. Len(v) : v[i] = w[i + 1] OBVIOUS
    <3> HIDE DEF v
    <3>3. v # <<>> /\ \A n \in DOMAIN v : v[n] \in Digit BY <1>2, <3>1 DEF IsNumber
    <3>4. Len(v) \in Nat /\ Len(v) # 0 /\ DOMAIN v = 1 .. Len(v) /\ Len(w) \in Nat BY <3>2, <3>3
    <3>5. 1 \in 1 .. Len(v) /\ Len(w) > 1 BY <3>2, <3>4
    <3>6. w[2] = v[1] BY <3>2, <3>5
    <3> QED BY <2>1, <3>3, <3>4, <3>5, <3>6 DEF Signed
  <2>2. CASE w[1] # "-"
    <3>1. Digits(w) = w /\ 1 \in DOMAIN w BY <2>2 DEF Digits
    <3> QED BY <1>2, <3>1 DEF IsNumber
  <2> QED BY <2>1, <2>2
<1>3. IsIdent(w) => w[1] \in IdentStart /\ ~Signed(w) BY DEF IsIdent, Signed
<1>4. ASSUME NEW m \in DOMAIN Punctuation, w = Punctuation[m]
      PROVE  \/ Len(w) = 1 /\ w[1] \in {"(", ")", "'", "."}
             \/ Len(w) = 2 /\ w[1] = "#" /\ w[2] \in {"t", "f"}
  <2>1. w \in {<<"(">>, <<")">>, <<"'">>, <<".">>, <<"#", "t">>, <<"#", "f">>}
    BY <1>4, Punctuations
  <2> QED BY <2>1
<1> QED BY <1>1, <1>2, <1>3, <1>4

-----------------------------------------------------------------------------
(* What is read at a position of a line.                                   *)

(* The longest lexeme at p ends before e, and the token t stands for it. *)
Reads(buf, z, p, t, e) ==
  /\ e \in p + 1 .. z
  /\ IsLexeme(SubSeq(buf, p, e - 1)) /\ Denotes(t, SubSeq(buf, p, e - 1))
  /\ \A n \in e .. z - 1 : ~IsLexeme(SubSeq(buf, p, n))
Refuses(buf, z, p) == \A n \in p .. z - 1 : ~IsLexeme(SubSeq(buf, p, n))

LEMMA LineChars ==
  ASSUME NEW W, NEW buf \in Seq(W), NEW z \in Nat, LineTo(buf, z), NEW p \in 1 .. z - 1
  PROVE  /\ p \in Nat /\ p >= 1 /\ Len(buf) \in Nat /\ z \in 1 .. Len(buf) /\ p \in 1 .. Len(buf)
         /\ \A n \in p .. z - 1 : n \in p .. Len(buf) /\ n \in 1 .. z - 1
         /\ \A n \in 1 .. z : n \in 1 .. Len(buf) /\ Char(buf, n) = buf[n]
         /\ \A n \in 1 .. z - 1 : buf[n] \notin {NUL, Unknown}
         /\ buf[z] = NUL /\ After(buf, p) = buf[p + 1]
<1>1. z \in 1 .. Len(buf) /\ Len(buf) \in Nat BY CharType DEF LineTo
<1>2. p \in Nat /\ p >= 1 /\ p \in 1 .. Len(buf) BY <1>1
<1>3. \A n \in p .. z - 1 : n \in p .. Len(buf) /\ n \in 1 .. z - 1 BY <1>1, <1>2
<1>4. \A n \in 1 .. z : n \in 1 .. Len(buf) BY <1>1
<1>5. \A n \in 1 .. z : Char(buf, n) = buf[n] BY <1>4, CharType
<1>6. p + 1 \in 1 .. z BY <1>1
<1> QED BY <1>1, <1>2, <1>3, <1>4, <1>5, <1>6 DEF LineTo, After

LEMMA WordKinds ==
  ASSUME NEW W, NEW buf \in Seq(W), NEW z \in Nat, LineTo(buf, z), NEW p \in 1 .. z - 1,
         NEW n \in p .. z - 1
  PROVE  LET w == SubSeq(buf, p, n) IN
         /\ IsString(w) => buf[p] = "\""
         /\ IsNumber(w) => buf[p] \in Digit \/ (Negative(buf, p) /\ n > p)
         /\ IsIdent(w) => buf[p] \in IdentStart /\ ~(Negative(buf, p) /\ n > p)
         /\ \A m \in DOMAIN Punctuation : w = Punctuation[m] =>
              \/ n = p /\ buf[p] \in {"(", ")", "'", "."}
              \/ n = p + 1 /\ buf[p] = "#" /\ buf[p + 1] \in {"t", "f"}
<1> DEFINE w == SubSeq(buf, p, n)
<1>1. /\ p \in Nat /\ p \in 1 .. Len(buf) /\ n \in p .. Len(buf) /\ n \in Nat /\ n >= p
      /\ Char(buf, p) = buf[p] /\ After(buf, p) = buf[p + 1]
  BY LineChars
<1>7. Word(W, buf, p, n, w) BY <1>1, WordIs
<1> HIDE DEF w
<1>2. /\ w \in Seq(W) /\ Len(w) = n - p + 1 /\ w # <<>> /\ w[1] = buf[p]
      /\ n > p => w[2] = buf[p + 1]
  BY <1>7 DEF Word
<1>3. Len(w) > 1 <=> n > p BY <1>1, <1>2
<1>4. Signed(w) <=> Negative(buf, p) /\ n > p BY <1>1, <1>2, <1>3 DEF Signed, Negative
<1>5. /\ IsString(w) => w[1] = "\""
      /\ IsNumber(w) => w[1] \in Digit \/ Signed(w)
      /\ IsIdent(w) => w[1] \in IdentStart /\ ~Signed(w)
  BY <1>2, Kinds
<1>6. ASSUME NEW m \in DOMAIN Punctuation, w = Punctuation[m]
      PROVE  \/ n = p /\ buf[p] \in {"(", ")", "'", "."}
             \/ n = p + 1 /\ buf[p] = "#" /\ buf[p + 1] \in {"t", "f"}
  <2>1. \/ Len(w) = 1 /\ w[1] \in {"(", ")", "'", "."}
        \/ Len(w) = 2 /\ w[1] = "#" /\ w[2] \in {"t", "f"}
    BY <1>2, <1>6, Kinds
  <2>2. (Len(w) = 1 => n = p) /\ (Len(w) = 2 => n = p + 1 /\ n > p) BY <1>1, <1>2
  <2> QED BY <2>1, <2>2, <1>2
<1> QED BY <1>2, <1>4, <1>5, <1>6 DEF w

(* Numbers. *)
LEMMA NumberDigits ==
  ASSUME NEW W, NEW buf \in Seq(W), NEW z \in Nat, LineTo(buf, z), NEW p \in 1 .. z - 1,
         Negative(buf, p) \/ buf[p] \in Digit, NEW n \in First(buf, p) .. z - 1
  PROVE  /\ First(buf, p) \in p .. z - 1 /\ Char(buf, First(buf, p)) \in Digit
         /\ n \in p .. z - 1
         /\ Digits(SubSeq(buf, p, n)) = SubSeq(buf, First(buf, p), n)
         /\ (SubSeq(buf, p, n)[1] = "-") <=> Negative(buf, p)
<1> DEFINE w == SubSeq(buf, p, n)
           f == First(buf, p)
<1>1. /\ p \in Nat /\ p >= 1 /\ p \in 1 .. Len(buf) /\ Len(buf) \in Nat /\ z \in 1 .. Len(buf)
      /\ Char(buf, p) = buf[p] /\ After(buf, p) = buf[p + 1] /\ buf[z] = NUL
  BY LineChars
<1>2. Negative(buf, p) <=> buf[p] = "-"
  BY <1>1, FirstChars DEF Negative
<1>3. f = IF buf[p] = "-" THEN p + 1 ELSE p BY <1>2 DEF First
<1>4. buf[p] = "-" => p + 1 <= z - 1 /\ buf[p + 1] \in Digit
  <2> SUFFICES ASSUME buf[p] = "-" PROVE p + 1 <= z - 1 /\ buf[p + 1] \in Digit OBVIOUS
  <2>1. buf[p + 1] \in Digit BY <1>1, <1>2 DEF Negative
  <2>2. p + 1 # z BY <2>1, <1>1, CharSets
  <2> QED BY <2>1, <2>2, <1>1
<1> HIDE DEF f
<1>5. f \in p .. z - 1 /\ f \in 1 .. z BY <1>1, <1>3, <1>4
<1>6. buf[f] \in Digit BY <1>2, <1>3, <1>4
<1>7. Char(buf, f) \in Digit BY <1>5, <1>6, LineChars
<1>8. n \in f .. z - 1 BY DEF f
<1>9. n \in p .. z - 1 /\ n \in p .. Len(buf) /\ (buf[p] = "-" => n > p) BY <1>1, <1>3, <1>5, <1>8
<1>12. Word(W, buf, p, n, w) /\ w = SubSeq(buf, p, n) BY <1>1, <1>9, WordIs
<1> HIDE DEF w
<1>10. w[1] = buf[p] /\ (n > p => Tail(w) = SubSeq(buf, p + 1, n)) BY <1>12 DEF Word
<1>11. Digits(w) = SubSeq(buf, f, n)
  <2>1. CASE buf[p] = "-"
    <3>1. Digits(w) = Tail(w) BY <2>1, <1>10 DEF Digits
    <3> QED BY <2>1, <3>1, <1>3, <1>9, <1>10
  <2>2. CASE buf[p] # "-"
    <3>1. Digits(w) = w /\ f = p BY <2>2, <1>3, <1>10 DEF Digits
    <3> QED BY <3>1, <1>12
  <2> QED BY <2>1, <2>2
<1> QED BY <1>2, <1>5, <1>7, <1>9, <1>10, <1>11 DEF w, f

LEMMA NumberRead ==
  ASSUME NEW W, NEW buf \in Seq(W), NEW z \in Nat, LineTo(buf, z), NEW p \in 1 .. z - 1,
         Negative(buf, p) \/ buf[p] \in Digit
  PROVE  Reads(buf, z, p, NumberToken(buf, p), NumberEnd(buf, p))
<1> DEFINE f == First(buf, p)
           e == NumberEnd(buf, p)
           t == NumberToken(buf, p)
           w == SubSeq(buf, p, e - 1)
           ds == SubSeq(buf, f, e - 1)
           neg == Negative(buf, p)
<1>1. /\ p \in Nat /\ p >= 1 /\ p \in 1 .. Len(buf) /\ Len(buf) \in Nat /\ z \in 1 .. Len(buf)
      /\ \A n \in 1 .. z : Char(buf, n) = buf[n]
  BY LineChars
<1>2. f \in p .. z - 1 /\ Char(buf, f) \in Digit
  <2>1. f = p \/ f = p + 1 BY DEF First
  <2>2. f <= z - 1
    <3>1. CASE neg
      <4>1. buf[p + 1] \in Digit BY <3>1, LineChars DEF Negative
      <4>2. p + 1 # z BY <4>1, CharSets, LineChars
      <4> QED BY <2>1, <4>2, <1>1
    <3>2. CASE ~neg BY <3>2, <1>1 DEF First
    <3> QED BY <3>1, <3>2
  <2>3. z - 1 \in f .. z - 1 BY <2>1, <2>2, <1>1
  <2> QED BY <2>3, NumberDigits
<1> HIDE DEF f
<1>3. f \in Nat /\ f \in 1 .. Len(buf) + 1 /\ f <= z BY <1>1, <1>2
<1>4. /\ e \in f .. Len(buf) + 1 /\ e > f /\ e <= z /\ Char(buf, e) \notin Digit
      /\ \A n \in f .. e - 1 : buf[n] \in Digit
  <2>1. e = Past(buf, f, Digit) BY DEF NumberEnd, f
  <2> HIDE DEF e
  <2> QED BY <1>2, <1>3, <2>1, PastType, CharSets
<1> HIDE DEF e
<1>5. /\ e \in p + 1 .. z /\ e - 1 \in p .. z - 1 /\ e - 1 \in f .. z - 1 /\ e \in Nat
      /\ f \in 1 .. Len(buf) /\ e - 1 \in f .. Len(buf) /\ e - 1 \in p .. Len(buf)
      /\ (e - 1) - f + 1 \in Nat /\ (e - 1) - f + 1 >= 1
  BY <1>1, <1>2, <1>3, <1>4
<1>6. /\ \A n \in f .. z - 1 : n \in p .. z - 1 /\ Digits(SubSeq(buf, p, n)) = SubSeq(buf, f, n)
      /\ (w[1] = "-") <=> neg
  <2>1. \A n \in f .. z - 1 : n \in p .. z - 1 /\ Digits(SubSeq(buf, p, n)) = SubSeq(buf, f, n)
    BY NumberDigits DEF f
  <2>2. (SubSeq(buf, p, e - 1)[1] = "-") <=> neg BY <1>5, NumberDigits DEF f
  <2> QED BY <2>1, <2>2
<1>7. ds \in Seq(Digit) /\ ds # <<>> /\ \A n \in DOMAIN ds : ds[n] \in Digit
  <2> DEFINE k == (e - 1) - f + 1
  <2>6. Word(W, buf, f, e - 1, ds) BY <1>5, WordIs
  <2>2. \A i \in 1 .. k : f + i - 1 \in f .. e - 1 BY <1>3, <1>5
  <2> HIDE DEF ds
  <2>1. ds \in Seq(W) /\ ds # <<>> /\ DOMAIN ds = 1 .. k /\ Len(ds) = k
        /\ \A i \in 1 .. k : ds[i] = buf[f + i - 1]
    BY <2>6 DEF Word
  <2>3. \A i \in 1 .. k : ds[i] \in Digit BY <2>1, <2>2, <1>4
  <2>4. ds = [i \in 1 .. k |-> ds[i]] BY <2>1
  <2>5. ds \in Seq(Digit)
    <3>1. k \in Nat BY <1>5
    <3> HIDE DEF k
    <3>2. ds \in [1 .. k -> Digit] BY <2>3, <2>4
    <3> QED BY <3>1, <3>2
  <2> QED BY <2>1, <2>3, <2>5
<1>8. w # <<>> /\ Digits(w) = ds
  <2>1. Word(W, buf, p, e - 1, w) BY <1>1, <1>5, WordIs
  <2>2. Digits(w) = ds BY <1>5, <1>6
  <2> HIDE DEF w
  <2> QED BY <2>1, <2>2 DEF Word
<1> HIDE DEF w, ds
<1>9. IsNumber(w) BY <1>7, <1>8 DEF IsNumber
<1>10. Denotes(t, w)
  <2>1. ~IsString(w) /\ ~IsIdent(w) /\ \A m \in DOMAIN Punctuation : w # Punctuation[m]
    <3>1. neg => e - 1 > p BY <1>1, <1>4, <1>5 DEF f, First
    <3>2. /\ IsString(w) => buf[p] = "\""
          /\ IsIdent(w) => buf[p] \in IdentStart /\ ~(neg /\ e - 1 > p)
          /\ \A m \in DOMAIN Punctuation : w = Punctuation[m] =>
               buf[p] \in {"(", ")", "'", ".", "#"}
      BY <1>5, WordKinds DEF w
    <3>3. neg => buf[p] = "-" BY <1>1 DEF Negative
    <3> QED BY <3>1, <3>2, <3>3, FirstChars
  <2>2. t = IntToken(ds, IF neg THEN -1 ELSE 1) BY DEF NumberToken, ds, f, e
  <2> HIDE DEF t
  <2>3. t.tag = "INT" BY <2>2 DEF IntToken
  <2>4. NumberOf(w) = IF neg THEN -Numeral(ds) ELSE Numeral(ds) BY <1>6, <1>8 DEF NumberOf
  <2>5. NumberOf(w) \in Words => t.val = NumberOf(w)
    <3>1. CASE neg BY <3>1, <2>2, <2>4, <1>7, NumberHeld
    <3>2. CASE ~neg BY <3>2, <2>2, <2>4, <1>7, NumberHeld
    <3> QED BY <3>1, <3>2
  <2> QED BY <1>8, <2>1, <2>3, <2>5 DEF Denotes
<1>11. ASSUME NEW n \in e .. z - 1 PROVE ~IsLexeme(SubSeq(buf, p, n))
  <2> DEFINE v == SubSeq(buf, p, n)
             vs == SubSeq(buf, f, n)
             k == e - f + 1
  <2>1. n \in f .. z - 1 /\ n > p /\ n \in f .. Len(buf) /\ k \in 1 .. n - f + 1 /\ f + k - 1 = e
        /\ e \in 1 .. z
    BY <1>1, <1>2, <1>3, <1>4, <1>5
  <2>2. Digits(v) = vs /\ n \in p .. z - 1 BY <2>1, <1>6
  <2>9. Word(W, buf, f, n, vs) BY <2>1, <1>5, WordIs
  <2>4. buf[e] \notin Digit BY <1>1, <1>4, <2>1
  <2>5. /\ IsString(v) => buf[p] = "\""
        /\ IsIdent(v) => buf[p] \in IdentStart /\ ~(neg /\ n > p)
        /\ \A m \in DOMAIN Punctuation : v = Punctuation[m] =>
             buf[p] \in {"(", ")", "'", ".", "#"}
    BY <2>2, WordKinds
  <2> HIDE DEF v, vs, k
  <2>3. DOMAIN vs = 1 .. n - f + 1 /\ vs[k] = buf[e] BY <2>1, <2>9 DEF Word
  <2>6. ~IsNumber(v) BY <2>1, <2>2, <2>3, <2>4 DEF IsNumber
  <2>7. neg => buf[p] = "-" BY <1>1 DEF Negative
  <2>8. ~IsLexeme(v) BY <2>1, <2>5, <2>6, <2>7, FirstChars DEF IsLexeme
  <2> QED BY <2>8 DEF v
<1> QED BY <1>5, <1>9, <1>10, <1>11 DEF Reads, IsLexeme, w, t, e

(* Identifiers. *)
LEMMA IdentRead ==
  ASSUME NEW W, NEW buf \in Seq(W), NEW z \in Nat, LineTo(buf, z), NEW p \in 1 .. z - 1,
         buf[p] \in IdentStart, ~Negative(buf, p)
  PROVE  Reads(buf, z, p, IdentToken(buf, p), IdentEnd(buf, p))
<1> DEFINE e == IdentEnd(buf, p)
           t == IdentToken(buf, p)
           w == SubSeq(buf, p, e - 1)
<1>1. /\ p \in Nat /\ p >= 1 /\ p \in 1 .. Len(buf) /\ Len(buf) \in Nat /\ z \in 1 .. Len(buf)
      /\ \A n \in 1 .. z : Char(buf, n) = buf[n]
  BY LineChars
<1>2. p \in 1 .. Len(buf) + 1 /\ p <= z /\ p \in 1 .. z BY <1>1
<1>3. Char(buf, p) \in IdentChar BY <1>1, <1>2, CharSets
<1>4. /\ e \in p .. Len(buf) + 1 /\ e > p /\ e <= z /\ Char(buf, e) \notin IdentChar
      /\ \A n \in p .. e - 1 : buf[n] \in IdentChar
  <2>1. e = Past(buf, p, IdentChar) BY DEF IdentEnd
  <2> HIDE DEF e
  <2> QED BY <1>2, <1>3, <2>1, PastType, CharSets
<1> HIDE DEF e
<1>5. /\ e \in p + 1 .. z /\ e - 1 \in p .. z - 1 /\ e \in Nat /\ e - 1 \in p .. Len(buf)
      /\ (e - 1) - p + 1 = e - p /\ e - p \in Nat
  BY <1>1, <1>4
<1>6. Word(W, buf, p, e - 1, w) BY <1>1, <1>5, WordIs
<1>7. \A n \in p .. z - 1 :
        /\ ~IsString(SubSeq(buf, p, n)) /\ ~IsNumber(SubSeq(buf, p, n))
        /\ \A m \in DOMAIN Punctuation : SubSeq(buf, p, n) # Punctuation[m]
  <2> SUFFICES ASSUME NEW n \in p .. z - 1
               PROVE  /\ ~IsString(SubSeq(buf, p, n)) /\ ~IsNumber(SubSeq(buf, p, n))
                      /\ \A m \in DOMAIN Punctuation : SubSeq(buf, p, n) # Punctuation[m]
    OBVIOUS
  <2> DEFINE v == SubSeq(buf, p, n)
  <2>1. /\ IsString(v) => buf[p] = "\""
        /\ IsNumber(v) => buf[p] \in Digit \/ (Negative(buf, p) /\ n > p)
        /\ \A m \in DOMAIN Punctuation : v = Punctuation[m] =>
             buf[p] \in {"(", ")", "'", ".", "#"}
    BY WordKinds
  <2> HIDE DEF v
  <2>2. ~IsString(v) /\ ~IsNumber(v) /\ \A m \in DOMAIN Punctuation : v # Punctuation[m]
    BY <2>1, FirstChars
  <2> QED BY <2>2 DEF v
<1>8. IsIdent(w)
  <2> HIDE DEF w
  <2>1. w \in Seq(W) /\ DOMAIN w = 1 .. e - p /\ w[1] = buf[p] /\ Len(w) = e - p
        /\ \A i \in 1 .. e - p : w[i] = buf[p + i - 1]
    BY <1>5, <1>6 DEF Word
  <2>2. \A i \in 1 .. e - p : p + i - 1 \in p .. e - 1 BY <1>1, <1>5
  <2>3. \A i \in DOMAIN w : w[i] \in IdentChar BY <2>1, <2>2, <1>4
  <2>4. ~(w[1] = "-" /\ Len(w) > 1 /\ w[2] \in Digit)
    <3> SUFFICES ASSUME w[1] = "-", Len(w) > 1, w[2] \in Digit PROVE FALSE OBVIOUS
    <3>1. e - 1 > p BY <2>1, <1>1, <1>5
    <3>2. w[2] = buf[p + 1] BY <3>1, <1>6 DEF Word
    <3>3. Char(buf, p) = "-" /\ After(buf, p) = buf[p + 1] BY <1>1, <1>2, <2>1, LineChars
    <3> QED BY <3>2, <3>3 DEF Negative
  <2> QED BY <2>1, <2>3, <2>4 DEF IsIdent
<1>9. Denotes(t, w)
  <2>1. t = [tag |-> "IDENT", str |-> w] BY DEF IdentToken, Ident, e
  <2>2. w # <<>>
    <3> HIDE DEF w
    <3> QED BY <1>6 DEF Word
  <2>3. ~IsString(w) /\ ~IsNumber(w) /\ \A m \in DOMAIN Punctuation : w # Punctuation[m]
    BY <1>5, <1>7
  <2> HIDE DEF t, w
  <2> QED BY <2>1, <2>2, <2>3 DEF Denotes
<1>10. ASSUME NEW n \in e .. z - 1 PROVE ~IsLexeme(SubSeq(buf, p, n))
  <2> DEFINE v == SubSeq(buf, p, n)
             k == e - p + 1
  <2>1. n \in p .. z - 1 /\ n \in p .. Len(buf) /\ k \in 1 .. n - p + 1 /\ p + k - 1 = e
        /\ e \in 1 .. z
    BY <1>1, <1>5
  <2>2. buf[e] \notin IdentChar BY <1>1, <1>4, <2>1
  <2>3. ~IsString(v) /\ ~IsNumber(v) /\ \A m \in DOMAIN Punctuation : v # Punctuation[m]
    BY <1>7, <2>1
  <2>4. Word(W, buf, p, n, v) BY <1>1, <2>1, WordIs
  <2> HIDE DEF v, k
  <2>5. k \in DOMAIN v /\ v[k] = buf[e] BY <2>1, <2>4 DEF Word
  <2>6. ~IsIdent(v) BY <2>2, <2>5 DEF IsIdent
  <2>7. ~IsLexeme(v) BY <2>3, <2>6 DEF IsLexeme
  <2> QED BY <2>7 DEF v
<1> QED BY <1>5, <1>8, <1>9, <1>10 DEF Reads, IsLexeme, w, t, e

(* Punctuation. *)
LEMMA PunctuationRead ==
  ASSUME NEW W, NEW buf \in Seq(W), NEW z \in Nat, LineTo(buf, z), NEW p \in 1 .. z - 1,
         buf[p] \in {"(", ")", "'", ".", "#"},
         NEW m \in DOMAIN Punctuation, NEW e \in p + 1 .. z, SubSeq(buf, p, e - 1) = Punctuation[m],
         \A n \in e .. z - 1 : \A l \in DOMAIN Punctuation : SubSeq(buf, p, n) # Punctuation[l]
  PROVE  Reads(buf, z, p, Token(m), e)
<1> DEFINE w == SubSeq(buf, p, e - 1)
           t == Token(m)
<1>1. p \in Nat /\ e - 1 \in p .. z - 1 /\ \A n \in e .. z - 1 : n \in p .. z - 1 BY LineChars
<1>2. \A n \in p .. z - 1 :
        /\ ~IsString(SubSeq(buf, p, n)) /\ ~IsNumber(SubSeq(buf, p, n))
        /\ ~IsIdent(SubSeq(buf, p, n))
  <2> SUFFICES ASSUME NEW n \in p .. z - 1
               PROVE  /\ ~IsString(SubSeq(buf, p, n)) /\ ~IsNumber(SubSeq(buf, p, n))
                      /\ ~IsIdent(SubSeq(buf, p, n))
    OBVIOUS
  <2> DEFINE v == SubSeq(buf, p, n)
  <2>1. /\ IsString(v) => buf[p] = "\""
        /\ IsNumber(v) => buf[p] \in Digit \/ (Negative(buf, p) /\ n > p)
        /\ IsIdent(v) => buf[p] \in IdentStart
    BY WordKinds
  <2>2. Negative(buf, p) => buf[p] = "-"
    <3>1. Char(buf, p) = buf[p] BY <1>1, LineChars
    <3> QED BY <3>1 DEF Negative
  <2> HIDE DEF v
  <2>3. ~IsString(v) /\ ~IsNumber(v) /\ ~IsIdent(v) BY <2>1, <2>2, FirstChars
  <2> QED BY <2>3 DEF v
<1>3. w = Punctuation[m] /\ ~IsString(w) /\ ~IsNumber(w) /\ ~IsIdent(w) BY <1>1, <1>2
<1>4. ASSUME NEW n \in e .. z - 1 PROVE ~IsLexeme(SubSeq(buf, p, n))
  <2> DEFINE v == SubSeq(buf, p, n)
  <2>1. ~IsString(v) /\ ~IsNumber(v) /\ ~IsIdent(v) BY <1>1, <1>2
  <2>2. \A l \in DOMAIN Punctuation : v # Punctuation[l] OBVIOUS
  <2> HIDE DEF v
  <2>3. ~IsLexeme(v) BY <2>1, <2>2 DEF IsLexeme
  <2> QED BY <2>3 DEF v
<1> HIDE DEF w
<1>5. \A l \in DOMAIN Punctuation : Punctuation[l] = Punctuation[m] => l = m
  <2>1. /\ <<"(">> # <<")">> /\ <<"(">> # <<"'">> /\ <<"(">> # <<".">> /\ <<")">> # <<"'">>
        /\ <<")">> # <<".">> /\ <<"'">> # <<".">> /\ <<"#", "t">> # <<"#", "f">>
        /\ \A c \in {"(", ")", "'", "."}, d \in {"t", "f"} : <<c>> # <<"#", d>>
    OBVIOUS
  <2> QED BY <2>1, Punctuations
<1>6. w # <<>> BY <1>3, Punctuations
<1>7. IsLexeme(w) BY <1>3 DEF IsLexeme
<1>8. Denotes(t, w)
  <2>1. \A l \in DOMAIN Punctuation : w = Punctuation[l] => t = Token(l) BY <1>3, <1>5
  <2> HIDE DEF t
  <2> QED BY <1>3, <1>6, <2>1 DEF Denotes
<1> QED BY <1>4, <1>7, <1>8 DEF Reads, w, t

LEMMA MarkRead ==
  ASSUME NEW W, NEW buf \in Seq(W), NEW z \in Nat, LineTo(buf, z), NEW p \in 1 .. z - 1
  PROVE  /\ buf[p] = "(" => Reads(buf, z, p, Token("LPAREN"), p + 1)
         /\ buf[p] = ")" => Reads(buf, z, p, Token("RPAREN"), p + 1)
         /\ buf[p] = "'" => Reads(buf, z, p, Token("QUOTE"), p + 1)
         /\ buf[p] = "." => Reads(buf, z, p, Token("DOT"), p + 1)
         /\ buf[p] = "#" /\ buf[p + 1] \in {"t", "f"} => Reads(buf, z, p, TruthToken(buf, p), p + 2)
<1>1. /\ p \in Nat /\ p >= 1 /\ p \in 1 .. Len(buf) /\ Len(buf) \in Nat /\ z \in 1 .. Len(buf)
      /\ buf[z] = NUL /\ After(buf, p) = buf[p + 1]
  BY LineChars
<1>2. ASSUME NEW m \in DOMAIN Punctuation, buf[p] \in {"(", ")", "'", "."},
             Punctuation[m] = <<buf[p]>>
      PROVE  Reads(buf, z, p, Token(m), p + 1)
  <2> DEFINE e == p + 1
             w == SubSeq(buf, p, e - 1)
  <2>1. e \in p + 1 .. z /\ e - 1 \in p .. Len(buf) /\ e - 1 = p BY <1>1
  <2>2. w = Punctuation[m]
    <3>1. Word(W, buf, p, e - 1, w) BY <1>1, <2>1, WordIs
    <3> HIDE DEF w, e
    <3>2. w \in Seq(W) /\ Len(w) = 1 /\ w[1] = buf[p] BY <3>1, <2>1, <1>1 DEF Word
    <3>3. w = <<buf[p]>> BY <3>2
    <3> QED BY <3>3, <1>2
  <2>3. \A n \in e .. z - 1 : \A l \in DOMAIN Punctuation : SubSeq(buf, p, n) # Punctuation[l]
    <3> SUFFICES ASSUME NEW n \in e .. z - 1, NEW l \in DOMAIN Punctuation,
                        SubSeq(buf, p, n) = Punctuation[l]
                 PROVE  FALSE
      OBVIOUS
    <3>1. n \in p .. z - 1 /\ n # p BY <1>1
    <3>2. n = p \/ buf[p] = "#" BY <3>1, WordKinds
    <3> QED BY <3>1, <3>2, <1>2
  <2>4. buf[p] \in {"(", ")", "'", ".", "#"} BY <1>2
  <2> HIDE DEF w, e
  <2>5. SubSeq(buf, p, e - 1) = Punctuation[m] BY <2>2 DEF w
  <2>6. Reads(buf, z, p, Token(m), e) BY <2>1, <2>3, <2>4, <2>5, PunctuationRead
  <2> QED BY <2>6 DEF e
<1>3. ASSUME buf[p] = "#", buf[p + 1] \in {"t", "f"}
      PROVE  Reads(buf, z, p, TruthToken(buf, p), p + 2)
  <2> DEFINE m == IF buf[p + 1] = "t" THEN "TRUE" ELSE "FALSE"
             e == p + 2
             w == SubSeq(buf, p, e - 1)
  <2>1. m \in DOMAIN Punctuation /\ Punctuation[m] = <<"#", buf[p + 1]>>
    BY <1>3, Punctuations
  <2>2. p + 1 # z BY <1>1, <1>3 DEF NUL
  <2>3. e \in p + 1 .. z /\ e - 1 \in p .. Len(buf) /\ e - 1 = p + 1 /\ e - 1 > p
        /\ (e - 1) - p + 1 = 2
    BY <1>1, <2>2
  <2>4. w = Punctuation[m]
    <3>1. Word(W, buf, p, e - 1, w) BY <1>1, <2>3, WordIs
    <3> HIDE DEF w, e, m
    <3>2. w \in Seq(W) /\ Len(w) = 2 /\ w[1] = buf[p] /\ w[2] = buf[p + 1]
      BY <3>1, <2>3 DEF Word
    <3>3. w = <<buf[p], buf[p + 1]>> BY <3>2
    <3> QED BY <3>3, <2>1, <1>3
  <2>5. \A n \in e .. z - 1 : \A l \in DOMAIN Punctuation : SubSeq(buf, p, n) # Punctuation[l]
    <3> SUFFICES ASSUME NEW n \in e .. z - 1, NEW l \in DOMAIN Punctuation,
                        SubSeq(buf, p, n) = Punctuation[l]
                 PROVE  FALSE
      OBVIOUS
    <3>1. n \in p .. z - 1 /\ n # p /\ n # p + 1 BY <1>1
    <3> QED BY <3>1, WordKinds
  <2>6. buf[p] \in {"(", ")", "'", ".", "#"} BY <1>3
  <2>7. TruthToken(buf, p) = Token(m) BY <1>1 DEF TruthToken
  <2> HIDE DEF w, e, m
  <2>8. SubSeq(buf, p, e - 1) = Punctuation[m] BY <2>4 DEF w
  <2>9. Reads(buf, z, p, Token(m), e) BY <2>1, <2>3, <2>5, <2>6, <2>8, PunctuationRead
  <2> QED BY <2>7, <2>9 DEF e
<1>4. /\ buf[p] = "(" => Reads(buf, z, p, Token("LPAREN"), p + 1)
      /\ buf[p] = ")" => Reads(buf, z, p, Token("RPAREN"), p + 1)
      /\ buf[p] = "'" => Reads(buf, z, p, Token("QUOTE"), p + 1)
      /\ buf[p] = "." => Reads(buf, z, p, Token("DOT"), p + 1)
  BY <1>2, Punctuations
<1> QED BY <1>3, <1>4

(* Characters no lexeme begins with. *)
Strange(buf, p) ==
  /\ buf[p] \notin {"\"", "(", ")", "'", "."} \cup Digit \cup IdentStart
  /\ ~(buf[p] = "#" /\ buf[p + 1] \in {"t", "f"})
LEMMA NothingRead ==
  ASSUME NEW W, NEW buf \in Seq(W), NEW z \in Nat, LineTo(buf, z), NEW p \in 1 .. z - 1,
         Strange(buf, p)
  PROVE  Refuses(buf, z, p)
<1>1. p \in 1 .. z OBVIOUS
<1>2. Negative(buf, p) => buf[p] = "-"
  <2>1. Char(buf, p) = buf[p] BY <1>1, LineChars
  <2> QED BY <2>1 DEF Negative
<1> SUFFICES ASSUME NEW n \in p .. z - 1 PROVE ~IsLexeme(SubSeq(buf, p, n)) BY DEF Refuses
<1> DEFINE v == SubSeq(buf, p, n)
<1>3. /\ IsString(v) => buf[p] = "\""
      /\ IsNumber(v) => buf[p] \in Digit \/ (Negative(buf, p) /\ n > p)
      /\ IsIdent(v) => buf[p] \in IdentStart
      /\ \A m \in DOMAIN Punctuation : v = Punctuation[m] =>
           \/ buf[p] \in {"(", ")", "'", "."}
           \/ buf[p] = "#" /\ buf[p + 1] \in {"t", "f"}
  BY WordKinds
<1> HIDE DEF v
<1>4. ~IsLexeme(v) BY <1>2, <1>3, FirstChars DEF IsLexeme, Strange
<1> QED BY <1>4 DEF v

-----------------------------------------------------------------------------
(* String literals.                                                        *)

(* X are the escaped positions of the text between a and z. *)
Escapes(buf, a, z, X) ==
  /\ X \subseteq a .. z /\ a \notin X
  /\ \A q \in a + 1 .. z : q \in X <=> buf[q - 1] = "\\" /\ q - 1 \notin X
LEMMA EscapesExist ==
  ASSUME NEW buf, NEW a \in Nat, NEW z \in Nat, a <= z
  PROVE  \E X : Escapes(buf, a, z, X)
<1> DEFINE Q == {0, 1}
           step == [q \in a + 1 .. z |-> [v \in Q |-> IF buf[q - 1] = "\\" /\ v = 0 THEN 1 ELSE 0]]
<1>1. step \in [a + 1 .. z -> [Q -> Q]] OBVIOUS
<1>2. \A q \in a + 1 .. z, v \in Q : step[q][v] = IF buf[q - 1] = "\\" /\ v = 0 THEN 1 ELSE 0
  OBVIOUS
<1>3. 0 \in Q OBVIOUS
<1> HIDE DEF step, Q
<1>4. PICK f : Iterates(f, a, z, Q, 0, step) BY <1>1, <1>3, Iteration
<1>5. /\ f \in [a .. z -> Q] /\ a \in a .. z /\ f[a] = 0
      /\ \A q \in a + 1 .. z : q \in a .. z /\ q # a /\ q - 1 \in a .. z
                               /\ f[q] = step[q][f[q - 1]]
  BY <1>4 DEF Iterates
<1> DEFINE X == {q \in a .. z : f[q] = 1}
<1>6. ASSUME NEW q \in a + 1 .. z PROVE q \in X <=> buf[q - 1] = "\\" /\ q - 1 \notin X
  <2>1. f[q - 1] \in Q /\ f[q] = IF buf[q - 1] = "\\" /\ f[q - 1] = 0 THEN 1 ELSE 0
    BY <1>2, <1>5
  <2>2. f[q - 1] = 0 \/ f[q - 1] = 1 BY <2>1 DEF Q
  <2> QED BY <1>5, <2>1, <2>2
<1>7. X \subseteq a .. z /\ a \notin X BY <1>5
<1> HIDE DEF X
<1> QED BY <1>6, <1>7 DEF Escapes

(* Escaped finds them in a word that begins before a. *)
LEMMA EscapedIs ==
  ASSUME NEW W, NEW buf \in Seq(W), NEW p \in 1 .. Len(buf), NEW z \in Nat,
         NEW n \in p .. Len(buf), n <= z, NEW X, Escapes(buf, p + 1, z, X)
  PROVE  \A q \in p + 1 .. n : Escaped(SubSeq(buf, p, n))[q - p + 1] <=> q \in X
<1> DEFINE w == SubSeq(buf, p, n)
           k == n - p + 1
           E(f) == [m \in DOMAIN w |-> m > 2 /\ w[m - 1] = "\\" /\ ~f[m - 1]]
           h == [m \in DOMAIN w |-> m > 1 /\ p + m - 1 \in X]
           f == CHOOSE f : f = E(f)
<1>1. p \in Nat /\ n \in Nat /\ k \in Nat /\ Len(buf) \in Nat BY CharType
<1>2. Word(W, buf, p, n, w) BY WordIs
<1>3. Escaped(w) = f BY DEF Escaped
<1> HIDE DEF w
<1>4. DOMAIN w = 1 .. k /\ \A i \in 1 .. k : w[i] = buf[p + i - 1] BY <1>2 DEF Word
<1>5. \A m \in 1 .. k : m > 1 /\ p + m - 1 \in X <=>
                        m > 2 /\ w[m - 1] = "\\" /\ ~(m - 1 > 1 /\ p + (m - 1) - 1 \in X)
  <2> SUFFICES ASSUME NEW m \in 1 .. k
               PROVE  m > 1 /\ p + m - 1 \in X <=>
                        m > 2 /\ w[m - 1] = "\\" /\ ~(m - 1 > 1 /\ p + (m - 1) - 1 \in X)
    OBVIOUS
  <2>1. CASE m <= 2
    <3>1. m > 1 => p + m - 1 = p + 1 BY <2>1, <1>1
    <3> QED BY <2>1, <3>1 DEF Escapes
  <2>2. CASE m > 2
    <3> DEFINE q == p + m - 1
    <3>1. q \in (p + 1) + 1 .. z /\ q - 1 = p + (m - 1) - 1 /\ m - 1 \in 1 .. k /\ m - 1 > 1
      BY <2>2, <1>1
    <3>2. w[m - 1] = buf[q - 1] BY <3>1, <1>4
    <3> HIDE DEF q
    <3>3. q \in X <=> buf[q - 1] = "\\" /\ q - 1 \notin X BY <3>1 DEF Escapes
    <3> QED BY <2>2, <3>1, <3>2, <3>3 DEF q
  <2> QED BY <2>1, <2>2
<1>6. \E g : g = E(g)
  <2>1. \A m \in 1 .. k : m > 2 => m - 1 \in 1 .. k BY <1>1
  <2>2. \A m \in 1 .. k : h[m] = (m > 1 /\ p + m - 1 \in X) BY <1>4
  <2> HIDE DEF h
  <2>3. \A m \in 1 .. k : (m > 2 /\ w[m - 1] = "\\" /\ ~h[m - 1]) = h[m]
    <3> SUFFICES ASSUME NEW m \in 1 .. k
                 PROVE  (m > 2 /\ w[m - 1] = "\\" /\ ~h[m - 1]) = h[m]
      OBVIOUS
    <3>1. h[m] = (m > 1 /\ p + m - 1 \in X) BY <2>2
    <3>2. m > 2 => h[m - 1] = (m - 1 > 1 /\ p + (m - 1) - 1 \in X) BY <2>1, <2>2
    <3> QED BY <3>1, <3>2, <1>5
  <2>4. h = E(h) BY <2>3, <1>4 DEF h
  <2> QED BY <2>4
<1>7. f = E(f) BY <1>6
<1> HIDE DEF f
<1>8. \A m \in 1 .. k : f[m] = (m > 2 /\ w[m - 1] = "\\" /\ ~f[m - 1]) BY <1>4, <1>7
<1> DEFINE S == {m \in Nat : m \in 2 .. k => (f[m] <=> p + m - 1 \in X)}
<1>9. 0 \in S OBVIOUS
<1>10. ASSUME NEW m \in Nat, m \in S PROVE m + 1 \in S
  <2> SUFFICES ASSUME m + 1 \in 2 .. k PROVE f[m + 1] <=> p + (m + 1) - 1 \in X OBVIOUS
  <2>1. m + 1 \in 1 .. k /\ (m + 1) - 1 = m /\ m + 1 > 1 BY <1>1
  <2>2. f[m + 1] <=> m + 1 > 2 /\ w[m] = "\\" /\ ~f[m] BY <2>1, <1>8
  <2>3. p + (m + 1) - 1 \in X <=> m + 1 > 2 /\ w[m] = "\\" /\ ~(m > 1 /\ p + m - 1 \in X)
    BY <2>1, <1>5
  <2>4. CASE m + 1 > 2
    <3>1. m \in 2 .. k BY <2>1, <2>4, <1>1
    <3> QED BY <1>10, <2>2, <2>3, <2>4, <3>1
  <2> QED BY <2>2, <2>3, <2>4
<1> HIDE DEF S
<1>11. Nat \subseteq S BY <1>9, <1>10, NatInd
<1>12. ASSUME NEW q \in p + 1 .. n PROVE f[q - p + 1] <=> q \in X
  <2> DEFINE m == q - p + 1
  <2>1. m \in 2 .. k /\ m \in Nat /\ p + m - 1 = q BY <1>1
  <2> HIDE DEF m
  <2> QED BY <2>1, <1>11 DEF S, m
<1> QED BY <1>3, <1>12 DEF w

\* the double quote
Dq == "\""
LEMMA EndDq ==
  /\ "\\" # Dq
  /\ \A buf, f : \A q \in Nat :
            /\ Char(buf, q) = NUL => EndBody(buf, f, q) = 0
            /\ Char(buf, q) = Dq => EndBody(buf, f, q) = q
            /\ Char(buf, q) = "\\" => EndBody(buf, f, q) = f[q + 2]
            /\ Char(buf, q) \notin {NUL, Dq, Unknown, "\\"} => EndBody(buf, f, q) = f[q + 1]
<1>1. "\\" # Dq BY Zenon DEF Dq
<1>2. ASSUME NEW buf, NEW f, NEW q \in Nat
      PROVE  /\ Char(buf, q) = NUL => EndBody(buf, f, q) = 0
             /\ Char(buf, q) = Dq => EndBody(buf, f, q) = q
             /\ Char(buf, q) = "\\" => EndBody(buf, f, q) = f[q + 2]
             /\ Char(buf, q) \notin {NUL, Dq, Unknown, "\\"} => EndBody(buf, f, q) = f[q + 1]
  <2>1. ASSUME Char(buf, q) = Dq PROVE EndBody(buf, f, q) = q
    <3>1. Char(buf, q) \in {"\"", Unknown} BY <2>1 DEF Dq
    <3> QED BY <3>1, EndCases
  <2>2. ASSUME Char(buf, q) \notin {NUL, Dq, Unknown, "\\"} PROVE EndBody(buf, f, q) = f[q + 1]
    <3>1. Char(buf, q) \notin {NUL, "\"", Unknown, "\\"} BY <2>2 DEF Dq
    <3> QED BY <3>1, Zenon DEF EndBody
  <2>3. Char(buf, q) = NUL => EndBody(buf, f, q) = 0 BY EndCases
  <2>4. Char(buf, q) = "\\" => EndBody(buf, f, q) = f[q + 2] BY Zenon DEF EndBody, NUL, Unknown
  <2> QED BY <2>1, <2>2, <2>3, <2>4
<1> QED BY <1>1, <1>2

(* Of the words that begin with a quote, a string ends at the first quote  *)
(* that is not escaped.                                                    *)
LEMMA StringIs ==
  ASSUME NEW W, NEW buf \in Seq(W), NEW p \in 1 .. Len(buf), NEW z \in Nat,
         NEW n \in p .. Len(buf), n <= z, NEW X, Escapes(buf, p + 1, z, X), buf[p] = Dq
  PROVE  IsString(SubSeq(buf, p, n)) <=>
           n > p /\ buf[n] = Dq /\ \A q \in p + 1 .. n : buf[q] = Dq => (q \in X <=> q < n)
<1> DEFINE w == SubSeq(buf, p, n)
           k == n - p + 1
<1>1. p \in Nat /\ n \in Nat /\ k \in Nat /\ k >= 1 /\ Len(buf) \in Nat BY CharType
<1>2. Word(W, buf, p, n, w) BY WordIs
<1>3. \A q \in p + 1 .. n : Escaped(w)[q - p + 1] <=> q \in X BY EscapedIs
<1> HIDE DEF w
<1>4. /\ Len(w) = k /\ w[1] = Dq /\ w[Len(w)] = buf[n]
      /\ \A i \in 1 .. k : w[i] = buf[p + i - 1]
  BY <1>2 DEF Word
<1> DEFINE L == \A i \in 2 .. k : w[i] = Dq => (Escaped(w)[i] <=> i < k)
           R == \A q \in p + 1 .. n : buf[q] = Dq => (q \in X <=> q < n)
<1>5. ASSUME L PROVE R
  <2> SUFFICES ASSUME NEW q \in p + 1 .. n, buf[q] = Dq PROVE q \in X <=> q < n OBVIOUS
  <2> DEFINE i == q - p + 1
  <2>1. i \in 2 .. k /\ i \in 1 .. k /\ p + i - 1 = q /\ (i < k <=> q < n) BY <1>1
  <2>2. Escaped(w)[i] <=> q \in X BY <1>3
  <2> HIDE DEF i
  <2> QED BY <2>1, <2>2, <1>4, <1>5
<1>6. ASSUME R PROVE L
  <2> SUFFICES ASSUME NEW i \in 2 .. k, w[i] = Dq PROVE Escaped(w)[i] <=> i < k OBVIOUS
  <2> DEFINE q == p + i - 1
  <2>1. q \in p + 1 .. n /\ i \in 1 .. k /\ q - p + 1 = i /\ (i < k <=> q < n) BY <1>1
  <2> HIDE DEF q
  <2>2. Escaped(w)[i] <=> q \in X BY <1>3, <2>1
  <2>3. buf[q] = Dq BY <2>1, <1>4 DEF q
  <2> QED BY <2>1, <2>2, <2>3, <1>6
<1>7. IsString(w) <=> k > 1 /\ buf[n] = Dq /\ L BY <1>4, Zenon DEF IsString, Dq
<1>8. k > 1 <=> n > p BY <1>1
<1> HIDE DEF L, R, k
<1>9. IsString(w) <=> n > p /\ buf[n] = Dq /\ R BY <1>5, <1>6, <1>7, <1>8
<1> QED BY <1>9 DEF R, w

(* string_literal_end finds it. *)
EndsAt(buf, z, X, q, e) ==
  \/ e = 0 /\ \A m \in q .. z - 1 : m \notin X => buf[m] # Dq
  \/ /\ e \in q .. z - 1 /\ buf[e] = Dq /\ e \notin X
     /\ \A m \in q .. e - 1 : m \notin X => buf[m] # Dq
LEMMA EndFound ==
  ASSUME NEW W, NEW buf \in Seq(W), NEW z \in Nat, LineTo(buf, z), ~Overruns(buf, z),
         NEW a \in 1 .. z, NEW X, Escapes(buf, a, z, X)
  PROVE  EndsAt(buf, z, X, a, string_literal_end(buf, a))
<1>1. PICK c : /\ \A p : string_literal_end(buf, p) = c[p]
               /\ \A q \in Nat : c[q] = EndBody(buf, c, q)
  BY EndStep
<1> DEFINE S == {q \in a .. z : q \notin X => EndsAt(buf, z, X, q, c[q])}
<1>2. /\ a \in Nat /\ a >= 1 /\ z \in 1 .. Len(buf) /\ Len(buf) \in Nat
      /\ \A n \in 1 .. z : Char(buf, n) = buf[n]
      /\ \A n \in 1 .. z - 1 : buf[n] \notin {NUL, Unknown}
      /\ buf[z] = NUL
  <2>1. z \in 1 .. Len(buf) /\ Len(buf) \in Nat BY CharType DEF LineTo
  <2>2. \A n \in 1 .. z : n \in 1 .. Len(buf) BY <2>1
  <2>3. \A n \in 1 .. z : Char(buf, n) = buf[n] BY <2>2, CharType
  <2> QED BY <2>1, <2>3 DEF LineTo
<1>3. ASSUME NEW q \in a .. z, \A j \in q + 1 .. z : j \in S PROVE q \in S
  <2> SUFFICES ASSUME q \notin X PROVE EndsAt(buf, z, X, q, c[q]) OBVIOUS
  <2> HIDE DEF S
  <2>1. q \in Nat /\ q \in 1 .. z /\ c[q] = EndBody(buf, c, q) /\ Char(buf, q) = buf[q]
    BY <1>1, <1>2
  <2>2. \A j \in q + 1 .. z : j \notin X => EndsAt(buf, z, X, j, c[j]) BY <1>3 DEF S
  <2>3. q < z => q + 1 \in a + 1 .. z /\ (q + 1) - 1 = q BY <2>1, <1>2
  <2>4. q < z => (q + 1 \in X <=> buf[q] = "\\") BY <2>3 DEF Escapes
  <2>5. CASE q = z
    <3>1. c[q] = 0 BY <2>1, <2>5, <1>2, EndDq
    <3> QED BY <3>1, <2>5, <1>2 DEF EndsAt
  <2>6. q < z => buf[q] \notin {NUL, Unknown}
    <3>1. q < z => q \in 1 .. z - 1 BY <2>1, <1>2
    <3> QED BY <3>1, <1>2
  <2>7. CASE q < z /\ buf[q] = Dq
    <3>2. c[q] = q BY <2>1, <2>7, EndDq
    <3>3. q \in q .. z - 1 /\ q .. q - 1 = {} BY <2>7, <2>1, <1>2
    <3> QED BY <3>2, <3>3, <2>7 DEF EndsAt
  <2>8. CASE q < z /\ buf[q] = "\\"
    <3>1. q + 1 \in X BY <2>4, <2>8
    <3>2. c[q] = c[q + 2] BY <2>1, <2>8, EndDq
    <3>3. CASE q + 2 <= z
      <4>1. q + 2 \in a + 1 .. z /\ (q + 2) - 1 = q + 1 /\ q + 2 \in q + 1 .. z /\ q + 2 \in Nat
        BY <3>3, <2>1, <1>2
      <4>2. q + 2 \notin X BY <4>1, <3>1 DEF Escapes
      <4>3. EndsAt(buf, z, X, q + 2, c[q + 2]) BY <4>1, <4>2, <2>2
      <4>4. ASSUME NEW e \in Int, \A m \in q + 2 .. e : m \notin X => buf[m] # Dq
            PROVE  \A m \in q .. e : m \notin X => buf[m] # Dq
        <5> SUFFICES ASSUME NEW m \in q .. e, m \notin X PROVE buf[m] # Dq OBVIOUS
        <5>1. m = q \/ m = q + 1 \/ m \in q + 2 .. e BY <2>1
        <5> QED BY <5>1, EndDq, <4>4, <3>1, <2>8
      <4>5. CASE c[q] = 0 /\ \A m \in q + 2 .. z - 1 : m \notin X => buf[m] # Dq
        <5>1. z - 1 \in Int OBVIOUS
        <5> QED BY <5>1, <4>4, <4>5 DEF EndsAt
      <4>6. CASE /\ c[q] \in q + 2 .. z - 1 /\ buf[c[q]] = Dq /\ c[q] \notin X
                 /\ \A m \in q + 2 .. c[q] - 1 : m \notin X => buf[m] # Dq
        <5>1. c[q] - 1 \in Int /\ c[q] \in q .. z - 1 BY <4>6, <2>1
        <5> QED BY <5>1, <4>4, <4>6 DEF EndsAt
      <4> QED BY <4>3, <4>5, <4>6, <3>2 DEF EndsAt
    <3>4. CASE q + 2 > z
      <4>1. q = z - 1 /\ z > 1 /\ q + 2 = z + 1 BY <3>4, <2>1, <2>8, <1>2
      <4>2. Char(buf, z + 1) = NUL BY <4>1, <2>8 DEF Overruns
      <4>3. EndBody(buf, c, z + 1) = 0 BY <4>2, z + 1 \in Nat, EndDq
      <4>4. c[q] = 0 BY <4>1, <4>3, <3>2, <1>1
      <4>5. \A m \in q .. z - 1 : buf[m] # Dq
        <5>1. \A m \in q .. z - 1 : m = q BY <4>1
        <5> QED BY <5>1, EndDq, <2>8
      <4> QED BY <4>4, <4>5 DEF EndsAt
    <3> QED BY <3>3, <3>4, <2>1
  <2>9. CASE q < z /\ buf[q] \notin {Dq, "\\"}
    <3>2. c[q] = c[q + 1] BY <2>1, <2>6, <2>9, EndDq
    <3>3. q + 1 \notin X /\ q + 1 \in q + 1 .. z BY <2>3, <2>4, <2>9, <2>1, <1>2
    <3>4. EndsAt(buf, z, X, q + 1, c[q]) BY <3>2, <3>3, <2>2
    <3>5. ASSUME NEW e \in Int, \A m \in q + 1 .. e : m \notin X => buf[m] # Dq
          PROVE  \A m \in q .. e : m \notin X => buf[m] # Dq
      <4> SUFFICES ASSUME NEW m \in q .. e, m \notin X PROVE buf[m] # Dq OBVIOUS
      <4>1. m = q \/ m \in q + 1 .. e BY <2>1
      <4> QED BY <4>1, <3>5, <2>9
    <3>6. CASE c[q] = 0 /\ \A m \in q + 1 .. z - 1 : m \notin X => buf[m] # Dq
      <4>1. z - 1 \in Int OBVIOUS
      <4> QED BY <4>1, <3>5, <3>6 DEF EndsAt
    <3>7. CASE /\ c[q] \in q + 1 .. z - 1 /\ buf[c[q]] = Dq /\ c[q] \notin X
               /\ \A m \in q + 1 .. c[q] - 1 : m \notin X => buf[m] # Dq
      <4>1. c[q] - 1 \in Int /\ c[q] \in q .. z - 1 BY <3>7, <2>1
      <4> QED BY <4>1, <3>5, <3>7 DEF EndsAt
    <3> QED BY <3>4, <3>6, <3>7 DEF EndsAt
  <2> QED BY <2>1, <2>5, <2>7, <2>8, <2>9
<1> HIDE DEF S
<1>4. a .. z \subseteq S BY <1>2, <1>3, Downward
<1>5. a \in S /\ a \notin X BY <1>2, <1>4 DEF Escapes
<1> QED BY <1>1, <1>5 DEF S

(* The text of a literal ends at its first NUL. *)
Cut(s) ==
  LET cut == {n \in DOMAIN s : s[n] = NUL /\ \A m \in 1 .. n - 1 : s[m] # NUL}
  IN IF cut = {} THEN s ELSE SubSeq(s, 1, (CHOOSE n \in cut : TRUE) - 1)
LEMMA CutIs ==
  ASSUME NEW U, NEW s \in Seq(U), NEW k \in 0 .. Len(s), \A m \in 1 .. k : s[m] # NUL,
         k = Len(s) \/ s[k + 1] = NUL
  PROVE  Cut(s) = SubSeq(s, 1, k)
<1> DEFINE cut == {n \in DOMAIN s : s[n] = NUL /\ \A m \in 1 .. n - 1 : s[m] # NUL}
           n == CHOOSE n \in cut : TRUE
<1>1. DOMAIN s = 1 .. Len(s) /\ Len(s) \in Nat /\ k \in Nat /\ k <= Len(s) OBVIOUS
<1>2. Cut(s) = IF cut = {} THEN s ELSE SubSeq(s, 1, n - 1) BY DEF Cut
<1>3. CASE k = Len(s)
  <2>1. cut = {} BY <1>1, <1>3
  <2>2. SubSeq(s, 1, k) = s
    <3> DEFINE v == SubSeq(s, 1, k)
    <3>1. v \in Seq(U) /\ Len(v) = k /\ \A i \in 1 .. k : v[i] = s[i] BY <1>1, <1>3
    <3> HIDE DEF v
    <3>2. v = [i \in 1 .. k |-> v[i]] /\ s = [i \in 1 .. k |-> s[i]] BY <1>1, <1>3, <3>1
    <3>3. v = s BY <3>1, <3>2
    <3> QED BY <3>3 DEF v
  <2> HIDE DEF cut, n
  <2> QED BY <1>2, <2>1, <2>2
<1>4. CASE k # Len(s)
  <2>5. s[k + 1] = NUL BY <1>4
  <2>7. \A x \in Nat, y \in Nat : x <= y /\ x # y => x + 1 \in 1 .. y /\ (x + 1) - 1 = x OBVIOUS
  <2>6. k + 1 \in 1 .. Len(s) /\ (k + 1) - 1 = k BY <2>7, <1>1, <1>4
  <2>1. k + 1 \in 1 .. Len(s) /\ s[k + 1] = NUL /\ (k + 1) - 1 = k BY <2>5, <2>6
  <2>2. k + 1 \in cut BY <2>1, <1>1
  <2>3. ASSUME NEW j \in cut PROVE j = k + 1
    <3>4. j \in DOMAIN s /\ s[j] = NUL /\ \A m \in 1 .. j - 1 : s[m] # NUL BY <2>3
    <3>6. j \in 1 .. Len(s) BY <1>1, <3>4
    <3>7. j \in Nat /\ j >= 1 BY <3>6
    <3>1. j \in Nat /\ j >= 1 /\ s[j] = NUL /\ \A m \in 1 .. j - 1 : s[m] # NUL BY <3>4, <3>7
    <3>2. ~(j <= k)
      <4>1. j <= k => j \in 1 .. k BY <3>1
      <4> QED BY <4>1, <3>1
    <3>3. ~(j > k + 1)
      <4>1. j > k + 1 => k + 1 \in 1 .. j - 1 BY <3>1, <2>1
      <4> QED BY <4>1, <3>1, <2>1
    <3>5. j \in Nat /\ k \in Nat /\ ~(j <= k) /\ ~(j > k + 1) BY <3>1, <3>2, <3>3, <1>1
    <3> HIDE DEF cut
    <3> QED BY <3>5
  <2> HIDE DEF cut
  <2>4. cut # {} /\ n = k + 1 BY <2>2, <2>3
  <2> HIDE DEF n
  <2> QED BY <1>2, <2>1, <2>4
<1> QED BY <1>3, <1>4

LEMMA CutExists ==
  ASSUME NEW U, NEW s \in Seq(U)
  PROVE  \E k \in 0 .. Len(s) : /\ \A m \in 1 .. k : s[m] # NUL
                                /\ k = Len(s) \/ s[k + 1] = NUL
<1> DEFINE S == {k \in Nat : k = Len(s) \/ (k < Len(s) /\ s[k + 1] = NUL)}
<1>1. Len(s) \in Nat /\ Len(s) \in S /\ S \subseteq Nat OBVIOUS
<1>2. PICK k \in S : \A j \in S : k <= j BY <1>1, LeastNat
<1>3. k \in 0 .. Len(s) /\ (k = Len(s) \/ s[k + 1] = NUL) BY <1>1, <1>2
<1>4. ASSUME NEW m \in 1 .. k PROVE s[m] # NUL
  <2>1. m - 1 \in Nat /\ m - 1 < Len(s) /\ (m - 1) + 1 = m /\ m - 1 < k BY <1>1, <1>3
  <2>2. m - 1 \notin S BY <2>1, <1>2
  <2> QED BY <2>1, <2>2
<1> QED BY <1>3, <1>4

LEMMA CutCons ==
  ASSUME NEW U, NEW c \in U, NEW s \in Seq(U)
  PROVE  /\ Cut(<<>>) = <<>>
         /\ Cut(<<c>> \o s) = IF c = NUL THEN <<>> ELSE <<c>> \o Cut(s)
<1>1. Cut(<<>>) = <<>> BY DEF Cut
<1> DEFINE t == <<c>> \o s
<1>2. /\ t \in Seq(U) /\ Len(t) = Len(s) + 1 /\ t[1] = c /\ Len(s) \in Nat
      /\ \A n \in DOMAIN s : t[n + 1] = s[n]
      /\ DOMAIN s = 1 .. Len(s)
  BY Cons
<1> HIDE DEF t
<1>3. CASE c = NUL
  <2> DEFINE k == 0
  <2>1. k \in 0 .. Len(t) /\ (\A m \in 1 .. k : t[m] # NUL) /\ t[k + 1] = NUL BY <1>2, <1>3
  <2>2. SubSeq(t, 1, k) = <<>> BY <1>2
  <2> HIDE DEF k
  <2>3. Cut(t) = SubSeq(t, 1, k) BY <1>2, <2>1, CutIs
  <2> QED BY <1>1, <1>3, <2>2, <2>3 DEF t
<1>4. CASE c # NUL
  <2>1. PICK k \in 0 .. Len(s) : /\ \A m \in 1 .. k : s[m] # NUL
                                 /\ k = Len(s) \/ s[k + 1] = NUL
    BY CutExists
  <2>2. Cut(s) = SubSeq(s, 1, k) BY <2>1, CutIs
  <2> DEFINE l == k + 1
  <2>3. l \in 0 .. Len(t) /\ l \in Nat /\ l >= 1 BY <1>2
  <2>4. ASSUME NEW m \in 1 .. l PROVE t[m] # NUL
    <3>1. CASE m = 1 BY <3>1, <1>2, <1>4
    <3>2. CASE m # 1
      <4>1. m - 1 \in 1 .. k /\ m - 1 \in DOMAIN s /\ (m - 1) + 1 = m BY <3>2, <1>2
      <4>2. t[m] = s[m - 1] BY <4>1, <1>2
      <4> QED BY <4>1, <4>2, <2>1
    <3> QED BY <3>1, <3>2
  <2>5. l = Len(t) \/ t[l + 1] = NUL
    <3>1. CASE k = Len(s) BY <3>1, <1>2
    <3>2. CASE k # Len(s)
      <4>2. k \in Nat /\ k <= Len(s) /\ Len(s) \in Nat BY <1>2
      <4>3. k + 1 \in 1 .. Len(s) BY <4>2, <3>2
      <4>1. k + 1 \in DOMAIN s BY <4>3, <1>2
      <4> QED BY <4>1, <3>2, <2>1, <1>2
    <3> QED BY <3>1, <3>2
  <2> DEFINE u == SubSeq(t, 1, l)
             v == SubSeq(s, 1, k)
             x == <<c>> \o v
  <2>6. u \in Seq(U) /\ Len(u) = l /\ \A i \in 1 .. l : u[i] = t[i] BY <1>2, <2>3
  <2>7. v \in Seq(U) /\ Len(v) = k /\ \A i \in 1 .. k : v[i] = s[i] BY <1>2
  <2>10. Cut(t) = u
    <3> HIDE DEF l
    <3> QED BY <1>2, <2>3, <2>4, <2>5, CutIs
  <2> HIDE DEF u, v
  <2>8. x \in Seq(U) /\ Len(x) = l /\ x[1] = c /\ \A n \in 2 .. l : x[n] = v[n - 1]
    BY <2>7, Cons
  <2> HIDE DEF x
  <2>9. \A i \in 1 .. l : u[i] = x[i]
    <3> SUFFICES ASSUME NEW i \in 1 .. l PROVE u[i] = x[i] OBVIOUS
    <3>1. CASE i = 1 BY <3>1, <2>6, <2>8, <1>2
    <3>2. CASE i # 1
      <4>1. i - 1 \in 1 .. k /\ i - 1 \in DOMAIN s /\ (i - 1) + 1 = i /\ i \in 2 .. l
        BY <3>2, <1>2
      <4>2. t[i] = s[i - 1] BY <4>1, <1>2
      <4> QED BY <4>1, <4>2, <2>6, <2>7, <2>8
    <3> QED BY <3>1, <3>2
  <2>11. u = [i \in 1 .. l |-> u[i]] /\ x = [i \in 1 .. l |-> x[i]] BY <2>3, <2>6, <2>8
  <2>12. u = x BY <2>9, <2>11
  <2>13. Cut(t) = <<c>> \o Cut(s) BY <2>2, <2>10, <2>12 DEF v, x
  <2>14. Cut(<<c>> \o s) = <<c>> \o Cut(s) BY <2>13 DEF t
  <2> QED BY <2>14, <1>1, <1>4
<1> QED BY <1>1, <1>3, <1>4 DEF t

(* read_escaped_char yields a NUL for a 0 only. *)
LEMMA EscapedChar == \A c : c # NUL => (read_escaped_char(c) = NUL <=> c = "0")
<1>1. DOMAIN Escape = {"n", "r", "f", "t", "a", "b"} /\ "0" \notin DOMAIN Escape BY DEF Escape
<1>2. \A c \in DOMAIN Escape : Escape[c] \in {"\n", "\r", "\f", "\t", "BEL", "BS"} BY DEF Escape
<1>3. NUL \notin {"\n", "\r", "\f", "\t", "BEL", "BS"} BY DEF NUL
<1>4. \A c \in DOMAIN Escape : Escape[c] # NUL BY <1>2, <1>3
<1> SUFFICES ASSUME NEW c, c # NUL PROVE read_escaped_char(c) = NUL <=> c = "0" OBVIOUS
<1>5. CASE c = "0" BY <1>5, <1>1, Zenon DEF read_escaped_char
<1>6. CASE c # "0" /\ c \in DOMAIN Escape
  <2>1. read_escaped_char(c) = Escape[c] BY <1>6, Zenon DEF read_escaped_char
  <2> QED BY <2>1, <1>4, <1>6
<1>7. CASE c # "0" /\ c \notin DOMAIN Escape
  <2>1. read_escaped_char(c) = c BY <1>7, Zenon DEF read_escaped_char
  <2> QED BY <2>1, <1>7
<1> QED BY <1>5, <1>6, <1>7

(* The two texts obey their recursions. *)
TextBody(buf, end, f, q) ==
  IF q >= end THEN <<>>
  ELSE IF buf[q] = "\\" THEN <<read_escaped_char(buf[q + 1])>> \o f[q + 2]
  ELSE <<buf[q]>> \o f[q + 1]
Texts(buf) == {buf[q] : q \in Nat} \cup {read_escaped_char(buf[q]) : q \in Nat}
LEMMA TextStep ==
  ASSUME NEW buf, NEW end \in Nat, NEW p
  PROVE  \E f \in [Nat -> Seq(Texts(buf))] :
           /\ read_string_literal(buf, p, end) = [tag |-> "STR", str |-> Cut(f[p])]
           /\ \A q \in Nat : f[q] = TextBody(buf, end, f, q)
<1> DEFINE Q == Seq(Texts(buf))
           E(f) == [q \in Nat |->
                      IF q >= end THEN <<>>
                      ELSE IF buf[q] = "\\" THEN <<read_escaped_char(buf[q + 1])>> \o f[q + 2]
                      ELSE <<buf[q]>> \o f[q + 1]]
           c == CHOOSE f : f = E(f)
           g == [q \in Nat |-> [f \in [Nat -> Q] |-> TextBody(buf, end, f, q)]]
<1>1. read_string_literal(buf, p, end) = [tag |-> "STR", str |-> Cut(c[p])]
  BY Zenon DEF read_string_literal, Cut
<1>2. \A f : E(f) = [q \in Nat |-> TextBody(buf, end, f, q)] BY DEF TextBody
<1>3. \A q \in Nat, f \in [Nat -> Q] : g[q][f] = TextBody(buf, end, f, q) OBVIOUS
<1> HIDE DEF c, E
<1>4. g \in [Nat -> [[Nat -> Q] -> Q]]
  <2>1. ASSUME NEW q \in Nat, NEW f \in [Nat -> Q] PROVE TextBody(buf, end, f, q) \in Q
    <3> HIDE DEF g
    <3>1. f[q + 1] \in Q /\ f[q + 2] \in Q BY q + 1 \in Nat, q + 2 \in Nat
    <3>2. buf[q] \in Texts(buf) /\ read_escaped_char(buf[q + 1]) \in Texts(buf)
      BY q + 1 \in Nat, Zenon DEF Texts
    <3>3. <<>> \in Q OBVIOUS
    <3>4. <<buf[q]>> \o f[q + 1] \in Q BY <3>1, <3>2, Cons
    <3>5. <<read_escaped_char(buf[q + 1])>> \o f[q + 2] \in Q BY <3>1, <3>2, Cons
    <3> HIDE DEF Q
    <3> QED BY <3>3, <3>4, <3>5, Zenon DEF TextBody
  <2> HIDE DEF Q
  <2> QED BY <2>1
<1>5. ASSUME NEW q \in Nat, NEW f \in [Nat -> Q], NEW h \in [Nat -> Q],
             \A y \in Nat : Left(end)[y] < Left(end)[q] => f[y] = h[y]
      PROVE  g[q][f] = g[q][h]
  <2> SUFFICES TextBody(buf, end, f, q) = TextBody(buf, end, h, q) BY <1>3
  <2> HIDE DEF g, Q
  <2>1. CASE q >= end BY <2>1 DEF TextBody
  <2>2. CASE q < end
    <3>1. Left(end)[q + 1] < Left(end)[q] /\ Left(end)[q + 2] < Left(end)[q] BY <2>2, LeftType
    <3>2. f[q + 1] = h[q + 1] /\ f[q + 2] = h[q + 2] BY <3>1, <1>5
    <3> QED BY <3>2 DEF TextBody
  <2> QED BY <2>1, <2>2
<1>6. \E f \in [Nat -> Q] : \A q \in Nat : f[q] = TextBody(buf, end, f, q)
  <2>1. Left(end) \in [Nat -> 0 .. end + 1] BY LeftType
  <2> DEFINE m == Left(end)
             k == end + 1
  <2>2. Recursive(Nat, Q, m, g) BY <1>4, <1>5 DEF Recursive
  <2>3. Q # {}
    <3>1. <<>> \in Q OBVIOUS
    <3> QED BY <3>1
  <2>4. m \in [Nat -> 0 .. k] /\ k \in Nat BY <2>1
  <2> HIDE DEF g, m, Q, k
  <2>5. PICK f \in [Nat -> Q] : Solves(f, Nat, g) BY <2>2, <2>3, <2>4, Defined
  <2>6. \A q \in Nat : f[q] = TextBody(buf, end, f, q) BY <2>5, <1>3 DEF Solves
  <2> QED BY <2>5, <2>6
<1>7. PICK f0 \in [Nat -> Q] : \A q \in Nat : f0[q] = TextBody(buf, end, f0, q) BY <1>6
<1>8. c = E(c)
  <2>1. f0 = [q \in Nat |-> f0[q]] BY <1>7
  <2>2. f0 = E(f0) BY <1>2, <1>7, <2>1
  <2> QED BY <2>2 DEF c
<1>9. c = [q \in Nat |-> TextBody(buf, end, c, q)] BY <1>2, <1>8
<1>10. \A q \in Nat : c[q] = TextBody(buf, end, c, q) BY <1>9
<1>11. c \in [Nat -> Q]
  <2>1. \A q \in Nat : q >= end => c[q] \in Q
    <3>1. <<>> \in Q OBVIOUS
    <3> HIDE DEF Q
    <3>2. \A q \in Nat : q >= end => c[q] = <<>> BY <1>10, Zenon DEF TextBody
    <3> QED BY <3>1, <3>2
  <2> DEFINE R == {q \in 0 .. end : c[q] \in Q}
  <2>2. ASSUME NEW q \in 0 .. end, \A j \in q + 1 .. end : j \in R PROVE q \in R
    <3>1. q \in Nat /\ q + 1 \in Nat /\ q + 2 \in Nat OBVIOUS
    <3>2. CASE q = end BY <3>2, <2>1
    <3>3. CASE q < end
      <4>1. ASSUME NEW j \in {q + 1, q + 2} PROVE c[j] \in Q
        <5>1. j \in Nat /\ j > q BY <3>1
        <5>2. CASE j <= end
          <6>1. j \in q + 1 .. end BY <5>1, <5>2, <3>1
          <6> QED BY <6>1, <2>2
        <5>3. CASE j > end BY <5>1, <5>3, <2>1
        <5> QED BY <5>1, <5>2, <5>3
      <4>2. c[q + 1] \in Q /\ c[q + 2] \in Q BY <4>1
      <4>3. buf[q] \in Texts(buf) /\ read_escaped_char(buf[q + 1]) \in Texts(buf)
        BY <3>1, Zenon DEF Texts
      <4>4. <<buf[q]>> \o c[q + 1] \in Q BY <4>2, <4>3, Cons
      <4>5. <<read_escaped_char(buf[q + 1])>> \o c[q + 2] \in Q BY <4>2, <4>3, Cons
      <4>6. c[q] = TextBody(buf, end, c, q) BY <1>10, <3>1
      <4>7. ~(q >= end) BY <3>3, <3>1
      <4> HIDE DEF Q
      <4>8. c[q] \in Q BY <4>4, <4>5, <4>6, <4>7, Zenon DEF TextBody
      <4> QED BY <4>8
    <3> QED BY <3>1, <3>2, <3>3
  <2> HIDE DEF R
  <2>3. 0 .. end \subseteq R BY 0 \in Nat, <2>2, Downward
  <2>4. ASSUME NEW q \in Nat PROVE c[q] \in Q
    <3>1. CASE q <= end
      <4>1. q \in 0 .. end BY <3>1
      <4> QED BY <4>1, <2>3 DEF R
    <3>2. CASE q > end BY <3>2, <2>1
    <3> QED BY <3>1, <3>2
  <2> HIDE DEF Q
  <2> QED BY <2>4, <1>9
<1> QED BY <1>1, <1>10, <1>11

WordBody(w, f, n) ==
  IF n = Len(w) \/ (Escaped(w)[n] /\ w[n] = "0") THEN <<>>
  ELSE IF Escaped(w)[n] THEN <<read_escaped_char(w[n])>> \o f[n + 1]
  ELSE IF w[n] = "\\" THEN f[n + 1]
  ELSE <<w[n]>> \o f[n + 1]
LEMMA WordStep ==
  ASSUME NEW w, Len(w) \in Nat, Len(w) > 1
  PROVE  \E f \in [2 .. Len(w) -> Seq(Texts(w))] :
           /\ TextOf(w) = f[2]
           /\ \A n \in 2 .. Len(w) : f[n] = WordBody(w, f, n)
<1> DEFINE k == Len(w)
           D == 2 .. k
           Q == Seq(Texts(w))
           E(f) == [n \in D |->
                      IF n = Len(w) \/ (Escaped(w)[n] /\ w[n] = "0") THEN <<>>
                      ELSE IF Escaped(w)[n] THEN <<read_escaped_char(w[n])>> \o f[n + 1]
                      ELSE IF w[n] = "\\" THEN f[n + 1]
                      ELSE <<w[n]>> \o f[n + 1]]
           c == CHOOSE f : f = E(f)
           g == [n \in D |-> [f \in [D -> Q] |-> WordBody(w, f, n)]]
           m == [n \in D |-> k - n]
<1>1. TextOf(w) = c[2] BY DEF TextOf
<1>2. \A f : E(f) = [n \in D |-> WordBody(w, f, n)] BY DEF WordBody
<1>3. \A n \in D, f \in [D -> Q] : g[n][f] = WordBody(w, f, n) OBVIOUS
<1> HIDE DEF c, E
<1>4. ASSUME NEW n \in D, n # k PROVE n + 1 \in D /\ m[n + 1] < m[n] BY <1>4
<1>5. ASSUME NEW n \in D, NEW f, n # k => f[n + 1] \in Q PROVE WordBody(w, f, n) \in Q
  <2> HIDE DEF g, m
  <2>1. n \in Nat OBVIOUS
  <2>2. w[n] \in Texts(w) /\ read_escaped_char(w[n]) \in Texts(w) BY <2>1, Zenon DEF Texts
  <2>3. <<>> \in Q OBVIOUS
  <2>4. ASSUME n # k
        PROVE  <<w[n]>> \o f[n + 1] \in Q /\ <<read_escaped_char(w[n])>> \o f[n + 1] \in Q
    BY <2>2, <2>4, <1>5, Cons
  <2> HIDE DEF Q
  <2> QED BY <2>3, <2>4, <1>5, Zenon DEF WordBody, k
<1>6. g \in [D -> [[D -> Q] -> Q]]
  <2>1. ASSUME NEW n \in D, NEW f \in [D -> Q] PROVE WordBody(w, f, n) \in Q
    <3>1. n # k => f[n + 1] \in Q BY <1>4
    <3> HIDE DEF Q, D, k, g, m
    <3> QED BY <3>1, <1>5
  <2> HIDE DEF Q, D, k, m
  <2> QED BY <2>1
<1>7. ASSUME NEW n \in D, NEW f \in [D -> Q], NEW h \in [D -> Q],
             \A y \in D : m[y] < m[n] => f[y] = h[y]
      PROVE  g[n][f] = g[n][h]
  <2> SUFFICES WordBody(w, f, n) = WordBody(w, h, n) BY <1>3
  <2>1. n # k => f[n + 1] = h[n + 1] BY <1>4, <1>7
  <2> HIDE DEF g, Q, m
  <2> QED BY <2>1 DEF WordBody
<1>8. \E f \in [D -> Q] : \A n \in D : f[n] = WordBody(w, f, n)
  <2>1. m \in [D -> 0 .. k - 2] /\ k - 2 \in Nat OBVIOUS
  <2>2. Recursive(D, Q, m, g) BY <1>6, <1>7 DEF Recursive
  <2>3. Q # {}
    <3>1. <<>> \in Q OBVIOUS
    <3> QED BY <3>1
  <2> DEFINE N == k - 2
  <2>4. m \in [D -> 0 .. N] /\ N \in Nat BY <2>1
  <2> HIDE DEF g, m, Q, D, N, k
  <2>5. PICK f \in [D -> Q] : Solves(f, D, g) BY <2>2, <2>3, <2>4, Defined
  <2>6. \A n \in D : f[n] = WordBody(w, f, n) BY <2>5, <1>3 DEF Solves
  <2> QED BY <2>5, <2>6
<1>9. c = E(c)
  <2>1. PICK f \in [D -> Q] : \A n \in D : f[n] = WordBody(w, f, n) BY <1>8
  <2>2. f = [n \in D |-> f[n]] BY <2>1
  <2>3. f = E(f) BY <1>2, <2>1, <2>2
  <2> QED BY <2>3 DEF c
<1>10. c = [n \in D |-> WordBody(w, c, n)] BY <1>2, <1>9
<1>11. \A n \in D : c[n] = WordBody(w, c, n) BY <1>10
<1> DEFINE S == {n \in D : c[n] \in Q}
<1>12. ASSUME NEW n \in D, \A j \in n + 1 .. k : j \in S PROVE n \in S
  <2>1. n # k => n + 1 \in n + 1 .. k OBVIOUS
  <2>2. n # k => c[n + 1] \in Q BY <2>1, <1>12
  <2> HIDE DEF Q, D, k, g, m
  <2>3. c[n] \in Q BY <2>2, <1>5, <1>11
  <2> QED BY <2>3
<1> HIDE DEF S
<1>13. D \subseteq S
  <2>1. 2 \in Nat /\ k \in Nat OBVIOUS
  <2> QED BY <2>1, <1>12, Downward
<1>14. c \in [D -> Q]
  <2>1. \A n \in D : c[n] \in Q BY <1>13 DEF S
  <2> HIDE DEF Q, D
  <2> QED BY <2>1, <1>10
<1> QED BY <1>1, <1>11, <1>14

(* The text of a string literal is that of its lexeme. *)
LEMMA SameText ==
  ASSUME NEW W, NEW buf \in Seq(W), NEW z \in Nat, LineTo(buf, z), NEW p \in 1 .. z - 1,
         NEW X, Escapes(buf, p + 1, z, X), NEW e \in p + 1 .. z - 1, e \notin X
  PROVE  read_string_literal(buf, p + 1, e) = [tag |-> "STR", str |-> TextOf(SubSeq(buf, p, e))]
<1> DEFINE w == SubSeq(buf, p, e)
           k == e - p + 1
           U == Texts(buf) \cup Texts(w)
<1>1. /\ p \in Nat /\ p >= 1 /\ e \in Nat /\ e >= p + 1 /\ e <= z - 1 /\ e <= z
      /\ p \in 1 .. Len(buf) /\ e \in p .. Len(buf) /\ k \in Nat /\ k > 1
      /\ \A q \in p + 1 .. e : buf[q] # NUL /\ q \in Nat /\ q - p + 1 \in 2 .. k
  <2>1. /\ p \in Nat /\ p >= 1 /\ Len(buf) \in Nat /\ z \in 1 .. Len(buf) /\ p \in 1 .. Len(buf)
        /\ \A n \in 1 .. z - 1 : buf[n] \notin {NUL, Unknown}
    BY LineChars
  <2>2. e \in Nat /\ e >= p + 1 /\ e <= z - 1 /\ e <= z BY <2>1
  <2>3. e \in p .. Len(buf) /\ k \in Nat /\ k > 1 BY <2>1, <2>2
  <2>4. ASSUME NEW q \in p + 1 .. e PROVE buf[q] # NUL /\ q \in Nat /\ q - p + 1 \in 2 .. k
    <3>1. q \in 1 .. z - 1 BY <2>1, <2>2
    <3> QED BY <3>1, <2>1
  <2> QED BY <2>1, <2>2, <2>3, <2>4
<1>2. Word(W, buf, p, e, w) BY <1>1, WordIs
<1>3. \A q \in p + 1 .. e : Escaped(w)[q - p + 1] <=> q \in X BY <1>1, EscapedIs
<1>4. PICK f \in [Nat -> Seq(Texts(buf))] :
        /\ read_string_literal(buf, p + 1, e) = [tag |-> "STR", str |-> Cut(f[p + 1])]
        /\ \A q \in Nat : f[q] = TextBody(buf, e, f, q)
  <2>1. e \in Nat BY <1>1
  <2> HIDE DEF w, k
  <2> QED BY <2>1, TextStep, Zenon
<1> HIDE DEF w
<1>5. Len(w) = k /\ \A i \in 1 .. k : w[i] = buf[p + i - 1] BY <1>2 DEF Word
<1>6. PICK g \in [2 .. Len(w) -> Seq(Texts(w))] :
        /\ TextOf(w) = g[2]
        /\ \A n \in 2 .. Len(w) : g[n] = WordBody(w, g, n)
  BY <1>1, <1>5, WordStep
<1> HIDE DEF k
<1> DEFINE S == {q \in p + 1 .. e : q \notin X => Cut(f[q]) = g[q - p + 1]}
<1>7. ASSUME NEW q \in p + 1 .. e, \A j \in q + 1 .. e : j \in S PROVE q \in S
  <2> SUFFICES ASSUME q \notin X PROVE Cut(f[q]) = g[q - p + 1] OBVIOUS
  <2> HIDE DEF S
  <2> DEFINE i == q - p + 1
  <2>1. /\ q \in Nat /\ i \in 2 .. k /\ i \in 1 .. k /\ p + i - 1 = q /\ buf[q] # NUL
        /\ (i = k <=> q = e) /\ q + 1 \in Nat /\ q + 2 \in Nat
    BY <1>1 DEF k
  <2>2. f[q] = TextBody(buf, e, f, q) /\ f[q + 1] \in Seq(Texts(buf)) /\ f[q + 2] \in Seq(Texts(buf))
    BY <2>1, <1>4
  <2>3. w[i] = buf[q] /\ g[i] = WordBody(w, g, i)
    <3> HIDE DEF i
    <3> QED BY <2>1, <1>5, <1>6
  <2>4. ~Escaped(w)[i] BY <1>3
  <2>5. CASE q = e
    <3>1. f[q] = <<>> BY <2>1, <2>2, <2>5 DEF TextBody
    <3> HIDE DEF i
    <3>2. g[i] = <<>> BY <2>1, <2>3, <2>5, <1>5 DEF WordBody
    <3>3. Cut(<<>>) = <<>> BY DEF Cut
    <3>4. Cut(f[q]) = g[i] BY <3>1, <3>2, <3>3
    <3> QED BY <3>4 DEF i
  <2>6. q < e => q + 1 \in (p + 1) + 1 .. z /\ (q + 1) - 1 = q /\ q + 1 \in p + 1 .. e
                 /\ q + 1 \in q + 1 .. e /\ (q + 1) - p + 1 = i + 1 /\ ~(q >= e) /\ i # k
    BY <1>1, <2>1
  <2>7. q < e => (q + 1 \in X <=> buf[q] = "\\")
    <3> SUFFICES ASSUME q < e PROVE q + 1 \in X <=> buf[q] = "\\" OBVIOUS
    <3> DEFINE r == q + 1
    <3>1. r \in (p + 1) + 1 .. z /\ r - 1 = q BY <2>6
    <3> HIDE DEF r
    <3>2. r \in X <=> buf[q] = "\\" /\ q \notin X BY <3>1 DEF Escapes
    <3> QED BY <3>2 DEF r
  <2>8. CASE q < e /\ buf[q] = "\\"
    <3>1. q + 1 \in X /\ q + 1 # e BY <2>7, <2>8
    <3>2. q + 2 \in (p + 1) + 1 .. z /\ (q + 2) - 1 = q + 1 /\ q + 2 \in q + 1 .. e
          /\ (q + 2) - p + 1 = i + 2 /\ i + 1 \in 2 .. k /\ i + 1 \in 1 .. k /\ i + 1 # k
          /\ p + (i + 1) - 1 = q + 1 /\ (i + 1) + 1 = i + 2
      BY <3>1, <2>1, <2>8, <1>1 DEF k
    <3>3. q + 2 \notin X BY <3>1, <3>2 DEF Escapes
    <3>4. Cut(f[q + 2]) = g[(q + 2) - p + 1] BY <3>2, <3>3, <1>7 DEF S
    <3>5. Escaped(w)[(q + 1) - p + 1] BY <2>6, <2>8, <3>1, <1>3
    <3>6. /\ g[i] = g[i + 1]
          /\ g[i + 1] = IF w[i + 1] = "0" THEN <<>>
                        ELSE <<read_escaped_char(w[i + 1])>> \o g[i + 2]
          /\ w[i + 1] = buf[q + 1]
      <4>1. Escaped(w)[i + 1] BY <3>5, <2>6, <2>8
      <4> HIDE DEF i
      <4>5. w[i + 1] = buf[p + (i + 1) - 1] BY <3>2, <1>5
      <4>6. i + 1 \in 2 .. Len(w) BY <3>2, <1>5
      <4>7. g[i + 1] = WordBody(w, g, i + 1) BY <4>6, <1>6
      <4>2. g[i + 1] = WordBody(w, g, i + 1) /\ w[i + 1] = buf[q + 1] BY <3>2, <4>5, <4>7
      <4>3. g[i] = g[i + 1] BY <2>3, <2>4, <2>6, <2>8, <1>5, Zenon DEF WordBody
      <4>4. g[i + 1] = IF w[i + 1] = "0" THEN <<>>
                       ELSE <<read_escaped_char(w[i + 1])>> \o g[(i + 1) + 1]
        BY <3>2, <4>1, <4>2, <1>5, Zenon DEF WordBody
      <4> QED BY <3>2, <4>2, <4>3, <4>4
    <3> DEFINE c == read_escaped_char(buf[q + 1])
    <3>7. f[q] = <<c>> \o f[q + 2] BY <2>2, <2>6, <2>8, Zenon DEF TextBody
    <3>8. c \in Texts(buf) BY <2>1, Zenon DEF Texts
    <3>9. buf[q + 1] # NUL BY <2>6, <2>8, <1>1
    <3>10. c = NUL <=> buf[q + 1] = "0" BY <3>9, EscapedChar
    <3>11. Cut(<<c>> \o f[q + 2]) = IF c = NUL THEN <<>> ELSE <<c>> \o Cut(f[q + 2])
      <4> HIDE DEF c
      <4> QED BY <3>8, <2>2, CutCons
    <3>12. Cut(f[q + 2]) = g[i + 2] BY <3>2, <3>4
    <3>13. g[i] = IF buf[q + 1] = "0" THEN <<>> ELSE <<c>> \o g[i + 2] BY <3>6
    <3> HIDE DEF c, i
    <3>14. Cut(f[q]) = g[i] BY <3>7, <3>10, <3>11, <3>12, <3>13
    <3> QED BY <3>14 DEF i
  <2>9. CASE q < e /\ buf[q] # "\\"
    <3>1. q + 1 \notin X BY <2>7, <2>9
    <3>2. Cut(f[q + 1]) = g[i + 1] BY <2>6, <2>9, <3>1, <1>7 DEF S
    <3>3. f[q] = <<buf[q]>> \o f[q + 1] BY <2>2, <2>6, <2>9, Zenon DEF TextBody
    <3>4. buf[q] \in Texts(buf) BY <2>1, Zenon DEF Texts
    <3>5. Cut(<<buf[q]>> \o f[q + 1]) = <<buf[q]>> \o Cut(f[q + 1]) BY <3>4, <2>1, <2>2, CutCons
    <3> HIDE DEF i
    <3>6. g[i] = <<w[i]>> \o g[i + 1]
      BY <2>3, <2>4, <2>6, <2>9, <1>5, Zenon DEF WordBody
    <3>7. Cut(f[q]) = g[i] BY <2>3, <3>2, <3>3, <3>5, <3>6
    <3> QED BY <3>7 DEF i
  <2>10. q = e \/ q < e
    <3>1. \A x \in Int, y \in Int : \A v \in x .. y : v = y \/ v < y OBVIOUS
    <3>2. p + 1 \in Int /\ e \in Int BY <1>1
    <3> QED BY <3>1, <3>2
  <2> QED BY <2>5, <2>8, <2>9, <2>10, Zenon
<1> HIDE DEF S
<1>8. p + 1 .. e \subseteq S
  <2>1. p + 1 \in Nat BY <1>1
  <2> QED BY <2>1, <1>1, <1>7, Downward
<1>9. p + 1 \in p + 1 .. e /\ p + 1 \notin X /\ (p + 1) - p + 1 = 2 BY <1>1 DEF Escapes
<1>10. Cut(f[p + 1]) = g[2] BY <1>8, <1>9 DEF S
<1> QED BY <1>4, <1>6, <1>10 DEF w

(* Of a word that begins with a quote, only the question whether it is a   *)
(* string is left.                                                         *)
LEMMA OnlyStrings ==
  ASSUME NEW W, NEW buf \in Seq(W), NEW z \in Nat, LineTo(buf, z), NEW p \in 1 .. z - 1,
         buf[p] = Dq, NEW n \in p .. z - 1
  PROVE  LET w == SubSeq(buf, p, n) IN
         ~IsNumber(w) /\ ~IsIdent(w) /\ \A m \in DOMAIN Punctuation : w # Punctuation[m]
<1> DEFINE w == SubSeq(buf, p, n)
<1>1. p \in 1 .. z OBVIOUS
<1>2. Char(buf, p) = buf[p] BY <1>1, LineChars
<1>3. /\ IsNumber(w) => buf[p] \in Digit \/ (Negative(buf, p) /\ n > p)
      /\ IsIdent(w) => buf[p] \in IdentStart
      /\ \A m \in DOMAIN Punctuation : w = Punctuation[m] =>
           buf[p] \in {"(", ")", "'", ".", "#"}
  BY WordKinds
<1> HIDE DEF w
<1>4. Negative(buf, p) => buf[p] = "-" BY <1>2 DEF Negative
<1>5. Dq \notin Digit /\ Dq \notin IdentStart /\ Dq # "-" /\ Dq \notin {"(", ")", "'", ".", "#"}
  BY FirstChars, Zenon DEF Dq
<1>6. ~IsNumber(w) /\ ~IsIdent(w) /\ \A m \in DOMAIN Punctuation : w # Punctuation[m]
  BY <1>3, <1>4, <1>5
<1> QED BY <1>6 DEF w

LEMMA StringRead ==
  ASSUME NEW W, NEW buf \in Seq(W), NEW z \in Nat, LineTo(buf, z), ~Overruns(buf, z),
         NEW p \in 1 .. z - 1, buf[p] = Dq
  PROVE  LET e == string_literal_end(buf, p + 1) IN
         \/ e = 0 /\ Refuses(buf, z, p)
         \/ /\ e \in p + 1 .. z - 1
            /\ Reads(buf, z, p, read_string_literal(buf, p + 1, e), e + 1)
<1> DEFINE e == string_literal_end(buf, p + 1)
           a == p + 1
<1>1. /\ p \in Nat /\ p >= 1 /\ p \in 1 .. Len(buf) /\ Len(buf) \in Nat /\ z \in 1 .. Len(buf)
      /\ a \in Nat /\ a <= z /\ a \in 1 .. z
      /\ \A n \in p .. z - 1 : n \in p .. Len(buf) /\ n <= z /\ n \in Nat /\ n >= p
  <2>1. p \in Nat /\ p >= 1 /\ p \in 1 .. Len(buf) /\ Len(buf) \in Nat /\ z \in 1 .. Len(buf)
    BY LineChars
  <2> QED BY <2>1
<1>2. \E X : Escapes(buf, a, z, X)
  <2> HIDE DEF a
  <2> QED BY <1>1, EscapesExist
<1>3. PICK X : Escapes(buf, a, z, X) BY <1>2
<1>4. \A n \in p .. z - 1 :
        IsString(SubSeq(buf, p, n)) <=>
          n > p /\ buf[n] = Dq /\ \A q \in p + 1 .. n : buf[q] = Dq => (q \in X <=> q < n)
  BY <1>1, <1>3, StringIs
<1>5. EndsAt(buf, z, X, a, string_literal_end(buf, a))
  <2> HIDE DEF a
  <2> QED BY <1>1, <1>3, EndFound
<1>6. CASE e = 0 /\ \A m \in a .. z - 1 : m \notin X => buf[m] # Dq
  <2>1. ASSUME NEW n \in p .. z - 1 PROVE ~IsLexeme(SubSeq(buf, p, n))
    <3> DEFINE w == SubSeq(buf, p, n)
    <3>1. ~IsNumber(w) /\ ~IsIdent(w) /\ \A m \in DOMAIN Punctuation : w # Punctuation[m]
      BY OnlyStrings
    <3>2. ~IsString(w)
      <4> SUFFICES ASSUME n > p, buf[n] = Dq,
                          \A q \in p + 1 .. n : buf[q] = Dq => (q \in X <=> q < n)
                   PROVE  FALSE
        BY <1>4
      <4>1. n \in p + 1 .. n /\ n \in a .. z - 1 /\ ~(n < n) BY <1>1
      <4> HIDE DEF a, e
      <4>2. n \notin X BY <4>1
      <4> QED BY <4>1, <4>2, <1>6
    <3> HIDE DEF w
    <3>3. ~IsLexeme(w) BY <3>1, <3>2 DEF IsLexeme
    <3> QED BY <3>3 DEF w
  <2> HIDE DEF e
  <2>2. Refuses(buf, z, p) BY <2>1 DEF Refuses
  <2> QED BY <2>2, <1>6 DEF e
<1>7. CASE /\ e \in a .. z - 1 /\ buf[e] = Dq /\ e \notin X
           /\ \A m \in a .. e - 1 : m \notin X => buf[m] # Dq
  <2> DEFINE w == SubSeq(buf, p, e)
             t == read_string_literal(buf, p + 1, e)
  <2>9. e \in p + 1 .. z - 1 /\ e \notin X BY <1>7
  <2> HIDE DEF e
  <2>1. e \in Nat /\ e > p /\ e \in p .. z - 1 /\ e + 1 \in p + 1 .. z /\ (e + 1) - 1 = e
    BY <2>9, <1>1
  <2>2. IsString(w)
    <3>1. ASSUME NEW q \in p + 1 .. e, buf[q] = Dq PROVE q \in X <=> q < e
      <4>1. q = e \/ q \in a .. e - 1 BY <2>1, <1>1
      <4>2. CASE q = e BY <4>2, <2>9, <2>1
      <4>3. CASE q \in a .. e - 1
        <5>1. q < e BY <4>3, <2>1, <1>1
        <5>2. q \in X BY <4>3, <3>1, <1>7
        <5> QED BY <5>1, <5>2
      <4> QED BY <4>1, <4>2, <4>3
    <3> HIDE DEF w, a
    <3>2. IsString(SubSeq(buf, p, e)) BY <2>1, <3>1, <1>4, <1>7
    <3> QED BY <3>2 DEF w
  <2>3. ~IsNumber(w) /\ ~IsIdent(w) /\ \A m \in DOMAIN Punctuation : w # Punctuation[m]
    BY <2>1, OnlyStrings
  <2>4. t = [tag |-> "STR", str |-> TextOf(w)] BY <1>3, <2>9, SameText
  <2>5. w # <<>>
    <3>1. e \in p .. Len(buf) BY <2>1, <1>1
    <3>2. Word(W, buf, p, e, w) BY <3>1, <1>1, WordIs
    <3> HIDE DEF w
    <3> QED BY <3>2 DEF Word
  <2>6. ASSUME NEW n \in e + 1 .. z - 1 PROVE ~IsLexeme(SubSeq(buf, p, n))
    <3> DEFINE v == SubSeq(buf, p, n)
    <3>1. n \in p .. z - 1 /\ e \in p + 1 .. n /\ e < n BY <2>1, <1>1
    <3>2. ~IsNumber(v) /\ ~IsIdent(v) /\ \A m \in DOMAIN Punctuation : v # Punctuation[m]
      BY <3>1, OnlyStrings
    <3>3. ~IsString(v)
      <4> HIDE DEF v, a
      <4>1. ~IsString(SubSeq(buf, p, n)) BY <3>1, <2>9, <1>4, <1>7
      <4> QED BY <4>1 DEF v
    <3> HIDE DEF v
    <3>4. ~IsLexeme(v) BY <3>2, <3>3 DEF IsLexeme
    <3> QED BY <3>4 DEF v
  <2> HIDE DEF t, w
  <2>7. IsLexeme(w) /\ Denotes(t, w) BY <2>2, <2>3, <2>4, <2>5 DEF IsLexeme, Denotes
  <2>8. Reads(buf, z, p, t, e + 1) BY <2>1, <2>6, <2>7 DEF Reads, w
  <2> QED BY <2>8, <2>9 DEF t, e
<1>8. \/ e = 0 /\ \A m \in a .. z - 1 : m \notin X => buf[m] # Dq
      \/ /\ e \in a .. z - 1 /\ buf[e] = Dq /\ e \notin X
         /\ \A m \in a .. e - 1 : m \notin X => buf[m] # Dq
  BY <1>5 DEF EndsAt
<1> QED BY <1>6, <1>7, <1>8

-----------------------------------------------------------------------------
(* The lexemes of a line.                                                  *)

Greatest(S) == CHOOSE n \in S : \A m \in S : m <= n
LEMMA GreatestIs ==
  ASSUME NEW b \in Nat, NEW S, S \subseteq 0 .. b, S # {}
  PROVE  /\ Greatest(S) \in S /\ \A m \in S : m <= Greatest(S)
         /\ \A n \in S : (\A m \in S : m <= n) => Greatest(S) = n
<1> DEFINE R == {b - n : n \in S}
<1>0. \A n \in S : n \in Nat /\ b - n \in Nat OBVIOUS
<1>1. R \subseteq Nat /\ R # {} BY <1>0
<1>2. PICK k \in R : \A j \in R : k <= j BY <1>1, LeastNat
<1>3. PICK n \in S : k = b - n BY <1>2
<1>4. ASSUME NEW m \in S PROVE m <= n
  <2>1. k <= b - m BY <1>2
  <2> QED BY <2>1, <1>3
<1>5. Greatest(S) \in S /\ \A m \in S : m <= Greatest(S) BY <1>4, Zenon DEF Greatest
<1>6. ASSUME NEW l \in S, \A m \in S : m <= l PROVE Greatest(S) = l
  <2>1. l <= Greatest(S) /\ Greatest(S) <= l BY <1>5, <1>6
  <2>2. l \in Nat /\ Greatest(S) \in Nat BY <1>0, <1>5
  <2> QED BY <2>1, <2>2
<1> QED BY <1>5, <1>6

(* Split obeys its recursion. *)
Lasts(w, p) == {n \in p .. Len(w) : IsLexeme(SubSeq(w, p, n))}
SplitBody(w, f, p) ==
  IF p > Len(w) THEN <<>>
  ELSE IF w[p] \in Blank THEN f[p + 1]
  ELSE IF Lasts(w, p) = {} THEN <<<<>>>>
  ELSE <<SubSeq(w, p, Greatest(Lasts(w, p)))>> \o f[Greatest(Lasts(w, p)) + 1]
LEMMA SplitStep ==
  ASSUME NEW W, NEW w \in Seq(W)
  PROVE  \E f \in [1 .. Len(w) + 1 -> Seq(Seq(W))] :
           /\ Split(w) = f[1]
           /\ \A p \in 1 .. Len(w) + 1 : f[p] = SplitBody(w, f, p)
<1> DEFINE k == Len(w)
           D == 1 .. k + 1
           Q == Seq(Seq(W))
           E(f) == [p \in D |->
                      IF p > Len(w) THEN <<>>
                      ELSE IF w[p] \in Blank THEN f[p + 1]
                      ELSE LET ends == {n \in p .. Len(w) : IsLexeme(SubSeq(w, p, n))} IN
                           IF ends = {} THEN <<<<>>>>
                           ELSE LET n == CHOOSE n \in ends : \A m \in ends : m <= n
                                IN <<SubSeq(w, p, n)>> \o f[n + 1]]
           c == CHOOSE f : f = E(f)
           g == [p \in D |-> [f \in [D -> Q] |-> SplitBody(w, f, p)]]
           m == [p \in D |-> k + 1 - p]
<1>1. Split(w) = c[1] BY DEF Split
<1>2. \A f : E(f) = [p \in D |-> SplitBody(w, f, p)] BY DEF SplitBody, Lasts, Greatest
<1>3. \A p \in D, f \in [D -> Q] : g[p][f] = SplitBody(w, f, p) OBVIOUS
<1> HIDE DEF c, E
<1>0. k \in Nat OBVIOUS
<1>4. ASSUME NEW p \in D, p <= k
      PROVE  /\ p + 1 \in D /\ p + 1 > p
             /\ Lasts(w, p) # {} =>
                  /\ Greatest(Lasts(w, p)) \in p .. k
                  /\ Greatest(Lasts(w, p)) + 1 \in D /\ Greatest(Lasts(w, p)) + 1 > p
  <2>1. p \in Nat /\ p >= 1 /\ p + 1 \in D /\ p + 1 > p BY <1>0, <1>4
  <2>2. Lasts(w, p) \subseteq p .. k BY DEF Lasts
  <2>3. Lasts(w, p) \subseteq 0 .. k BY <2>1, <2>2
  <2> DEFINE S == Lasts(w, p)
  <2>4. S # {} => Greatest(S) \in S
    <3> SUFFICES ASSUME S # {} PROVE Greatest(S) \in S OBVIOUS
    <3>1. S \subseteq 0 .. k BY <2>3
    <3> HIDE DEF S, k
    <3> QED BY <3>1, <1>0, GreatestIs
  <2>5. S # {} => Greatest(S) \in p .. k BY <2>2, <2>4
  <2> HIDE DEF S, g, m, Q
  <2>6. S # {} => Greatest(S) + 1 \in D /\ Greatest(S) + 1 > p BY <2>1, <2>5, <1>0
  <2> QED BY <2>1, <2>5, <2>6 DEF S
<1>5. ASSUME NEW p \in D, NEW f, \A n \in D : n > p => f[n] \in Q PROVE SplitBody(w, f, p) \in Q
  <2> DEFINE n == Greatest(Lasts(w, p))
             x == SubSeq(w, p, n)
  <2>1. <<>> \in Q /\ <<<<>>>> \in Q OBVIOUS
  <2>2. ASSUME p <= k PROVE f[p + 1] \in Q /\ (Lasts(w, p) # {} => <<x>> \o f[n + 1] \in Q)
    <3>1. /\ p + 1 \in D /\ p + 1 > p
          /\ Lasts(w, p) # {} => n \in p .. k /\ n + 1 \in D /\ n + 1 > p
      BY <2>2, <1>4
    <3> HIDE DEF n, g, m, D
    <3>2. f[p + 1] \in Q /\ (Lasts(w, p) # {} => f[n + 1] \in Q) BY <3>1, <1>5
    <3>3. Lasts(w, p) # {} => x \in Seq(W)
      <4> SUFFICES ASSUME Lasts(w, p) # {} PROVE x \in Seq(W) OBVIOUS
      <4>1. n \in p .. k /\ p \in Nat /\ p >= 1 BY <3>1, <1>0 DEF D
      <4>2. p \in 1 .. Len(w) /\ n \in p .. Len(w) BY <4>1, <1>0
      <4>3. Word(W, w, p, n, x) BY <4>2, WordIs
      <4> HIDE DEF x
      <4> QED BY <4>3 DEF Word
    <3> HIDE DEF x
    <3> QED BY <3>2, <3>3, Cons
  <2>3. p > k \/ p <= k BY <1>0
  <2> HIDE DEF n, x, Q, g, m, D
  <2> QED BY <2>1, <2>2, <2>3, Zenon DEF SplitBody, n, x, k
<1>6. g \in [D -> [[D -> Q] -> Q]]
  <2>1. ASSUME NEW p \in D, NEW f \in [D -> Q] PROVE SplitBody(w, f, p) \in Q
    <3>1. \A n \in D : n > p => f[n] \in Q OBVIOUS
    <3> HIDE DEF Q, D, k, g, m
    <3> QED BY <3>1, <1>5
  <2> HIDE DEF Q, D, k, m
  <2> QED BY <2>1
<1>7. ASSUME NEW p \in D, NEW f \in [D -> Q], NEW h \in [D -> Q],
             \A y \in D : m[y] < m[p] => f[y] = h[y]
      PROVE  g[p][f] = g[p][h]
  <2> SUFFICES SplitBody(w, f, p) = SplitBody(w, h, p) BY <1>3
  <2>1. \A y \in D : y > p => f[y] = h[y]
    <3> SUFFICES ASSUME NEW y \in D, y > p PROVE f[y] = h[y] OBVIOUS
    <3>1. m[y] < m[p] BY <1>0
    <3> QED BY <3>1, <1>7
  <2>2. p <= k => /\ f[p + 1] = h[p + 1]
                  /\ Lasts(w, p) # {} =>
                       f[Greatest(Lasts(w, p)) + 1] = h[Greatest(Lasts(w, p)) + 1]
    <3> SUFFICES ASSUME p <= k PROVE
          /\ f[p + 1] = h[p + 1]
          /\ Lasts(w, p) # {} => f[Greatest(Lasts(w, p)) + 1] = h[Greatest(Lasts(w, p)) + 1]
      OBVIOUS
    <3> DEFINE n == Greatest(Lasts(w, p)) + 1
    <3>1. /\ p + 1 \in D /\ p + 1 > p
          /\ Lasts(w, p) # {} => n \in D /\ n > p
      BY <1>4
    <3> HIDE DEF n, D, Q, g, m, k
    <3>2. f[p + 1] = h[p + 1] /\ (Lasts(w, p) # {} => f[n] = h[n]) BY <2>1, <3>1
    <3> QED BY <3>2 DEF n
  <2>3. p > k \/ p <= k BY <1>0
  <2> HIDE DEF g, Q, m, D
  <2> QED BY <2>2, <2>3, Zenon DEF SplitBody, k
<1>8. \E f \in [D -> Q] : \A p \in D : f[p] = SplitBody(w, f, p)
  <2>1. m \in [D -> 0 .. k] BY <1>0
  <2>2. Recursive(D, Q, m, g) BY <1>6, <1>7 DEF Recursive
  <2>3. Q # {}
    <3>1. <<>> \in Q OBVIOUS
    <3> QED BY <3>1
  <2> HIDE DEF g, m, Q, D, k
  <2>5. PICK f \in [D -> Q] : Solves(f, D, g) BY <2>1, <2>2, <2>3, <1>0, Defined
  <2>6. \A p \in D : f[p] = SplitBody(w, f, p) BY <2>5, <1>3 DEF Solves
  <2> QED BY <2>5, <2>6
<1>9. c = E(c)
  <2>1. PICK f \in [D -> Q] : \A p \in D : f[p] = SplitBody(w, f, p) BY <1>8
  <2>2. f = [p \in D |-> f[p]] BY <2>1
  <2>3. f = E(f) BY <1>2, <2>1, <2>2
  <2> QED BY <2>3 DEF c
<1>10. c = [p \in D |-> SplitBody(w, c, p)] BY <1>2, <1>9
<1>11. \A p \in D : c[p] = SplitBody(w, c, p) BY <1>10
<1> DEFINE S == {p \in D : c[p] \in Q}
<1>12. ASSUME NEW p \in D, \A j \in p + 1 .. k + 1 : j \in S PROVE p \in S
  <2>1. \A n \in D : n > p => n \in p + 1 .. k + 1 BY <1>0
  <2>2. \A n \in D : n > p => c[n] \in Q BY <2>1, <1>12
  <2> HIDE DEF Q, D, k, g, m
  <2>3. c[p] \in Q BY <2>2, <1>5, <1>11
  <2> QED BY <2>3
<1> HIDE DEF S
<1>13. D \subseteq S
  <2>1. 1 \in Nat /\ k + 1 \in Nat OBVIOUS
  <2> QED BY <2>1, <1>12, Downward
<1>14. c \in [D -> Q]
  <2>1. \A p \in D : c[p] \in Q BY <1>13 DEF S
  <2> HIDE DEF Q, D
  <2> QED BY <2>1, <1>10
<1> QED BY <1>1, <1>11, <1>14

(* The recursion of Split, for the line in the buffer. *)
Splits(buf, z, d) ==
  /\ Split(Line(buf)) = d[1]
  /\ d[z] = <<>>
  /\ \A p \in 1 .. z - 1 :
       /\ buf[p] \in Blank => d[p] = d[p + 1]
       /\ buf[p] \notin Blank =>
            /\ Refuses(buf, z, p) => d[p] = <<<<>>>>
            /\ \A t, e : Reads(buf, z, p, t, e) => d[p] = <<SubSeq(buf, p, e - 1)>> \o d[e]
LEMMA LineSplit ==
  ASSUME NEW W, NEW buf \in Seq(W), NEW z \in Nat, LineTo(buf, z)
  PROVE  \E d \in [1 .. z -> Seq(Seq(W))] : Splits(buf, z, d)
<1> DEFINE w == Line(buf)
<1>1. /\ z \in 1 .. Len(buf) /\ w \in Seq(W) /\ Len(w) = z - 1
      /\ \A p \in 1 .. z - 1 : w[p] = buf[p]
      /\ \A p \in 1 .. z - 1 : \A n \in p .. z - 1 : SubSeq(w, p, n) = SubSeq(buf, p, n)
  BY LineIs
<1> HIDE DEF w
<1>2. PICK d \in [1 .. Len(w) + 1 -> Seq(Seq(W))] :
        Split(w) = d[1] /\ \A p \in 1 .. Len(w) + 1 : d[p] = SplitBody(w, d, p)
  BY <1>1, SplitStep
<1>3. Len(w) + 1 = z /\ z \in 1 .. z /\ ~(z <= Len(w)) BY <1>1
<1>4. d \in [1 .. z -> Seq(Seq(W))] /\ Split(w) = d[1] BY <1>2, <1>3
<1>5. d[z] = <<>>
  <2>1. d[z] = SplitBody(w, d, z) /\ z > Len(w) BY <1>2, <1>3, <1>1
  <2> QED BY <2>1 DEF SplitBody
<1>6. ASSUME NEW p \in 1 .. z - 1
      PROVE  /\ buf[p] \in Blank => d[p] = d[p + 1]
             /\ buf[p] \notin Blank =>
                  /\ Refuses(buf, z, p) => d[p] = <<<<>>>>
                  /\ \A t, e : Reads(buf, z, p, t, e) => d[p] = <<SubSeq(buf, p, e - 1)>> \o d[e]
  <2>1. p \in Nat /\ p >= 1 /\ p <= z - 1 /\ p \in 1 .. z /\ ~(p > Len(w)) BY <1>1
  <2>2. d[p] = SplitBody(w, d, p) BY <1>2, <1>3, <2>1
  <2>3. w[p] = buf[p] BY <1>1
  <2>4. \A n \in p .. z - 1 : SubSeq(w, p, n) = SubSeq(buf, p, n) BY <1>1
  <2>5. Lasts(w, p) = {n \in p .. z - 1 : IsLexeme(SubSeq(buf, p, n))} BY <1>1, <2>4 DEF Lasts
  <2>6. buf[p] \in Blank => d[p] = d[p + 1] BY <2>1, <2>2, <2>3, Zenon DEF SplitBody
  <2>7. ASSUME buf[p] \notin Blank, Refuses(buf, z, p) PROVE d[p] = <<<<>>>>
    <3>1. Lasts(w, p) = {} BY <2>5, <2>7 DEF Refuses
    <3> QED BY <2>1, <2>2, <2>3, <2>7, <3>1, Zenon DEF SplitBody
  <2>8. ASSUME buf[p] \notin Blank, NEW t, NEW e, Reads(buf, z, p, t, e)
        PROVE  d[p] = <<SubSeq(buf, p, e - 1)>> \o d[e]
    <3>1. /\ e \in p + 1 .. z /\ IsLexeme(SubSeq(buf, p, e - 1))
          /\ \A n \in e .. z - 1 : ~IsLexeme(SubSeq(buf, p, n))
      BY <2>8 DEF Reads
    <3>2. e - 1 \in p .. z - 1 /\ (e - 1) + 1 = e BY <2>1, <3>1
    <3> DEFINE S == Lasts(w, p)
    <3>3. e - 1 \in S BY <2>5, <3>1, <3>2
    <3>4. \A m \in S : m <= e - 1
      <4> SUFFICES ASSUME NEW m \in p .. z - 1, IsLexeme(SubSeq(buf, p, m)) PROVE m <= e - 1
        BY <2>5
      <4>1. m \notin e .. z - 1 BY <3>1
      <4> QED BY <4>1, <3>2, <2>1
    <3>5. S \subseteq 0 .. z /\ S # {} BY <2>5, <2>1, <3>3
    <3> HIDE DEF S
    <3>6. Greatest(S) = e - 1 BY <3>3, <3>4, <3>5, GreatestIs
    <3>7. d[p] = <<SubSeq(w, p, e - 1)>> \o d[(e - 1) + 1]
      BY <2>1, <2>2, <2>3, <2>8, <3>5, <3>6, Zenon DEF SplitBody, S
    <3> QED BY <3>2, <3>7, <2>4
  <2> QED BY <2>6, <2>7, <2>8
<1> QED BY <1>4, <1>5, <1>6 DEF w, Splits

(* At a position, tokenize and the grammar skip a blank, take a lexeme and *)
(* its token, or both refuse.                                              *)
Skipped(buf, p) == buf[p] \in Blank /\ \A f : lex(buf, f, p) = Behind(f, p)
Taken(buf, z, p, t, e) ==
  buf[p] \notin Blank /\ Reads(buf, z, p, t, e) /\ \A f : lex(buf, f, p) = <<t>> \o f[e]
Refused(buf, z, p) ==
  buf[p] \notin Blank /\ Refuses(buf, z, p) /\ \A f : lex(buf, f, p) = <<Bad>>
LEMMA NoBlanks ==
  /\ Dq \notin Blank /\ "-" \notin Blank /\ "#" \notin Blank
  /\ Blank \cap Digit = {} /\ Blank \cap IdentStart = {} /\ Blank \cap {"(", ")", "'", "."} = {}
<1>1. Dq \notin Blank BY Zenon DEF Dq, Blank
<1>2. \A c \in Blank : /\ c \notin Digit /\ c \notin Letter /\ c \notin is_special_initial_char
                       /\ c \notin {"+", "-", "#", "(", ")", "'", "."}
  BY DEF Blank, Digit, Letter, is_special_initial_char
<1> QED BY <1>1, <1>2 DEF IdentStart

LEMMA PieceRead ==
  ASSUME NEW W, NEW buf \in Seq(W), NEW z \in Nat, LineTo(buf, z), ~Overruns(buf, z),
         NEW p \in 1 .. z - 1
  PROVE  Skipped(buf, p) \/ Refused(buf, z, p) \/ \E t, e : Taken(buf, z, p, t, e)
<1> DEFINE c == buf[p]
           next == buf[p + 1]
<1>1. /\ Char(buf, p) = c /\ After(buf, p) = next /\ c # NUL /\ c # Unknown
  <2>1. p \in 1 .. z OBVIOUS
  <2> QED BY <2>1, LineChars
<1>2. next # Unknown
  <2>1. p + 1 = z \/ p + 1 \in 1 .. z - 1 OBVIOUS
  <2>2. NUL # Unknown BY DEF NUL, Unknown
  <2> QED BY <2>1, <2>2, LineChars
<1>3. CASE c \in Blank
  <2>1. \A f : lex(buf, f, p) = Behind(f, p) BY <1>1, <1>3, BodyCases
  <2> QED BY <2>1, <1>3 DEF Skipped
<1>4. CASE Negative(buf, p) \/ c \in Digit
  <2> DEFINE t == NumberToken(buf, p)
             e == NumberEnd(buf, p)
  <2>1. \A f : lex(buf, f, p) = <<t>> \o f[e] BY <1>1, <1>4, BodyCases
  <2>2. c \notin Blank BY <1>1, <1>4, NoBlanks DEF Negative
  <2>3. Reads(buf, z, p, t, e) BY <1>4, NumberRead
  <2> HIDE DEF t, e
  <2>4. Taken(buf, z, p, t, e) BY <2>1, <2>2, <2>3 DEF Taken
  <2> QED BY <2>4
<1>5. CASE c = Dq
  <2> DEFINE e == string_literal_end(buf, p + 1)
             t == read_string_literal(buf, p + 1, e)
  <2>1. \A f : lex(buf, f, p) = IF e = 0 THEN <<Bad>>
                                ELSE IF Char(buf, e) = Unknown THEN <<Stray>>
                                ELSE <<t>> \o f[e + 1]
    <3>1. Char(buf, p) = "\"" BY <1>1, <1>5 DEF Dq
    <3> QED BY <3>1, BodyCases, Zenon DEF Unclosed
  <2>2. c \notin Blank BY <1>5, NoBlanks
  <2>3. \/ e = 0 /\ Refuses(buf, z, p)
        \/ e \in p + 1 .. z - 1 /\ Reads(buf, z, p, t, e + 1)
    BY <1>5, StringRead
  <2> HIDE DEF e, t
  <2>4. CASE e = 0 /\ Refuses(buf, z, p)
    <3>1. Refused(buf, z, p) BY <2>1, <2>2, <2>4 DEF Refused
    <3> QED BY <3>1
  <2>5. CASE e \in p + 1 .. z - 1 /\ Reads(buf, z, p, t, e + 1)
    <3>1. e # 0 /\ e \in 1 .. z - 1 /\ e \in 1 .. z BY <2>5
    <3>2. Char(buf, e) = buf[e] /\ buf[e] # Unknown BY <3>1, LineChars
    <3>3. \A f : lex(buf, f, p) = <<t>> \o f[e + 1] BY <2>1, <3>1, <3>2
    <3>4. Taken(buf, z, p, t, e + 1) BY <2>2, <2>5, <3>3 DEF Taken
    <3> QED BY <3>4
  <2> QED BY <2>3, <2>4, <2>5
<1>6. CASE c \in {"(", ")", "'", "."}
  <2>1. c \notin Blank BY <1>6, NoBlanks
  <2>2. /\ c = "(" => \A f : lex(buf, f, p) = <<Token("LPAREN")>> \o f[p + 1]
        /\ c = ")" => \A f : lex(buf, f, p) = <<Token("RPAREN")>> \o f[p + 1]
        /\ c = "'" => \A f : lex(buf, f, p) = <<Token("QUOTE")>> \o f[p + 1]
        /\ c = "." => \A f : lex(buf, f, p) = <<Token("DOT")>> \o f[p + 1]
    BY <1>1, BodyCases
  <2>3. /\ c = "(" => Reads(buf, z, p, Token("LPAREN"), p + 1)
        /\ c = ")" => Reads(buf, z, p, Token("RPAREN"), p + 1)
        /\ c = "'" => Reads(buf, z, p, Token("QUOTE"), p + 1)
        /\ c = "." => Reads(buf, z, p, Token("DOT"), p + 1)
    BY MarkRead
  <2>4. /\ c = "(" => Taken(buf, z, p, Token("LPAREN"), p + 1)
        /\ c = ")" => Taken(buf, z, p, Token("RPAREN"), p + 1)
        /\ c = "'" => Taken(buf, z, p, Token("QUOTE"), p + 1)
        /\ c = "." => Taken(buf, z, p, Token("DOT"), p + 1)
    BY <2>1, <2>2, <2>3 DEF Taken
  <2> QED BY <1>6, <2>4
<1>7. CASE c = "#" /\ next \in {"t", "f"}
  <2> DEFINE t == TruthToken(buf, p)
  <2>1. \A f : lex(buf, f, p) = <<t>> \o f[p + 2] BY <1>1, <1>7, BodyCases
  <2>2. c \notin Blank BY <1>7, NoBlanks
  <2>3. Reads(buf, z, p, t, p + 2) BY <1>7, MarkRead
  <2> HIDE DEF t
  <2>4. Taken(buf, z, p, t, p + 2) BY <2>1, <2>2, <2>3 DEF Taken
  <2> QED BY <2>4
<1>8. CASE c \in IdentStart /\ ~Negative(buf, p)
  <2> DEFINE t == IdentToken(buf, p)
             e == IdentEnd(buf, p)
  <2>1. \A f : lex(buf, f, p) = <<t>> \o f[e] BY <1>1, <1>8, BodyCases
  <2>2. c \notin Blank BY <1>8, NoBlanks
  <2>3. Reads(buf, z, p, t, e) BY <1>8, IdentRead
  <2> HIDE DEF t, e
  <2>4. Taken(buf, z, p, t, e) BY <2>1, <2>2, <2>3 DEF Taken
  <2> QED BY <2>4
<1>9. CASE c \notin Blank /\ Strange(buf, p)
  <2>1. Refuses(buf, z, p) BY <1>9, NothingRead
  <2>2. c \notin {NUL, Unknown, "\"", "(", ")", "'", "."} \cup Blank \cup Digit \cup IdentStart
    BY <1>1, <1>9, Zenon DEF Strange
  <2>3. ~(c = "#" /\ next \in {Unknown, "t", "f"}) BY <1>2, <1>9 DEF Strange
  <2>4. \A f : lex(buf, f, p) = <<Bad>> BY <1>1, <2>2, <2>3, BodyCases
  <2> QED BY <2>1, <2>4, <1>9 DEF Refused
<1>10. c = Dq <=> c = "\"" BY Zenon DEF Dq
<1> HIDE DEF c, next
<1> QED BY <1>3, <1>4, <1>5, <1>6, <1>7, <1>8, <1>9, <1>10, Zenon DEF Strange, c, next

\* token by token, what was read is what the lexemes stand for
Agree(ts, ws) ==
  /\ \E R : ts \in Seq(R)
  /\ Len(ts) = Len(ws) /\ \A n \in DOMAIN ts : Denotes(ts[n], ws[n])
LEMMA AgreeCons ==
  ASSUME NEW W, NEW t, NEW w \in W, NEW ts, NEW ws \in Seq(W), Agree(ts, ws), Denotes(t, w)
  PROVE  Agree(<<t>> \o ts, <<w>> \o ws)
<1>1. PICK R : ts \in Seq(R) BY DEF Agree
<1> DEFINE V == R \cup {t}
           vs == <<t>> \o ts
           us == <<w>> \o ws
<1>2. ts \in Seq(V)
  <2>1. R \subseteq V OBVIOUS
  <2> HIDE DEF V
  <2> QED BY <2>1, <1>1
<1>3. /\ vs \in Seq(V) /\ Len(vs) = Len(ts) + 1 /\ vs[1] = t
      /\ \A n \in 2 .. Len(ts) + 1 : vs[n] = ts[n - 1]
  BY <1>2, Cons
<1>4. /\ Len(us) = Len(ws) + 1 /\ us[1] = w
      /\ \A n \in 2 .. Len(ws) + 1 : us[n] = ws[n - 1]
  BY Cons
<1>5. Len(ts) \in Nat /\ DOMAIN ts = 1 .. Len(ts) BY <1>1
<1> HIDE DEF vs, us, V
<1>6. DOMAIN vs = 1 .. Len(ts) + 1 BY <1>3
<1>7. ASSUME NEW n \in DOMAIN vs PROVE Denotes(vs[n], us[n])
  <2>1. CASE n = 1 BY <2>1, <1>3, <1>4
  <2>2. CASE n # 1
    <3>1. n \in 2 .. Len(ts) + 1 /\ n - 1 \in DOMAIN ts BY <2>2, <1>5, <1>6
    <3>2. n \in 2 .. Len(ws) + 1 BY <3>1 DEF Agree
    <3>3. Denotes(ts[n - 1], ws[n - 1]) BY <3>1 DEF Agree
    <3> QED BY <3>1, <3>2, <3>3, <1>3, <1>4
  <2> QED BY <2>1, <2>2
<1>8. Len(vs) = Len(us) BY <1>3, <1>4 DEF Agree
<1>9. Agree(vs, us) BY <1>3, <1>7, <1>8 DEF Agree
<1> QED BY <1>9 DEF vs, us

(* The tokens of a safe line denote its lexemes. *)
LEMMA LineRead ==
  ASSUME NEW W, NEW buf \in Seq(W), NEW z \in Nat, LineTo(buf, z), ~Overruns(buf, z)
  PROVE  Agree(tokenize(buf), Split(Line(buf)))
<1>1. PICK c : tokenize(buf) = c[1] /\ \A p \in Nat : c[p] = lex(buf, c, p) BY FromStep
<1>0. PICK d \in [1 .. z -> Seq(Seq(W))] : Splits(buf, z, d) BY LineSplit
<1>2. /\ Split(Line(buf)) = d[1]
      /\ d[z] = <<>>
      /\ \A p \in 1 .. z - 1 :
           /\ buf[p] \in Blank => d[p] = d[p + 1]
           /\ buf[p] \notin Blank =>
                /\ Refuses(buf, z, p) => d[p] = <<<<>>>>
                /\ \A t, e : Reads(buf, z, p, t, e) => d[p] = <<SubSeq(buf, p, e - 1)>> \o d[e]
  BY <1>0 DEF Splits
<1>3. z \in 1 .. Len(buf) /\ Len(buf) \in Nat /\ Char(buf, z) = NUL BY CharType DEF LineTo
<1> DEFINE S == {p \in 1 .. z : Agree(c[p], d[p])}
<1>4. ASSUME NEW p \in 1 .. z, \A j \in p + 1 .. z : j \in S PROVE p \in S
  <2> SUFFICES Agree(c[p], d[p]) OBVIOUS
  <2>1. p \in Nat /\ c[p] = lex(buf, c, p) BY <1>1, <1>3
  <2>2. \A j \in p + 1 .. z : Agree(c[j], d[j]) /\ j \in 1 .. z BY <1>4
  <2> HIDE DEF S
  <2>3. CASE p = z
    <3>1. c[p] = <<>> BY <2>1, <2>3, <1>3, BodyCases, Zenon
    <3>2. <<>> \in Seq({}) /\ Len(<<>>) = 0 /\ DOMAIN <<>> = {} OBVIOUS
    <3>3. Agree(<<>>, <<>>) BY <3>2 DEF Agree
    <3> QED BY <3>1, <3>3, <2>3, <1>2
  <2>4. CASE p # z
    <3>1. p \in 1 .. z - 1 /\ p + 1 \in p + 1 .. z BY <2>4, <1>3
    <3>2. CASE Skipped(buf, p)
      <4>1. c[p] = c[p + 1] BY <3>2, <2>1, Zenon DEF Skipped, Behind
      <4>2. d[p] = d[p + 1] BY <3>1, <3>2, <1>2 DEF Skipped
      <4> QED BY <4>1, <4>2, <3>1, <2>2
    <3>3. CASE Refused(buf, z, p)
      <4>1. c[p] = <<Bad>> BY <3>3, <2>1, Zenon DEF Refused
      <4>2. d[p] = <<<<>>>> BY <3>1, <3>3, <1>2 DEF Refused
      <4>3. Denotes(Bad, <<>>) BY DEF Denotes
      <4>4. <<Bad>> \in Seq({Bad}) /\ Len(<<Bad>>) = 1 /\ DOMAIN <<Bad>> = {1} /\ <<Bad>>[1] = Bad
            /\ Len(<<<<>>>>) = 1 /\ <<<<>>>>[1] = <<>>
        OBVIOUS
      <4>5. Agree(<<Bad>>, <<<<>>>>) BY <4>3, <4>4 DEF Agree
      <4> QED BY <4>1, <4>2, <4>5
    <3>4. ASSUME NEW t, NEW e, Taken(buf, z, p, t, e) PROVE Agree(c[p], d[p])
      <4> DEFINE w == SubSeq(buf, p, e - 1)
      <4>1. c[p] = <<t>> \o c[e] BY <3>4, <2>1, Zenon DEF Taken
      <4>2. buf[p] \notin Blank /\ Reads(buf, z, p, t, e) BY <3>4 DEF Taken
      <4>3. d[p] = <<w>> \o d[e] BY <4>2, <3>1, <1>2
      <4>4. e \in p + 1 .. z /\ Denotes(t, w) BY <4>2 DEF Reads
      <4>5. Agree(c[e], d[e]) /\ d[e] \in Seq(Seq(W)) BY <4>4, <2>2, <1>2
      <4>6. w \in Seq(W)
        <5>1. p \in 1 .. Len(buf) /\ e - 1 \in p .. Len(buf) BY <4>4, <3>1, <1>3
        <5>2. Word(W, buf, p, e - 1, w) BY <5>1, WordIs
        <5> HIDE DEF w
        <5> QED BY <5>2 DEF Word
      <4> HIDE DEF w
      <4>7. Agree(<<t>> \o c[e], <<w>> \o d[e]) BY <4>4, <4>5, <4>6, AgreeCons
      <4> QED BY <4>1, <4>3, <4>7
    <3> QED BY <3>1, <3>2, <3>3, <3>4, PieceRead
  <2> QED BY <2>3, <2>4
<1> HIDE DEF S
<1>5. 1 .. z \subseteq S
  <2>1. 1 \in Nat OBVIOUS
  <2> QED BY <2>1, <1>4, Downward
<1>6. Agree(c[1], d[1])
  <2>1. 1 \in 1 .. z BY <1>3
  <2> QED BY <2>1, <1>5 DEF S
<1> QED BY <1>1, <1>2, <1>6

LEMMA LexemesRead == ASSUME FormInv PROVE TokensAreLexemes
<1> SUFFICES ASSUME at = "tokenize", ~EndsInBackslash
             PROVE  LET ts == tokenize(buffer)
                        ws == Split(Line(buffer))
                    IN Len(ts) = Len(ws) /\ \A n \in DOMAIN ts : Denotes(ts[n], ws[n])
  BY DEF TokensAreLexemes
<1>1. PICK z \in Nat : LineTo(buffer, z) BY DEF FormInv, LineInBuffer
<1>2. PICK W : buffer \in Seq(W)
  <2>1. buffer \in Seq(Typed \cup {NUL, Unknown}) BY BufferSeq DEF FormInv
  <2> QED BY <2>1
<1>3. ~Overruns(buffer, z) BY <1>1, <1>2, OverrunIs
<1>4. Agree(tokenize(buffer), Split(Line(buffer))) BY <1>1, <1>2, <1>3, LineRead
<1> QED BY <1>4 DEF Agree

(* The tokens of every line are its longest lexemes with the values they   *)
(* denote, whatever is typed and however long the buffer is: what tokenize *)
(* of tokenize.c promises, but for a line that ends in a backslash with    *)
(* old text behind it.                                                     *)
THEOREM TokensStayLexemes == Spec => []TokensAreLexemes
<1>1. FormInv => TokensAreLexemes BY LexemesRead
<1> QED BY <1>1, FormInvariance, PTL
=============================================================================
