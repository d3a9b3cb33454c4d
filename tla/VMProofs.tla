------------------------------- MODULE VMProofs -------------------------------
(***************************************************************************)
(* Proofs about module VM, for every set of programs, code that is what    *)
(* module Code assumes of it, and every size of the heap.                  *)
(***************************************************************************)
EXTENDS VM, Induction

-----------------------------------------------------------------------------
(* Values, objects and frames.  These predicates take the heap hp, the     *)
(* frames fr and the constants li as parameters: a step relates those of   *)
(* one state to those of the next.                                         *)

IsSeq(q) == q \in Seq(Elems(q))

(* The objects a value may be: an error object is none.                    *)
Usable(hp) == {i \in DOMAIN hp : hp[i].tag # "ERROR"}
Const(v) == Static(v) \/ v = NULL
Good(v, U) == Const(v) \/ \E i \in U : v = [obj |-> i]

(* A list of arguments: cells whose cdrs stay among them and end in NIL.   *)
CellsOfLists(S, hp) ==
  \A i \in S : hp[i].tag = "CELL" /\ (hp[i].cdr = NIL \/ \E j \in S : hp[i].cdr = [obj |-> j])
ArgList(v, hp) ==
  v = NIL \/ \E S \in SUBSET DOMAIN hp : CellsOfLists(S, hp) /\ \E i \in S : v = [obj |-> i]

(* No list is a cycle: each set of cells has one whose cdr leaves it.      *)
Grounded(hp) ==
  \A S \in SUBSET DOMAIN hp :
    S # {} => \E i \in S : hp[i].tag # "CELL" \/ \A j \in S : hp[i].cdr # [obj |-> j]

(* dep is the number of frames below a frame, or less.                     *)
Enters(code, env, dep) ==
  \E y \in Codes : y.node = code /\ y.end = "RTN" /\ y.depth <= dep[env] + 1
ObjectOK(o, U, dep, K) ==
  \/ o.tag = "INTEGER" /\ o.n \in Words
  \/ o.tag = "CELL" /\ Good(o.car, U) /\ Good(o.cdr, U)
  \/ o.tag = "CLOSURE" /\ o.env \in DOMAIN dep /\ o.code.consts \subseteq K /\ Enters(o.code, o.env, dep)
  \/ /\ o.tag = "VECTOR" /\ o = [tag |-> "VECTOR", elems |-> o.elems]
     /\ IsSeq(o.elems) /\ \A n \in DOMAIN o.elems : Good(o.elems[n], U)
  \/ o.tag = "ERROR"
FrameOK(f, hp, fr, dep) ==
  /\ ArgList(fr[f].vars, hp)
  /\ \/ fr[f].next = 0 /\ dep[f] = 0
     \/ fr[f].next \in DOMAIN fr /\ dep[f] <= dep[fr[f].next] + 1
Sound(hp, fr, li, dep) ==
  /\ DOMAIN hp \subseteq 1 .. MaxObj
  /\ \A i \in DOMAIN hp : ObjectOK(hp[i], Usable(hp), dep, DOMAIN li)
  /\ Grounded(hp)
  /\ IsFiniteSet(DOMAIN fr) /\ DOMAIN fr \subseteq Nat \ {0}
  /\ dep \in [DOMAIN fr -> Nat]
  /\ \A f \in DOMAIN fr : FrameOK(f, hp, fr, dep)
  /\ IsFiniteSet(DOMAIN li) /\ \A k \in DOMAIN li : Good(li[k], Usable(hp))

LEMMA SeqIs ==
  ASSUME NEW S, NEW q \in Seq(S)
  PROVE  IsSeq(q) /\ Len(q) \in Nat /\ DOMAIN q = 1 .. Len(q) /\ \A n \in DOMAIN q : q[n] \in S
  BY DEF IsSeq, Elems

(* A value that is a reference stays good, and a list of arguments one, if *)
(* the set O of objects it may lead to is kept as it is.                   *)
Inside(v, O) == \A i : v = [obj |-> i] => i \in O
Keeps(O, hp, hq) ==
  /\ O \subseteq DOMAIN hp /\ O \subseteq DOMAIN hq
  /\ \A i \in O : /\ hq[i].tag = hp[i].tag
                  /\ hp[i].tag = "CELL" => hq[i].cdr = hp[i].cdr /\ Inside(hp[i].cdr, O)

LEMMA Refs == \A i, j : ([obj |-> i] = [obj |-> j] => i = j) /\ [obj |-> i].obj = i
<1> SUFFICES ASSUME NEW i, NEW j, [obj |-> i] = [obj |-> j] PROVE i = j OBVIOUS
<1>1. [obj |-> i].obj = [obj |-> j].obj OBVIOUS
<1> QED BY <1>1

LEMMA Statics ==
  /\ \A i : ~Const([obj |-> i]) /\ IsRef([obj |-> i])
  /\ \A v : Const(v) => ~IsRef(v)
  /\ \A i : [obj |-> i] # NIL
<1>1. ASSUME NEW i PROVE ~Const([obj |-> i]) /\ IsRef([obj |-> i]) /\ [obj |-> i] # NIL
  <2>1. DOMAIN [obj |-> i] = {"obj"} OBVIOUS
  <2> DEFINE r == [obj |-> i]
  <2> HIDE DEF r
  <2> QED BY <2>1 DEF Const, Static, NIL, TRUEV, FALSEV, UNDEF, NULL, IsRef, r
<1>2. ASSUME NEW v, Const(v) PROVE ~IsRef(v)
  BY <1>2 DEF Const, Static, NIL, TRUEV, FALSEV, UNDEF, NULL, IsRef
<1> QED BY <1>1, <1>2

LEMMA GoodKept ==
  ASSUME NEW O, NEW hp, NEW hq, Keeps(O, hp, hq), NEW v, Inside(v, O)
  PROVE  /\ Good(v, Usable(hp)) => Good(v, Usable(hq))
         /\ ArgList(v, hp) => ArgList(v, hq)
<1>1. Good(v, Usable(hp)) => Good(v, Usable(hq))
  BY DEF Good, Usable, Inside, Keeps
<1>2. ASSUME ArgList(v, hp), v # NIL PROVE ArgList(v, hq)
  <2>1. PICK S \in SUBSET DOMAIN hp : CellsOfLists(S, hp) /\ \E i \in S : v = [obj |-> i]
    BY <1>2 DEF ArgList
  <2>2. PICK i \in S : v = [obj |-> i] BY <2>1
  <2>3. i \in S \cap O BY <2>2 DEF Inside
  <2>4. S \cap O \in SUBSET DOMAIN hq BY DEF Keeps
  <2>5. CellsOfLists(S \cap O, hq)
    <3> SUFFICES ASSUME NEW k \in S \cap O
                 PROVE  /\ hq[k].tag = "CELL"
                        /\ hq[k].cdr = NIL \/ \E j \in S \cap O : hq[k].cdr = [obj |-> j]
      BY DEF CellsOfLists
    <3>1. hp[k].tag = "CELL" /\ (hp[k].cdr = NIL \/ \E j \in S : hp[k].cdr = [obj |-> j])
      BY <2>1 DEF CellsOfLists
    <3>2. hq[k].tag = "CELL" /\ hq[k].cdr = hp[k].cdr /\ Inside(hp[k].cdr, O) BY <3>1 DEF Keeps
    <3> QED BY <3>1, <3>2 DEF Inside
  <2> QED BY <2>2, <2>3, <2>4, <2>5 DEF ArgList
<1>3. v = NIL => ArgList(v, hq) BY DEF ArgList
<1> QED BY <1>1, <1>2, <1>3

LEMMA ListIsGood ==
  ASSUME NEW hp, NEW v, ArgList(v, hp)
  PROVE  Good(v, Usable(hp))
  BY DEF ArgList, Good, Const, Static, Usable, CellsOfLists

-----------------------------------------------------------------------------
(* What the collector leaves, and what the machine adds.                   *)

(* What an object refers to is among the objects O, the frames F and the   *)
(* constants K.                                                            *)
Within(o, O, F, K) ==
  /\ o.tag = "CELL" => Inside(o.car, O) /\ Inside(o.cdr, O)
  /\ o.tag = "CLOSURE" => o.env \in F /\ o.code.consts \subseteq K
  /\ o.tag = "VECTOR" => \A n \in DOMAIN o.elems : Inside(o.elems[n], O)
Holds(O, F, K, hp, fr, li) ==
  /\ O \subseteq DOMAIN hp /\ F \subseteq DOMAIN fr /\ K \subseteq DOMAIN li
  /\ \A i \in O : Within(hp[i], O, F, K)
  /\ \A f \in F : Inside(fr[f].vars, O) /\ (fr[f].next = 0 \/ fr[f].next \in F)
  /\ \A k \in K : Inside(li[k], O)

LEMMA GoodInside ==
  ASSUME NEW U, NEW O, NEW V, U \cap O \subseteq V, NEW v, Good(v, U), Inside(v, O)
  PROVE  Good(v, V)
  BY DEF Good, Inside

LEMMA InsideAll ==
  ASSUME NEW hp, NEW v, Good(v, Usable(hp))
  PROVE  Inside(v, DOMAIN hp)
<1> SUFFICES ASSUME NEW i, v = [obj |-> i] PROVE i \in DOMAIN hp BY DEF Inside
<1>1. ~Const(v) BY Statics
<1>2. PICK j \in Usable(hp) : v = [obj |-> j] BY <1>1 DEF Good
<1>3. i = j BY <1>2, Refs
<1> QED BY <1>2, <1>3 DEF Usable

LEMMA ObjectKept ==
  ASSUME NEW o, NEW U, NEW dep, NEW K, ObjectOK(o, U, dep, K),
         NEW O, NEW F, NEW V, NEW de, NEW L, Within(o, O, F, L), U \cap O \subseteq V,
         F \subseteq DOMAIN de, \A f \in F : de[f] = dep[f]
  PROVE  ObjectOK(o, V, de, L)
<1>1. \A v : Good(v, U) /\ Inside(v, O) => Good(v, V) BY GoodInside
<1>2. CASE o.tag = "INTEGER" BY <1>2 DEF ObjectOK
<1>3. CASE o.tag = "CELL" BY <1>1, <1>3 DEF ObjectOK, Within
<1>4. CASE o.tag = "CLOSURE"
  <2>1. Enters(o.code, o.env, dep) /\ o.env \in F /\ o.code.consts \subseteq L
    BY <1>4 DEF ObjectOK, Within
  <2>2. Enters(o.code, o.env, de) BY <2>1 DEF Enters
  <2> QED BY <1>4, <2>1, <2>2 DEF ObjectOK
<1>5. CASE o.tag = "VECTOR"
  <2>1. /\ o = [tag |-> "VECTOR", elems |-> o.elems] /\ IsSeq(o.elems)
        /\ \A n \in DOMAIN o.elems : Good(o.elems[n], U) /\ Inside(o.elems[n], O)
    BY <1>5 DEF ObjectOK, Within
  <2> QED BY <1>5, <2>1, <1>1 DEF ObjectOK
<1>6. CASE o.tag = "ERROR" BY <1>6 DEF ObjectOK
<1> QED BY <1>2, <1>3, <1>4, <1>5, <1>6 DEF ObjectOK

LEMMA ObjectWithin ==
  ASSUME NEW o, NEW hp, NEW dep, NEW K, ObjectOK(o, Usable(hp), dep, K)
  PROVE  Within(o, DOMAIN hp, DOMAIN dep, K)
<1>1. \A v : Good(v, Usable(hp)) => Inside(v, DOMAIN hp) BY InsideAll
<1>2. CASE o.tag = "CELL" BY <1>1, <1>2 DEF ObjectOK, Within
<1>3. CASE o.tag = "CLOSURE" BY <1>3 DEF ObjectOK, Within
<1>4. CASE o.tag = "VECTOR" BY <1>1, <1>4 DEF ObjectOK, Within
<1> QED BY <1>2, <1>3, <1>4 DEF Within

(* A sound store refers to nothing outside itself. *)
LEMMA SoundHolds ==
  ASSUME NEW hp, NEW fr, NEW li, NEW dep, Sound(hp, fr, li, dep)
  PROVE  Holds(DOMAIN hp, DOMAIN fr, DOMAIN li, hp, fr, li)
<1>1. DOMAIN dep = DOMAIN fr BY DEF Sound
<1>2. \A i \in DOMAIN hp : Within(hp[i], DOMAIN hp, DOMAIN fr, DOMAIN li)
  BY <1>1, ObjectWithin DEF Sound
<1>3. \A f \in DOMAIN fr : Inside(fr[f].vars, DOMAIN hp) /\ (fr[f].next = 0 \/ fr[f].next \in DOMAIN fr)
  BY ListIsGood, InsideAll DEF Sound, FrameOK
<1>4. \A k \in DOMAIN li : Inside(li[k], DOMAIN hp) BY InsideAll DEF Sound
<1> QED BY <1>2, <1>3, <1>4 DEF Holds

LEMMA HoldsKeeps ==
  ASSUME NEW O, NEW F, NEW K, NEW hp, NEW fr, NEW li, Holds(O, F, K, hp, fr, li),
         NEW hq, O \subseteq DOMAIN hq, \A i \in O : hq[i] = hp[i]
  PROVE  Keeps(O, hp, hq)
  BY DEF Holds, Keeps, Within

(* A set of objects, frames and constants that refers to nothing else is   *)
(* sound: this is what a collection leaves.                                *)
LEMMA SoundSub ==
  ASSUME NEW hp, NEW fr, NEW li, NEW dep, Sound(hp, fr, li, dep),
         NEW O, NEW F, NEW K, Holds(O, F, K, hp, fr, li)
  PROVE  Sound([i \in O |-> hp[i]], [f \in F |-> fr[f]], [k \in K |-> li[k]], [f \in F |-> dep[f]])
<1> DEFINE hq == [i \in O |-> hp[i]]
           fq == [f \in F |-> fr[f]]
           lq == [k \in K |-> li[k]]
           de == [f \in F |-> dep[f]]
<1>1. O \subseteq DOMAIN hp /\ F \subseteq DOMAIN fr /\ K \subseteq DOMAIN li BY DEF Holds
<1>2. DOMAIN hq = O /\ DOMAIN fq = F /\ DOMAIN lq = K /\ DOMAIN de = F OBVIOUS
<1>3. Keeps(O, hp, hq) BY HoldsKeeps
<1>4. Usable(hp) \cap O \subseteq Usable(hq) BY DEF Usable
<1>5. \A v : Inside(v, O) => /\ Good(v, Usable(hp)) => Good(v, Usable(hq))
                             /\ ArgList(v, hp) => ArgList(v, hq)
  BY <1>3, GoodKept
<1>6. ASSUME NEW i \in O PROVE ObjectOK(hq[i], Usable(hq), de, K)
  <2>1. hq[i] = hp[i] OBVIOUS
  <2>2. ObjectOK(hp[i], Usable(hp), dep, DOMAIN li) BY <1>1 DEF Sound
  <2>3. Within(hp[i], O, F, K) BY DEF Holds
  <2>4. \A f \in F : de[f] = dep[f] OBVIOUS
  <2> HIDE DEF hq, de
  <2> QED BY <1>2, <1>4, <2>1, <2>2, <2>3, <2>4, ObjectKept
<1>7. Grounded(hq)
  <2> SUFFICES ASSUME NEW S \in SUBSET O, S # {}
               PROVE  \E i \in S : hq[i].tag # "CELL" \/ \A j \in S : hq[i].cdr # [obj |-> j]
    BY DEF Grounded
  <2>1. S \in SUBSET DOMAIN hp BY <1>1
  <2>2. Grounded(hp) BY DEF Sound
  <2>3. PICK i \in S : hp[i].tag # "CELL" \/ \A j \in S : hp[i].cdr # [obj |-> j]
    BY <2>1, <2>2 DEF Grounded
  <2>4. hq[i] = hp[i] OBVIOUS
  <2> QED BY <2>3, <2>4
<1>8. IsFiniteSet(F) /\ IsFiniteSet(K) BY <1>1, FS_Subset DEF Sound
<1>9. de \in [F -> Nat] BY <1>1 DEF Sound
<1>10. ASSUME NEW f \in F PROVE FrameOK(f, hq, fq, de)
  <2>1. FrameOK(f, hp, fr, dep) BY <1>1 DEF Sound
  <2>2. fq[f] = fr[f] /\ de[f] = dep[f] OBVIOUS
  <2>3. Inside(fr[f].vars, O) /\ (fr[f].next = 0 \/ fr[f].next \in F) BY DEF Holds
  <2>4. fr[f].next \in F => de[fr[f].next] = dep[fr[f].next] OBVIOUS
  <2>5. 0 \notin DOMAIN fr BY DEF Sound
  <2> HIDE DEF hq, fq, de
  <2>6. ArgList(fq[f].vars, hq) BY <2>1, <2>2, <2>3, <1>5 DEF FrameOK
  <2> QED BY <2>1, <2>2, <2>3, <2>4, <2>5, <2>6, <1>2 DEF FrameOK
<1>11. \A k \in K : Good(lq[k], Usable(hq)) BY <1>1, <1>5 DEF Sound, Holds
<1>12. O \subseteq 1 .. MaxObj /\ F \subseteq Nat \ {0} BY <1>1 DEF Sound
<1> HIDE DEF hq, fq, lq, de
<1> QED BY <1>2, <1>6, <1>7, <1>8, <1>9, <1>10, <1>11, <1>12 DEF Sound, hq, fq, lq, de

(* A new object, which refers to what was there.                           *)
LEMMA SoundAdd ==
  ASSUME NEW hp, NEW fr, NEW li, NEW dep, Sound(hp, fr, li, dep),
         NEW i \in (1 .. MaxObj) \ DOMAIN hp, NEW o, ObjectOK(o, Usable(hp), dep, DOMAIN li),
         NEW hq, hq = [x \in DOMAIN hp \cup {i} |-> IF x = i THEN o ELSE hp[x]]
  PROVE  Sound(hq, fr, li, dep) /\ Keeps(DOMAIN hp, hp, hq)
<1> DEFINE O == DOMAIN hp
<1>1. /\ DOMAIN hq = O \cup {i} /\ i \notin O /\ hq[i] = o
      /\ \A x \in O : hq[x] = hp[x]
  OBVIOUS
<1>2. Holds(O, DOMAIN fr, DOMAIN li, hp, fr, li) BY SoundHolds
<1>3. Keeps(O, hp, hq) BY <1>1, <1>2, HoldsKeeps
<1>4. \A v : Inside(v, O) => /\ Good(v, Usable(hp)) => Good(v, Usable(hq))
                             /\ ArgList(v, hp) => ArgList(v, hq)
  BY <1>3, GoodKept
<1>5. Usable(hp) \cap O \subseteq Usable(hq) BY <1>1 DEF Usable
<1>6. DOMAIN dep = DOMAIN fr BY DEF Sound
<1>7. ASSUME NEW x, ObjectOK(x, Usable(hp), dep, DOMAIN li)
      PROVE  ObjectOK(x, Usable(hq), dep, DOMAIN li)
  <2>1. Within(x, O, DOMAIN dep, DOMAIN li) BY <1>7, ObjectWithin
  <2> QED BY <1>5, <1>7, <2>1, ObjectKept
<1>8. \A x \in DOMAIN hq : ObjectOK(hq[x], Usable(hq), dep, DOMAIN li) BY <1>1, <1>7 DEF Sound
<1>9. Grounded(hq)
  <2> SUFFICES ASSUME NEW S \in SUBSET DOMAIN hq, S # {}
               PROVE  \E x \in S : hq[x].tag # "CELL" \/ \A j \in S : hq[x].cdr # [obj |-> j]
    BY DEF Grounded
  <2>1. ASSUME NEW x \in DOMAIN hq, hq[x].tag = "CELL" PROVE Inside(hq[x].cdr, O)
    <3>1. ObjectOK(hq[x], Usable(hp), dep, DOMAIN li) BY <1>1 DEF Sound
    <3>2. Good(hq[x].cdr, Usable(hp)) BY <2>1, <3>1 DEF ObjectOK
    <3> QED BY <3>2, InsideAll
  <2>2. CASE S \subseteq O
    <3>1. PICK x \in S : hp[x].tag # "CELL" \/ \A j \in S : hp[x].cdr # [obj |-> j]
      BY <2>2 DEF Sound, Grounded
    <3> QED BY <2>2, <3>1, <1>1
  <2>3. CASE S = {i}
    <3>1. hq[i].tag = "CELL" => hq[i].cdr # [obj |-> i] BY <2>1, <1>1 DEF Inside
    <3> QED BY <2>3, <3>1
  <2>4. CASE S \cap O # {} /\ i \in S
    <3>1. S \cap O \in SUBSET DOMAIN hp OBVIOUS
    <3>2. PICK x \in S \cap O : hp[x].tag # "CELL" \/ \A j \in S \cap O : hp[x].cdr # [obj |-> j]
      BY <2>4, <3>1 DEF Sound, Grounded
    <3>3. hq[x] = hp[x] BY <1>1
    <3>4. hq[x].tag = "CELL" => hq[x].cdr # [obj |-> i] BY <2>1, <1>1 DEF Inside
    <3>5. \A j \in S : j \in S \cap O \/ j = i BY <1>1
    <3> QED BY <3>2, <3>3, <3>4, <3>5
  <2>5. S \subseteq O \/ S = {i} \/ (S \cap O # {} /\ i \in S) BY <1>1
  <2> QED BY <2>2, <2>3, <2>4, <2>5
<1>10. \A f \in DOMAIN fr : FrameOK(f, hq, fr, dep)
  <2> SUFFICES ASSUME NEW f \in DOMAIN fr PROVE FrameOK(f, hq, fr, dep) OBVIOUS
  <2>1. FrameOK(f, hp, fr, dep) /\ Inside(fr[f].vars, O) BY <1>2 DEF Sound, Holds
  <2> QED BY <2>1, <1>4 DEF FrameOK
<1>11. \A k \in DOMAIN li : Good(li[k], Usable(hq)) BY <1>2, <1>4 DEF Sound, Holds
<1>12. DOMAIN hq \subseteq 1 .. MaxObj BY <1>1 DEF Sound
<1> QED BY <1>3, <1>8, <1>9, <1>10, <1>11, <1>12 DEF Sound

(* A new frame. *)
LEMMA SoundFrame ==
  ASSUME NEW hp, NEW fr, NEW li, NEW dep, Sound(hp, fr, li, dep),
         NEW f \in Nat \ {0}, f \notin DOMAIN fr, NEW vs, ArgList(vs, hp),
         NEW next, next = 0 \/ next \in DOMAIN fr,
         NEW fq, fq = [g \in DOMAIN fr \cup {f} |-> IF g = f THEN [vars |-> vs, next |-> next] ELSE fr[g]],
         NEW de, de = [g \in DOMAIN fr \cup {f} |->
                         IF g = f THEN (IF next = 0 THEN 0 ELSE dep[next] + 1) ELSE dep[g]]
  PROVE  Sound(hp, fq, li, de)
<1> DEFINE F == DOMAIN fr
<1>1. /\ DOMAIN fq = F \cup {f} /\ DOMAIN de = F \cup {f}
      /\ fq[f].vars = vs /\ fq[f].next = next /\ de[f] = IF next = 0 THEN 0 ELSE dep[next] + 1
      /\ \A g \in F : fq[g] = fr[g] /\ de[g] = dep[g]
  OBVIOUS
<1>2. dep \in [F -> Nat] /\ F \subseteq Nat \ {0} /\ IsFiniteSet(F) BY DEF Sound
<1>3. Holds(DOMAIN hp, F, DOMAIN li, hp, fr, li) BY SoundHolds
<1>4. ASSUME NEW x \in DOMAIN hp PROVE ObjectOK(hp[x], Usable(hp), de, DOMAIN li)
  <2>1. ObjectOK(hp[x], Usable(hp), dep, DOMAIN li) BY DEF Sound
  <2>2. Within(hp[x], DOMAIN hp, F, DOMAIN li) BY <1>3 DEF Holds
  <2>3. F \subseteq DOMAIN de /\ \A g \in F : de[g] = dep[g] BY <1>1
  <2>4. Usable(hp) \cap DOMAIN hp \subseteq Usable(hp) OBVIOUS
  <2> QED BY <2>1, <2>2, <2>3, <2>4, ObjectKept
<1>5. de \in [DOMAIN fq -> Nat]
  <2>1. \A g \in F \cup {f} : de[g] \in Nat BY <1>1, <1>2
  <2>2. de = [g \in F \cup {f} |-> de[g]] OBVIOUS
  <2> QED BY <1>1, <2>1, <2>2
<1>6. ASSUME NEW g \in DOMAIN fq PROVE FrameOK(g, hp, fq, de)
  <2>1. CASE g = f
    <3>1. next = 0 => de[f] = 0 BY <1>1
    <3>2. next # 0 => next \in F /\ de[f] = dep[next] + 1 /\ de[next] = dep[next] BY <1>1
    <3>3. next # 0 => de[f] <= de[next] + 1 BY <3>2, <1>2
    <3> HIDE DEF F
    <3> QED BY <2>1, <1>1, <3>1, <3>2, <3>3 DEF FrameOK
  <2>2. CASE g # f
    <3>1. g \in F /\ FrameOK(g, hp, fr, dep) BY <2>2, <1>1 DEF Sound
    <3>2. fr[g].next \in F => de[fr[g].next] = dep[fr[g].next] BY <1>1
    <3> HIDE DEF F
    <3> QED BY <3>1, <3>2, <1>1 DEF FrameOK, F
  <2> QED BY <2>1, <2>2
<1>7. IsFiniteSet(DOMAIN fq) BY <1>1, <1>2, FS_AddElement
<1>8. DOMAIN fq \subseteq Nat \ {0} BY <1>1, <1>2
<1> QED BY <1>4, <1>5, <1>6, <1>7, <1>8 DEF Sound

(* An element of a vector is written. *)
LEMMA SoundStore ==
  ASSUME NEW hp, NEW fr, NEW li, NEW dep, Sound(hp, fr, li, dep),
         NEW i \in DOMAIN hp, hp[i].tag = "VECTOR", NEW n \in DOMAIN hp[i].elems,
         NEW v, Good(v, Usable(hp)), NEW hq, hq = [hp EXCEPT ![i].elems[n] = v]
  PROVE  Sound(hq, fr, li, dep) /\ Keeps(DOMAIN hp, hp, hq)
<1> DEFINE O == DOMAIN hp
           el == hp[i].elems
           em == [el EXCEPT ![n] = v]
<1>1. ObjectOK(hp[i], Usable(hp), dep, DOMAIN li) BY DEF Sound
<1>2. /\ hp[i] = [tag |-> "VECTOR", elems |-> el] /\ IsSeq(el)
      /\ \A m \in DOMAIN el : Good(el[m], Usable(hp))
  BY <1>1 DEF ObjectOK
<1>3. hq[i] = [hp[i] EXCEPT !.elems = em] /\ DOMAIN hq = O /\ \A x \in O : x # i => hq[x] = hp[x]
  OBVIOUS
<1>4. hq[i] = [tag |-> "VECTOR", elems |-> em]
  <2> HIDE DEF em
  <2> QED BY <1>2, <1>3
<1>5. hq[i].tag = "VECTOR" /\ hq[i].elems = em BY <1>4
<1>6. Usable(hq) = Usable(hp) BY <1>3, <1>5 DEF Usable
<1>7. ObjectOK(hq[i], Usable(hq), dep, DOMAIN li)
  <2>1. el \in Seq(Elems(el)) /\ n \in DOMAIN el BY <1>2 DEF IsSeq
  <2>2. Len(el) \in Nat /\ DOMAIN el = 1 .. Len(el) /\ \A m \in DOMAIN el : el[m] \in Elems(el) \cup {v}
    BY <2>1, SeqIs
  <2>3. em \in [1 .. Len(el) -> Elems(el) \cup {v}] BY <2>1, <2>2
  <2>4. em \in Seq(Elems(el) \cup {v}) BY <2>2, <2>3
  <2>5. IsSeq(em) BY <2>4, SeqIs
  <2>6. \A m \in DOMAIN em : Good(em[m], Usable(hp)) BY <1>2
  <2> HIDE DEF em
  <2> QED BY <1>4, <1>5, <1>6, <2>5, <2>6 DEF ObjectOK
<1>8. \A x \in DOMAIN hq : ObjectOK(hq[x], Usable(hq), dep, DOMAIN li)
  BY <1>3, <1>6, <1>7 DEF Sound
<1>9. Holds(O, DOMAIN fr, DOMAIN li, hp, fr, li) BY SoundHolds
<1>10. Keeps(O, hp, hq)
  <2>1. \A x \in O : hp[x].tag = "CELL" => hq[x] = hp[x] BY <1>3
  <2>2. \A x \in O : hq[x].tag = hp[x].tag BY <1>3, <1>5
  <2> QED BY <2>1, <2>2, <1>3, <1>9 DEF Keeps, Holds, Within
<1>11. Grounded(hq)
  <2> SUFFICES ASSUME NEW S \in SUBSET O, S # {}
               PROVE  \E x \in S : hq[x].tag # "CELL" \/ \A j \in S : hq[x].cdr # [obj |-> j]
    BY <1>3 DEF Grounded
  <2>1. PICK x \in S : hp[x].tag # "CELL" \/ \A j \in S : hp[x].cdr # [obj |-> j]
    BY DEF Sound, Grounded
  <2> QED BY <2>1, <1>3, <1>5
<1>12. \A f \in DOMAIN fr : FrameOK(f, hq, fr, dep)
  <2> SUFFICES ASSUME NEW f \in DOMAIN fr PROVE FrameOK(f, hq, fr, dep) OBVIOUS
  <2>1. FrameOK(f, hp, fr, dep) /\ Inside(fr[f].vars, O) BY <1>9 DEF Sound, Holds
  <2>2. ArgList(fr[f].vars, hq) BY <2>1, <1>10, GoodKept DEF FrameOK
  <2> QED BY <2>1, <2>2 DEF FrameOK
<1> QED BY <1>3, <1>6, <1>8, <1>10, <1>11, <1>12 DEF Sound

-----------------------------------------------------------------------------
(* A collection.                                                           *)

(* The objects, frames and constants among the items L.                    *)
ObjsOf(L) == {i \in DOMAIN heap : [obj |-> i] \in L}
FramesOf(L) == {f \in DOMAIN frames : [frame |-> f] \in L}
LitsOf(L) == {k \in DOMAIN lits : [lit |-> k] \in L}
ClosedItems(L) == L \subseteq AllItems /\ \A x \in L : Reached(x) \subseteq L

LEMMA ItemKinds ==
  \A i, j : /\ [obj |-> i] # [frame |-> j] /\ [obj |-> i] # [lit |-> j] /\ [frame |-> i] # [lit |-> j]
            /\ ([frame |-> i] = [frame |-> j] => i = j) /\ ([lit |-> i] = [lit |-> j] => i = j)
            /\ "frame" \notin DOMAIN [obj |-> i] /\ "lit" \notin DOMAIN [obj |-> i]
            /\ "frame" \in DOMAIN [frame |-> i] /\ "lit" \in DOMAIN [lit |-> i]
            /\ "frame" \notin DOMAIN [lit |-> i]
            /\ [frame |-> i].frame = i /\ [lit |-> i].lit = i
<1> SUFFICES ASSUME NEW i, NEW j
             PROVE  /\ [obj |-> i] # [frame |-> j] /\ [obj |-> i] # [lit |-> j]
                    /\ [frame |-> i] # [lit |-> j]
                    /\ ([frame |-> i] = [frame |-> j] => i = j)
                    /\ ([lit |-> i] = [lit |-> j] => i = j)
  OBVIOUS
<1> DEFINE o == [obj |-> i]
           f == [frame |-> i]
           g == [frame |-> j]
           k == [lit |-> i]
           l == [lit |-> j]
<1>1. DOMAIN o = {"obj"} /\ DOMAIN f = {"frame"} /\ DOMAIN g = {"frame"} /\ DOMAIN l = {"lit"}
  OBVIOUS
<1>2. f.frame = i /\ g.frame = j /\ k.lit = i /\ l.lit = j OBVIOUS
<1> HIDE DEF o, f, g, k, l
<1>3. o # g /\ o # l /\ f # l /\ (f = g => i = j) /\ (k = l => i = j) BY <1>1, <1>2
<1> QED BY <1>3 DEF o, f, g, k, l

LEMMA ReachedOf ==
  /\ \A f : Reached([frame |-> f]) = FrameItem(frames[f].next) \cup Items(frames[f].vars)
  /\ \A k : Reached([lit |-> k]) = Items(lits[k])
  /\ \A i : Reached([obj |-> i]) =
       LET o == heap[i] IN
         CASE o.tag = "CELL" -> Items(o.car) \cup Items(o.cdr)
           [] o.tag = "CLOSURE" -> FrameItem(o.env) \cup ConstItems(o.code)
           [] o.tag = "VECTOR" -> UNION {Items(v) : v \in Elems(o.elems)}
           [] OTHER -> {}
<1>1. ASSUME NEW f
      PROVE  Reached([frame |-> f]) = FrameItem(frames[f].next) \cup Items(frames[f].vars)
  BY ItemKinds DEF Reached
<1>2. ASSUME NEW k PROVE Reached([lit |-> k]) = Items(lits[k]) BY ItemKinds DEF Reached
<1>3. ASSUME NEW i
      PROVE  Reached([obj |-> i]) =
               LET o == heap[i] IN
                 CASE o.tag = "CELL" -> Items(o.car) \cup Items(o.cdr)
                   [] o.tag = "CLOSURE" -> FrameItem(o.env) \cup ConstItems(o.code)
                   [] o.tag = "VECTOR" -> UNION {Items(v) : v \in Elems(o.elems)}
                   [] OTHER -> {}
  BY ItemKinds, Refs DEF Reached
<1> QED BY <1>1, <1>2, <1>3

LEMMA ItemsInside ==
  ASSUME NEW v, Good(v, Usable(heap)), NEW L, L \subseteq AllItems
  PROVE  Items(v) \subseteq L <=> Inside(v, ObjsOf(L))
<1>1. CASE Const(v)
  <2>1. ~IsRef(v) BY <1>1, Statics
  <2>2. \A i : v # [obj |-> i] BY <1>1, Statics
  <2> QED BY <2>1, <2>2 DEF Items, Inside
<1>2. CASE \E i \in Usable(heap) : v = [obj |-> i]
  <2>1. PICK i \in Usable(heap) : v = [obj |-> i] BY <1>2
  <2>2. IsRef(v) BY <2>1, Statics
  <2>3. Items(v) = {v} BY <2>2 DEF Items
  <2>4. \A j : v = [obj |-> j] => j = i BY <2>1, Refs
  <2>5. i \in DOMAIN heap BY DEF Usable
  <2>6. Inside(v, ObjsOf(L)) <=> i \in ObjsOf(L) BY <2>1, <2>4 DEF Inside
  <2> QED BY <2>1, <2>3, <2>5, <2>6 DEF ObjsOf
<1> QED BY <1>1, <1>2 DEF Good

LEMMA ClosedHolds ==
  ASSUME NEW dep, Sound(heap, frames, lits, dep), NEW L, ClosedItems(L)
  PROVE  Holds(ObjsOf(L), FramesOf(L), LitsOf(L), heap, frames, lits)
<1> DEFINE O == ObjsOf(L)
           F == FramesOf(L)
           K == LitsOf(L)
<1>1. L \subseteq AllItems /\ \A x \in L : Reached(x) \subseteq L BY DEF ClosedItems
<1>2. O \subseteq DOMAIN heap /\ F \subseteq DOMAIN frames /\ K \subseteq DOMAIN lits
  BY DEF ObjsOf, FramesOf, LitsOf
<1>3. \A v : Good(v, Usable(heap)) /\ Items(v) \subseteq L => Inside(v, O) BY <1>1, ItemsInside
<1>4. ASSUME NEW i \in O PROVE Within(heap[i], O, F, K)
  <2> DEFINE o == heap[i]
  <2>1. Reached([obj |-> i]) \subseteq L BY <1>1 DEF ObjsOf
  <2>2. ObjectOK(o, Usable(heap), dep, DOMAIN lits) BY <1>2 DEF Sound
  <2>3. CASE o.tag = "CELL"
    <3>1. Items(o.car) \cup Items(o.cdr) \subseteq L BY <2>1, <2>3, ReachedOf
    <3>2. Good(o.car, Usable(heap)) /\ Good(o.cdr, Usable(heap)) BY <2>2, <2>3 DEF ObjectOK
    <3> QED BY <2>3, <3>1, <3>2, <1>3 DEF Within
  <2>4. CASE o.tag = "CLOSURE"
    <3>1. FrameItem(o.env) \cup ConstItems(o.code) \subseteq L BY <2>1, <2>4, ReachedOf
    <3>2. o.env \in DOMAIN frames /\ o.env # 0 /\ o.code.consts \subseteq DOMAIN lits
      BY <2>2, <2>4 DEF ObjectOK, Sound
    <3>3. o.env \in F BY <3>1, <3>2 DEF FrameItem, FramesOf
    <3>4. o.code.consts \subseteq K BY <3>1, <3>2 DEF ConstItems, LitsOf
    <3> QED BY <2>4, <3>3, <3>4 DEF Within
  <2>5. CASE o.tag = "VECTOR"
    <3>1. UNION {Items(v) : v \in Elems(o.elems)} \subseteq L BY <2>1, <2>5, ReachedOf
    <3>2. \A n \in DOMAIN o.elems : Items(o.elems[n]) \subseteq L BY <3>1 DEF Elems
    <3>3. \A n \in DOMAIN o.elems : Good(o.elems[n], Usable(heap)) BY <2>2, <2>5 DEF ObjectOK
    <3> QED BY <2>5, <3>2, <3>3, <1>3 DEF Within
  <2> QED BY <2>3, <2>4, <2>5 DEF Within
<1>5. ASSUME NEW f \in F
      PROVE  Inside(frames[f].vars, O) /\ (frames[f].next = 0 \/ frames[f].next \in F)
  <2>1. Reached([frame |-> f]) \subseteq L BY <1>1 DEF FramesOf
  <2>2. FrameItem(frames[f].next) \subseteq L /\ Items(frames[f].vars) \subseteq L
    BY <2>1, ReachedOf
  <2>3. FrameOK(f, heap, frames, dep) BY <1>2 DEF Sound
  <2>4. Good(frames[f].vars, Usable(heap)) BY <2>3, ListIsGood DEF FrameOK
  <2>5. frames[f].next = 0 \/ frames[f].next \in DOMAIN frames BY <2>3 DEF FrameOK
  <2> QED BY <2>2, <2>4, <2>5, <1>3 DEF FrameItem, FramesOf
<1>6. ASSUME NEW k \in K PROVE Inside(lits[k], O)
  <2>1. Reached([lit |-> k]) \subseteq L BY <1>1 DEF LitsOf
  <2>2. Items(lits[k]) \subseteq L BY <2>1, ReachedOf
  <2>3. Good(lits[k], Usable(heap)) BY <1>2 DEF Sound
  <2> QED BY <2>2, <2>3, <1>3
<1> QED BY <1>2, <1>4, <1>5, <1>6 DEF Holds

LEMMA AllOf ==
  /\ ObjsOf(AllItems) = DOMAIN heap /\ FramesOf(AllItems) = DOMAIN frames
  /\ LitsOf(AllItems) = DOMAIN lits
  BY DEF ObjsOf, FramesOf, LitsOf, AllItems

LEMMA ItemsAll ==
  ASSUME NEW v, Good(v, Usable(heap))
  PROVE  Items(v) \subseteq AllItems
<1>1. Inside(v, DOMAIN heap) BY InsideAll
<1> QED BY <1>1, ItemsInside, AllOf

(* A sound store is closed under what the collector follows. *)
LEMMA AllClosed ==
  ASSUME NEW dep, Sound(heap, frames, lits, dep)
  PROVE  ClosedItems(AllItems)
<1> SUFFICES ASSUME NEW x \in AllItems PROVE Reached(x) \subseteq AllItems BY DEF ClosedItems
<1>1. CASE \E i \in DOMAIN heap : x = [obj |-> i]
  <2>1. PICK i \in DOMAIN heap : x = [obj |-> i] BY <1>1
  <2> DEFINE o == heap[i]
  <2>2. ObjectOK(o, Usable(heap), dep, DOMAIN lits) BY DEF Sound
  <2>3. CASE o.tag = "CELL"
    <3>1. Reached(x) = Items(o.car) \cup Items(o.cdr) BY <2>1, <2>3, ReachedOf
    <3>2. Good(o.car, Usable(heap)) /\ Good(o.cdr, Usable(heap)) BY <2>2, <2>3 DEF ObjectOK
    <3> QED BY <3>1, <3>2, ItemsAll
  <2>4. CASE o.tag = "CLOSURE"
    <3>1. Reached(x) = FrameItem(o.env) \cup ConstItems(o.code) BY <2>1, <2>4, ReachedOf
    <3>2. o.env \in DOMAIN frames /\ o.code.consts \subseteq DOMAIN lits
      BY <2>2, <2>4 DEF ObjectOK, Sound
    <3> QED BY <3>1, <3>2 DEF FrameItem, ConstItems, AllItems
  <2>5. CASE o.tag = "VECTOR"
    <3>1. Reached(x) = UNION {Items(v) : v \in Elems(o.elems)} BY <2>1, <2>5, ReachedOf
    <3>2. \A n \in DOMAIN o.elems : Good(o.elems[n], Usable(heap)) BY <2>2, <2>5 DEF ObjectOK
    <3>3. \A v \in Elems(o.elems) : Items(v) \subseteq AllItems BY <3>2, ItemsAll DEF Elems
    <3> QED BY <3>1, <3>3
  <2>6. CASE o.tag \notin {"CELL", "CLOSURE", "VECTOR"} BY <2>1, <2>6, ReachedOf
  <2> QED BY <2>3, <2>4, <2>5, <2>6
<1>2. CASE \E f \in DOMAIN frames : x = [frame |-> f]
  <2>1. PICK f \in DOMAIN frames : x = [frame |-> f] BY <1>2
  <2>2. FrameOK(f, heap, frames, dep) BY DEF Sound
  <2>3. Good(frames[f].vars, Usable(heap)) BY <2>2, ListIsGood DEF FrameOK
  <2>4. FrameItem(frames[f].next) \subseteq AllItems BY <2>2 DEF FrameOK, FrameItem, AllItems
  <2> QED BY <2>1, <2>3, <2>4, ReachedOf, ItemsAll
<1>3. CASE \E k \in DOMAIN lits : x = [lit |-> k]
  <2>1. PICK k \in DOMAIN lits : x = [lit |-> k] BY <1>3
  <2>2. Good(lits[k], Usable(heap)) BY DEF Sound
  <2> QED BY <2>1, <2>2, ReachedOf, ItemsAll
<1> QED BY <1>1, <1>2, <1>3 DEF AllItems

LEMMA AllFinite ==
  ASSUME NEW dep, Sound(heap, frames, lits, dep)
  PROVE  /\ IsFiniteSet(AllItems)
         /\ MaxObj + Cardinality(DOMAIN frames) + Cardinality(DOMAIN lits) \in Nat
         /\ Cardinality(AllItems) <= MaxObj + Cardinality(DOMAIN frames) + Cardinality(DOMAIN lits)
<1> DEFINE a == {[obj |-> i] : i \in DOMAIN heap}
           b == {[frame |-> f] : f \in DOMAIN frames}
           g == {[lit |-> k] : k \in DOMAIN lits}
<1>1. IsFiniteSet(DOMAIN heap) /\ Cardinality(DOMAIN heap) <= MaxObj /\ MaxObj \in Nat
  <2>1. MaxObj \in Nat /\ MaxObj # 0 BY MaxObjAssumption
  <2>2. IsFiniteSet(1 .. MaxObj) /\ Cardinality(1 .. MaxObj) = MaxObj BY <2>1, FS_Interval
  <2> QED BY <2>1, <2>2, FS_Subset DEF Sound
<1>2. IsFiniteSet(a) /\ Cardinality(a) <= Cardinality(DOMAIN heap)
  <2>1. [i \in DOMAIN heap |-> [obj |-> i]] \in Surjection(DOMAIN heap, a) BY DEF Surjection
  <2> QED BY <2>1, <1>1, FS_Surjection
<1>3. IsFiniteSet(b) /\ Cardinality(b) <= Cardinality(DOMAIN frames)
  <2>1. [f \in DOMAIN frames |-> [frame |-> f]] \in Surjection(DOMAIN frames, b) BY DEF Surjection
  <2> QED BY <2>1, FS_Surjection DEF Sound
<1>4. IsFiniteSet(g) /\ Cardinality(g) <= Cardinality(DOMAIN lits)
  <2>1. [k \in DOMAIN lits |-> [lit |-> k]] \in Surjection(DOMAIN lits, g) BY DEF Surjection
  <2> QED BY <2>1, FS_Surjection DEF Sound
<1>5. AllItems = a \cup b \cup g BY DEF AllItems
<1> HIDE DEF a, b, g
<1>6. /\ Cardinality(DOMAIN frames) \in Nat /\ Cardinality(DOMAIN lits) \in Nat
      /\ Cardinality(DOMAIN heap) \in Nat
  BY <1>1, FS_CardinalityType DEF Sound
<1>7. /\ IsFiniteSet(a \cup b) /\ Cardinality(a \cup b) <= Cardinality(a) + Cardinality(b)
      /\ Cardinality(a \cup b) \in Nat /\ Cardinality(a) \in Nat /\ Cardinality(b) \in Nat
  <2>1. IsFiniteSet(a \cap b) BY <1>2, FS_Subset
  <2>2. Cardinality(a \cap b) \in Nat /\ Cardinality(a) \in Nat /\ Cardinality(b) \in Nat
    BY <2>1, <1>2, <1>3, FS_CardinalityType
  <2>3. IsFiniteSet(a \cup b) /\ Cardinality(a \cup b) = Cardinality(a) + Cardinality(b) - Cardinality(a \cap b)
    BY <1>2, <1>3, FS_Union
  <2>4. Cardinality(a \cup b) \in Nat BY <2>3, FS_CardinalityType
  <2> QED BY <2>2, <2>3, <2>4
<1>8. /\ IsFiniteSet(AllItems) /\ Cardinality(AllItems) <= Cardinality(a \cup b) + Cardinality(g)
      /\ Cardinality(AllItems) \in Nat /\ Cardinality(g) \in Nat
  <2>1. IsFiniteSet((a \cup b) \cap g) BY <1>7, FS_Subset
  <2>2. Cardinality((a \cup b) \cap g) \in Nat /\ Cardinality(g) \in Nat
    BY <2>1, <1>4, FS_CardinalityType
  <2> QED BY <2>2, <1>4, <1>5, <1>7, FS_Union, FS_CardinalityType
<1> DEFINE cf == Cardinality(DOMAIN frames)
           cl == Cardinality(DOMAIN lits)
           ch == Cardinality(DOMAIN heap)
           ca == Cardinality(a)
           cb == Cardinality(b)
           cg == Cardinality(g)
           cab == Cardinality(a \cup b)
           all == Cardinality(AllItems)
<1>9. /\ cf \in Nat /\ cl \in Nat /\ ch \in Nat /\ ca \in Nat /\ cb \in Nat /\ cg \in Nat
      /\ cab \in Nat /\ all \in Nat /\ MaxObj \in Nat
      /\ ch <= MaxObj /\ ca <= ch /\ cb <= cf /\ cg <= cl /\ cab <= ca + cb /\ all <= cab + cg
  BY <1>1, <1>2, <1>3, <1>4, <1>6, <1>7, <1>8
<1> HIDE DEF cf, cl, ch, ca, cb, cg, cab, all
<1>10. MaxObj + cf + cl \in Nat /\ all <= MaxObj + cf + cl BY <1>9
<1> QED BY <1>8, <1>10 DEF cf, cl, all

(* What a collection keeps is closed and holds the roots. *)
LEMMA SurvivorsClosed ==
  ASSUME NEW dep, Sound(heap, frames, lits, dep), NEW start, start \subseteq AllItems
  PROVE  ClosedItems(Survivors(start)) /\ start \subseteq Survivors(start)
<1> DEFINE D == AllItems
           most == MaxObj + Cardinality(DOMAIN frames) + Cardinality(DOMAIN lits)
           Round(J) == UNION {{x} \cup Reached(x) : x \in J}
           r == CHOOSE f : f = [k \in 0 .. most |-> IF k = 0 THEN start ELSE Round(f[k - 1])]
           R == [x \in D |-> Reached(x)]
           step == [k \in 0 + 1 .. most |-> [J \in SUBSET D |-> Round(J)]]
<1>1. Survivors(start) = r[most] BY DEF Survivors
<1>2. IsFiniteSet(D) /\ most \in Nat /\ Cardinality(D) <= most BY AllFinite
<1>3. \A x \in D : Reached(x) \subseteq D BY AllClosed DEF ClosedItems
<1>4. R \in [D -> SUBSET D] BY <1>3
<1>5. \A J \in SUBSET D : Round(J) \in SUBSET D /\ Round(J) = UNION {{x} \cup R[x] : x \in J}
  BY <1>3
<1> HIDE DEF most
<1>6. step \in [0 + 1 .. most -> [SUBSET D -> SUBSET D]] BY <1>5
<1>7. \A k \in 0 + 1 .. most, J \in SUBSET D : step[k][J] = Round(J) OBVIOUS
<1> HIDE DEF step, Round, D
<1>8. PICK f \in [0 .. most -> SUBSET D] :
         \A k \in 0 .. most : f[k] = IF k = 0 THEN start ELSE step[k][f[k - 1]]
  <2> DEFINE Q == SUBSET D
  <2>1. start \in Q BY DEF D
  <2>2. 0 <= most BY <1>2
  <2>3. step \in [0 + 1 .. most -> [Q -> Q]] BY <1>6
  <2> HIDE DEF Q
  <2>4. \E f \in [0 .. most -> Q] : \A k \in 0 .. most :
          f[k] = IF k = 0 THEN start ELSE step[k][f[k - 1]]
    <3>1. 0 \in Nat /\ most \in Nat BY <1>2
    <3>2. PICK f : Iterates(f, 0, most, Q, start, step) BY <3>1, <2>1, <2>2, <2>3, Iteration, Zenon
    <3> QED BY <3>2 DEF Iterates
  <2> QED BY <2>4 DEF Q
<1>9. f = [k \in 0 .. most |-> IF k = 0 THEN start ELSE Round(f[k - 1])]
  <2>1. ASSUME NEW k \in 0 .. most, k # 0 PROVE step[k][f[k - 1]] = Round(f[k - 1])
    <3>1. k - 1 \in 0 .. most /\ k \in 0 + 1 .. most BY <1>2, <2>1
    <3>2. f[k - 1] \in SUBSET D BY <3>1
    <3> QED BY <3>1, <3>2, <1>7
  <2>2. \A k \in 0 .. most : f[k] = IF k = 0 THEN start ELSE Round(f[k - 1]) BY <1>8, <2>1
  <2> QED BY <2>2
<1>10. r = [k \in 0 .. most |-> IF k = 0 THEN start ELSE Round(r[k - 1])] BY <1>9
<1> HIDE DEF r
<1>11. \A k \in 0 .. most : r[k] = IF k = 0 THEN start ELSE Round(r[k - 1]) BY <1>10
<1>12. \A k \in 0 .. most : r[k] \in SUBSET D
  <2> DEFINE S == {k \in Nat : k <= most => r[k] \in SUBSET D}
  <2>1. 0 \in S BY <1>11, <1>2 DEF D
  <2>2. ASSUME NEW k \in Nat, k \in S PROVE k + 1 \in S
    <3> SUFFICES ASSUME k + 1 <= most PROVE r[k + 1] \in SUBSET D OBVIOUS
    <3>1. k <= most /\ k + 1 \in 0 .. most /\ k + 1 # 0 /\ (k + 1) - 1 = k BY <1>2
    <3>2. r[k + 1] = Round(r[k]) /\ r[k] \in SUBSET D BY <3>1, <2>2, <1>11
    <3> QED BY <3>2, <1>5
  <2> HIDE DEF S
  <2>3. Nat \subseteq S BY <2>1, <2>2, NatInd
  <2>4. ASSUME NEW k \in 0 .. most PROVE k \in S /\ k \in Nat /\ k <= most BY <2>3, <1>2
  <2> QED BY <2>4 DEF S
<1>13. r \in [0 .. most -> SUBSET D] BY <1>10, <1>12
<1>14. \A k \in 1 .. most, y \in D : y \in r[k] <=> \E x \in r[k - 1] : y = x \/ y \in R[x]
  <2> SUFFICES ASSUME NEW k \in 1 .. most, NEW y \in D
               PROVE  y \in r[k] <=> \E x \in r[k - 1] : y = x \/ y \in R[x]
    OBVIOUS
  <2>1. k \in 0 .. most /\ k # 0 /\ k - 1 \in 0 .. most BY <1>2
  <2>2. r[k] = Round(r[k - 1]) /\ r[k - 1] \in SUBSET D BY <2>1, <1>11, <1>12
  <2> HIDE DEF R
  <2> QED BY <2>2, <1>5
<1>15. r[0] = start /\ most \in 0 .. most BY <1>2, <1>11
<1> HIDE DEF R
<1>16. start \subseteq r[most] /\ \A x \in r[most] : R[x] \subseteq r[most]
  <2>1. start \in SUBSET D BY DEF D
  <2>2. Walks(D, R, start, most, r) BY <1>4, <1>13, <1>14, <1>15, <2>1 DEF Walks
  <2>3. IsFiniteSet(D) /\ most \in Nat /\ Cardinality(D) <= most BY <1>2
  <2> QED BY <2>2, <2>3, Closure, Zenon
<1>17. r[most] \subseteq D BY <1>12, <1>15
<1>18. \A x \in r[most] : Reached(x) \subseteq r[most] BY <1>16, <1>17 DEF R
<1> QED BY <1>1, <1>16, <1>17, <1>18 DEF ClosedItems, D

-----------------------------------------------------------------------------
(* Lists of arguments and what the primitives do with them.                *)

Walked(v) == ArgList(v, heap) \/ v = NULL

LEMMA Plain ==
  /\ ~IsRef(NIL) /\ ~IsRef(NULL) /\ NIL # NULL
  /\ \A i : [obj |-> i] # NULL /\ [obj |-> i] # NIL
<1>1. \A i : ~Const([obj |-> i]) BY Statics
<1>2. ~IsRef(NIL) /\ ~IsRef(NULL) BY DEF IsRef, NIL, NULL
<1>3. NIL # NULL BY DEF NIL, NULL
<1> QED BY <1>1, <1>2, <1>3 DEF Const, Static

LEMMA PartsGood ==
  ASSUME NEW dep, Sound(heap, frames, lits, dep), NEW i \in DOMAIN heap, heap[i].tag = "CELL"
  PROVE  Good(heap[i].car, Usable(heap)) /\ Good(heap[i].cdr, Usable(heap))
<1>1. ObjectOK(heap[i], Usable(heap), dep, DOMAIN lits) BY DEF Sound
<1> QED BY <1>1 DEF ObjectOK

LEMMA WalkStep ==
  ASSUME NEW dep, Sound(heap, frames, lits, dep), NEW v, Walked(v)
  PROVE  Walked(CDR(v)) /\ Good(CAR(v), Usable(heap)) /\ Good(v, Usable(heap))
<1>1. Good(NULL, Usable(heap)) BY DEF Good, Const
<1>2. Good(v, Usable(heap)) BY <1>1, ListIsGood DEF Walked
<1>3. CASE v = NIL \/ v = NULL
  <2>1. CDR(v) = NULL /\ CAR(v) = NULL BY <1>3, Plain DEF CDR, CAR
  <2> QED BY <2>1, <1>1, <1>2 DEF Walked
<1>4. CASE \E S \in SUBSET DOMAIN heap : CellsOfLists(S, heap) /\ \E i \in S : v = [obj |-> i]
  <2>1. PICK S \in SUBSET DOMAIN heap : CellsOfLists(S, heap) /\ \E i \in S : v = [obj |-> i]
    BY <1>4
  <2>2. PICK i \in S : v = [obj |-> i] BY <2>1
  <2>3. IsRef(v) /\ v.obj = i BY <2>2, Statics, Refs
  <2>4. CDR(v) = heap[i].cdr /\ CAR(v) = heap[i].car BY <2>3 DEF CDR, CAR
  <2>5. i \in DOMAIN heap /\ heap[i].tag = "CELL" BY <2>1 DEF CellsOfLists
  <2>6. heap[i].cdr = NIL \/ \E j \in S : heap[i].cdr = [obj |-> j] BY <2>1 DEF CellsOfLists
  <2>7. ArgList(CDR(v), heap) BY <2>1, <2>4, <2>6 DEF ArgList
  <2> QED BY <2>4, <2>5, <2>7, <1>2, PartsGood DEF Walked
<1> QED BY <1>3, <1>4 DEF Walked, ArgList

LEMMA OperandsGood ==
  ASSUME NEW dep, Sound(heap, frames, lits, dep), NEW l, ArgList(l, heap)
  PROVE  /\ Good(First(l), Usable(heap)) /\ Good(Second(l), Usable(heap))
         /\ Good(Third(l), Usable(heap))
<1>1. Walked(l) BY DEF Walked
<1>2. Walked(CDR(l)) BY <1>1, WalkStep
<1>3. Walked(CDR(CDR(l))) BY <1>2, WalkStep
<1> QED BY <1>1, <1>2, <1>3, WalkStep DEF First, Second, Third

(* A walk along a list: what each step gives is again a list or a null     *)
(* pointer.                                                                *)
WalkFrom(f, v, a, b) == f = [k \in a .. b |-> IF k = a THEN v ELSE CDR(f[k - 1])]

LEMMA WalkIs ==
  ASSUME NEW dep, Sound(heap, frames, lits, dep), NEW v, Walked(v),
         NEW a \in Nat, NEW b \in Nat, a <= b, NEW f, WalkFrom(f, v, a, b)
  PROVE  \A k \in a .. b : Walked(f[k])
<1> DEFINE All == {f[k] : k \in a .. b}
           Q == {u \in All : Walked(u)}
<1>1. \A k \in a .. b : f[k] = IF k = a THEN v ELSE CDR(f[k - 1]) BY DEF WalkFrom
<1>2. f[a] \in Q BY <1>1
<1>3. ASSUME NEW k \in a + 1 .. b, f[k - 1] \in Q PROVE f[k] \in Q
  <2>1. k \in a .. b /\ k # a OBVIOUS
  <2>2. f[k] = CDR(f[k - 1]) BY <2>1, <1>1
  <2>3. Walked(f[k]) BY <1>3, <2>2, WalkStep
  <2> QED BY <2>1, <2>3
<1>4. Stays(f, a, b, Q) BY <1>2, <1>3 DEF Stays
<1> HIDE DEF Q
<1>5. \A k \in a .. b : f[k] \in Q BY <1>4, Along, Zenon
<1> QED BY <1>5 DEF Q

LEMMA WalkExists ==
  ASSUME NEW dep, Sound(heap, frames, lits, dep), NEW v, Walked(v),
         NEW a \in Nat, NEW b \in Nat, a <= b
  PROVE  \E f : WalkFrom(f, v, a, b)
<1> DEFINE All == {[obj |-> i] : i \in DOMAIN heap} \cup {NIL, NULL}
           Q == {u \in All : Walked(u)}
           step == [k \in a + 1 .. b |-> [u \in Q |-> CDR(u)]]
<1>1. \A u : Walked(u) => u \in Q BY DEF Walked, ArgList
<1>2. v \in Q BY <1>1
<1>3. \A u \in Q : CDR(u) \in Q BY <1>1, WalkStep
<1>4. step \in [a + 1 .. b -> [Q -> Q]] BY <1>3
<1> HIDE DEF Q
<1>5. \A k \in a + 1 .. b : \A u \in Q : step[k][u] = CDR(u) OBVIOUS
<1> HIDE DEF step
<1>6. PICK f : Iterates(f, a, b, Q, v, step) BY <1>2, <1>4, Iteration, Zenon
<1>7. \A k \in a .. b : f[k] = IF k = a THEN v ELSE step[k][f[k - 1]] BY <1>6 DEF Iterates
<1>8. f \in [a .. b -> Q] BY <1>6 DEF Iterates
<1>9. ASSUME NEW k \in a .. b, k # a PROVE f[k] = CDR(f[k - 1])
  <2>1. k \in a + 1 .. b /\ k - 1 \in a .. b BY <1>9
  <2>2. f[k - 1] \in Q BY <2>1, <1>8
  <2> QED BY <2>1, <2>2, <1>5, <1>7, <1>9
<1>10. \A k \in a .. b : f[k] = IF k = a THEN v ELSE CDR(f[k - 1]) BY <1>7, <1>9
<1>11. f = [k \in a .. b |-> f[k]] BY <1>8
<1> QED BY <1>10, <1>11 DEF WalkFrom

(* The frame that is i outwards is there, because dep counts no more than  *)
(* there are.                                                              *)
FramesFrom(f, i) == f = [k \in 0 .. i |-> IF k = 0 THEN e ELSE frames[f[k - 1]].next]

LEMMA FrameStep ==
  ASSUME NEW dep, Sound(heap, frames, lits, dep), NEW f \in DOMAIN frames, dep[f] > 0
  PROVE  frames[f].next \in DOMAIN frames /\ dep[frames[f].next] >= dep[f] - 1
<1>1. FrameOK(f, heap, frames, dep) BY DEF Sound
<1>2. dep \in [DOMAIN frames -> Nat] BY DEF Sound
<1> QED BY <1>1, <1>2 DEF FrameOK

LEMMA FrameIs ==
  ASSUME NEW dep, Sound(heap, frames, lits, dep), e \in DOMAIN frames,
         NEW i \in Nat, i <= dep[e], NEW f, FramesFrom(f, i)
  PROVE  \A k \in 0 .. i : f[k] \in DOMAIN frames /\ dep[f[k]] >= dep[e] - k
<1> DEFINE S == {n \in Nat : n <= i => f[n] \in DOMAIN frames /\ dep[f[n]] >= dep[e] - n}
<1>1. \A k \in 0 .. i : f[k] = IF k = 0 THEN e ELSE frames[f[k - 1]].next BY DEF FramesFrom
<1>2. dep \in [DOMAIN frames -> Nat] BY DEF Sound
<1>3. 0 \in S BY <1>1, <1>2
<1>4. ASSUME NEW n \in Nat, n \in S PROVE n + 1 \in S
  <2> SUFFICES ASSUME n + 1 <= i
               PROVE  f[n + 1] \in DOMAIN frames /\ dep[f[n + 1]] >= dep[e] - (n + 1)
    OBVIOUS
  <2>1. f[n] \in DOMAIN frames /\ dep[f[n]] >= dep[e] - n BY <1>4
  <2>2. dep[f[n]] > 0 /\ dep[e] \in Nat /\ dep[f[n]] \in Nat BY <2>1, <1>2
  <2>3. n + 1 \in 0 .. i /\ n + 1 # 0 /\ (n + 1) - 1 = n OBVIOUS
  <2>4. f[n + 1] = frames[f[n]].next BY <2>3, <1>1
  <2>5. frames[f[n]].next \in DOMAIN frames /\ dep[frames[f[n]].next] >= dep[f[n]] - 1
    BY <2>1, <2>2, FrameStep
  <2>6. dep[frames[f[n]].next] \in Nat BY <2>5, <1>2
  <2> QED BY <2>1, <2>2, <2>4, <2>5, <2>6
<1> HIDE DEF S
<1>5. Nat \subseteq S BY <1>3, <1>4, NatInd
<1>6. ASSUME NEW k \in 0 .. i PROVE k \in S /\ k \in Nat /\ k <= i BY <1>5
<1> QED BY <1>6 DEF S

LEMMA FrameExists ==
  ASSUME NEW dep, Sound(heap, frames, lits, dep), e \in DOMAIN frames,
         NEW i \in Nat, i <= dep[e]
  PROVE  \E f : FramesFrom(f, i)
<1> DEFINE Q == DOMAIN frames
           step == [k \in 0 + 1 .. i |->
                      [f \in Q |-> IF dep[f] > 0 THEN frames[f].next ELSE f]]
<1>1. \A f \in Q : dep[f] > 0 => frames[f].next \in Q BY FrameStep
<1>2. step \in [0 + 1 .. i -> [Q -> Q]] BY <1>1
<1>3. e \in Q /\ 0 \in Nat /\ i \in Nat /\ 0 <= i OBVIOUS
<1>4. \A k \in 0 + 1 .. i : \A f \in Q : dep[f] > 0 => step[k][f] = frames[f].next OBVIOUS
<1> HIDE DEF step, Q
<1>5. PICK f : Iterates(f, 0, i, Q, e, step) BY <1>2, <1>3, Iteration, Zenon
<1>6. /\ f \in [0 .. i -> Q]
      /\ \A k \in 0 .. i : f[k] = IF k = 0 THEN e ELSE step[k][f[k - 1]]
  BY <1>5 DEF Iterates
<1> DEFINE S == {n \in Nat : n <= i => dep[f[n]] >= dep[e] - n}
<1>7. dep \in [DOMAIN frames -> Nat] BY DEF Sound
<1>8. 0 \in S BY <1>6, <1>7 DEF Q
<1>9. ASSUME NEW n \in Nat, dep[f[n]] >= dep[e] - n, n + 1 <= i
      PROVE  dep[f[n + 1]] >= dep[e] - (n + 1) /\ f[n + 1] = frames[f[n]].next
  <2>1. n \in 0 .. i /\ n + 1 \in 0 .. i /\ n + 1 \in 0 + 1 .. i /\ n + 1 # 0 /\ (n + 1) - 1 = n
    BY <1>9
  <2>2. f[n] \in Q BY <2>1, <1>6
  <2>3. dep[f[n]] > 0 /\ dep[e] \in Nat /\ dep[f[n]] \in Nat BY <2>2, <1>7, <1>9 DEF Q
  <2>4. f[n + 1] = step[n + 1][f[n]] BY <2>1, <1>6
  <2>5. f[n + 1] = frames[f[n]].next BY <2>1, <2>2, <2>3, <2>4, <1>4
  <2>6. frames[f[n]].next \in DOMAIN frames /\ dep[frames[f[n]].next] >= dep[f[n]] - 1
    BY <2>2, <2>3, FrameStep DEF Q
  <2>7. dep[frames[f[n]].next] \in Nat BY <2>6, <1>7
  <2> QED BY <2>3, <2>5, <2>6, <2>7, <1>9
<1>10. \A n \in Nat : n \in S => n + 1 \in S
  <2> SUFFICES ASSUME NEW n \in Nat, n \in S PROVE n + 1 \in S OBVIOUS
  <2> SUFFICES ASSUME n + 1 <= i PROVE dep[f[n + 1]] >= dep[e] - (n + 1) OBVIOUS
  <2> QED BY <1>9
<1> HIDE DEF S
<1>11. Nat \subseteq S BY <1>8, <1>10, NatInd
<1>12. ASSUME NEW k \in 0 .. i, k # 0 PROVE f[k] = frames[f[k - 1]].next
  <2> DEFINE n == k - 1
  <2>1. n \in Nat /\ n + 1 = k /\ n + 1 <= i /\ n <= i BY <1>12
  <2>2. n \in S BY <2>1, <1>11
  <2> HIDE DEF n
  <2>3. f[n + 1] = frames[f[n]].next BY <2>1, <2>2, <1>9 DEF S
  <2> QED BY <2>1, <2>3 DEF n
<1>13. f[0] = e BY <1>6
<1>14. f = [k \in 0 .. i |-> IF k = 0 THEN e ELSE frames[f[k - 1]].next] BY <1>6, <1>12, <1>13
<1> QED BY <1>14 DEF FramesFrom

LEMMA LvarGood ==
  ASSUME NEW dep, Sound(heap, frames, lits, dep), e \in DOMAIN frames,
         NEW i \in Nat, i < dep[e], NEW j \in Int, get_lvar(i, j) # CRASH
  PROVE  Good(get_lvar(i, j), Usable(heap))
<1> DEFINE frame == CHOOSE f : f = [k \in 0 .. i |-> IF k = 0 THEN e ELSE frames[f[k - 1]].next]
           vs == frames[frame[i]].vars
           n == IF j < 0 THEN -(j + 1) ELSE j
           cdr == CHOOSE f : f = [k \in 0 .. n |-> IF k = 0 THEN vs ELSE CDR(f[k - 1])]
<1>1. dep \in [DOMAIN frames -> Nat] /\ i <= dep[e] BY DEF Sound
<1>2. \E f : FramesFrom(f, i) BY <1>1, FrameExists
<1>3. FramesFrom(frame, i) BY <1>2 DEF FramesFrom
<1> HIDE DEF frame
<1>4. frame[i] \in DOMAIN frames BY <1>1, <1>3, FrameIs
<1>5. FrameOK(frame[i], heap, frames, dep) BY <1>4 DEF Sound
<1>6. Walked(vs) BY <1>5 DEF FrameOK, Walked
<1> HIDE DEF vs
<1>7. n \in Nat OBVIOUS
<1> HIDE DEF n
<1>8. 0 \in Nat /\ n \in Nat /\ 0 <= n BY <1>7
<1>9. \E f : WalkFrom(f, vs, 0, n) BY <1>6, <1>8, WalkExists, Zenon
<1>10. WalkFrom(cdr, vs, 0, n) BY <1>9 DEF WalkFrom
<1> HIDE DEF cdr
<1>11. Walked(cdr[n])
  <2>1. \A k \in 0 .. n : Walked(cdr[k]) BY <1>6, <1>8, <1>10, WalkIs, Zenon
  <2> QED BY <2>1, <1>8
<1>12. Good(cdr[n], Usable(heap)) /\ Good(CAR(cdr[n]), Usable(heap)) BY <1>11, WalkStep
<1>13. Good(NULL, Usable(heap)) BY DEF Good, Const
<1>14. get_lvar(i, j) =
         CASE vs = NIL /\ j # -1 -> NULL
           [] j < 0 /\ (\A k \in 0 .. n - 1 : cdr[k] # NULL) -> cdr[n]
           [] j >= 0 /\ (\A k \in 0 .. n : cdr[k] # NULL) -> CAR(cdr[n])
           [] OTHER -> CRASH
  BY DEF get_lvar, frame, vs, n, cdr
<1>15. get_lvar(i, j) \in {NULL, cdr[n], CAR(cdr[n]), CRASH} BY <1>14
<1> QED BY <1>12, <1>13, <1>15

(* The list ends before it has more cells than there are objects. *)
LEMMA PairIs ==
  ASSUME NEW dep, Sound(heap, frames, lits, dep), NEW v, Walked(v), IsPair(v)
  PROVE  \E i \in DOMAIN heap : v = [obj |-> i] /\ heap[i].tag = "CELL" /\ CDR(v) = heap[i].cdr
<1>1. v # NIL BY DEF IsPair
<1>2. v # NULL
  <2>1. "sym" \notin DOMAIN NULL /\ NULL # NIL BY DEF NULL, NIL
  <2>2. ~IsRef(NULL) BY Plain
  <2>3. Tag(NULL) = "OTHER" BY <2>1, <2>2 DEF Tag
  <2> QED BY <2>3 DEF IsPair
<1>3. PICK S \in SUBSET DOMAIN heap : CellsOfLists(S, heap) /\ \E i \in S : v = [obj |-> i]
  BY <1>1, <1>2 DEF Walked, ArgList
<1>4. PICK i \in S : v = [obj |-> i] BY <1>3
<1>5. IsRef(v) /\ v.obj = i BY <1>4, Statics, Refs
<1>6. CDR(v) = heap[i].cdr BY <1>5 DEF CDR
<1> QED BY <1>3, <1>4, <1>6 DEF CellsOfLists

LEMMA SpineEnds ==
  ASSUME NEW dep, Sound(heap, frames, lits, dep), NEW v, Walked(v),
         NEW f, WalkFrom(f, v, 1, Cardinality(DOMAIN heap) + 1)
  PROVE  \E k \in 0 .. Cardinality(DOMAIN heap) :
           ~IsPair(f[k + 1]) /\ \A m \in 1 .. k : IsPair(f[m])
<1> DEFINE N == Cardinality(DOMAIN heap)
<1>1. IsFiniteSet(DOMAIN heap) /\ N \in Nat
  <2>1. MaxObj \in Nat /\ DOMAIN heap \subseteq 1 .. MaxObj BY MaxObjAssumption DEF Sound
  <2>2. IsFiniteSet(1 .. MaxObj) BY <2>1, FS_Interval
  <2> QED BY <2>1, <2>2, FS_Subset, FS_CardinalityType
<1>2. 1 \in Nat /\ N + 1 \in Nat /\ 1 <= N + 1 BY <1>1
<1>3. \A k \in 1 .. N + 1 : f[k] = IF k = 1 THEN v ELSE CDR(f[k - 1]) BY DEF WalkFrom
<1>4. WalkFrom(f, v, 1, N + 1) OBVIOUS
<1> HIDE DEF N
<1>5. \A k \in 1 .. N + 1 : Walked(f[k]) BY <1>2, <1>4, WalkIs, Zenon
<1>6. \E k \in 1 .. N + 1 : ~IsPair(f[k])
  <2> SUFFICES ASSUME \A k \in 1 .. N + 1 : IsPair(f[k]) PROVE FALSE OBVIOUS
  <2> DEFINE g == [k \in 1 .. N + 1 |-> CHOOSE i \in DOMAIN heap : f[k] = [obj |-> i]]
  <2>1. ASSUME NEW k \in 1 .. N + 1
        PROVE  g[k] \in DOMAIN heap /\ f[k] = [obj |-> g[k]] /\ heap[g[k]].tag = "CELL"
               /\ CDR(f[k]) = heap[g[k]].cdr
    <3>1. PICK i \in DOMAIN heap : f[k] = [obj |-> i] /\ heap[i].tag = "CELL" /\ CDR(f[k]) = heap[i].cdr
      BY <1>5, PairIs
    <3>2. g[k] \in DOMAIN heap /\ f[k] = [obj |-> g[k]] BY <3>1
    <3> HIDE DEF g
    <3>3. g[k] = i BY <3>1, <3>2, Refs
    <3> QED BY <3>1, <3>2, <3>3
  <2>2. g \in [1 .. N + 1 -> DOMAIN heap] BY <2>1
  <2> HIDE DEF g
  <2>3. ASSUME NEW a \in 1 .. N + 1, NEW b \in 1 .. N + 1, a < b, g[a] = g[b] PROVE FALSE
    <3> DEFINE S == {g[k] : k \in a .. b - 1}
    <3>1. a .. b - 1 \subseteq 1 .. N + 1 BY <1>2, <2>3
    <3>2. S \in SUBSET DOMAIN heap BY <3>1, <2>1
    <3>3. g[a] \in S BY <2>3, <1>2
    <3>4. ASSUME NEW i \in S PROVE heap[i].tag = "CELL" /\ \E j \in S : heap[i].cdr = [obj |-> j]
      <4>1. PICK k \in a .. b - 1 : i = g[k] OBVIOUS
      <4>2. k \in 1 .. N + 1 /\ k + 1 \in 1 .. N + 1 /\ k + 1 # 1 /\ (k + 1) - 1 = k
        BY <1>2, <2>3
      <4>3. f[k + 1] = CDR(f[k]) BY <4>2, <1>3
      <4>4. heap[i].tag = "CELL" /\ heap[i].cdr = [obj |-> g[k + 1]] BY <4>1, <4>2, <4>3, <2>1
      <4>5. g[k + 1] \in S
        <5>1. CASE k + 1 = b BY <5>1, <3>3, <2>3
        <5>2. CASE k + 1 # b
          <6>1. k + 1 \in a .. b - 1 BY <5>2, <4>2, <2>3
          <6> QED BY <6>1
        <5> QED BY <5>1, <5>2
      <4> QED BY <4>4, <4>5
    <3> HIDE DEF S
    <3>5. Grounded(heap) BY DEF Sound
    <3> QED BY <3>2, <3>3, <3>4, <3>5 DEF Grounded
  <2>4. g \in Injection(1 .. N + 1, DOMAIN heap)
    <3>1. \A a, b \in 1 .. N + 1 : g[a] = g[b] => a = b
      <4> SUFFICES ASSUME NEW a \in 1 .. N + 1, NEW b \in 1 .. N + 1, g[a] = g[b], a # b PROVE FALSE
        OBVIOUS
      <4>1. a < b \/ b < a BY <1>2
      <4> QED BY <4>1, <2>3
    <3> QED BY <2>2, <3>1 DEF Injection, IsInjective
  <2>5. IsFiniteSet(1 .. N + 1) /\ Cardinality(1 .. N + 1) = N + 1
    <3>1. N + 1 >= 1 /\ (N + 1) - 1 + 1 = N + 1 /\ 1 \in Int /\ N + 1 \in Int BY <1>2
    <3> QED BY <3>1, FS_Interval
  <2>6. Cardinality(1 .. N + 1) <= N BY <2>4, <2>5, <1>1, FS_Injection DEF N
  <2> QED BY <2>5, <2>6, <1>1
<1> DEFINE M == {k \in 1 .. N + 1 : ~IsPair(f[k])}
<1>7. PICK k \in M : \A m \in M : k <= m BY <1>6, LeastNat, M \subseteq Nat, M # {}
<1>8. k - 1 \in 0 .. N /\ (k - 1) + 1 = k BY <1>1
<1>9. \A m \in 1 .. k - 1 : IsPair(f[m])
  <2> SUFFICES ASSUME NEW m \in 1 .. k - 1, ~IsPair(f[m]) PROVE FALSE OBVIOUS
  <2>1. m \in 1 .. N + 1 /\ ~(k <= m) BY <1>1
  <2>2. m \in M BY <2>1
  <2> QED BY <2>1, <2>2, <1>7
<1> QED BY <1>7, <1>8, <1>9 DEF N

LEMMA WordsClosed ==
  /\ \A n \in Int : ToSigned(n) \in Words
  /\ Words \subseteq Int
<1>1. LongMax \in Nat BY LongAssumption
<1>2. Modulus \in Nat \ {0} /\ Modulus = 2 * (LongMax + 1) BY <1>1 DEF Modulus
<1>3. ASSUME NEW n \in Int PROVE ToSigned(n) \in Words
  <2> DEFINE m == n % Modulus
  <2>1. m \in 0 .. Modulus - 1 BY <1>2
  <2> HIDE DEF m
  <2>2. m > LongMax => m - Modulus \in LongMin .. LongMax BY <2>1, <1>1, <1>2 DEF LongMin
  <2>3. ~(m > LongMax) => m \in LongMin .. LongMax BY <2>1, <1>1, <1>2 DEF LongMin
  <2>4. ToSigned(n) = IF m > LongMax THEN m - Modulus ELSE m BY DEF ToSigned, m
  <2> QED BY <2>2, <2>3, <2>4 DEF Words
<1> QED BY <1>1, <1>3 DEF Words, LongMin

LEMMA IntIs ==
  ASSUME NEW dep, Sound(heap, frames, lits, dep), NEW v, Good(v, Usable(heap)), IsInt(v)
  PROVE  IntOf(v) \in Int
<1>1. v # NULL
  <2>1. "sym" \notin DOMAIN NULL /\ NULL # NIL BY DEF NULL, NIL
  <2> QED BY <2>1, Plain DEF IsInt, Tag
<1>2. ~Const(v)
  <2> SUFFICES ASSUME Const(v) PROVE FALSE OBVIOUS
  <2>1. ~IsRef(v) BY Statics
  <2> QED BY <2>1 DEF IsInt, Tag
<1>3. PICK i \in Usable(heap) : v = [obj |-> i] BY <1>2 DEF Good
<1>4. IsRef(v) /\ v.obj = i /\ i \in DOMAIN heap BY <1>3, Statics, Refs DEF Usable
<1>5. heap[i].tag = "INTEGER" /\ IntOf(v) = heap[i].n BY <1>4 DEF IsInt, Tag, IntOf
<1>6. ObjectOK(heap[i], Usable(heap), dep, DOMAIN lits) BY <1>4 DEF Sound
<1> QED BY <1>5, <1>6, WordsClosed DEF ObjectOK

(* The arguments of a call. *)
LEMMA ElementsAre ==
  ASSUME NEW dep, Sound(heap, frames, lits, dep), NEW l, ArgList(l, heap)
  PROVE  /\ Len(Elements(l)) \in Nat /\ DOMAIN Elements(l) = 1 .. Len(Elements(l))
         /\ \A k \in DOMAIN Elements(l) : Good(Elements(l)[k], Usable(heap))
         /\ Elements(l) = <<>> <=> Len(Elements(l)) = 0
<1> DEFINE N == Cardinality(DOMAIN heap)
           rest == CHOOSE f : f = [k \in 1 .. N + 1 |-> IF k = 1 THEN l ELSE CDR(f[k - 1])]
           n == CHOOSE k \in 0 .. N : ~IsPair(rest[k + 1]) /\ \A m \in 1 .. k : IsPair(rest[m])
           cells == [k \in 1 .. n |-> rest[k]]
           q == [k \in DOMAIN cells |-> CAR(cells[k])]
<1>1. N \in Nat
  <2>1. MaxObj \in Nat /\ DOMAIN heap \subseteq 1 .. MaxObj BY MaxObjAssumption DEF Sound
  <2>2. IsFiniteSet(1 .. MaxObj) BY <2>1, FS_Interval
  <2> QED BY <2>1, <2>2, FS_Subset, FS_CardinalityType
<1>2. Walked(l) BY DEF Walked
<1>3. 1 \in Nat /\ N + 1 \in Nat /\ 1 <= N + 1 BY <1>1
<1> HIDE DEF N
<1>4. \E f : WalkFrom(f, l, 1, N + 1) BY <1>2, <1>3, WalkExists, Zenon
<1>5. WalkFrom(rest, l, 1, N + 1) BY <1>4 DEF WalkFrom
<1> HIDE DEF rest
<1>6. \A k \in 1 .. N + 1 : Walked(rest[k]) BY <1>2, <1>3, <1>5, WalkIs, Zenon
<1>7. \E k \in 0 .. N : ~IsPair(rest[k + 1]) /\ \A m \in 1 .. k : IsPair(rest[m])
  BY <1>2, <1>5, SpineEnds DEF N
<1>8. n \in 0 .. N BY <1>7
<1> HIDE DEF n
<1>9. n \in Nat /\ q = [k \in 1 .. n |-> CAR(rest[k])] BY <1>8
<1>10. DOMAIN q = 1 .. n /\ \A k \in 1 .. n : q[k] = CAR(rest[k]) BY <1>9
<1>11. \A k \in 1 .. n : Good(q[k], Usable(heap))
  <2>1. \A k \in 1 .. n : k \in 1 .. N + 1 BY <1>1, <1>8
  <2> QED BY <2>1, <1>6, <1>10, WalkStep
<1> DEFINE S == {CAR(rest[k]) : k \in 1 .. n}
<1>12. q \in Seq(S)
  <2>1. q \in [1 .. n -> S] BY <1>9
  <2> QED BY <2>1, <1>9
<1> HIDE DEF q
<1>13. Len(q) = n BY <1>9, <1>10, <1>12
<1>14. q = <<>> <=> n = 0 BY <1>12, <1>13
<1>15. Spine(l).cells = cells BY DEF Spine, rest, n, N
<1>16. Elements(l) = q BY <1>15 DEF Elements, q
<1> QED BY <1>9, <1>10, <1>11, <1>13, <1>14, <1>16

(* A running total stays an integer. *)
Sums(f, q, n) ==
  f = [k \in 0 .. n |-> IF k = 0 THEN 0 ELSE ToSigned(f[k - 1] + IntOf(q[k]))]
LEMMA SumIs ==
  ASSUME NEW q, NEW n \in Nat, 0 <= n, \A k \in 1 .. n : IntOf(q[k]) \in Int
  PROVE  /\ \E f : Sums(f, q, n)
         /\ \A f : Sums(f, q, n) => f[n] \in Int
<1> DEFINE step == [k \in 0 + 1 .. n |-> [m \in Int |-> ToSigned(m + IntOf(q[k]))]]
<1>1. \A k \in 0 + 1 .. n : \A m \in Int : ToSigned(m + IntOf(q[k])) \in Int
  <2> SUFFICES ASSUME NEW k \in 0 + 1 .. n, NEW m \in Int PROVE ToSigned(m + IntOf(q[k])) \in Int
    OBVIOUS
  <2>1. IntOf(q[k]) \in Int OBVIOUS
  <2>2. m + IntOf(q[k]) \in Int BY <2>1
  <2> QED BY <2>2, WordsClosed
<1>2. step \in [0 + 1 .. n -> [Int -> Int]] BY <1>1
<1>3. \A k \in 0 + 1 .. n : \A m \in Int : step[k][m] = ToSigned(m + IntOf(q[k])) OBVIOUS
<1>4. 0 \in Nat /\ n \in Nat /\ 0 <= n /\ 0 \in Int OBVIOUS
<1> HIDE DEF step
<1>5. \E f : Sums(f, q, n)
  <2>1. PICK f : Iterates(f, 0, n, Int, 0, step) BY <1>2, <1>4, Iteration, Zenon
  <2>2. /\ f \in [0 .. n -> Int]
        /\ \A k \in 0 .. n : f[k] = IF k = 0 THEN 0 ELSE step[k][f[k - 1]]
    BY <2>1 DEF Iterates
  <2>3. ASSUME NEW k \in 0 .. n, k # 0 PROVE f[k] = ToSigned(f[k - 1] + IntOf(q[k]))
    <3>1. k \in 0 + 1 .. n /\ k - 1 \in 0 .. n BY <2>3
    <3>2. f[k - 1] \in Int BY <3>1, <2>2
    <3>3. f[k] = step[k][f[k - 1]] BY <2>2, <2>3
    <3> QED BY <3>1, <3>2, <3>3, <1>3
  <2>4. \A k \in 0 .. n : f[k] = IF k = 0 THEN 0 ELSE ToSigned(f[k - 1] + IntOf(q[k]))
    BY <2>2, <2>3
  <2>5. f = [k \in 0 .. n |-> f[k]] BY <2>2
  <2> QED BY <2>4, <2>5 DEF Sums
<1>6. ASSUME NEW f, Sums(f, q, n) PROVE f[n] \in Int
  <2>1. \A k \in 0 .. n : f[k] = IF k = 0 THEN 0 ELSE ToSigned(f[k - 1] + IntOf(q[k]))
    BY <1>6 DEF Sums
  <2>2. f[0] \in Int BY <2>1, <1>4
  <2>3. ASSUME NEW k \in 0 + 1 .. n, f[k - 1] \in Int PROVE f[k] \in Int
    <3>1. k \in 0 .. n /\ k # 0 OBVIOUS
    <3> QED BY <3>1, <2>1, <2>3, <1>1
  <2>4. Stays(f, 0, n, Int) BY <2>2, <2>3 DEF Stays
  <2>5. \A k \in 0 .. n : f[k] \in Int BY <2>4, <1>4, Along, Zenon
  <2>6. n \in 0 .. n OBVIOUS
  <2> QED BY <2>5, <2>6
<1> QED BY <1>5, <1>6

Products(f, q, n) ==
  f = [k \in 0 .. n |-> IF k = 0 THEN 1 ELSE ToSigned(f[k - 1] * IntOf(q[k]))]
LEMMA ProductIs ==
  ASSUME NEW q, NEW n \in Nat, 0 <= n, \A k \in 1 .. n : IntOf(q[k]) \in Int
  PROVE  /\ \E f : Products(f, q, n)
         /\ \A f : Products(f, q, n) => f[n] \in Int
<1> DEFINE step == [k \in 0 + 1 .. n |-> [m \in Int |-> ToSigned(m * IntOf(q[k]))]]
<1>1. \A k \in 0 + 1 .. n : \A m \in Int : ToSigned(m * IntOf(q[k])) \in Int
  <2> SUFFICES ASSUME NEW k \in 0 + 1 .. n, NEW m \in Int PROVE ToSigned(m * IntOf(q[k])) \in Int
    OBVIOUS
  <2>1. IntOf(q[k]) \in Int OBVIOUS
  <2>2. m * IntOf(q[k]) \in Int BY <2>1
  <2> QED BY <2>2, WordsClosed
<1>2. step \in [0 + 1 .. n -> [Int -> Int]] BY <1>1
<1>3. \A k \in 0 + 1 .. n : \A m \in Int : step[k][m] = ToSigned(m * IntOf(q[k])) OBVIOUS
<1>4. 0 \in Nat /\ n \in Nat /\ 0 <= n /\ 1 \in Int OBVIOUS
<1> HIDE DEF step
<1>5. \E f : Products(f, q, n)
  <2>1. PICK f : Iterates(f, 0, n, Int, 1, step) BY <1>2, <1>4, Iteration, Zenon
  <2>2. /\ f \in [0 .. n -> Int]
        /\ \A k \in 0 .. n : f[k] = IF k = 0 THEN 1 ELSE step[k][f[k - 1]]
    BY <2>1 DEF Iterates
  <2>3. ASSUME NEW k \in 0 .. n, k # 0 PROVE f[k] = ToSigned(f[k - 1] * IntOf(q[k]))
    <3>1. k \in 0 + 1 .. n /\ k - 1 \in 0 .. n BY <2>3
    <3>2. f[k - 1] \in Int BY <3>1, <2>2
    <3>3. f[k] = step[k][f[k - 1]] BY <2>2, <2>3
    <3> QED BY <3>1, <3>2, <3>3, <1>3
  <2>4. \A k \in 0 .. n : f[k] = IF k = 0 THEN 1 ELSE ToSigned(f[k - 1] * IntOf(q[k]))
    BY <2>2, <2>3
  <2>5. f = [k \in 0 .. n |-> f[k]] BY <2>2
  <2> QED BY <2>4, <2>5 DEF Products
<1>6. ASSUME NEW f, Products(f, q, n) PROVE f[n] \in Int
  <2>1. \A k \in 0 .. n : f[k] = IF k = 0 THEN 1 ELSE ToSigned(f[k - 1] * IntOf(q[k]))
    BY <1>6 DEF Products
  <2>2. f[0] \in Int BY <2>1, <1>4
  <2>3. ASSUME NEW k \in 0 + 1 .. n, f[k - 1] \in Int PROVE f[k] \in Int
    <3>1. k \in 0 .. n /\ k # 0 OBVIOUS
    <3> QED BY <3>1, <2>1, <2>3, <1>1
  <2>4. Stays(f, 0, n, Int) BY <2>2, <2>3 DEF Stays
  <2>5. \A k \in 0 .. n : f[k] \in Int BY <2>4, <1>4, Along, Zenon
  <2>6. n \in 0 .. n OBVIOUS
  <2> QED BY <2>5, <2>6
<1> QED BY <1>5, <1>6

Differences(f, q, n) ==
  f = [k \in 1 .. n |-> IF k = 1 THEN IntOf(q[1]) ELSE ToSigned(f[k - 1] - IntOf(q[k]))]
LEMMA DifferenceIs ==
  ASSUME NEW q, NEW n \in Nat, 1 <= n, \A k \in 1 .. n : IntOf(q[k]) \in Int
  PROVE  /\ \E f : Differences(f, q, n)
         /\ \A f : Differences(f, q, n) => f[n] \in Int
<1> DEFINE step == [k \in 1 + 1 .. n |-> [m \in Int |-> ToSigned(m - IntOf(q[k]))]]
<1>1. \A k \in 1 + 1 .. n : \A m \in Int : ToSigned(m - IntOf(q[k])) \in Int
  <2> SUFFICES ASSUME NEW k \in 1 + 1 .. n, NEW m \in Int PROVE ToSigned(m - IntOf(q[k])) \in Int
    OBVIOUS
  <2>1. IntOf(q[k]) \in Int OBVIOUS
  <2>2. m - IntOf(q[k]) \in Int BY <2>1
  <2> QED BY <2>2, WordsClosed
<1>2. step \in [1 + 1 .. n -> [Int -> Int]] BY <1>1
<1>3. \A k \in 1 + 1 .. n : \A m \in Int : step[k][m] = ToSigned(m - IntOf(q[k])) OBVIOUS
<1>4. 1 \in Nat /\ n \in Nat /\ 1 <= n /\ IntOf(q[1]) \in Int OBVIOUS
<1> HIDE DEF step
<1>5. \E f : Differences(f, q, n)
  <2>1. PICK f : Iterates(f, 1, n, Int, IntOf(q[1]), step) BY <1>2, <1>4, Iteration, Zenon
  <2>2. /\ f \in [1 .. n -> Int]
        /\ \A k \in 1 .. n : f[k] = IF k = 1 THEN IntOf(q[1]) ELSE step[k][f[k - 1]]
    BY <2>1 DEF Iterates
  <2>3. ASSUME NEW k \in 1 .. n, k # 1 PROVE f[k] = ToSigned(f[k - 1] - IntOf(q[k]))
    <3>1. k \in 1 + 1 .. n /\ k - 1 \in 1 .. n BY <2>3
    <3>2. f[k - 1] \in Int BY <3>1, <2>2
    <3>3. f[k] = step[k][f[k - 1]] BY <2>2, <2>3
    <3> QED BY <3>1, <3>2, <3>3, <1>3
  <2>4. \A k \in 1 .. n : f[k] = IF k = 1 THEN IntOf(q[1]) ELSE ToSigned(f[k - 1] - IntOf(q[k]))
    BY <2>2, <2>3
  <2>5. f = [k \in 1 .. n |-> f[k]] BY <2>2
  <2> QED BY <2>4, <2>5 DEF Differences
<1>6. ASSUME NEW f, Differences(f, q, n) PROVE f[n] \in Int
  <2>1. \A k \in 1 .. n : f[k] = IF k = 1 THEN IntOf(q[1]) ELSE ToSigned(f[k - 1] - IntOf(q[k]))
    BY <1>6 DEF Differences
  <2>2. f[1] \in Int BY <2>1, <1>4
  <2>3. ASSUME NEW k \in 1 + 1 .. n, f[k - 1] \in Int PROVE f[k] \in Int
    <3>1. k \in 1 .. n /\ k # 1 OBVIOUS
    <3> QED BY <3>1, <2>1, <2>3, <1>1
  <2>4. Stays(f, 1, n, Int) BY <2>2, <2>3 DEF Stays
  <2>5. \A k \in 1 .. n : f[k] \in Int BY <2>4, <1>4, Along, Zenon
  <2>6. n \in 1 .. n OBVIOUS
  <2> QED BY <2>5, <2>6
<1> QED BY <1>5, <1>6

(* What a primitive may answer.  A new object refers to arguments only. *)
NewOK(o, l) ==
  \/ o.tag = "INTEGER" /\ o.n \in Words
  \/ o.tag = "CELL" /\ o.car = First(l) /\ o.cdr = Second(l)
  \/ /\ o.tag = "VECTOR" /\ o = [tag |-> "VECTOR", elems |-> o.elems]
     /\ IsSeq(o.elems) /\ \A n \in DOMAIN o.elems : o.elems[n] \in {Second(l), UNDEF}
ResultOK(r, l) ==
  \/ r.kind = "value" /\ Good(r.v, Usable(heap))
  \/ r.kind = "new" /\ NewOK(r.o, l)
  \/ /\ r.kind = "store" /\ r.vec \in DOMAIN heap /\ heap[r.vec].tag = "VECTOR"
     /\ r.at \in DOMAIN heap[r.vec].elems /\ Good(r.v, Usable(heap))
  \/ r.kind \in {"error", "exit", "crash"}

LEMMA SimpleResults ==
  ASSUME NEW l
  PROVE  /\ ResultOK(Error, l) /\ ResultOK(Crashes, l) /\ ResultOK([kind |-> "exit"], l)
         /\ \A b : ResultOK(Truth(b), l)
         /\ \A v : Good(v, Usable(heap)) => ResultOK(Returns(v), l)
         /\ \A n \in Int : ResultOK(Integer(n), l)
<1>1. ResultOK(Error, l) /\ ResultOK(Crashes, l) /\ ResultOK([kind |-> "exit"], l)
  BY DEF ResultOK, Error, Crashes
<1>2. ASSUME NEW v, Good(v, Usable(heap)) PROVE ResultOK(Returns(v), l)
  BY <1>2 DEF ResultOK, Returns
<1>3. Good(TRUEV, Usable(heap)) /\ Good(FALSEV, Usable(heap)) BY DEF Good, Const, Static
<1>4. ASSUME NEW b PROVE ResultOK(Truth(b), l)
  <2>1. Truth(b) = Returns(TRUEV) \/ Truth(b) = Returns(FALSEV) BY DEF Truth
  <2> QED BY <2>1, <1>2, <1>3
<1>5. ASSUME NEW n \in Int PROVE ResultOK(Integer(n), l)
  <2>1. ToSigned(n) \in Words BY WordsClosed
  <2>2. Integer(n).kind = "new" /\ Integer(n).o.tag = "INTEGER" /\ Integer(n).o.n = ToSigned(n)
    BY DEF Integer, Makes
  <2> QED BY <2>1, <2>2 DEF ResultOK, NewOK
<1> QED BY <1>1, <1>2, <1>4, <1>5

(* The pair v. *)
LEMMA PairParts ==
  ASSUME NEW dep, Sound(heap, frames, lits, dep), NEW v, Good(v, Usable(heap)), IsPair(v)
  PROVE  Good(CAR(v), Usable(heap)) /\ Good(CDR(v), Usable(heap))
<1>1. ~Const(v)
  <2> SUFFICES ASSUME Const(v) PROVE FALSE OBVIOUS
  <2>1. ~IsRef(v) BY Statics
  <2> QED BY <2>1 DEF IsPair, Tag
<1>2. PICK i \in Usable(heap) : v = [obj |-> i] BY <1>1 DEF Good
<1>3. IsRef(v) /\ v.obj = i /\ i \in DOMAIN heap BY <1>2, Statics, Refs DEF Usable
<1>4. heap[i].tag = "CELL" /\ CAR(v) = heap[i].car /\ CDR(v) = heap[i].cdr
  BY <1>3 DEF IsPair, Tag, CAR, CDR
<1> QED BY <1>3, <1>4, PartsGood

LEMMA PairsOK ==
  ASSUME NEW dep, Sound(heap, frames, lits, dep), NEW l, ArgList(l, heap)
  PROVE  /\ ResultOK(prim_car(l), l) /\ ResultOK(prim_cdr(l), l) /\ ResultOK(prim_cons(l), l)
         /\ ResultOK(prim_eq(l), l) /\ ResultOK(prim_eqv(l), l) /\ ResultOK(prim_equal(l), l)
         /\ ResultOK(prim_display(l), l) /\ ResultOK(prim_newline(l), l) /\ ResultOK(prim_exit(l), l)
<1>1. Good(First(l), Usable(heap)) BY OperandsGood
<1>2. ResultOK(prim_car(l), l) /\ ResultOK(prim_cdr(l), l)
  <2>1. IsPair(First(l)) => Good(CAR(First(l)), Usable(heap)) /\ Good(CDR(First(l)), Usable(heap))
    BY <1>1, PairParts
  <2> QED BY <2>1, SimpleResults DEF prim_car, prim_cdr
<1>3. ResultOK(prim_cons(l), l)
  <2> DEFINE r == Makes([tag |-> "CELL", car |-> First(l), cdr |-> Second(l)])
  <2>1. r.kind = "new" /\ r.o.tag = "CELL" /\ r.o.car = First(l) /\ r.o.cdr = Second(l) BY DEF Makes
  <2> HIDE DEF r
  <2>2. ResultOK(r, l) BY <2>1 DEF ResultOK, NewOK
  <2>3. prim_cons(l) = Error \/ prim_cons(l) = r BY DEF prim_cons, r
  <2> QED BY <2>2, <2>3, SimpleResults
<1>4. ResultOK(prim_eq(l), l)
  <2>1. prim_eq(l) = Error \/ \E b : prim_eq(l) = Truth(b) BY DEF prim_eq
  <2> QED BY <2>1, SimpleResults
<1>5. ResultOK(prim_eqv(l), l)
  <2>1. prim_eqv(l) = Error \/ \E b : prim_eqv(l) = Truth(b) BY DEF prim_eqv
  <2> QED BY <2>1, SimpleResults
<1>6. ResultOK(prim_equal(l), l)
  <2>1. prim_equal(l) = Error \/ prim_equal(l) = Crashes \/ \E b : prim_equal(l) = Truth(b)
    BY DEF prim_equal
  <2> QED BY <2>1, SimpleResults
<1>7. ResultOK(prim_display(l), l) /\ ResultOK(prim_newline(l), l) /\ ResultOK(prim_exit(l), l)
  <2>1. Good(UNDEF, Usable(heap)) BY DEF Good, Const, Static
  <2> QED BY <2>1, SimpleResults DEF prim_display, prim_newline, prim_exit
<1> QED BY <1>2, <1>3, <1>4, <1>5, <1>6, <1>7

LEMMA ArithmeticOK ==
  ASSUME NEW dep, Sound(heap, frames, lits, dep), NEW l, ArgList(l, heap)
  PROVE  /\ ResultOK(prim_plus(l), l) /\ ResultOK(prim_times(l), l) /\ ResultOK(prim_minus(l), l)
         /\ ResultOK(prim_div(l), l) /\ ResultOK(prim_modulo(l), l)
<1> DEFINE q == Elements(l)
           n == Len(q)
<1>1. /\ n \in Nat /\ DOMAIN q = 1 .. n /\ \A k \in DOMAIN q : Good(q[k], Usable(heap))
      /\ q = <<>> <=> n = 0
  BY ElementsAre
<1> HIDE DEF q
<1>2. ASSUME \A k \in DOMAIN q : IsInt(q[k]) PROVE \A k \in 1 .. n : IntOf(q[k]) \in Int
  BY <1>1, <1>2, IntIs
<1>3. ResultOK(prim_plus(l), l)
  <2> DEFINE sum == CHOOSE f : f = [k \in 0 .. n |->
                                     IF k = 0 THEN 0 ELSE ToSigned(f[k - 1] + IntOf(q[k]))]
  <2>1. prim_plus(l) = IF \E k \in DOMAIN q : ~IsInt(q[k]) THEN Error ELSE Integer(sum[n])
    BY DEF prim_plus, q
  <2>2. CASE \A k \in DOMAIN q : IsInt(q[k])
    <3>1. (\E f : Sums(f, q, n)) /\ \A f : Sums(f, q, n) => f[n] \in Int
      BY <1>1, <1>2, <2>2, SumIs
    <3>2. Sums(sum, q, n) BY <3>1 DEF Sums
    <3> HIDE DEF sum
    <3> QED BY <3>1, <3>2, <2>1, <2>2, SimpleResults
  <2> QED BY <2>1, <2>2, SimpleResults
<1>4. ResultOK(prim_times(l), l)
  <2> DEFINE product == CHOOSE f : f = [k \in 0 .. n |->
                                         IF k = 0 THEN 1 ELSE ToSigned(f[k - 1] * IntOf(q[k]))]
  <2>1. prim_times(l) = IF \E k \in DOMAIN q : ~IsInt(q[k]) THEN Error ELSE Integer(product[n])
    BY DEF prim_times, q
  <2>2. CASE \A k \in DOMAIN q : IsInt(q[k])
    <3>1. (\E f : Products(f, q, n)) /\ \A f : Products(f, q, n) => f[n] \in Int
      BY <1>1, <1>2, <2>2, ProductIs
    <3>2. Products(product, q, n) BY <3>1 DEF Products
    <3> HIDE DEF product
    <3> QED BY <3>1, <3>2, <2>1, <2>2, SimpleResults
  <2> QED BY <2>1, <2>2, SimpleResults
<1>5. ResultOK(prim_minus(l), l)
  <2> DEFINE rest == CHOOSE f : f = [k \in 1 .. n |->
                                      IF k = 1 THEN IntOf(q[1]) ELSE ToSigned(f[k - 1] - IntOf(q[k]))]
  <2>1. prim_minus(l) = IF q = <<>> \/ \E k \in DOMAIN q : ~IsInt(q[k]) THEN Error
                        ELSE Integer(IF n = 1 THEN -IntOf(q[1]) ELSE rest[n])
    BY DEF prim_minus, q
  <2>2. CASE q # <<>> /\ \A k \in DOMAIN q : IsInt(q[k])
    <3>1. 1 <= n /\ \A k \in 1 .. n : IntOf(q[k]) \in Int BY <1>1, <1>2, <2>2
    <3>2. (\E f : Differences(f, q, n)) /\ \A f : Differences(f, q, n) => f[n] \in Int
      BY <1>1, <3>1, DifferenceIs
    <3>3. Differences(rest, q, n) BY <3>2 DEF Differences
    <3> HIDE DEF rest
    <3>4. rest[n] \in Int BY <3>2, <3>3
    <3>5. -IntOf(q[1]) \in Int BY <3>1, <1>1
    <3>6. (IF n = 1 THEN -IntOf(q[1]) ELSE rest[n]) \in Int BY <3>4, <3>5
    <3> QED BY <3>6, <2>1, <2>2, SimpleResults
  <2> QED BY <2>1, <2>2, SimpleResults
<1>6. ASSUME NEW x, IsInt(First(l)) /\ IsInt(Second(l)) /\ IntOf(Second(l)) # 0 => x \in Int
      PROVE  ResultOK(Divides(l, x), l)
  BY <1>6, SimpleResults DEF Divides
<1>7. ASSUME IsInt(First(l)), IsInt(Second(l)), IntOf(Second(l)) # 0
      PROVE  /\ Quotient(IntOf(First(l)), IntOf(Second(l))) \in Int
             /\ Remainder(IntOf(First(l)), IntOf(Second(l))) \in Int
  <2>1. IntOf(First(l)) \in Int /\ IntOf(Second(l)) \in Int BY <1>7, OperandsGood, IntIs
  <2> DEFINE a == IntOf(First(l))
             b == IntOf(Second(l))
             ma == Magnitude(a)
             mb == Magnitude(b)
             u == ma \div mb
  <2>2. a \in Int /\ b \in Int /\ b # 0 BY <2>1, <1>7
  <2> HIDE DEF a, b
  <2>3. ma \in Nat /\ mb \in Nat /\ mb > 0 BY <2>2 DEF Magnitude
  <2> HIDE DEF ma, mb
  <2>4. u \in Int BY <2>3
  <2> HIDE DEF u
  <2>5. Quotient(a, b) = u \/ Quotient(a, b) = -u BY DEF Quotient, u, ma, mb
  <2>6. Quotient(a, b) \in Int BY <2>4, <2>5
  <2>7. Remainder(a, b) \in Int BY <2>2, <2>6 DEF Remainder
  <2> QED BY <2>6, <2>7 DEF a, b
<1>8. ResultOK(prim_div(l), l) /\ ResultOK(prim_modulo(l), l) BY <1>6, <1>7 DEF prim_div, prim_modulo
<1> QED BY <1>3, <1>4, <1>5, <1>8

LEMMA VectorIs ==
  ASSUME NEW dep, Sound(heap, frames, lits, dep), NEW v, Good(v, Usable(heap)), Tag(v) = "VECTOR"
  PROVE  /\ v.obj \in DOMAIN heap /\ heap[v.obj].tag = "VECTOR"
         /\ Len(heap[v.obj].elems) \in Nat
         /\ DOMAIN heap[v.obj].elems = 1 .. Len(heap[v.obj].elems)
         /\ \A n \in DOMAIN heap[v.obj].elems : Good(heap[v.obj].elems[n], Usable(heap))
<1>1. ~Const(v)
  <2> SUFFICES ASSUME Const(v) PROVE FALSE OBVIOUS
  <2>1. ~IsRef(v) BY Statics
  <2> QED BY <2>1 DEF Tag
<1>2. PICK i \in Usable(heap) : v = [obj |-> i] BY <1>1 DEF Good
<1>3. IsRef(v) /\ v.obj = i /\ i \in DOMAIN heap BY <1>2, Statics, Refs DEF Usable
<1>4. heap[i].tag = "VECTOR" BY <1>3 DEF Tag
<1>5. ObjectOK(heap[i], Usable(heap), dep, DOMAIN lits) BY <1>3 DEF Sound
<1>6. IsSeq(heap[i].elems) /\ \A n \in DOMAIN heap[i].elems : Good(heap[i].elems[n], Usable(heap))
  BY <1>4, <1>5 DEF ObjectOK
<1>7. heap[i].elems \in Seq(Elems(heap[i].elems)) BY <1>6 DEF IsSeq
<1>8. Len(heap[i].elems) \in Nat /\ DOMAIN heap[i].elems = 1 .. Len(heap[i].elems)
  BY <1>7, SeqIs
<1> QED BY <1>3, <1>4, <1>6, <1>8

LEMMA InVectorIs ==
  ASSUME NEW dep, Sound(heap, frames, lits, dep), NEW v, Good(v, Usable(heap)),
         NEW w, Good(w, Usable(heap)), InVector(v, w)
  PROVE  /\ v.obj \in DOMAIN heap /\ heap[v.obj].tag = "VECTOR"
         /\ IntOf(w) + 1 \in DOMAIN heap[v.obj].elems
         /\ Good(heap[v.obj].elems[IntOf(w) + 1], Usable(heap))
<1>1. Tag(v) = "VECTOR" /\ IsInt(w) /\ IntOf(w) \in 0 .. Len(heap[v.obj].elems) - 1 BY DEF InVector
<1> DEFINE q == heap[v.obj].elems
           k == IntOf(w)
           len == Len(q)
<1>2. /\ v.obj \in DOMAIN heap /\ heap[v.obj].tag = "VECTOR" /\ len \in Nat
      /\ DOMAIN q = 1 .. len /\ \A n \in DOMAIN q : Good(q[n], Usable(heap))
  BY <1>1, VectorIs
<1>3. k \in 0 .. len - 1 BY <1>1
<1> HIDE DEF q, k, len
<1>4. k + 1 \in DOMAIN q BY <1>2, <1>3
<1>5. Good(q[k + 1], Usable(heap)) BY <1>2, <1>4
<1> QED BY <1>2, <1>4, <1>5 DEF q, k

LEMMA VectorsOK ==
  ASSUME NEW dep, Sound(heap, frames, lits, dep), NEW l, ArgList(l, heap)
  PROVE  /\ ResultOK(prim_make_vector(l), l) /\ ResultOK(prim_vector_ref(l), l)
         /\ ResultOK(prim_vector_set(l), l) /\ ResultOK(prim_vector_length(l), l)
<1>1. Good(First(l), Usable(heap)) /\ Good(Second(l), Usable(heap)) /\ Good(Third(l), Usable(heap))
  BY OperandsGood
<1>2. ResultOK(prim_make_vector(l), l)
  <2> DEFINE size == IntOf(First(l))
             fill == IF get_list_length(l) > 1 THEN Second(l) ELSE UNDEF
             o == [tag |-> "VECTOR", elems |-> [n \in 1 .. size |-> fill]]
  <2>1. CASE get_list_length(l) < 1 \/ ~IsInt(First(l)) BY <2>1, SimpleResults DEF prim_make_vector
  <2>2. CASE ~(get_list_length(l) < 1 \/ ~IsInt(First(l))) /\ size < 0
    BY <2>2, SimpleResults DEF prim_make_vector
  <2>3. CASE ~(get_list_length(l) < 1 \/ ~IsInt(First(l))) /\ ~(size < 0)
    <3>1. prim_make_vector(l) = Makes(o) BY <2>3 DEF prim_make_vector
    <3>2. size \in Nat
      <4>1. size \in Int BY <2>3, <1>1, IntIs
      <4> HIDE DEF size
      <4> QED BY <4>1, <2>3
    <3>3. fill \in {Second(l), UNDEF} OBVIOUS
    <3> HIDE DEF size, fill
    <3> DEFINE q == [n \in 1 .. size |-> fill]
    <3>4. q \in [1 .. size -> {fill}] OBVIOUS
    <3>5. q \in Seq({fill}) BY <3>2, <3>4
    <3>6. IsSeq(q) BY <3>5, SeqIs
    <3>7. \A n \in DOMAIN q : q[n] \in {Second(l), UNDEF} BY <3>3
    <3>8. o = [tag |-> "VECTOR", elems |-> q] OBVIOUS
    <3> HIDE DEF q, o
    <3>9. NewOK(o, l) BY <3>6, <3>7, <3>8 DEF NewOK
    <3> QED BY <3>1, <3>9 DEF ResultOK, Makes
  <2> QED BY <2>1, <2>2, <2>3
<1>3. ResultOK(prim_vector_ref(l), l)
  <2>1. CASE get_list_length(l) # 2 \/ ~InVector(First(l), Second(l))
    BY <2>1, SimpleResults DEF prim_vector_ref
  <2>2. CASE ~(get_list_length(l) # 2 \/ ~InVector(First(l), Second(l)))
    <3>1. Good(heap[First(l).obj].elems[IntOf(Second(l)) + 1], Usable(heap)) BY <1>1, <2>2, InVectorIs
    <3> QED BY <2>2, <3>1, SimpleResults DEF prim_vector_ref
  <2> QED BY <2>1, <2>2
<1>4. ResultOK(prim_vector_set(l), l)
  <2>1. CASE get_list_length(l) # 3 \/ ~InVector(First(l), Second(l))
    BY <2>1, SimpleResults DEF prim_vector_set
  <2>2. CASE ~(get_list_length(l) # 3 \/ ~InVector(First(l), Second(l)))
    <3> DEFINE r == [kind |-> "store", vec |-> First(l).obj, at |-> IntOf(Second(l)) + 1, v |-> Third(l)]
    <3>1. prim_vector_set(l) = r BY <2>2 DEF prim_vector_set
    <3>2. /\ r.kind = "store" /\ r.vec = First(l).obj /\ r.at = IntOf(Second(l)) + 1 /\ r.v = Third(l)
      OBVIOUS
    <3> HIDE DEF r
    <3> QED BY <3>1, <3>2, <1>1, <2>2, InVectorIs DEF ResultOK
  <2> QED BY <2>1, <2>2
<1>5. ResultOK(prim_vector_length(l), l)
  <2>1. CASE get_list_length(l) # 1 \/ Tag(First(l)) # "VECTOR"
    BY <2>1, SimpleResults DEF prim_vector_length
  <2>2. CASE ~(get_list_length(l) # 1 \/ Tag(First(l)) # "VECTOR")
    <3>1. Len(heap[First(l).obj].elems) \in Int BY <1>1, <2>2, VectorIs
    <3> QED BY <2>2, <3>1, SimpleResults DEF prim_vector_length
  <2> QED BY <2>1, <2>2
<1> QED BY <1>2, <1>3, <1>4, <1>5

(* Whatever the primitive and its arguments, the answer is one of these. *)
LEMMA ApplyOK ==
  ASSUME NEW dep, Sound(heap, frames, lits, dep), NEW l, ArgList(l, heap), NEW p \in Prim
  PROVE  ResultOK(apply(p, l), l)
<1>1. apply(p, l) \in {prim_car(l), prim_cdr(l), prim_cons(l), prim_display(l), prim_newline(l),
                       prim_eq(l), prim_eqv(l), prim_equal(l), prim_plus(l), prim_times(l),
                       prim_minus(l), prim_div(l), prim_modulo(l), prim_exit(l),
                       prim_make_vector(l), prim_vector_ref(l), prim_vector_set(l),
                       prim_vector_length(l)}
  BY DEF apply, Prim
<1> QED BY <1>1, PairsOK, ArithmeticOK, VectorsOK

-----------------------------------------------------------------------------
(* An allocation.                                                          *)

(* The items it keeps: all of them if the heap has room.                   *)
KeptItems(live) == IF HeapFull THEN live ELSE AllItems

(* The step to the heap hq, the constants lq and the frames counted by de  *)
(* leaves the objects O, the frames F and the constants K what they were.  *)
Carries(O, F, K, hp, hq, dep, de, lq) ==
  Keeps(O, hp, hq) /\ (\A f \in F : f \in DOMAIN de /\ de[f] = dep[f]) /\ K \subseteq DOMAIN lq

LEMMA KeptIs ==
  ASSUME NEW live
  PROVE  /\ Kept(live) = ObjsOf(KeptItems(live))
         /\ {g \in DOMAIN frames : HeapFull => [frame |-> g] \in live} = FramesOf(KeptItems(live))
         /\ {k \in DOMAIN lits : HeapFull => [lit |-> k] \in live} = LitsOf(KeptItems(live))
<1>1. CASE HeapFull BY <1>1 DEF Kept, KeptItems, ObjsOf, FramesOf, LitsOf
<1>2. CASE ~HeapFull BY <1>2, AllOf DEF Kept, KeptItems
<1> QED BY <1>1, <1>2

LEMMA KeptClosed ==
  ASSUME NEW dep, Sound(heap, frames, lits, dep), NEW start, start \subseteq AllItems
  PROVE  /\ ClosedItems(KeptItems(Survivors(start))) /\ start \subseteq KeptItems(Survivors(start))
         /\ \A x \in KeptItems(Survivors(start)) : x \in AllItems
<1>1. ClosedItems(Survivors(start)) /\ start \subseteq Survivors(start) BY SurvivorsClosed
<1>2. ClosedItems(AllItems) BY AllClosed
<1> QED BY <1>1, <1>2 DEF KeptItems, ClosedItems

LEMMA RoomForOne ==
  ASSUME DOMAIN heap \subseteq 1 .. MaxObj, NEW live, Succeeds(live)
  PROVE  NewObj(live) \in (1 .. MaxObj) \ Kept(live)
<1>1. MaxObj \in Nat BY MaxObjAssumption
<1>2. Cardinality(Kept(live)) # MaxObj
  <2>1. CASE HeapFull BY <2>1 DEF Succeeds, Shortage
  <2>2. CASE ~HeapFull BY <2>2 DEF HeapFull, Kept
  <2> QED BY <2>1, <2>2
<1>3. Kept(live) \subseteq 1 .. MaxObj BY DEF Kept
<1>4. Cardinality(1 .. MaxObj) = MaxObj
  <2>1. 1 \in Int /\ MaxObj \in Int /\ MaxObj - 1 + 1 = MaxObj /\ (1 > MaxObj => MaxObj = 0) BY <1>1
  <2> QED BY <2>1, FS_Interval
<1> DEFINE M == (1 .. MaxObj) \ Kept(live)
<1>5. M # {} /\ M \subseteq Nat
  <2>1. Kept(live) # 1 .. MaxObj BY <1>2, <1>4
  <2>2. M # {} BY <2>1, <1>3
  <2>3. M \subseteq Nat BY <1>1
  <2> QED BY <2>2, <2>3
<1>6. PICK i \in M : \A k \in M : i <= k BY <1>5, LeastNat
<1>7. \A k \in 1 .. i - 1 : k \in Kept(live)
  <2> SUFFICES ASSUME NEW k \in 1 .. i - 1, k \notin Kept(live) PROVE FALSE OBVIOUS
  <2>1. k \in 1 .. MaxObj /\ ~(i <= k) BY <1>1
  <2> QED BY <2>1, <1>6
<1>8. \E j \in 1 .. MaxObj : j \notin Kept(live) /\ \A k \in 1 .. j - 1 : k \in Kept(live)
  BY <1>7
<1> QED BY <1>8 DEF NewObj

(* The store of the items L alone. *)
SoundWith(L, dep, de) ==
  /\ Sound([i \in ObjsOf(L) |-> heap[i]], [f \in FramesOf(L) |-> frames[f]],
           [k \in LitsOf(L) |-> lits[k]], de)
  /\ DOMAIN de = FramesOf(L) /\ \A f \in FramesOf(L) : de[f] = dep[f]
  /\ Holds(ObjsOf(L), FramesOf(L), LitsOf(L), heap, frames, lits)

LEMMA Collected ==
  ASSUME NEW dep, Sound(heap, frames, lits, dep), NEW L, ClosedItems(L)
  PROVE  \E de : SoundWith(L, dep, de)
<1>1. Holds(ObjsOf(L), FramesOf(L), LitsOf(L), heap, frames, lits) BY ClosedHolds
<1> DEFINE de == [f \in FramesOf(L) |-> dep[f]]
<1>2. Sound([i \in ObjsOf(L) |-> heap[i]], [f \in FramesOf(L) |-> frames[f]],
            [k \in LitsOf(L) |-> lits[k]], de)
  BY <1>1, SoundSub
<1>3. DOMAIN de = FramesOf(L) /\ \A f \in FramesOf(L) : de[f] = dep[f] OBVIOUS
<1>4. SoundWith(L, dep, de) BY <1>1, <1>2, <1>3 DEF SoundWith
<1> QED BY <1>4

LEMMA Allocation ==
  ASSUME NEW dep, Sound(heap, frames, lits, dep), NEW start, start \subseteq AllItems,
         NEW live, live = Survivors(start), Succeeds(live), NEW o, Allocates(live, o),
         ObjectOK(o, Usable(heap), dep, DOMAIN lits), NEW L, L = KeptItems(live),
         Within(o, ObjsOf(L), FramesOf(L), LitsOf(L))
  PROVE  \E de : /\ Sound(heap', frames', lits', de)
                 /\ NewObj(live) \in DOMAIN heap' /\ heap'[NewObj(live)] = o
                 /\ Carries(ObjsOf(L), FramesOf(L), LitsOf(L), heap, heap', dep, de, lits')
<1> DEFINE O == ObjsOf(L)
           F == FramesOf(L)
           K == LitsOf(L)
           i == NewObj(live)
           hk == [x \in O |-> heap[x]]
<1>1. ClosedItems(L) BY KeptClosed
<1>2. PICK de : /\ Sound(hk, [f \in F |-> frames[f]], [k \in K |-> lits[k]], de)
                /\ DOMAIN de = F /\ \A f \in F : de[f] = dep[f]
                /\ Holds(O, F, K, heap, frames, lits)
  <2>1. PICK de : SoundWith(L, dep, de) BY <1>1, Collected
  <2> QED BY <2>1 DEF SoundWith
<1>3. Kept(live) = O BY KeptIs
<1>4. /\ heap' = [x \in O \cup {i} |-> IF x = i THEN o ELSE heap[x]]
      /\ frames' = [f \in F |-> frames[f]] /\ lits' = [k \in K |-> lits[k]]
  BY <1>3, KeptIs DEF Allocates
<1>5. i \in (1 .. MaxObj) \ O BY <1>3, RoomForOne DEF Sound
<1>6. DOMAIN hk = O /\ (\A x \in O : hk[x] = heap[x]) /\ O \subseteq DOMAIN heap BY DEF ObjsOf
<1>7. heap' = [x \in DOMAIN hk \cup {i} |-> IF x = i THEN o ELSE hk[x]]
  <2>1. \A x \in O \cup {i} : (IF x = i THEN o ELSE heap[x]) = (IF x = i THEN o ELSE hk[x]) BY <1>6
  <2> QED BY <2>1, <1>4, <1>6
<1>8. DOMAIN lits' = K BY <1>4
<1>9. Sound(hk, frames', lits', de) BY <1>2, <1>4
<1>10. Usable(heap) \cap O \subseteq Usable(hk) BY <1>6 DEF Usable
<1> HIDE DEF hk, O, F, K, i
<1>11. ObjectOK(o, Usable(hk), de, DOMAIN lits')
  <2>1. Within(o, O, F, K) /\ F \subseteq DOMAIN de BY <1>2 DEF O, F, K
  <2> QED BY <2>1, <1>2, <1>8, <1>10, ObjectKept
<1>12. Sound(heap', frames', lits', de)
  <2>1. i \in (1 .. MaxObj) \ DOMAIN hk BY <1>5, <1>6
  <2> QED BY <2>1, <1>7, <1>9, <1>11, SoundAdd
<1>13. i \in DOMAIN heap' /\ heap'[i] = o /\ O \subseteq DOMAIN heap' /\ \A x \in O : heap'[x] = heap[x]
  BY <1>4, <1>5
<1>14. Keeps(O, heap, heap') BY <1>2, <1>13, HoldsKeeps
<1>15. Carries(O, F, K, heap, heap', dep, de, lits') BY <1>2, <1>8, <1>14 DEF Carries
<1> QED BY <1>12, <1>13, <1>15 DEF O, F, K, i

-----------------------------------------------------------------------------
(* The stack of a call.                                                    *)

(* The stack st holds what ty says. *)
TypedValue(v, k, hp) == Good(v, Usable(hp)) /\ (k = "args" => ArgList(v, hp))
Typed(st, ty, hp) ==
  /\ IsSeq(st) /\ ty \in Seq(Kinds) /\ Len(st) = Len(ty)
  /\ \A n \in DOMAIN st : TypedValue(st[n], ty[n], hp)
Rest(q, n) == SubSeq(q, n + 1, Len(q))

LEMMA RestIs ==
  ASSUME NEW S, NEW q \in Seq(S), NEW n \in 0 .. Len(q)
  PROVE  /\ Rest(q, n) \in Seq(S) /\ Len(Rest(q, n)) = Len(q) - n
         /\ \A k \in 1 .. Len(q) - n : Rest(q, n)[k] = q[n + k]
<1>1. Len(q) \in Nat /\ \A k \in 1 .. Len(q) : q[k] \in S BY SeqIs
<1>2. n + 1 \in Int /\ Len(q) \in Int /\ \A k \in n + 1 .. Len(q) : q[k] \in S BY <1>1
<1>3. /\ SubSeq(q, n + 1, Len(q)) \in Seq(S)
      /\ Len(SubSeq(q, n + 1, Len(q))) = IF n + 1 <= Len(q) THEN Len(q) - (n + 1) + 1 ELSE 0
      /\ \A k \in 1 .. Len(q) - (n + 1) + 1 : SubSeq(q, n + 1, Len(q))[k] = q[n + 1 + k - 1]
  BY <1>2, SubSeqProperties
<1> DEFINE r == SubSeq(q, n + 1, Len(q))
<1>4. Len(r) = Len(q) - n BY <1>1, <1>3
<1>5. \A k \in 1 .. Len(q) - n : r[k] = q[n + k]
  <2> SUFFICES ASSUME NEW k \in 1 .. Len(q) - n PROVE r[k] = q[n + k] OBVIOUS
  <2>1. k \in 1 .. Len(q) - (n + 1) + 1 /\ n + 1 + k - 1 = n + k BY <1>1
  <2> QED BY <2>1, <1>3
<1> QED BY <1>3, <1>4, <1>5 DEF Rest

LEMMA RestTyped ==
  ASSUME NEW st, NEW ty, NEW hp, Typed(st, ty, hp), NEW n \in 0 .. Len(st)
  PROVE  Typed(Rest(st, n), Rest(ty, n), hp)
<1> DEFINE S == Elems(st)
           p == Rest(st, n)
           t == Rest(ty, n)
<1>1. st \in Seq(S) /\ ty \in Seq(Kinds) /\ Len(st) = Len(ty) /\ n \in 0 .. Len(ty)
  BY DEF Typed, IsSeq
<1>2. Len(st) \in Nat /\ DOMAIN st = 1 .. Len(st) BY <1>1, SeqIs
<1>3. p \in Seq(S) /\ Len(p) = Len(st) - n /\ \A k \in 1 .. Len(st) - n : p[k] = st[n + k]
  BY <1>1, RestIs
<1>4. t \in Seq(Kinds) /\ Len(t) = Len(st) - n /\ \A k \in 1 .. Len(st) - n : t[k] = ty[n + k]
  BY <1>1, RestIs
<1> HIDE DEF p, t, S
<1>5. IsSeq(p) /\ DOMAIN p = 1 .. Len(st) - n BY <1>3, SeqIs
<1>6. \A k \in DOMAIN p : TypedValue(p[k], t[k], hp)
  <2> SUFFICES ASSUME NEW k \in 1 .. Len(st) - n PROVE TypedValue(p[k], t[k], hp) BY <1>5
  <2>1. n + k \in DOMAIN st BY <1>2
  <2> QED BY <2>1, <1>3, <1>4 DEF Typed
<1> QED BY <1>3, <1>4, <1>5, <1>6 DEF Typed, p, t

LEMMA PushTyped ==
  ASSUME NEW st, NEW ty, NEW hp, Typed(st, ty, hp), NEW v, NEW k \in Kinds, TypedValue(v, k, hp)
  PROVE  Typed(<<v>> \o st, <<k>> \o ty, hp)
<1> DEFINE S == Elems(st) \cup {v}
           p == <<v>> \o st
           t == <<k>> \o ty
<1>1. /\ st \in Seq(Elems(st)) /\ ty \in Seq(Kinds) /\ Len(st) = Len(ty)
      /\ \A n \in DOMAIN st : TypedValue(st[n], ty[n], hp)
  BY DEF Typed, IsSeq
<1>2. v \in S /\ st \in Seq(S) BY <1>1, SeqMonotonic
<1>3. Len(st) \in Nat /\ DOMAIN st = 1 .. Len(st) BY <1>2, SeqIs
<1>4. /\ p \in Seq(S) /\ Len(p) = Len(st) + 1 /\ p[1] = v
      /\ \A n \in 2 .. Len(st) + 1 : p[n] = st[n - 1]
  BY <1>2, Cons
<1>5. /\ t \in Seq(Kinds) /\ Len(t) = Len(st) + 1 /\ t[1] = k
      /\ \A n \in 2 .. Len(st) + 1 : t[n] = ty[n - 1]
  BY <1>1, Cons
<1> HIDE DEF p, t, S
<1>6. IsSeq(p) /\ DOMAIN p = 1 .. Len(st) + 1 BY <1>4, SeqIs
<1>7. \A n \in DOMAIN p : TypedValue(p[n], t[n], hp)
  <2> SUFFICES ASSUME NEW n \in 1 .. Len(st) + 1 PROVE TypedValue(p[n], t[n], hp) BY <1>6
  <2>1. CASE n = 1 BY <2>1, <1>4, <1>5
  <2>2. CASE n # 1
    <3>1. n \in 2 .. Len(st) + 1 /\ n - 1 \in DOMAIN st BY <2>2, <1>3
    <3> QED BY <3>1, <1>1, <1>4, <1>5
  <2> QED BY <2>1, <2>2
<1> QED BY <1>4, <1>5, <1>6, <1>7 DEF Typed, p, t

LEMMA TypedKept ==
  ASSUME NEW st, NEW ty, NEW hp, Typed(st, ty, hp), NEW hq, NEW O, Keeps(O, hp, hq),
         \A n \in DOMAIN st : Inside(st[n], O)
  PROVE  Typed(st, ty, hq)
<1>1. \A n \in DOMAIN st : TypedValue(st[n], ty[n], hq) BY GoodKept DEF Typed, TypedValue
<1> QED BY <1>1 DEF Typed

(* What an instruction that leaves one item makes of the stack. *)
LEMMA MovesTyped ==
  ASSUME NEW st, NEW before, NEW hp, Typed(st, before, hp), NEW i, NEW after, Moves(i, before, after),
         NEW v, NEW k \in Kinds, TypedValue(v, k, hp), Leaves(i) = <<k>>,
         NEW n, n = Len(Takes(i)), n \in Nat
  PROVE  Typed(<<v>> \o Rest(st, n), after, hp) /\ n \in 0 .. Len(st)
<1>1. n <= Len(before) /\ after = <<k>> \o Rest(before, n) BY DEF Moves, Rest
<1>2. Len(st) = Len(before) /\ Len(before) \in Nat
  <2>1. before \in Seq(Kinds) /\ Len(st) = Len(before) BY DEF Typed
  <2> QED BY <2>1, SeqIs
<1>3. n \in 0 .. Len(st) BY <1>1, <1>2
<1>4. Typed(Rest(st, n), Rest(before, n), hp) BY <1>3, RestTyped
<1> QED BY <1>1, <1>3, <1>4, PushTyped
-----------------------------------------------------------------------------
(* Activations.  An activation [x, ty, at, env, base] runs the code node   *)
(* of x from the instruction at on, in the frame env, above what base says *)
(* is on the stack; ty says what is there before each instruction.         *)

Runs(a, code, rest, dep, K) ==
  /\ a.x \in Codes /\ a.x.node = code /\ code.consts \subseteq K
  /\ a.base \in Seq(Kinds) /\ Balanced(code.ins, a.x.end, a.ty, a.base)
  /\ a.at \in 1 .. Len(code.ins) + 1 /\ rest = SubSeq(code.ins, a.at, Len(code.ins))
  /\ a.env \in DOMAIN dep /\ a.x.depth <= dep[a.env]

Stepped(a) == [x |-> a.x, ty |-> a.ty, at |-> a.at + 1, env |-> a.env, base |-> a.base]

LEMMA SteppedIs ==
  ASSUME NEW a
  PROVE  /\ Stepped(a).x = a.x /\ Stepped(a).ty = a.ty /\ Stepped(a).at = a.at + 1
         /\ Stepped(a).env = a.env /\ Stepped(a).base = a.base
  BY DEF Stepped

LEMMA CodeIs ==
  ASSUME NEW x \in Codes
  PROVE  /\ x.node.ins \in Seq(Instructions) /\ Len(x.node.ins) \in Nat
         /\ DOMAIN x.node.ins = 1 .. Len(x.node.ins) /\ x.depth \in Nat
         /\ Balanced(x.node.ins, x.end, x.shape, <<>>)
         /\ \A n \in DOMAIN x.node.ins : Resolved(x.node.ins[n], x)
<1>1. x.node.ins \in Seq(Instructions) BY CodesAssumption
<1>2. Len(x.node.ins) \in Nat /\ DOMAIN x.node.ins = 1 .. Len(x.node.ins) BY <1>1, SeqIs
<1> QED BY <1>1, <1>2, CodesAssumption

(* The next instruction of an activation. *)
LEMMA RunsNow ==
  ASSUME NEW a, NEW code, NEW rest, NEW dep, NEW K, Runs(a, code, rest, dep, K), rest # <<>>
  PROVE  /\ a.at \in DOMAIN code.ins /\ Head(rest) = code.ins[a.at] /\ Resolved(Head(rest), a.x)
         /\ Tail(rest) = SubSeq(code.ins, a.at + 1, Len(code.ins))
         /\ a.at + 1 \in 1 .. Len(code.ins) + 1
         /\ a.ty[a.at] \in Seq(Kinds)
         /\ Head(rest).op \in Ends => Head(rest).op = a.x.end /\ a.ty[a.at] = <<"value">> \o a.base
         /\ Head(rest).op \notin Ends => Moves(Head(rest), a.ty[a.at], a.ty[a.at + 1])
<1> DEFINE ins == code.ins
<1>1. /\ ins \in Seq(Instructions) /\ Len(ins) \in Nat /\ DOMAIN ins = 1 .. Len(ins)
      /\ \A n \in DOMAIN ins : Resolved(ins[n], a.x)
  BY CodeIs DEF Runs
<1>2. a.at \in 1 .. Len(ins) + 1 /\ rest = SubSeq(ins, a.at, Len(ins)) BY DEF Runs
<1>3. a.at \in 1 .. Len(ins)
  <2> SUFFICES ASSUME a.at = Len(ins) + 1 PROVE FALSE BY <1>1, <1>2
  <2>1. a.at \in Int /\ Len(ins) \in Int /\ Len(ins) < a.at BY <1>1
  <2>2. SubSeq(ins, a.at, Len(ins)) = <<>> BY <2>1, SubSeqEmpty
  <2> QED BY <2>2, <1>2
<1>4. Len(ins) \in a.at .. Len(ins) BY <1>1, <1>3
<1>5. Head(rest) = ins[a.at] /\ Tail(rest) = SubSeq(ins, a.at + 1, Len(ins))
  BY <1>1, <1>2, <1>3, <1>4, HeadTailOfSubSeq
<1>6. /\ a.ty \in [1 .. Len(ins) + 1 -> Seq(Kinds)]
      /\ \A n \in DOMAIN ins :
           IF ins[n].op \in Ends
           THEN n = Len(ins) /\ ins[n].op = a.x.end /\ a.ty[n] = <<"value">> \o a.base
           ELSE Moves(ins[n], a.ty[n], a.ty[n + 1])
  BY DEF Runs, Balanced
<1>7. a.ty[a.at] \in Seq(Kinds) BY <1>2, <1>6
<1>8. a.at + 1 \in 1 .. Len(ins) + 1 BY <1>1, <1>3
<1> QED BY <1>1, <1>3, <1>5, <1>6, <1>7, <1>8

LEMMA RunsStep ==
  ASSUME NEW a, NEW code, NEW rest, NEW dep, NEW K, Runs(a, code, rest, dep, K), rest # <<>>
  PROVE  Runs(Stepped(a), code, Tail(rest), dep, K)
<1>1. /\ Tail(rest) = SubSeq(code.ins, a.at + 1, Len(code.ins))
      /\ a.at + 1 \in 1 .. Len(code.ins) + 1
  BY RunsNow
<1> QED BY <1>1, SteppedIs DEF Runs

(* Balanced code is balanced above anything else on the stack. *)
LEMMA MovesAbove ==
  ASSUME NEW i, NEW before \in Seq(Kinds), NEW after, Moves(i, before, after),
         NEW base \in Seq(Kinds), Len(Takes(i)) \in Nat, DOMAIN Takes(i) = 1 .. Len(Takes(i)),
         Leaves(i) \in Seq(Kinds)
  PROVE  Moves(i, before \o base, after \o base)
<1> DEFINE n == Len(Takes(i))
           q == before \o base
           l == Leaves(i)
           r == Rest(before, n)
<1>1. n <= Len(before) /\ after = l \o r /\ \A k \in 1 .. n : before[k] = Takes(i)[k]
  BY DEF Moves, Rest
<1>2. Len(before) \in Nat /\ Len(base) \in Nat BY SeqIs
<1>3. /\ q \in Seq(Kinds) /\ Len(q) = Len(before) + Len(base)
      /\ \A k \in 1 .. Len(before) + Len(base) :
           q[k] = IF k <= Len(before) THEN before[k] ELSE base[k - Len(before)]
  BY ConcatProperties
<1>4. n \in 0 .. Len(before) /\ n \in 0 .. Len(q) BY <1>1, <1>2, <1>3
<1>5. /\ r \in Seq(Kinds) /\ Len(r) = Len(before) - n
      /\ \A k \in 1 .. Len(before) - n : r[k] = before[n + k]
  BY <1>4, RestIs
<1>6. /\ Rest(q, n) \in Seq(Kinds) /\ Len(Rest(q, n)) = Len(q) - n
      /\ \A k \in 1 .. Len(q) - n : Rest(q, n)[k] = q[n + k]
  BY <1>3, <1>4, RestIs
<1> HIDE DEF q, n, r, l
<1>7. /\ r \o base \in Seq(Kinds) /\ Len(r \o base) = Len(r) + Len(base)
      /\ \A k \in 1 .. Len(r) + Len(base) :
           (r \o base)[k] = IF k <= Len(r) THEN r[k] ELSE base[k - Len(r)]
  BY <1>5, ConcatProperties
<1>8. Rest(q, n) = r \o base
  <2>1. Len(Rest(q, n)) = Len(r \o base) BY <1>2, <1>3, <1>4, <1>5, <1>6, <1>7
  <2>2. ASSUME NEW k \in 1 .. Len(Rest(q, n)) PROVE Rest(q, n)[k] = (r \o base)[k]
    <3>1. k \in 1 .. Len(q) - n /\ k \in 1 .. Len(r) + Len(base)
      BY <1>2, <1>3, <1>4, <1>5, <1>6, <2>2
    <3>2. n + k \in 1 .. Len(before) + Len(base) /\ n \in Nat BY <3>1, <1>2, <1>3, <1>4
    <3>3. CASE k <= Len(r)
      <4>1. k \in 1 .. Len(before) - n /\ n + k <= Len(before) BY <3>1, <3>2, <3>3, <1>2, <1>5
      <4> QED BY <4>1, <3>1, <3>2, <3>3, <1>3, <1>5, <1>6, <1>7
    <3>4. CASE ~(k <= Len(r))
      <4>1. ~(n + k <= Len(before)) /\ (n + k) - Len(before) = k - Len(r)
        BY <3>1, <3>2, <3>4, <1>2, <1>5
      <4> QED BY <4>1, <3>1, <3>2, <3>4, <1>3, <1>6, <1>7
    <3> QED BY <3>3, <3>4
  <2> QED BY <2>1, <2>2, <1>6, <1>7, SeqEqual
<1>9. after \o base = l \o Rest(q, n)
  <2>1. l \in Seq(Kinds) BY DEF l
  <2> QED BY <2>1, <1>1, <1>5, <1>8, ConcatAssociative
<1>10. Len(q) >= n /\ \A k \in 1 .. n : q[k] = Takes(i)[k]
  <2>1. \A k \in 1 .. n : k \in 1 .. Len(before) + Len(base) /\ k <= Len(before) BY <1>2, <1>4
  <2> QED BY <2>1, <1>1, <1>2, <1>3, <1>4
<1> QED BY <1>9, <1>10 DEF Moves, q, n, l, Rest

LEMMA TakesIs ==
  ASSUME NEW i, i.op = "ARGS" => i.n \in Nat
  PROVE  /\ Len(Takes(i)) \in Nat /\ DOMAIN Takes(i) = 1 .. Len(Takes(i))
         /\ Leaves(i) \in Seq(Kinds)
         /\ i.op \in {"DEF", "SEL", "POP"} => Len(Takes(i)) = 1
         /\ i.op = "ARGS" => Len(Takes(i)) = i.n /\ Leaves(i) = <<"args">>
         /\ i.op = "APP" => Len(Takes(i)) = 2 /\ Takes(i)[1] = "value" /\ Takes(i)[2] = "args"
         /\ i.op \notin {"DEF", "SEL", "POP", "ARGS", "APP"} => Len(Takes(i)) = 0
         /\ i.op = "POP" => Leaves(i) = <<>>
         /\ i.op \notin {"ARGS", "POP"} => Leaves(i) = <<"value">>
<1>1. CASE i.op \in {"DEF", "SEL", "POP"}
  <2>1. Takes(i) = <<"value">> BY <1>1 DEF Takes
  <2>2. i.op = "POP" => Leaves(i) = <<>> BY DEF Leaves
  <2>3. i.op # "POP" => Leaves(i) = <<"value">> BY <1>1 DEF Leaves
  <2>4. <<>> \in Seq(Kinds) /\ <<"value">> \in Seq(Kinds) BY DEF Kinds
  <2>5. Leaves(i) \in Seq(Kinds) BY <2>2, <2>3, <2>4
  <2>6. Len(Takes(i)) = 1 /\ DOMAIN Takes(i) = 1 .. 1 BY <2>1
  <2> QED BY <1>1, <2>2, <2>3, <2>5, <2>6
<1>2. CASE i.op = "ARGS"
  <2>1. Takes(i) = [n \in 1 .. i.n |-> "value"] BY <1>2 DEF Takes
  <2>2. Takes(i) \in [1 .. i.n -> Kinds] /\ i.n \in Nat BY <1>2, <2>1 DEF Kinds
  <2>3. Takes(i) \in Seq(Kinds) /\ DOMAIN Takes(i) = 1 .. i.n BY <2>2
  <2>4. Len(Takes(i)) = i.n BY <2>2, <2>3
  <2> QED BY <1>2, <2>2, <2>3, <2>4 DEF Leaves, Kinds
<1>3. CASE i.op = "APP"
  <2>1. Takes(i) = <<"value", "args">> BY <1>3 DEF Takes
  <2> QED BY <1>3, <2>1 DEF Leaves, Kinds
<1>4. CASE i.op \notin {"DEF", "SEL", "POP", "ARGS", "APP"}
  <2>1. Takes(i) = <<>> BY <1>4 DEF Takes
  <2>2. Leaves(i) = <<"value">> BY <1>4 DEF Leaves
  <2> QED BY <1>4, <2>1, <2>2 DEF Kinds
<1> QED BY <1>1, <1>2, <1>3, <1>4

LEMMA BalancedAbove ==
  ASSUME NEW x \in Codes, NEW base \in Seq(Kinds), NEW ty,
         ty = [n \in 1 .. Len(x.node.ins) + 1 |-> x.shape[n] \o base]
  PROVE  Balanced(x.node.ins, x.end, ty, base) /\ ty[1] = base
<1> DEFINE ins == x.node.ins
           shape == x.shape
<1>1. /\ Len(ins) \in Nat /\ DOMAIN ins = 1 .. Len(ins) /\ Balanced(ins, x.end, shape, <<>>)
      /\ \A n \in DOMAIN ins : Resolved(ins[n], x)
  BY CodeIs
<1>2. /\ shape \in [1 .. Len(ins) + 1 -> Seq(Kinds)] /\ shape[1] = <<>>
      /\ \A n \in DOMAIN ins :
           IF ins[n].op \in Ends
           THEN n = Len(ins) /\ ins[n].op = x.end /\ shape[n] = <<"value">> \o <<>>
           ELSE Moves(ins[n], shape[n], shape[n + 1])
  BY <1>1 DEF Balanced
<1> HIDE DEF ins, shape
<1>3. \A n \in 1 .. Len(ins) + 1 : shape[n] \in Seq(Kinds) /\ ty[n] = shape[n] \o base
  BY <1>2 DEF ins, shape
<1>4. ty = [n \in 1 .. Len(ins) + 1 |-> ty[n]] BY DEF ins
<1>5. \A n \in 1 .. Len(ins) + 1 : ty[n] \in Seq(Kinds) BY <1>3, ConcatProperties
<1>6. ty \in [1 .. Len(ins) + 1 -> Seq(Kinds)] BY <1>4, <1>5
<1>7. ty[1] = base
  <2>1. 1 \in 1 .. Len(ins) + 1 BY <1>1
  <2>2. ty[1] = <<>> \o base BY <2>1, <1>2, <1>3
  <2> QED BY <2>2, ConcatEmptySeq
<1>8. ASSUME NEW n \in DOMAIN ins
      PROVE  IF ins[n].op \in Ends
             THEN n = Len(ins) /\ ins[n].op = x.end /\ ty[n] = <<"value">> \o base
             ELSE Moves(ins[n], ty[n], ty[n + 1])
  <2>1. n \in 1 .. Len(ins) + 1 /\ n + 1 \in 1 .. Len(ins) + 1 BY <1>1
  <2>2. CASE ins[n].op \in Ends
    <3> DEFINE o == <<"value">>
    <3>1. o \in Seq(Kinds) BY DEF Kinds
    <3> HIDE DEF o
    <3>2. o \o <<>> = o BY <3>1, ConcatEmptySeq
    <3>3. shape[n] = o BY <2>2, <1>2, <3>2 DEF o
    <3> QED BY <2>1, <2>2, <3>3, <1>2, <1>3 DEF o
  <2>3. CASE ins[n].op \notin Ends
    <3>1. Moves(ins[n], shape[n], shape[n + 1]) BY <2>3, <1>2
    <3>2. ins[n].op = "ARGS" => ins[n].n \in Nat BY <1>1 DEF Resolved
    <3>3. /\ Len(Takes(ins[n])) \in Nat /\ DOMAIN Takes(ins[n]) = 1 .. Len(Takes(ins[n]))
          /\ Leaves(ins[n]) \in Seq(Kinds)
      BY <3>2, TakesIs
    <3>4. Moves(ins[n], shape[n] \o base, shape[n + 1] \o base)
      BY <2>1, <3>1, <3>3, <1>3, MovesAbove
    <3> QED BY <2>1, <2>3, <3>4, <1>3
  <2> QED BY <2>2, <2>3
<1> QED BY <1>6, <1>7, <1>8 DEF Balanced, ins

(* The beginning of a code node. *)
Started(x, en, base) ==
  [x |-> x, ty |-> [n \in 1 .. Len(x.node.ins) + 1 |-> x.shape[n] \o base],
   at |-> 1, env |-> en, base |-> base]

Begins(a, x, en, base, dep, K) ==
  Runs(a, x.node, x.node.ins, dep, K) /\ a.ty[a.at] = base /\ a.x = x /\ a.env = en /\ a.base = base

LEMMA RunsStart ==
  ASSUME NEW x \in Codes, NEW base \in Seq(Kinds), NEW en, NEW dep, NEW K, x.node.consts \subseteq K,
         en \in DOMAIN dep, x.depth <= dep[en]
  PROVE  Begins(Started(x, en, base), x, en, base, dep, K)
<1> DEFINE ty == [n \in 1 .. Len(x.node.ins) + 1 |-> x.shape[n] \o base]
<1>1. PICK a : a = Started(x, en, base) OBVIOUS
<1>2. a.x = x /\ a.ty = ty /\ a.at = 1 /\ a.env = en /\ a.base = base BY <1>1 DEF Started
<1>3. Balanced(x.node.ins, x.end, ty, base) /\ ty[1] = base BY BalancedAbove
<1>4. /\ x.node.ins \in Seq(Instructions) /\ Len(x.node.ins) \in Nat BY CodeIs
<1>5. x.node.ins = SubSeq(x.node.ins, 1, Len(x.node.ins)) BY <1>4, SubSeqFull
<1>6. 1 \in 1 .. Len(x.node.ins) + 1 BY <1>4
<1> HIDE DEF ty
<1>7. Runs(a, x.node, x.node.ins, dep, K) BY <1>2, <1>3, <1>5, <1>6 DEF Runs
<1>8. Begins(a, x, en, base, dep, K) BY <1>2, <1>3, <1>7 DEF Begins
<1> QED BY <1>1, <1>8

-----------------------------------------------------------------------------
(* The dump.  A[1] is the current activation; below each entry n of the    *)
(* dump is the activation A[n + 1] that goes on when A[n] ends.            *)

Link(a, b, f, hp, dep, K) ==
  /\ f.env \in DOMAIN dep /\ IsSeq(f.stack)
  /\ Runs(b, f.code, f.pc, dep, K)
  /\ \/ a.x.end = "JOIN" /\ f.stack = <<>> /\ b.env = a.env /\ b.ty[b.at] = <<"value">> \o a.base
     \/ /\ a.x.end = "RTN" /\ a.base = <<>> /\ f.env = b.env
        /\ \E t \in Seq(Kinds) : b.ty[b.at] = <<"value">> \o t /\ Typed(f.stack, t, hp)
Chain(A, dd, hp, dep, K) ==
  /\ IsSeq(dd)
  /\ \A n \in DOMAIN dd : Link(A[n], A[n + 1], dd[n], hp, dep, K)
  /\ A[Len(dd) + 1].x.end = "STOP" /\ A[Len(dd) + 1].base = <<>>

(* Links do not depend on how far the upper activation has come. *)
LEMMA ChainFirst ==
  ASSUME NEW A, NEW dd, NEW hp, NEW dep, NEW K, Chain(A, dd, hp, dep, K),
         NEW a, a.x = A[1].x, a.env = A[1].env, a.base = A[1].base,
         NEW B, B[1] = a, \A n \in 2 .. Len(dd) + 1 : B[n] = A[n]
  PROVE  Chain(B, dd, hp, dep, K)
<1>1. IsSeq(dd) /\ Len(dd) \in Nat /\ DOMAIN dd = 1 .. Len(dd)
  <2>1. IsSeq(dd) BY DEF Chain
  <2> QED BY <2>1, SeqIs DEF IsSeq
<1>2. ASSUME NEW n \in DOMAIN dd PROVE Link(B[n], B[n + 1], dd[n], hp, dep, K)
  <2>1. n + 1 \in 2 .. Len(dd) + 1 /\ B[n + 1] = A[n + 1] BY <1>1
  <2>2. B[n].x = A[n].x /\ B[n].env = A[n].env /\ B[n].base = A[n].base
    <3>1. CASE n = 1 BY <3>1
    <3>2. CASE n # 1
      <4>1. n \in 2 .. Len(dd) + 1 BY <3>2, <1>1
      <4> QED BY <4>1
    <3> QED BY <3>1, <3>2
  <2>3. Link(A[n], A[n + 1], dd[n], hp, dep, K) BY DEF Chain
  <2> QED BY <2>1, <2>2, <2>3 DEF Link
<1>3. B[Len(dd) + 1].x.end = "STOP" /\ B[Len(dd) + 1].base = <<>>
  <2>1. A[Len(dd) + 1].x.end = "STOP" /\ A[Len(dd) + 1].base = <<>> BY DEF Chain
  <2>2. CASE Len(dd) = 0
    <3>1. Len(dd) + 1 = 1 BY <2>2
    <3> QED BY <2>1, <3>1
  <2>3. CASE Len(dd) # 0
    <3>1. Len(dd) + 1 \in 2 .. Len(dd) + 1 BY <2>3, <1>1
    <3> QED BY <2>1, <3>1
  <2> QED BY <2>2, <2>3
<1> QED BY <1>1, <1>2, <1>3 DEF Chain

LEMMA ChainPush ==
  ASSUME NEW A, NEW dd, NEW hp, NEW dep, NEW K, Chain(A, dd, hp, dep, K),
         NEW a, NEW f, Link(a, A[1], f, hp, dep, K),
         NEW B, B[1] = a, \A n \in 2 .. Len(dd) + 2 : B[n] = A[n - 1]
  PROVE  Chain(B, <<f>> \o dd, hp, dep, K)
<1> DEFINE S == Elems(dd) \cup {f}
           q == <<f>> \o dd
<1>1. dd \in Seq(Elems(dd)) BY DEF Chain, IsSeq
<1>2. f \in S /\ dd \in Seq(S) BY <1>1, SeqMonotonic
<1>3. Len(dd) \in Nat /\ DOMAIN dd = 1 .. Len(dd) BY <1>2, SeqIs
<1>4. /\ q \in Seq(S) /\ Len(q) = Len(dd) + 1 /\ q[1] = f
      /\ \A n \in 2 .. Len(dd) + 1 : q[n] = dd[n - 1]
  BY <1>2, Cons
<1> HIDE DEF q, S
<1>5. IsSeq(q) /\ DOMAIN q = 1 .. Len(dd) + 1 BY <1>4, SeqIs
<1>6. ASSUME NEW n \in DOMAIN q PROVE Link(B[n], B[n + 1], q[n], hp, dep, K)
  <2>1. n \in 1 .. Len(dd) + 1 BY <1>5
  <2>2. n + 1 \in 2 .. Len(dd) + 2 /\ (n + 1) - 1 = n BY <2>1, <1>3
  <2>3. B[n + 1] = A[n] BY <2>2
  <2>4. CASE n = 1 BY <2>3, <2>4, <1>4
  <2>5. CASE n # 1
    <3>1. n \in 2 .. Len(dd) + 2 /\ n \in 2 .. Len(dd) + 1 /\ n - 1 \in DOMAIN dd /\ (n - 1) + 1 = n
      BY <2>1, <2>5, <1>3
    <3>2. B[n] = A[n - 1] /\ q[n] = dd[n - 1] BY <3>1, <1>4
    <3>3. Link(A[n - 1], A[(n - 1) + 1], dd[n - 1], hp, dep, K) BY <3>1 DEF Chain
    <3> QED BY <2>3, <3>1, <3>2, <3>3
  <2> QED BY <2>4, <2>5
<1>7. B[Len(q) + 1].x.end = "STOP" /\ B[Len(q) + 1].base = <<>>
  <2>1. Len(q) + 1 \in 2 .. Len(dd) + 2 /\ (Len(q) + 1) - 1 = Len(dd) + 1 BY <1>3, <1>4
  <2>2. B[Len(q) + 1] = A[Len(dd) + 1] BY <2>1
  <2> QED BY <2>2 DEF Chain
<1>8. Chain(B, q, hp, dep, K) BY <1>5, <1>6, <1>7 DEF Chain
<1> QED BY <1>8 DEF q

LEMMA ChainPop ==
  ASSUME NEW A, NEW dd, NEW hp, NEW dep, NEW K, Chain(A, dd, hp, dep, K), dd # <<>>,
         NEW B, \A n \in 1 .. Len(dd) : B[n] = A[n + 1]
  PROVE  /\ Chain(B, Tail(dd), hp, dep, K) /\ B[1] = A[2]
         /\ Link(A[1], A[2], Head(dd), hp, dep, K)
<1> DEFINE S == Elems(dd)
           q == Tail(dd)
<1>1. dd \in Seq(S) BY DEF Chain, IsSeq
<1>2. Len(dd) \in Nat \ {0} /\ DOMAIN dd = 1 .. Len(dd)
  <2>1. Len(dd) \in Nat /\ DOMAIN dd = 1 .. Len(dd) BY <1>1, SeqIs
  <2>2. Len(dd) # 0 BY <1>1, EmptySeq
  <2> QED BY <2>1, <2>2
<1>3. q \in Seq(S) /\ Len(q) = Len(dd) - 1 /\ \A n \in 1 .. Len(q) : q[n] = dd[n + 1]
  BY <1>1, HeadTailProperties
<1>4. Head(dd) = dd[1] BY <1>1, <1>2
<1> HIDE DEF q, S
<1>5. IsSeq(q) /\ DOMAIN q = 1 .. Len(dd) - 1 BY <1>3, SeqIs
<1>6. ASSUME NEW n \in DOMAIN q PROVE Link(B[n], B[n + 1], q[n], hp, dep, K)
  <2>1. n \in 1 .. Len(dd) /\ n + 1 \in 1 .. Len(dd) /\ n \in 1 .. Len(q) BY <1>2, <1>3, <1>5
  <2>2. B[n] = A[n + 1] /\ B[n + 1] = A[(n + 1) + 1] /\ q[n] = dd[n + 1] BY <2>1, <1>3
  <2>3. Link(A[n + 1], A[(n + 1) + 1], dd[n + 1], hp, dep, K) BY <2>1, <1>2 DEF Chain
  <2> QED BY <2>2, <2>3
<1>7. B[Len(q) + 1].x.end = "STOP" /\ B[Len(q) + 1].base = <<>>
  <2>1. Len(q) + 1 = Len(dd) /\ Len(dd) \in 1 .. Len(dd) BY <1>2, <1>3
  <2>2. B[Len(q) + 1] = A[Len(dd) + 1] BY <2>1
  <2> QED BY <2>2 DEF Chain
<1>8. Chain(B, q, hp, dep, K) BY <1>5, <1>6, <1>7 DEF Chain
<1>9. 1 \in DOMAIN dd /\ 1 \in 1 .. Len(dd) /\ 1 + 1 = 2 BY <1>2
<1>10. Link(A[1], A[2], dd[1], hp, dep, K)
  <2>1. Link(A[1], A[1 + 1], dd[1], hp, dep, K) BY <1>9 DEF Chain
  <2> QED BY <2>1, <1>9
<1>11. B[1] = A[2] BY <1>9
<1> QED BY <1>4, <1>8, <1>10, <1>11 DEF q

(* The frames of the dump are those of all activations. *)
LEMMA ChainEnvs ==
  ASSUME NEW A, NEW dd, NEW hp, NEW dep, NEW K, Chain(A, dd, hp, dep, K), NEW F, A[1].env \in F,
         \A n \in DOMAIN dd : dd[n].env \in F
  PROVE  \A n \in 1 .. Len(dd) + 1 : A[n].env \in F
<1> DEFINE S == {n \in Nat : n + 1 <= Len(dd) + 1 => A[n + 1].env \in F}
<1>1. Len(dd) \in Nat /\ DOMAIN dd = 1 .. Len(dd)
  <2>1. dd \in Seq(Elems(dd)) BY DEF Chain, IsSeq
  <2> QED BY <2>1, SeqIs
<1>2. 0 \in S OBVIOUS
<1>3. ASSUME NEW n \in Nat, n \in S PROVE n + 1 \in S
  <2> SUFFICES ASSUME (n + 1) + 1 <= Len(dd) + 1 PROVE A[(n + 1) + 1].env \in F OBVIOUS
  <2>1. n + 1 \in DOMAIN dd /\ n + 1 <= Len(dd) + 1 BY <1>1
  <2>2. Link(A[n + 1], A[(n + 1) + 1], dd[n + 1], hp, dep, K) BY <2>1 DEF Chain
  <2>3. A[n + 1].env \in F /\ dd[n + 1].env \in F BY <2>1, <1>3
  <2> QED BY <2>2, <2>3 DEF Link
<1> HIDE DEF S
<1>4. Nat \subseteq S BY <1>2, <1>3, NatInd
<1>5. ASSUME NEW n \in 1 .. Len(dd) + 1 PROVE A[n].env \in F
  <2>1. n - 1 \in Nat /\ (n - 1) + 1 = n /\ n <= Len(dd) + 1 BY <1>1
  <2>2. n - 1 \in S BY <2>1, <1>4
  <2> QED BY <2>1, <2>2 DEF S
<1> QED BY <1>5

(* An allocation, a frame or a store leaves activations and dump as they   *)
(* were, if it keeps what they hold.                                       *)
LEMMA RunsKept ==
  ASSUME NEW a, NEW code, NEW rest, NEW dep, NEW K, Runs(a, code, rest, dep, K),
         NEW O, NEW F, NEW C, NEW hp, NEW hq, NEW de, NEW lq,
         Carries(O, F, C, hp, hq, dep, de, lq), a.env \in F, code.consts \subseteq C
  PROVE  Runs(a, code, rest, de, DOMAIN lq)
  BY DEF Runs, Carries

(* What the dump holds is among the items the step keeps. *)
Dumped(dd, O, F, C) ==
  \A n \in DOMAIN dd :
    /\ dd[n].env \in F /\ dd[n].code.consts \subseteq C
    /\ \A m \in DOMAIN dd[n].stack : Inside(dd[n].stack[m], O)

LEMMA ChainKept ==
  ASSUME NEW A, NEW dd, NEW hp, NEW dep, NEW K, Chain(A, dd, hp, dep, K),
         NEW O, NEW F, NEW C, NEW hq, NEW de, NEW lq,
         Carries(O, F, C, hp, hq, dep, de, lq), A[1].env \in F, Dumped(dd, O, F, C)
  PROVE  Chain(A, dd, hq, de, DOMAIN lq)
<1>1. \A n \in DOMAIN dd : dd[n].env \in F BY DEF Dumped
<1>2. \A n \in 1 .. Len(dd) + 1 : A[n].env \in F BY <1>1, ChainEnvs
<1>3. Len(dd) \in Nat /\ DOMAIN dd = 1 .. Len(dd)
  <2>1. dd \in Seq(Elems(dd)) BY DEF Chain, IsSeq
  <2> QED BY <2>1, SeqIs
<1>4. ASSUME NEW n \in DOMAIN dd PROVE Link(A[n], A[n + 1], dd[n], hq, de, DOMAIN lq)
  <2> DEFINE a == A[n]
             b == A[n + 1]
             f == dd[n]
  <2>1. Link(a, b, f, hp, dep, K) BY DEF Chain
  <2>2. b.env \in F
    <3>1. n + 1 \in 1 .. Len(dd) + 1 BY <1>3
    <3> QED BY <3>1, <1>2
  <2>3. /\ f.env \in F /\ f.code.consts \subseteq C /\ \A m \in DOMAIN f.stack : Inside(f.stack[m], O)
    BY DEF Dumped
  <2> HIDE DEF a, b, f
  <2>4. Runs(b, f.code, f.pc, de, DOMAIN lq) BY <2>1, <2>2, <2>3, RunsKept DEF Link
  <2>5. f.env \in DOMAIN de /\ Keeps(O, hp, hq) BY <2>3 DEF Carries
  <2>6. \A t : Typed(f.stack, t, hp) => Typed(f.stack, t, hq) BY <2>3, <2>5, TypedKept
  <2>7. Link(a, b, f, hq, de, DOMAIN lq) BY <2>1, <2>4, <2>5, <2>6 DEF Link
  <2> QED BY <2>7 DEF a, b, f
<1> QED BY <1>4 DEF Chain

-----------------------------------------------------------------------------
(* The invariant.                                                          *)

Usables == Usable(heap)
Idle ==
  /\ s = <<>> /\ e = 0 /\ c = NoCode /\ pc = <<>> /\ d = <<>>
  /\ args = NoArgs /\ local = NoLocal /\ status # "run"

(* While INST_ARGS runs, left of the arguments it takes are on the stack.  *)
Holding(a, st, ar, ins, hp) ==
  IF ar.on
  THEN /\ a.at \in DOMAIN ins /\ ins[a.at].op = "ARGS" /\ ar.left \in 0 .. ins[a.at].n
       /\ Typed(st, Rest(a.ty[a.at], ins[a.at].n - ar.left), hp)
       /\ ArgList(ar.list, hp)
       /\ ar = [on |-> TRUE, left |-> ar.left, list |-> ar.list]
  ELSE ar = NoArgs /\ Typed(st, a.ty[a.at], hp)

Busy(A, dep) ==
  /\ Runs(A[1], c, pc, dep, DOMAIN lits) /\ A[1].env = e
  /\ Holding(A[1], s, args, c.ins, heap)
  /\ Chain(A, d, heap, dep, DOMAIN lits)
  /\ status # "idle"

Globals == \A x \in DOMAIN genv : Good(genv[x], Usables)
LocalsGood == Good(local.proc, Usables) /\ Good(local.list, Usables)

Intact ==
  \E dep : /\ Sound(heap, frames, lits, dep)
           /\ Globals /\ LocalsGood
           /\ Idle \/ \E A : Busy(A, dep)
(* A step that loses a reference ends the program. *)
Broken == status = "undefined" /\ TypeOK /\ ErrorsNeverStored
Counters ==
  /\ input \in Seq(Lines) /\ gcs \in Nat
  /\ roots \in [proc : Nat, list : Nat, dead : Nat]
  /\ status \in {"idle", "run", "exit", "crash", "undefined"}
  /\ result.kind \in {"none", "value", "error"}

VMInv == Counters /\ (Intact \/ Broken)

LEMMA ItemsUsable ==
  ASSUME NEW v, Good(v, Usables)
  PROVE  /\ DOMAIN heap \subseteq 1 .. MaxObj => Values(v)
         /\ Items(v) \subseteq {[obj |-> i] : i \in Usables}
         /\ Items(v) \subseteq AllItems
<1>1. Items(v) \subseteq AllItems BY ItemsAll DEF Usables
<1>2. CASE Const(v)
  <2>1. ~IsRef(v) BY <1>2, Statics
  <2>2. Items(v) = {} BY <2>1 DEF Items
  <2>3. Values(v) BY <1>2 DEF Values, Const, Static
  <2> QED BY <2>2, <2>3, <1>1
<1>3. CASE \E i \in Usables : v = [obj |-> i]
  <2>1. PICK i \in Usables : v = [obj |-> i] BY <1>3
  <2>2. IsRef(v) /\ v.obj = i BY <2>1, Statics, Refs
  <2>3. Items(v) = {v} BY <2>2 DEF Items
  <2>4. i \in DOMAIN heap BY DEF Usables, Usable
  <2> QED BY <2>1, <2>2, <2>3, <2>4, <1>1 DEF Values
<1> QED BY <1>2, <1>3 DEF Good

(* All that the roots hold is there. *)
AllGood(st) == IsSeq(st) /\ \A n \in DOMAIN st : Good(st[n], Usables)
Sane ==
  /\ Globals /\ LocalsGood /\ AllGood(s)
  /\ e = 0 \/ e \in DOMAIN frames
  /\ c.consts \subseteq DOMAIN lits
  /\ IsSeq(d)
  /\ \A n \in DOMAIN d : /\ d[n].env \in DOMAIN frames /\ d[n].code.consts \subseteq DOMAIN lits
                         /\ AllGood(d[n].stack)
  /\ args.on => Good(args.list, Usables)

LEMMA TypedGood ==
  ASSUME NEW st, NEW ty, Typed(st, ty, heap)
  PROVE  AllGood(st)
  BY DEF Typed, TypedValue, AllGood, Usables

LEMMA EmptyIs == IsSeq(<<>>) /\ DOMAIN <<>> = {} /\ Len(<<>>) = 0
<1>1. <<>> \in Seq(Elems(<<>>)) OBVIOUS
<1>2. Len(<<>>) = 0 /\ DOMAIN <<>> = 1 .. 0 OBVIOUS
<1> QED BY <1>1, <1>2 DEF IsSeq

LEMMA BusySane ==
  ASSUME NEW dep, Sound(heap, frames, lits, dep), Globals, LocalsGood, NEW A, Busy(A, dep)
  PROVE  Sane /\ e \in DOMAIN dep /\ DOMAIN dep = DOMAIN frames
<1>1. DOMAIN dep = DOMAIN frames BY DEF Sound
<1>2. e \in DOMAIN frames /\ c.consts \subseteq DOMAIN lits BY <1>1 DEF Busy, Runs
<1>3. AllGood(s) BY TypedGood DEF Busy, Holding
<1>4. IsSeq(d) BY DEF Busy, Chain
<1>5. ASSUME NEW n \in DOMAIN d
      PROVE  /\ d[n].env \in DOMAIN frames /\ d[n].code.consts \subseteq DOMAIN lits
             /\ AllGood(d[n].stack)
  <2>1. Link(A[n], A[n + 1], d[n], heap, dep, DOMAIN lits) BY DEF Busy, Chain
  <2>2. d[n].env \in DOMAIN frames /\ d[n].code.consts \subseteq DOMAIN lits
    BY <2>1, <1>1 DEF Link, Runs
  <2>3. d[n].stack = <<>> => AllGood(d[n].stack) BY EmptyIs DEF AllGood
  <2>4. (\E t : Typed(d[n].stack, t, heap)) => AllGood(d[n].stack) BY TypedGood
  <2> QED BY <2>1, <2>2, <2>3, <2>4 DEF Link
<1>6. args.on => Good(args.list, Usables) BY ListIsGood DEF Busy, Holding, Usables
<1> QED BY <1>1, <1>2, <1>3, <1>4, <1>5, <1>6 DEF Sane

LEMMA IdleSane ==
  ASSUME Globals, LocalsGood, Idle
  PROVE  Sane
<1>1. c.consts = {} BY DEF Idle, NoCode
<1>2. ~args.on BY DEF Idle, NoArgs
<1> QED BY <1>1, <1>2, EmptyIs DEF Idle, Sane, AllGood

LEMMA RootsInside ==
  ASSUME Sane
  PROVE  /\ GlobalItems \subseteq AllItems
         /\ \A st : AllGood(st) => VMItems(st) \subseteq AllItems
         /\ \A p, l : Good(p, Usables) /\ Good(l, Usables) => LocalItems(p, l) \subseteq AllItems
<1>1. \A v : Good(v, Usables) => Items(v) \subseteq AllItems BY ItemsUsable
<1>2. GlobalItems \subseteq AllItems BY <1>1 DEF Sane, Globals, GlobalItems
<1>3. \A st : AllGood(st) => StackItems(st) \subseteq AllItems BY <1>1 DEF AllGood, StackItems
<1>4. \A f : f = 0 \/ f \in DOMAIN frames => FrameItem(f) \subseteq AllItems BY DEF FrameItem, AllItems
<1>5. \A code : code.consts \subseteq DOMAIN lits => ConstItems(code) \subseteq AllItems
  BY DEF ConstItems, AllItems
<1>6. ASSUME NEW st, AllGood(st) PROVE VMItems(st) \subseteq AllItems
  <2>1. StackItems(st) \subseteq AllItems BY <1>3, <1>6
  <2>2. FrameItem(e) \subseteq AllItems /\ ConstItems(c) \subseteq AllItems BY <1>4, <1>5 DEF Sane
  <2>3. \A n \in DOMAIN d : /\ StackItems(d[n].stack) \subseteq AllItems
                           /\ FrameItem(d[n].env) \subseteq AllItems
                           /\ ConstItems(d[n].code) \subseteq AllItems
    BY <1>3, <1>4, <1>5 DEF Sane
  <2> QED BY <2>1, <2>2, <2>3 DEF VMItems
<1>7. ASSUME NEW p, NEW l, Good(p, Usables), Good(l, Usables) PROVE LocalItems(p, l) \subseteq AllItems
  <2>1. Items(p) \subseteq AllItems /\ Items(l) \subseteq AllItems BY <1>1, <1>7
  <2>2. args.on => Items(args.list) \subseteq AllItems BY <1>1 DEF Sane
  <2> QED BY <2>1, <2>2 DEF LocalItems
<1> QED BY <1>2, <1>6, <1>7

(* No value anywhere is an error object. *)
Harmless(v) == \A i \in DOMAIN heap : heap[i].tag = "ERROR" => v # [obj |-> i]
Clean ==
  /\ \A x \in DOMAIN genv : Harmless(genv[x])
  /\ \A n \in DOMAIN s : Harmless(s[n])
  /\ \A n \in DOMAIN d : \A m \in DOMAIN d[n].stack : Harmless(d[n].stack[m])
  /\ \A f \in DOMAIN frames : Harmless(frames[f].vars)
  /\ \A k \in DOMAIN lits : Harmless(lits[k])
  /\ \A i \in DOMAIN heap :
       /\ heap[i].tag = "CELL" => Harmless(heap[i].car) /\ Harmless(heap[i].cdr)
       /\ heap[i].tag = "VECTOR" => \A n \in DOMAIN heap[i].elems : Harmless(heap[i].elems[n])

LEMMA CleanIs == Clean => ErrorsNeverStored
<1> SUFFICES ASSUME Clean PROVE ErrorsNeverStored OBVIOUS
<1> DEFINE errors == {[obj |-> i] : i \in {j \in DOMAIN heap : heap[j].tag = "ERROR"}}
           Free(S) == S \cap errors = {}
<1>1. \A v : Harmless(v) => Free(Items(v)) BY DEF Harmless, Items
<1>2. \A f : Free(FrameItem(f)) BY ItemKinds DEF FrameItem
<1>3. \A code : Free(ConstItems(code)) BY ItemKinds DEF ConstItems
<1>4. \A S, T : Free(S) /\ Free(T) => Free(S \cup T) OBVIOUS
<1>5. \A st : (\A n \in DOMAIN st : Harmless(st[n])) => Free(StackItems(st)) BY <1>1 DEF StackItems
<1>6. Free(GlobalItems) BY <1>1 DEF Clean, GlobalItems
<1> HIDE DEF Free
<1>7. Free(VMItems(s))
  <2>1. Free(StackItems(s) \cup FrameItem(e) \cup ConstItems(c)) BY <1>2, <1>3, <1>4, <1>5 DEF Clean
  <2>2. \A n \in DOMAIN d : Free(StackItems(d[n].stack) \cup FrameItem(d[n].env) \cup ConstItems(d[n].code))
    BY <1>2, <1>3, <1>4, <1>5 DEF Clean
  <2>3. Free(UNION {StackItems(d[n].stack) \cup FrameItem(d[n].env) \cup ConstItems(d[n].code)
                      : n \in DOMAIN d})
    BY <2>2 DEF Free
  <2> QED BY <2>1, <2>3, <1>4 DEF VMItems
<1>8. ASSUME NEW x \in AllItems PROVE Free(Reached(x))
  <2>1. Free({}) BY DEF Free
  <2>2. CASE \E i \in DOMAIN heap : x = [obj |-> i]
    <3>1. PICK i \in DOMAIN heap : x = [obj |-> i] BY <2>2
    <3> DEFINE o == heap[i]
    <3>2. CASE o.tag = "CELL"
      <4>1. Reached(x) = Items(o.car) \cup Items(o.cdr) BY <3>1, <3>2, ReachedOf
      <4> QED BY <4>1, <3>2, <1>1, <1>4 DEF Clean
    <3>3. CASE o.tag = "CLOSURE"
      <4>1. Reached(x) = FrameItem(o.env) \cup ConstItems(o.code) BY <3>1, <3>3, ReachedOf
      <4> QED BY <4>1, <1>2, <1>3, <1>4
    <3>4. CASE o.tag = "VECTOR"
      <4>1. Reached(x) = UNION {Items(v) : v \in Elems(o.elems)} BY <3>1, <3>4, ReachedOf
      <4>2. \A v \in Elems(o.elems) : Free(Items(v)) BY <3>4, <1>1 DEF Clean, Elems
      <4> QED BY <4>1, <4>2 DEF Free
    <3>5. CASE o.tag \notin {"CELL", "CLOSURE", "VECTOR"} BY <3>1, <3>5, <2>1, ReachedOf
    <3> QED BY <3>2, <3>3, <3>4, <3>5
  <2>3. CASE \E f \in DOMAIN frames : x = [frame |-> f]
    <3>1. PICK f \in DOMAIN frames : x = [frame |-> f] BY <2>3
    <3>2. Free(FrameItem(frames[f].next)) /\ Free(Items(frames[f].vars)) BY <1>1, <1>2 DEF Clean
    <3> QED BY <3>1, <3>2, <1>4, ReachedOf
  <2>4. CASE \E k \in DOMAIN lits : x = [lit |-> k]
    <3>1. PICK k \in DOMAIN lits : x = [lit |-> k] BY <2>4
    <3> QED BY <3>1, <1>1, ReachedOf DEF Clean
  <2> QED BY <2>2, <2>3, <2>4 DEF AllItems
<1>9. Free(UNION {Reached(x) : x \in AllItems}) BY <1>8 DEF Free
<1>10. Free(GlobalItems \cup VMItems(s) \cup UNION {Reached(x) : x \in AllItems})
  BY <1>4, <1>6, <1>7, <1>9
<1> QED BY <1>10 DEF ErrorsNeverStored, Free

(* What the invariant says of the properties. *)
LEMMA IntactIs ==
  ASSUME NEW dep, Sound(heap, frames, lits, dep), Sane, Counters
  PROVE  TypeOK /\ RefsValid /\ ErrorsNeverStored
<1>1. \A v : Good(v, Usables) => /\ Values(v)
                                /\ Items(v) \subseteq {[obj |-> i] : i \in Usables}
  BY ItemsUsable DEF Sound
<1>2. ASSUME NEW f \in DOMAIN frames
      PROVE  Good(frames[f].vars, Usables) /\ frames[f].next \in Nat
  <2>1. FrameOK(f, heap, frames, dep) BY DEF Sound
  <2>2. Good(frames[f].vars, Usables) BY <2>1, ListIsGood DEF FrameOK, Usables
  <2>3. frames[f].next \in Nat BY <2>1 DEF FrameOK, Sound
  <2> QED BY <2>2, <2>3
<1>3. \A k \in DOMAIN lits : Good(lits[k], Usables) BY DEF Sound, Usables
<1>4. TypeOK
  <2>1. DOMAIN heap \subseteq 1 .. MaxObj BY DEF Sound
  <2>2. \A n \in DOMAIN s : Values(s[n]) BY <1>1 DEF Sane, AllGood
  <2>3. \A x \in DOMAIN genv : Values(genv[x]) BY <1>1 DEF Sane, Globals
  <2>4. e \in Nat BY DEF Sane, Sound
  <2>5. /\ gcs \in Nat /\ status \in {"idle", "run", "exit", "crash", "undefined"}
        /\ result.kind \in {"none", "value", "error"}
        /\ roots.proc \in Nat /\ roots.list \in Nat /\ roots.dead \in Nat
    BY DEF Counters
  <2> QED BY <2>1, <2>2, <2>3, <2>4, <2>5, <1>1, <1>2, <1>3 DEF TypeOK
<1>5. RefsValid
  <2>1. ClosedItems(AllItems) BY AllClosed
  <2>2. GlobalItems \subseteq AllItems /\ VMItems(s) \subseteq AllItems BY RootsInside DEF Sane
  <2>3. LocalItems(local.proc, local.list) \subseteq AllItems BY RootsInside DEF Sane, LocalsGood
  <2> QED BY <2>1, <2>2, <2>3 DEF RefsValid, ClosedItems
<1>6. ErrorsNeverStored
  <2>1. \A v : Good(v, Usables) => Harmless(v)
    BY Refs, Statics DEF Good, Usables, Usable, Harmless
  <2>2. ASSUME NEW i \in DOMAIN heap
        PROVE  /\ heap[i].tag = "CELL" => Harmless(heap[i].car) /\ Harmless(heap[i].cdr)
               /\ heap[i].tag = "VECTOR" => \A n \in DOMAIN heap[i].elems : Harmless(heap[i].elems[n])
    <3>1. ObjectOK(heap[i], Usables, dep, DOMAIN lits) BY DEF Sound, Usables
    <3> QED BY <3>1, <2>1 DEF ObjectOK
  <2>3. Clean BY <2>1, <2>2, <1>2, <1>3 DEF Clean, Sane, Globals, AllGood
  <2> QED BY <2>3, CleanIs
<1> QED BY <1>4, <1>5, <1>6

-----------------------------------------------------------------------------
(* Steps.                                                                  *)

(* What a collection that follows the globals and the machine keeps. *)
LEMMA RootsKept ==
  ASSUME NEW dep, Sound(heap, frames, lits, dep), Sane, NEW L, L \subseteq AllItems
  PROVE  /\ GlobalItems \subseteq L => \A x \in DOMAIN genv : Inside(genv[x], ObjsOf(L))
         /\ \A st : AllGood(st) /\ VMItems(st) \subseteq L =>
              /\ \A n \in DOMAIN st : Inside(st[n], ObjsOf(L))
              /\ e # 0 => e \in FramesOf(L)
              /\ c.consts \subseteq LitsOf(L)
              /\ Dumped(d, ObjsOf(L), FramesOf(L), LitsOf(L))
<1>1. \A v : Good(v, Usables) /\ Items(v) \subseteq L => Inside(v, ObjsOf(L))
  BY ItemsInside DEF Usables
<1>2. 0 \notin DOMAIN frames BY DEF Sound
<1>3. \A f \in DOMAIN frames : FrameItem(f) \subseteq L => f \in FramesOf(L)
  BY <1>2 DEF FrameItem, FramesOf
<1>4. \A code : code.consts \subseteq DOMAIN lits /\ ConstItems(code) \subseteq L => code.consts \subseteq LitsOf(L)
  BY DEF ConstItems, LitsOf
<1>5. \A st : AllGood(st) /\ StackItems(st) \subseteq L => \A n \in DOMAIN st : Inside(st[n], ObjsOf(L))
  BY <1>1 DEF AllGood, StackItems
<1>6. ASSUME GlobalItems \subseteq L PROVE \A x \in DOMAIN genv : Inside(genv[x], ObjsOf(L))
  BY <1>1, <1>6 DEF Sane, Globals, GlobalItems
<1>7. ASSUME NEW st, AllGood(st), VMItems(st) \subseteq L
      PROVE  /\ \A n \in DOMAIN st : Inside(st[n], ObjsOf(L))
             /\ e # 0 => e \in FramesOf(L)
             /\ c.consts \subseteq LitsOf(L)
             /\ Dumped(d, ObjsOf(L), FramesOf(L), LitsOf(L))
  <2>1. StackItems(st) \subseteq L /\ FrameItem(e) \subseteq L /\ ConstItems(c) \subseteq L
    BY <1>7 DEF VMItems
  <2>2. \A n \in DOMAIN d : /\ StackItems(d[n].stack) \subseteq L /\ FrameItem(d[n].env) \subseteq L
                            /\ ConstItems(d[n].code) \subseteq L
    BY <1>7 DEF VMItems
  <2>3. \A n \in DOMAIN st : Inside(st[n], ObjsOf(L)) BY <2>1, <1>5, <1>7
  <2>4. e # 0 => e \in FramesOf(L) BY <2>1, <1>3 DEF Sane
  <2>5. c.consts \subseteq LitsOf(L) BY <2>1, <1>4 DEF Sane
  <2>6. ASSUME NEW n \in DOMAIN d
        PROVE  /\ d[n].env \in FramesOf(L) /\ d[n].code.consts \subseteq LitsOf(L)
               /\ \A m \in DOMAIN d[n].stack : Inside(d[n].stack[m], ObjsOf(L))
    <3>1. /\ d[n].env \in DOMAIN frames /\ d[n].code.consts \subseteq DOMAIN lits
          /\ AllGood(d[n].stack)
      BY DEF Sane
    <3> QED BY <3>1, <2>2, <1>3, <1>4, <1>5
  <2>7. Dumped(d, ObjsOf(L), FramesOf(L), LitsOf(L)) BY <2>6 DEF Dumped
  <2> QED BY <2>3, <2>4, <2>5, <2>7
<1> QED BY <1>6, <1>7

(* Without a collection everything is kept. *)
LEMMA AllKept ==
  ASSUME NEW dep, Sound(heap, frames, lits, dep), Sane
  PROVE  /\ \A x \in DOMAIN genv : Inside(genv[x], DOMAIN heap)
         /\ \A n \in DOMAIN s : Inside(s[n], DOMAIN heap)
         /\ Inside(local.proc, DOMAIN heap) /\ Inside(local.list, DOMAIN heap)
         /\ args.on => Inside(args.list, DOMAIN heap)
         /\ Dumped(d, DOMAIN heap, DOMAIN frames, DOMAIN lits)
         /\ Carries(DOMAIN heap, DOMAIN frames, DOMAIN lits, heap, heap, dep, dep, lits)
<1>1. GlobalItems \subseteq AllItems /\ VMItems(s) \subseteq AllItems /\ AllGood(s)
  BY RootsInside DEF Sane
<1>2. /\ \A x \in DOMAIN genv : Inside(genv[x], DOMAIN heap)
      /\ \A n \in DOMAIN s : Inside(s[n], DOMAIN heap)
      /\ Dumped(d, DOMAIN heap, DOMAIN frames, DOMAIN lits)
  BY <1>1, RootsKept, AllOf
<1>3. \A v : Good(v, Usables) => Inside(v, DOMAIN heap) BY InsideAll DEF Usables
<1>4. Holds(DOMAIN heap, DOMAIN frames, DOMAIN lits, heap, frames, lits) BY SoundHolds
<1>5. Keeps(DOMAIN heap, heap, heap) BY <1>4, HoldsKeeps
<1>6. DOMAIN dep = DOMAIN frames BY DEF Sound
<1>7. Carries(DOMAIN heap, DOMAIN frames, DOMAIN lits, heap, heap, dep, dep, lits)
  BY <1>5, <1>6 DEF Carries
<1> QED BY <1>2, <1>3, <1>7 DEF Sane, LocalsGood

(* The current activation and the instruction it comes to. *)
LEMMA Current ==
  ASSUME NEW dep, NEW A, Busy(A, dep), pc # <<>>
  PROVE  /\ A[1].at \in DOMAIN c.ins /\ I = c.ins[A[1].at] /\ Resolved(I, A[1].x)
         /\ A[1].ty[A[1].at] \in Seq(Kinds)
         /\ I.op \in Ends => I.op = A[1].x.end /\ A[1].ty[A[1].at] = <<"value">> \o A[1].base
         /\ I.op \notin Ends => Moves(I, A[1].ty[A[1].at], A[1].ty[A[1].at + 1])
         /\ Runs(Stepped(A[1]), c, Tail(pc), dep, DOMAIN lits)
         /\ args.on => I.op = "ARGS"
         /\ ~args.on => args = NoArgs /\ Typed(s, A[1].ty[A[1].at], heap)
<1>1. Runs(A[1], c, pc, dep, DOMAIN lits) /\ Holding(A[1], s, args, c.ins, heap) BY DEF Busy
<1>2. /\ A[1].at \in DOMAIN c.ins /\ I = c.ins[A[1].at] /\ Resolved(I, A[1].x)
      /\ A[1].ty[A[1].at] \in Seq(Kinds)
      /\ I.op \in Ends => I.op = A[1].x.end /\ A[1].ty[A[1].at] = <<"value">> \o A[1].base
      /\ I.op \notin Ends => Moves(I, A[1].ty[A[1].at], A[1].ty[A[1].at + 1])
  BY <1>1, RunsNow DEF I
<1>3. Runs(Stepped(A[1]), c, Tail(pc), dep, DOMAIN lits) BY <1>1, RunsStep
<1> QED BY <1>1, <1>2, <1>3 DEF Holding

(* The operands of an instruction. *)
LEMMA StackIs ==
  ASSUME NEW dep, NEW A, Busy(A, dep), pc # <<>>, I.op \notin Ends \cup {"ARGS"},
         NEW n, n = Len(Takes(I))
  PROVE  /\ n \in 0 .. Len(s) /\ Len(s) \in Nat /\ DOMAIN s = 1 .. Len(s) /\ IsSeq(s)
         /\ Typed(Rest(s, n), Rest(A[1].ty[A[1].at], n), heap)
         /\ A[1].ty[A[1].at + 1] = Leaves(I) \o Rest(A[1].ty[A[1].at], n)
         /\ n = 0 => Rest(s, n) = s
         /\ n = 1 => s # <<>> /\ Top = s[1] /\ Below = Rest(s, 1)
         /\ n = 2 => Len(s) >= 2 /\ Top = s[1] /\ Actuals = s[2] /\ Under = Rest(s, 2)
         /\ I.op = "APP" => ArgList(s[2], heap)
<1> DEFINE ty == A[1].ty[A[1].at]
<1>1. Typed(s, ty, heap) /\ Moves(I, ty, A[1].ty[A[1].at + 1]) /\ Resolved(I, A[1].x) BY Current
<1>2. I.op = "ARGS" => I.n \in Nat BY <1>1 DEF Resolved
<1>3. n \in Nat /\ DOMAIN Takes(I) = 1 .. n BY <1>2, TakesIs
<1>4. s \in Seq(Elems(s)) /\ Len(s) = Len(ty) BY <1>1 DEF Typed, IsSeq
<1>5. Len(s) \in Nat /\ DOMAIN s = 1 .. Len(s) BY <1>4, SeqIs
<1>6. /\ n <= Len(ty) /\ A[1].ty[A[1].at + 1] = Leaves(I) \o Rest(ty, n)
      /\ \A m \in DOMAIN Takes(I) : ty[m] = Takes(I)[m]
  BY <1>1 DEF Moves, Rest
<1>7. n \in 0 .. Len(s) BY <1>3, <1>4, <1>5, <1>6
<1>8. Typed(Rest(s, n), Rest(ty, n), heap) BY <1>1, <1>7, RestTyped
<1>9. n = 0 => Rest(s, n) = s
  <2> SUFFICES ASSUME n = 0 PROVE Rest(s, 0) = s OBVIOUS
  <2>1. SubSeq(s, 1, Len(s)) = s BY <1>4, SubSeqFull
  <2> QED BY <2>1 DEF Rest
<1>10. n # 0 => s # <<>> /\ Top = s[1] /\ Tail(s) = Rest(s, 1)
  <2> SUFFICES ASSUME n # 0 PROVE s # <<>> /\ Top = s[1] /\ Tail(s) = Rest(s, 1) OBVIOUS
  <2>1. Len(s) # 0 BY <1>3, <1>5, <1>7
  <2>2. s # <<>> BY <2>1, EmptyIs
  <2>3. Tail(s) = SubSeq(s, 2, Len(s)) BY <2>2, <1>4, TailIsSubSeq
  <2>4. Top = s[1] BY <2>2, <1>4 DEF Top
  <2> QED BY <2>2, <2>3, <2>4 DEF Rest
<1>11. n = 1 => Below = Rest(s, 1) BY <1>10 DEF Below
<1>12. n = 2 => Len(s) >= 2 /\ Actuals = s[2] /\ Under = Rest(s, 2)
  <2> SUFFICES ASSUME n = 2 PROVE Len(s) >= 2 /\ Actuals = s[2] /\ Under = Rest(s, 2) OBVIOUS
  <2>1. Len(s) >= 2 BY <1>5, <1>7
  <2> QED BY <2>1, <1>5 DEF Actuals, Under, Rest
<1>13. I.op = "APP" => ArgList(s[2], heap)
  <2> SUFFICES ASSUME I.op = "APP" PROVE ArgList(s[2], heap) OBVIOUS
  <2>1. n = 2 /\ Takes(I)[2] = "args" BY <1>2, TakesIs
  <2>2. ty[2] = "args" /\ 2 \in DOMAIN s BY <2>1, <1>3, <1>5, <1>6, <1>7
  <2> QED BY <2>2, <1>1 DEF Typed, TypedValue
<1>14. IsSeq(s) BY <1>4 DEF IsSeq
<1> QED BY <1>5, <1>6, <1>7, <1>8, <1>9, <1>10, <1>11, <1>12, <1>13, <1>14

(* The machine in the middle of a program. *)
Running(A, dep) ==
  /\ Counters /\ Sound(heap, frames, lits, dep) /\ Globals /\ LocalsGood /\ Busy(A, dep)

LEMMA GlobalsKept ==
  ASSUME Globals, NEW O, Keeps(O, heap, heap'), \A x \in DOMAIN genv : Inside(genv[x], O),
         genv' = genv
  PROVE  Globals'
<1>1. \A x \in DOMAIN genv : Good(genv[x], Usable(heap)) BY DEF Globals, Usables
<1>2. \A x \in DOMAIN genv : Good(genv[x], Usable(heap')) BY <1>1, GoodKept
<1> QED BY <1>2 DEF Globals, Usables

LEMMA LocalsKept ==
  ASSUME LocalsGood, NEW O, Keeps(O, heap, heap'), Inside(local.proc, O), Inside(local.list, O),
         local' = local
  PROVE  LocalsGood'
<1>1. Good(local.proc, Usable(heap)) /\ Good(local.list, Usable(heap)) BY DEF LocalsGood, Usables
<1>2. Good(local.proc, Usable(heap')) /\ Good(local.list, Usable(heap')) BY <1>1, GoodKept
<1> QED BY <1>2 DEF LocalsGood, Usables

LEMMA NoLocalGood == \A U : Good(NIL, U)
  BY DEF Good, Const, Static

LEMMA Whole ==
  ASSUME NEW de, Sound(heap', frames', lits', de), Globals', LocalsGood',
         Idle' \/ \E B : Busy(B, de)', Counters'
  PROVE  VMInv'
  BY DEF VMInv, Intact

(* The program ends, or only the counters of the collector's roots change. *)
LEMMA Halted ==
  ASSUME NEW A, NEW dep, Running(A, dep),
         UNCHANGED <<input, store, genv, machine, args, roots, local, result, gcs>>,
         status' \in {"run", "exit", "crash", "undefined"}
  PROVE  VMInv'
<1>1. UNCHANGED <<heap, frames, lits, s, e, c, pc, d>> BY DEF store, machine
<1>2. Counters' BY DEF Running, Counters
<1>3. Globals' /\ LocalsGood' BY <1>1 DEF Running, Globals, LocalsGood, Usables
<1>4. Busy(A, dep)' BY <1>1 DEF Running, Busy
<1>5. Sound(heap', frames', lits', dep) BY <1>1 DEF Running
<1> QED BY <1>2, <1>3, <1>4, <1>5, Whole

(* The current call goes on to its next instruction. *)
LEMMA BusyNext ==
  ASSUME NEW A, NEW dep, Busy(A, dep), pc # <<>>,
         NEW O, NEW F, NEW C, NEW de, Carries(O, F, C, heap, heap', dep, de, lits'),
         e \in F, c.consts \subseteq C, Dumped(d, O, F, C),
         Typed(s', A[1].ty[A[1].at + 1], heap'), args' = NoArgs, pc' = Tail(pc),
         UNCHANGED <<e, c, d>>, status' # "idle"
  PROVE  \E B : Busy(B, de)'
<1>1. PICK B : B = [n \in Nat |-> IF n = 1 THEN Stepped(A[1]) ELSE A[n]] OBVIOUS
<1>2. B[1] = Stepped(A[1]) /\ \A n \in 2 .. Len(d) + 1 : B[n] = A[n] BY <1>1
<1>3. A[1].env = e /\ Chain(A, d, heap, dep, DOMAIN lits) BY DEF Busy
<1>4. Runs(Stepped(A[1]), c, Tail(pc), dep, DOMAIN lits) BY Current
<1>5. Runs(Stepped(A[1]), c, Tail(pc), de, DOMAIN lits') BY <1>3, <1>4, SteppedIs, RunsKept
<1>6. Chain(A, d, heap', de, DOMAIN lits') BY <1>3, ChainKept
<1>7. Chain(B, d, heap', de, DOMAIN lits') BY <1>2, <1>6, SteppedIs, ChainFirst
<1>8. Holding(B[1], s', args', c.ins, heap')
  <2>1. ~NoArgs.on BY DEF NoArgs
  <2> QED BY <2>1, <1>2, SteppedIs DEF Holding
<1>9. Busy(B, de)' BY <1>2, <1>3, <1>5, <1>7, <1>8, SteppedIs DEF Busy
<1> QED BY <1>9

(* It does so with a value in place of the operands. *)
LEMMA BusyStep ==
  ASSUME NEW A, NEW dep, Busy(A, dep), pc # <<>>,
         NEW O, NEW F, NEW C, NEW de, Carries(O, F, C, heap, heap', dep, de, lits'),
         e \in F, c.consts \subseteq C, Dumped(d, O, F, C),
         I.op \notin Ends \cup {"ARGS", "POP"}, NEW q, q = Rest(s, Len(Takes(I))),
         \A m \in DOMAIN q : Inside(q[m], O),
         NEW v, Good(v, Usable(heap')), s' = <<v>> \o q, pc' = Tail(pc),
         UNCHANGED <<e, c, d, args>>, status' # "idle"
  PROVE  \E B : Busy(B, de)'
<1> DEFINE n == Len(Takes(I))
           t == Rest(A[1].ty[A[1].at], n)
<1>1. args = NoArgs BY Current
<1>2. Typed(q, t, heap) /\ A[1].ty[A[1].at + 1] = Leaves(I) \o t BY StackIs
<1>3. Leaves(I) = <<"value">> BY DEF Leaves
<1>4. Keeps(O, heap, heap') BY DEF Carries
<1> HIDE DEF t
<1>5. Typed(q, t, heap') BY <1>2, <1>4, TypedKept
<1>6. TypedValue(v, "value", heap') /\ "value" \in Kinds BY DEF TypedValue, Kinds
<1>7. Typed(<<v>> \o q, <<"value">> \o t, heap') BY <1>5, <1>6, PushTyped
<1>8. Typed(s', A[1].ty[A[1].at + 1], heap') BY <1>2, <1>3, <1>7
<1>9. args' = NoArgs BY <1>1
<1> QED BY <1>8, <1>9, BusyNext

(* A step that allocates nothing and leaves the store alone. *)
LEMMA PlainStep ==
  ASSUME NEW A, NEW dep, Running(A, dep), pc # <<>>, I.op \notin Ends \cup {"ARGS", "POP"},
         NEW v, Good(v, Usable(heap)), s' = <<v>> \o Rest(s, Len(Takes(I))), pc' = Tail(pc),
         UNCHANGED <<input, store, e, c, d, args, roots, status, result, gcs>>, Globals', LocalsGood'
  PROVE  VMInv'
<1>1. UNCHANGED <<heap, frames, lits>> BY DEF store
<1>2. Sound(heap, frames, lits, dep) /\ Busy(A, dep) /\ Counters BY DEF Running
<1>3. Sane /\ e \in DOMAIN frames BY <1>2, BusySane DEF Running
<1>4. /\ \A n \in DOMAIN s : Inside(s[n], DOMAIN heap)
      /\ Dumped(d, DOMAIN heap, DOMAIN frames, DOMAIN lits)
      /\ Carries(DOMAIN heap, DOMAIN frames, DOMAIN lits, heap, heap, dep, dep, lits)
  BY <1>2, <1>3, AllKept
<1>5. \A m \in DOMAIN Rest(s, Len(Takes(I))) : Inside(Rest(s, Len(Takes(I)))[m], DOMAIN heap)
  <2>1. Typed(Rest(s, Len(Takes(I))), Rest(A[1].ty[A[1].at], Len(Takes(I))), heap) BY <1>2, StackIs
  <2> QED BY <2>1, InsideAll DEF Typed, TypedValue
<1>6. status' # "idle" BY <1>2 DEF Busy
<1>7. c.consts \subseteq DOMAIN lits BY <1>3 DEF Sane
<1>8. \E B : Busy(B, dep)'
  <2>1. Carries(DOMAIN heap, DOMAIN frames, DOMAIN lits, heap, heap', dep, dep, lits') BY <1>1, <1>4
  <2>2. Good(v, Usable(heap')) BY <1>1
  <2> QED BY <2>1, <2>2, <1>2, <1>3, <1>4, <1>5, <1>6, <1>7, BusyStep
<1>9. Counters' BY <1>2 DEF Counters
<1>10. Sound(heap', frames', lits', dep) BY <1>1, <1>2
<1> QED BY <1>8, <1>9, <1>10, Whole

-----------------------------------------------------------------------------
(* The instructions that allocate nothing.                                 *)

LEMMA InitInv == Init => VMInv
<1> SUFFICES ASSUME Init PROVE VMInv OBVIOUS
<1> DEFINE dep == [f \in {} |-> 0]
<1>1. DOMAIN heap = {} /\ DOMAIN frames = {} /\ DOMAIN lits = {} /\ DOMAIN dep = {} BY DEF Init
<1>2. dep \in [DOMAIN frames -> Nat] BY <1>1
<1> HIDE DEF dep
<1>3. IsFiniteSet(DOMAIN frames) /\ IsFiniteSet(DOMAIN lits) BY <1>1, FS_EmptySet
<1>4. Sound(heap, frames, lits, dep) BY <1>1, <1>2, <1>3 DEF Sound, Grounded
<1>5. Globals
  <2> SUFFICES ASSUME NEW p \in Prim PROVE Good([prim |-> p], Usables)
    BY DEF Init, Globals, PrimEnv
  <2> QED BY DEF Good, Const, Static
<1>6. LocalsGood BY NoLocalGood DEF Init, NoLocal, LocalsGood
<1>7. Idle BY DEF Init, Idle
<1>8. Counters
  <2>1. input \in Seq(Lines) BY ProgramsAssumption DEF Init
  <2> QED BY <2>1 DEF Init, Counters, NoRoots, NoResult
<1> QED BY <1>4, <1>5, <1>6, <1>7, <1>8 DEF VMInv, Intact

LEMMA AtNow ==
  ASSUME NEW op, At(op)
  PROVE  status = "run" /\ pc # <<>> /\ I.op = op
  BY DEF At, I

(* What a step of a sound machine may rely on. *)
LEMMA Resources ==
  ASSUME NEW A, NEW dep, Running(A, dep)
  PROVE  /\ Sound(heap, frames, lits, dep) /\ Sane /\ Busy(A, dep) /\ Counters
         /\ e \in DOMAIN frames /\ e # 0 /\ A[1].env = e /\ A[1].x.depth <= dep[e]
         /\ c.consts \subseteq DOMAIN lits /\ dep \in [DOMAIN frames -> Nat]
<1>1. Sane /\ e \in DOMAIN frames BY BusySane DEF Running
<1>2. A[1].env = e /\ A[1].x.depth <= dep[e] BY DEF Running, Busy, Runs
<1> QED BY <1>1, <1>2 DEF Running, Sound, Sane

LEMMA DefStep ==
  ASSUME NEW A, NEW dep, Running(A, dep), Def
  PROVE  VMInv'
<1>1. pc # <<>> /\ I.op = "DEF" BY AtNow DEF Def
<1>2. Busy(A, dep) /\ LocalsGood BY DEF Running
<1>3. Resolved(I, A[1].x) BY <1>1, <1>2, Current
<1>4. Len(Takes(I)) = 1 BY <1>1, TakesIs
<1>5. /\ s # <<>> /\ Top = s[1] /\ Below = Rest(s, 1) /\ 1 \in DOMAIN s
  BY <1>1, <1>2, <1>4, StackIs DEF Ends
<1>6. Good(Top, Usables) BY <1>5, Resources DEF Sane, AllGood
<1>7. UNCHANGED <<heap, frames, lits>> BY DEF Def, store
<1>8. Globals'
  <2>1. \A x \in DOMAIN genv' : genv'[x] = Top \/ (x \in DOMAIN genv /\ genv'[x] = genv[x])
    BY DEF Def
  <2>2. \A x \in DOMAIN genv : Good(genv[x], Usables) BY DEF Running, Globals
  <2>3. \A x \in DOMAIN genv' : Good(genv'[x], Usables) BY <2>1, <2>2, <1>6
  <2> QED BY <2>3, <1>7 DEF Globals, Usables
<1>9. LocalsGood' BY <1>2, <1>7 DEF LocalsGood, Def, Same, Usables
<1> DEFINE v == [sym |-> I.x]
<1>10. Good(v, Usable(heap)) BY DEF Good, Const, Static
<1>11. s' = <<v>> \o Rest(s, Len(Takes(I))) BY <1>4, <1>5 DEF Def
<1>12. I.op \notin Ends \cup {"ARGS", "POP"} BY <1>1 DEF Ends
<1> HIDE DEF v
<1> QED BY <1>1, <1>8, <1>9, <1>10, <1>11, <1>12, PlainStep DEF Def, Same, Advance

(* An instruction that pushes a value. *)
LEMMA LoadStep ==
  ASSUME NEW A, NEW dep, Running(A, dep), pc # <<>>, I.op \in {"LD", "LDC", "LDG"},
         NEW v, Good(v, Usables), Push(v), Advance, UNCHANGED <<Same, store, genv>>
  PROVE  VMInv'
<1>1. Busy(A, dep) /\ LocalsGood /\ Globals BY DEF Running
<1>2. Len(Takes(I)) = 0 BY TakesIs
<1>3. I.op \notin Ends \cup {"ARGS", "POP"} BY DEF Ends
<1>4. Rest(s, 0) = s BY <1>1, <1>2, <1>3, StackIs
<1>5. s' = <<v>> \o Rest(s, Len(Takes(I))) BY <1>2, <1>4 DEF Push
<1>6. UNCHANGED <<heap, frames, lits>> BY DEF store
<1>7. Globals' /\ LocalsGood' BY <1>1, <1>6 DEF Globals, LocalsGood, Usables, Same
<1> QED BY <1>3, <1>5, <1>7, PlainStep DEF Same, Advance, Usables

LEMMA CrashStep ==
  ASSUME NEW A, NEW dep, Running(A, dep), Crash
  PROVE  VMInv'
  BY Halted DEF Crash

LEMMA LdStep ==
  ASSUME NEW A, NEW dep, Running(A, dep), Ld
  PROVE  VMInv'
<1>1. pc # <<>> /\ I.op = "LD" BY AtNow DEF Ld
<1>2. Resolved(I, A[1].x) BY <1>1, Current DEF Running
<1>3. A[1].x \in Codes BY DEF Running, Busy, Runs
<1>4. A[1].x.depth \in Nat BY <1>3, CodeIs
<1>5. I.i \in 0 .. A[1].x.depth - 1 /\ I.j \in Int BY <1>1, <1>2 DEF Resolved
<1>6. Sound(heap, frames, lits, dep) /\ e \in DOMAIN frames /\ A[1].x.depth <= dep[e] BY Resources
<1>7. dep[e] \in Nat BY <1>6 DEF Sound
<1>8. I.i \in Nat /\ I.i < dep[e] BY <1>4, <1>5, <1>6, <1>7
<1> DEFINE v == get_lvar(I.i, I.j)
<1>9. v # CRASH => Good(v, Usables) BY <1>5, <1>6, <1>8, LvarGood DEF Usables
<1> HIDE DEF v
<1>10. CASE Crash BY <1>10, CrashStep
<1>11. CASE v # CRASH /\ Push(v) /\ Advance /\ UNCHANGED <<Same, store, genv>>
  BY <1>1, <1>9, <1>11, LoadStep
<1> QED BY <1>10, <1>11 DEF Ld, v

LEMMA LdcStep ==
  ASSUME NEW A, NEW dep, Running(A, dep), Ldc
  PROVE  VMInv'
<1>1. pc # <<>> /\ I.op = "LDC" BY AtNow DEF Ldc
<1>2. Resolved(I, A[1].x) BY <1>1, Current DEF Running
<1>3. A[1].x.node = c BY DEF Running, Busy, Runs
<1>4. I.v \in c.consts \/ Static(I.v) BY <1>1, <1>2, <1>3 DEF Resolved
<1>5. Sound(heap, frames, lits, dep) /\ c.consts \subseteq DOMAIN lits BY Resources
<1> DEFINE v == IF I.v \in c.consts THEN lits[I.v] ELSE I.v
<1>6. Good(v, Usables)
  <2>1. I.v \in c.consts => Good(lits[I.v], Usables) BY <1>5 DEF Sound, Usables
  <2>2. I.v \notin c.consts => Good(I.v, Usables) BY <1>4 DEF Good, Const
  <2> QED BY <2>1, <2>2
<1>7. Push(v) /\ Advance /\ UNCHANGED <<Same, store, genv>> BY DEF Ldc
<1> HIDE DEF v
<1> QED BY <1>1, <1>6, <1>7, LoadStep


LEMMA PopStep ==
  ASSUME NEW A, NEW dep, Running(A, dep), Pop
  PROVE  VMInv'
<1>1. pc # <<>> /\ I.op = "POP" BY AtNow DEF Pop
<1>2. Busy(A, dep) /\ LocalsGood /\ Globals /\ Counters BY DEF Running
<1>3. Len(Takes(I)) = 1 /\ Leaves(I) = <<>> BY <1>1, TakesIs
<1> DEFINE t == Rest(A[1].ty[A[1].at], 1)
<1>4. /\ Below = Rest(s, 1) /\ Typed(Rest(s, 1), t, heap) /\ A[1].ty[A[1].at + 1] = <<>> \o t
  BY <1>1, <1>2, <1>3, StackIs DEF Ends
<1>5. t \in Seq(Kinds) BY <1>4 DEF Typed
<1> HIDE DEF t
<1>6. A[1].ty[A[1].at + 1] = t BY <1>4, <1>5, ConcatEmptySeq
<1>7. UNCHANGED <<heap, frames, lits>> BY DEF Pop, store
<1>8. Typed(s', A[1].ty[A[1].at + 1], heap') BY <1>4, <1>6, <1>7 DEF Pop
<1>9. Sane /\ Sound(heap, frames, lits, dep) /\ e \in DOMAIN frames /\ c.consts \subseteq DOMAIN lits
  BY Resources
<1>10. /\ Dumped(d, DOMAIN heap, DOMAIN frames, DOMAIN lits)
       /\ Carries(DOMAIN heap, DOMAIN frames, DOMAIN lits, heap, heap', dep, dep, lits')
  BY <1>7, <1>9, AllKept
<1>11. args' = NoArgs
  <2>1. args = NoArgs BY <1>1, <1>2, Current
  <2> QED BY <2>1 DEF Pop, Same
<1>12. status' # "idle" /\ pc' = Tail(pc) /\ UNCHANGED <<e, c, d>> BY <1>2 DEF Busy, Pop, Same, Advance
<1>13. \E B : Busy(B, dep)' BY <1>1, <1>2, <1>8, <1>9, <1>10, <1>11, <1>12, BusyNext
<1>14. Globals' /\ LocalsGood' BY <1>2, <1>7 DEF Globals, LocalsGood, Usables, Pop, Same
<1>15. Counters' BY <1>2 DEF Counters, Pop, Same
<1>16. Sound(heap', frames', lits', dep) BY <1>7, <1>9
<1> QED BY <1>13, <1>14, <1>15, <1>16, Whole

(* vm_run returns: nothing of the machine is left. *)
LEMMA ReturnIs ==
  ASSUME NEW r, NEW rt, Return(r, rt), Counters, rt \in [proc : Nat, list : Nat, dead : Nat],
         r.kind \in {"none", "value", "error"}, UNCHANGED input, gcs' \in Nat
  PROVE  Idle' /\ LocalsGood' /\ Counters'
<1>1. Idle' BY DEF Return, Idle
<1>2. LocalsGood' BY NoLocalGood DEF Return, LocalsGood, NoLocal
<1>3. Counters' BY DEF Return, Counters
<1> QED BY <1>1, <1>2, <1>3

LEMMA StopStep ==
  ASSUME NEW A, NEW dep, Running(A, dep), Stop
  PROVE  VMInv'
<1>1. CASE Crash BY <1>1, CrashStep
<1>2. CASE Return(Value(Top), roots) /\ UNCHANGED <<input, line, store, genv, gcs>>
  <2>1. Counters BY DEF Running
  <2>2. Value(Top).kind = "value" /\ roots \in [proc : Nat, list : Nat, dead : Nat] /\ gcs' \in Nat
    BY <1>2, <2>1 DEF Value, Counters
  <2>3. Idle' /\ LocalsGood' /\ Counters' BY <1>2, <2>1, <2>2, ReturnIs
  <2>4. UNCHANGED <<heap, frames, lits, genv>> BY <1>2 DEF store
  <2>5. Globals' BY <2>4 DEF Running, Globals, Usables
  <2>6. Sound(heap', frames', lits', dep) BY <2>4 DEF Running
  <2> QED BY <2>3, <2>5, <2>6, Whole
<1> QED BY <1>1, <1>2 DEF Stop

(* What is left after the allocation of o: the store is sound, the globals *)
(* are there, and what the roots of start lead to is what it was.          *)
Allocated(live, o, L, dep, de) ==
  /\ Sound(heap', frames', lits', de)
  /\ NewObj(live) \in DOMAIN heap' /\ heap'[NewObj(live)] = o
  /\ Carries(ObjsOf(L), FramesOf(L), LitsOf(L), heap, heap', dep, de, lits')

LEMMA Allocating ==
  ASSUME NEW dep, Sound(heap, frames, lits, dep), Sane, Counters,
         NEW start, start \subseteq AllItems, GlobalItems \subseteq start,
         NEW live, live = Survivors(start), Succeeds(live), NEW o, Allocates(live, o),
         ObjectOK(o, Usable(heap), dep, DOMAIN lits), NEW L, L = KeptItems(live),
         Within(o, ObjsOf(L), FramesOf(L), LitsOf(L)), UNCHANGED genv
  PROVE  /\ \E de : Allocated(live, o, L, dep, de)
         /\ Globals' /\ gcs' \in Nat
         /\ RootsAfterGC \in [proc : Nat, list : Nat, dead : Nat]
         /\ start \subseteq L /\ L \subseteq AllItems
<1>1. ClosedItems(L) /\ start \subseteq L /\ L \subseteq AllItems BY KeptClosed
<1>2. PICK de : Allocated(live, o, L, dep, de) BY Allocation DEF Allocated
<1>3. GlobalItems \subseteq L BY <1>1
<1>4. \A x \in DOMAIN genv : Inside(genv[x], ObjsOf(L)) BY <1>1, <1>3, RootsKept
<1>5. Keeps(ObjsOf(L), heap, heap') BY <1>2 DEF Allocated, Carries
<1>6. Globals' BY <1>4, <1>5, GlobalsKept DEF Sane
<1>7. gcs' \in Nat BY DEF Allocates, Counters
<1>8. RootsAfterGC \in [proc : Nat, list : Nat, dead : Nat] BY DEF RootsAfterGC, NoRoots, Counters
<1> QED BY <1>1, <1>2, <1>6, <1>7, <1>8

LEMMA FailStep ==
  ASSUME NEW A, NEW dep, Running(A, dep), NEW live, Fails(live)
  PROVE  VMInv'
<1>1. status' \in {"run", "exit", "crash", "undefined"} BY DEF Fails
<1> QED BY <1>1, Halted DEF Fails

LEMMA ErrorStep ==
  ASSUME NEW A, NEW dep, Running(A, dep), NEW start, start \subseteq AllItems,
         GlobalItems \subseteq start, ReturnError(Survivors(start))
  PROVE  VMInv'
<1> DEFINE live == Survivors(start)
           o == [tag |-> "ERROR"]
           r == [kind |-> "error", v |-> NIL]
<1>1. CASE Fails(live) BY <1>1, FailStep
<1>2. CASE /\ Succeeds(live) /\ Allocates(live, o) /\ Return(r, RootsAfterGC)
           /\ UNCHANGED <<input, line, genv>>
  <2>1. Sound(heap, frames, lits, dep) /\ Sane /\ Counters BY Resources
  <2>2. o.tag = "ERROR" /\ r.kind = "error" OBVIOUS
  <2> HIDE DEF live, o, r
  <2>3. ObjectOK(o, Usable(heap), dep, DOMAIN lits) BY <2>2 DEF ObjectOK
  <2>4. \A L : Within(o, ObjsOf(L), FramesOf(L), LitsOf(L)) BY <2>2 DEF Within
  <2>5. PICK L : L = KeptItems(live) OBVIOUS
  <2>6. live = Survivors(start) BY DEF live
  <2>7. /\ \E de : Allocated(live, o, L, dep, de)
        /\ Globals' /\ gcs' \in Nat /\ RootsAfterGC \in [proc : Nat, list : Nat, dead : Nat]
    BY <1>2, <2>1, <2>3, <2>4, <2>5, <2>6, Allocating
  <2>8. PICK de : Allocated(live, o, L, dep, de) BY <2>7
  <2>9. Idle' /\ LocalsGood' /\ Counters' BY <1>2, <2>1, <2>2, <2>7, ReturnIs
  <2>10. Sound(heap', frames', lits', de) BY <2>8 DEF Allocated
  <2> QED BY <2>7, <2>9, <2>10, Whole
<1> QED BY <1>1, <1>2 DEF ReturnError

LEMMA LdgStep ==
  ASSUME NEW A, NEW dep, Running(A, dep), Ldg
  PROVE  VMInv'
<1>1. pc # <<>> /\ I.op = "LDG" BY AtNow DEF Ldg
<1>2. CASE I.x \in DOMAIN genv /\ Push(genv[I.x]) /\ Advance /\ UNCHANGED <<Same, store, genv>>
  <2>1. Good(genv[I.x], Usables) BY <1>2 DEF Running, Globals
  <2> QED BY <1>1, <1>2, <2>1, LoadStep
<1> DEFINE start == GlobalItems \cup LocalItems(local.proc, local.list)
<1>3. CASE ReturnError(Survivors(start))
  <2>1. Sane BY Resources
  <2>2. start \subseteq AllItems /\ GlobalItems \subseteq start
    BY <2>1, RootsInside DEF Sane, LocalsGood
  <2> QED BY <1>3, <2>2, ErrorStep
<1> QED BY <1>2, <1>3 DEF Ldg

(* An instruction that allocates o while the stack is st and leaves the    *)
(* new object in place of its operands.                                    *)
LEMMA NewStep ==
  ASSUME NEW A, NEW dep, Running(A, dep), pc # <<>>, I.op \in {"LDF", "APP"},
         NEW q, q = Rest(s, Len(Takes(I))),
         NEW start, start \subseteq AllItems, GlobalItems \cup VMItems(q) \subseteq start,
         NEW live, live = Survivors(start), Succeeds(live), NEW o, Allocates(live, o),
         ObjectOK(o, Usable(heap), dep, DOMAIN lits), NEW L, L = KeptItems(live),
         Within(o, ObjsOf(L), FramesOf(L), LitsOf(L)), o.tag # "ERROR",
         s' = <<[obj |-> NewObj(live)]>> \o q, pc' = Tail(pc), roots' = RootsAfterGC,
         UNCHANGED <<input, genv, e, c, d, args, result>>, status' \in {"run", "undefined"},
         LocalsGood'
  PROVE  VMInv'
<1>1. Sound(heap, frames, lits, dep) /\ Sane /\ Busy(A, dep) /\ Counters /\ e \in DOMAIN frames /\ e # 0
  BY Resources
<1>2. GlobalItems \subseteq start /\ VMItems(q) \subseteq start OBVIOUS
<1>3. /\ \E de : Allocated(live, o, L, dep, de)
      /\ Globals' /\ gcs' \in Nat /\ RootsAfterGC \in [proc : Nat, list : Nat, dead : Nat]
      /\ start \subseteq L /\ L \subseteq AllItems
  BY <1>1, <1>2, Allocating
<1>4. PICK de : Allocated(live, o, L, dep, de) BY <1>3
<1> DEFINE O == ObjsOf(L)
           F == FramesOf(L)
           K == LitsOf(L)
<1>5. /\ Sound(heap', frames', lits', de) /\ NewObj(live) \in DOMAIN heap'
      /\ heap'[NewObj(live)] = o /\ Carries(O, F, K, heap, heap', dep, de, lits')
  BY <1>4 DEF Allocated
<1>6. AllGood(q)
  <2>1. I.op \notin Ends \cup {"ARGS"} BY DEF Ends
  <2>2. Typed(q, Rest(A[1].ty[A[1].at], Len(Takes(I))), heap) BY <1>1, <2>1, StackIs
  <2> QED BY <2>2, TypedGood
<1>7. VMItems(q) \subseteq L BY <1>2, <1>3
<1>8. /\ \A m \in DOMAIN q : Inside(q[m], O)
      /\ e \in F /\ c.consts \subseteq K /\ Dumped(d, O, F, K)
  BY <1>1, <1>3, <1>6, <1>7, RootsKept
<1> HIDE DEF O, F, K
<1> DEFINE v == [obj |-> NewObj(live)]
<1>9. Good(v, Usable(heap')) BY <1>5 DEF Good, Usable
<1>10. s' = <<v>> \o q OBVIOUS
<1> HIDE DEF v
<1>11. I.op \notin Ends \cup {"ARGS", "POP"} BY DEF Ends
<1>12. status' # "idle" OBVIOUS
<1>13. \E B : Busy(B, de)' BY <1>1, <1>5, <1>8, <1>9, <1>10, <1>11, <1>12, BusyStep
<1>14. Counters' BY <1>1, <1>3 DEF Counters
<1> QED BY <1>3, <1>5, <1>13, <1>14, Whole

LEMMA LdfStep ==
  ASSUME NEW A, NEW dep, Running(A, dep), Ldf
  PROVE  VMInv'
<1>1. pc # <<>> /\ I.op = "LDF" /\ status = "run" BY AtNow DEF Ldf
<1>2. /\ Sound(heap, frames, lits, dep) /\ Sane /\ Busy(A, dep) /\ Counters
      /\ e \in DOMAIN frames /\ e # 0 /\ c.consts \subseteq DOMAIN lits
      /\ A[1].x.depth <= dep[e] /\ dep \in [DOMAIN frames -> Nat]
  BY Resources
<1> DEFINE start == GlobalItems \cup VMItems(s) \cup LocalItems(local.proc, local.list)
           o == [tag |-> "CLOSURE", code |-> I.code, env |-> e]
<1>3. PICK live : live = Survivors(start) OBVIOUS
<1>4. start \subseteq AllItems /\ AllGood(s) BY <1>2, RootsInside DEF Sane, LocalsGood
<1>5. Live(s, local.proc, local.list) = live BY <1>3 DEF Live
<1>6. CASE Fails(live) BY <1>6, FailStep
<1>7. CASE /\ Succeeds(live) /\ Allocates(live, o) /\ Push([obj |-> NewObj(live)])
           /\ Advance /\ roots' = RootsAfterGC /\ local' = LocalsAfterGC
           /\ UNCHANGED <<input, line, genv, e, c, d, args, status, result>>
  <2>1. PICK L : L = KeptItems(live) OBVIOUS
  <2>2. Len(Takes(I)) = 0 BY <1>1, TakesIs
  <2>3. s = Rest(s, Len(Takes(I))) BY <1>1, <1>2, <2>2, StackIs DEF Ends
  <2>4. o.tag = "CLOSURE" /\ o.code = I.code /\ o.env = e OBVIOUS
  <2>5. Nested(I.code, "RTN", A[1].x.depth + 1, A[1].x) /\ A[1].x.node = c
    <3>1. Resolved(I, A[1].x) BY <1>1, <1>2, Current
    <3>2. A[1].x.node = c BY <1>2 DEF Busy, Runs
    <3> QED BY <1>1, <3>1, <3>2 DEF Resolved
  <2>6. start \subseteq L /\ L \subseteq AllItems BY <1>2, <1>3, <1>4, <2>1, KeptClosed
  <2>7. I.code.consts \subseteq c.consts BY <2>5 DEF Nested
  <2>8. GlobalItems \cup VMItems(s) \subseteq start OBVIOUS
  <2> HIDE DEF o, start
  <2>9. ObjectOK(o, Usable(heap), dep, DOMAIN lits)
    <3>1. PICK y \in Codes : y.node = I.code /\ y.end = "RTN" /\ y.depth = A[1].x.depth + 1
      BY <2>5 DEF Nested
    <3>2. A[1].x.depth \in Nat BY <1>2, CodeIs DEF Busy, Runs
    <3>3. dep[e] \in Nat BY <1>2
    <3>4. y.depth <= dep[e] + 1 BY <3>1, <3>2, <3>3, <1>2
    <3>5. Enters(I.code, e, dep) BY <3>1, <3>4 DEF Enters
    <3>6. e \in DOMAIN dep BY <1>2
    <3> QED BY <2>4, <2>7, <3>5, <3>6, <1>2 DEF ObjectOK
  <2>10. VMItems(s) \subseteq L BY <2>6, <2>8
  <2>11. e \in FramesOf(L) /\ c.consts \subseteq LitsOf(L) BY <1>2, <1>4, <2>6, <2>10, RootsKept
  <2>12. Within(o, ObjsOf(L), FramesOf(L), LitsOf(L)) BY <2>4, <2>7, <2>11 DEF Within
  <2>13. LocalsGood'
    <3>1. CASE HeapFull
      <4>1. local' = NoLocal BY <1>7, <3>1 DEF LocalsAfterGC
      <4> QED BY <4>1, NoLocalGood DEF LocalsGood, NoLocal
    <3>2. CASE ~HeapFull
      <4>1. L = AllItems BY <2>1, <3>2 DEF KeptItems
      <4>2. local' = local BY <1>7, <3>2 DEF LocalsAfterGC
      <4>3. GlobalItems \subseteq start BY <2>8
      <4>4. PICK de : Allocated(live, o, L, dep, de)
        BY <1>2, <1>3, <1>4, <1>7, <2>1, <2>9, <2>12, <4>3, Allocating
      <4>5. Keeps(DOMAIN heap, heap, heap') BY <4>1, <4>4, AllOf DEF Allocated, Carries
      <4>6. Inside(local.proc, DOMAIN heap) /\ Inside(local.list, DOMAIN heap) BY <1>2, AllKept
      <4> QED BY <4>2, <4>5, <4>6, <1>2, LocalsKept DEF Sane
    <3> QED BY <3>1, <3>2
  <2>14. status' \in {"run", "undefined"} BY <1>1, <1>7
  <2>15. s' = <<[obj |-> NewObj(live)]>> \o s /\ pc' = Tail(pc) BY <1>7 DEF Push, Advance
  <2>16. o.tag # "ERROR" BY <2>4
  <2> QED BY <1>1, <1>3, <1>4, <1>7, <2>1, <2>3, <2>8, <2>9, <2>12, <2>13, <2>14, <2>15, <2>16,
             NewStep
<1> QED BY <1>5, <1>6, <1>7 DEF Ldf

-----------------------------------------------------------------------------
(* The instructions that enter and leave code nodes.                       *)

LEMMA NewFrameIs ==
  ASSUME IsFiniteSet(DOMAIN frames)
  PROVE  NewFrame \in Nat \ {0} /\ NewFrame \notin DOMAIN frames
<1> DEFINE n == Cardinality(DOMAIN frames)
<1>1. n \in Nat BY FS_CardinalityType
<1>2. Cardinality(1 .. n + 1) = n + 1 /\ IsFiniteSet(1 .. n + 1)
  <2>1. 1 \in Int /\ n + 1 \in Int /\ ~(1 > n + 1) /\ (n + 1) - 1 + 1 = n + 1 BY <1>1
  <2> HIDE DEF n
  <2> QED BY <2>1, FS_Interval
<1>3. ~(1 .. n + 1 \subseteq DOMAIN frames)
  <2> SUFFICES ASSUME 1 .. n + 1 \subseteq DOMAIN frames PROVE FALSE OBVIOUS
  <2>1. Cardinality(1 .. n + 1) <= n BY FS_Subset
  <2> QED BY <2>1, <1>1, <1>2
<1>4. \E f \in 1 .. n + 1 : f \notin DOMAIN frames BY <1>3
<1>5. NewFrame \in 1 .. n + 1 /\ NewFrame \notin DOMAIN frames BY <1>4 DEF NewFrame
<1> HIDE DEF n
<1> QED BY <1>1, <1>5

(* A frame is added to the store. *)
Framed(next, dep, de) ==
  /\ Sound(heap', frames', lits', de)
  /\ NewFrame \in DOMAIN de /\ de[NewFrame] = (IF next = 0 THEN 0 ELSE dep[next] + 1)
  /\ Carries(DOMAIN heap, DOMAIN frames, DOMAIN lits, heap, heap', dep, de, lits')

LEMMA Framing ==
  ASSUME NEW dep, Sound(heap, frames, lits, dep), NEW vs, ArgList(vs, heap),
         NEW next, next = 0 \/ next \in DOMAIN frames, frames' = WithFrame(vs, next),
         UNCHANGED <<heap, lits>>
  PROVE  \E de : Framed(next, dep, de)
<1> DEFINE f == NewFrame
           de == [g \in DOMAIN frames \cup {f} |->
                    IF g = f THEN (IF next = 0 THEN 0 ELSE dep[next] + 1) ELSE dep[g]]
<1>1. f \in Nat \ {0} /\ f \notin DOMAIN frames BY NewFrameIs DEF Sound
<1>2. frames' = [g \in DOMAIN frames \cup {f} |->
                   IF g = f THEN [vars |-> vs, next |-> next] ELSE frames[g]]
  BY DEF WithFrame
<1>3. PICK dx : dx = de OBVIOUS
<1>4. /\ DOMAIN dx = DOMAIN frames \cup {f} /\ dx[f] = (IF next = 0 THEN 0 ELSE dep[next] + 1)
      /\ \A g \in DOMAIN frames : dx[g] = dep[g]
  BY <1>1, <1>3
<1> HIDE DEF f
<1>5. Sound(heap, frames', lits, dx) BY <1>1, <1>2, <1>3, SoundFrame
<1>6. Holds(DOMAIN heap, DOMAIN frames, DOMAIN lits, heap, frames, lits) BY SoundHolds
<1>7. Keeps(DOMAIN heap, heap, heap) BY <1>6, HoldsKeeps
<1>8. Carries(DOMAIN heap, DOMAIN frames, DOMAIN lits, heap, heap', dep, dx, lits')
  BY <1>4, <1>7 DEF Carries
<1>9. Framed(next, dep, dx) BY <1>4, <1>5, <1>8 DEF Framed, f
<1> QED BY <1>9

(* The code node of x is entered; the dump keeps where to go on. *)
Saves(f, de) ==
  /\ f.code = c /\ f.pc = Tail(pc) /\ f.env \in DOMAIN de /\ IsSeq(f.stack) /\ d' = <<f>> \o d
Enclosed(x, base, t, f) ==
  \/ x.end = "JOIN" /\ f.stack = <<>> /\ e' = e /\ t = base
  \/ x.end = "RTN" /\ base = <<>> /\ f.env = e /\ Typed(f.stack, t, heap')

LEMMA BusyEnter ==
  ASSUME NEW A, NEW dep, Running(A, dep), pc # <<>>,
         NEW next, NEW de, Framed(next, dep, de),
         NEW x \in Codes, x.node = c', x.node.consts \subseteq DOMAIN lits', pc' = c'.ins,
         e' \in DOMAIN de, x.depth <= de[e'],
         NEW f, Saves(f, de), NEW base \in Seq(Kinds), NEW t \in Seq(Kinds),
         A[1].ty[A[1].at + 1] = <<"value">> \o t, Enclosed(x, base, t, f),
         Typed(s', base, heap'), args' = NoArgs, status' # "idle"
  PROVE  \E B : Busy(B, de)'
<1>1. PICK D : D = [n \in Nat |-> IF n = 1 THEN Stepped(A[1]) ELSE A[n]] OBVIOUS
<1>2. PICK B : B = [n \in Nat |-> IF n = 1 THEN Started(x, e', base) ELSE D[n - 1]] OBVIOUS
<1>3. /\ Busy(A, dep) /\ Sane /\ Sound(heap, frames, lits, dep) /\ e \in DOMAIN frames
      /\ c.consts \subseteq DOMAIN lits /\ A[1].env = e
  BY Resources
<1>4. /\ Carries(DOMAIN heap, DOMAIN frames, DOMAIN lits, heap, heap', dep, de, lits')
      /\ Dumped(d, DOMAIN heap, DOMAIN frames, DOMAIN lits)
  BY <1>3, AllKept DEF Framed
<1>5. D[1] = Stepped(A[1]) /\ \A n \in 2 .. Len(d) + 1 : D[n] = A[n] BY <1>1
<1>6. Chain(A, d, heap, dep, DOMAIN lits) BY <1>3 DEF Busy
<1>7. Chain(A, d, heap', de, DOMAIN lits') BY <1>3, <1>4, <1>6, ChainKept
<1>8. Chain(D, d, heap', de, DOMAIN lits') BY <1>5, <1>7, SteppedIs, ChainFirst
<1>9. Runs(Stepped(A[1]), c, Tail(pc), dep, DOMAIN lits) BY <1>3, Current
<1>10. Runs(Stepped(A[1]), c, Tail(pc), de, DOMAIN lits') BY <1>3, <1>4, <1>9, SteppedIs, RunsKept
<1>11. PICK y : y = Started(x, e', base) OBVIOUS
<1>12. /\ Runs(y, x.node, x.node.ins, de, DOMAIN lits') /\ y.ty[y.at] = base /\ y.x = x
       /\ y.env = e' /\ y.base = base
  <2>1. PICK en, K : en = e' /\ K = DOMAIN lits' OBVIOUS
  <2>2. x.node.consts \subseteq K /\ en \in DOMAIN de /\ x.depth <= de[en] BY <2>1
  <2>3. Begins(Started(x, en, base), x, en, base, de, K) BY <2>2, RunsStart
  <2>4. Begins(y, x, en, base, de, K) BY <2>1, <2>3, <1>11
  <2> QED BY <2>1, <2>4 DEF Begins
<1>13. Link(y, D[1], f, heap', de, DOMAIN lits')
  <2>1. D[1].env = e /\ D[1].ty[D[1].at] = <<"value">> \o t BY <1>3, <1>5, SteppedIs
  <2>2. f.env \in DOMAIN de /\ IsSeq(f.stack) /\ Runs(D[1], f.code, f.pc, de, DOMAIN lits')
    BY <1>5, <1>10 DEF Saves
  <2> QED BY <2>1, <2>2, <1>12 DEF Link, Enclosed
<1>14. B[1] = y /\ \A n \in 2 .. Len(d) + 2 : B[n] = D[n - 1] BY <1>2, <1>11
<1>15. Chain(B, d', heap', de, DOMAIN lits') BY <1>8, <1>13, <1>14, ChainPush DEF Saves
<1>16. Holding(B[1], s', args', c'.ins, heap')
  <2>1. ~NoArgs.on BY DEF NoArgs
  <2> QED BY <2>1, <1>12, <1>14 DEF Holding
<1>17. Runs(B[1], c', pc', de, DOMAIN lits') /\ B[1].env = e' BY <1>12, <1>14
<1>18. Busy(B, de)' BY <1>15, <1>16, <1>17 DEF Busy
<1> QED BY <1>18

LEMMA SelStep ==
  ASSUME NEW A, NEW dep, Running(A, dep), Sel
  PROVE  VMInv'
<1>1. pc # <<>> /\ I.op = "SEL" BY AtNow DEF Sel
<1>2. CASE Crash BY <1>2, CrashStep
<1> DEFINE f == [stack |-> <<>>, env |-> NewFrame, code |-> c, pc |-> Tail(pc)]
<1>3. CASE /\ d' = <<f>> \o d /\ frames' = WithFrame(NIL, 0)
           /\ c' = (IF Top = FALSEV THEN I.f ELSE I.t) /\ pc' = c'.ins /\ s' = Below
           /\ UNCHANGED <<input, line, heap, lits, genv, e, args, roots, local, status, result, gcs>>
  <2>1. /\ Busy(A, dep) /\ Sane /\ Sound(heap, frames, lits, dep) /\ e \in DOMAIN frames
        /\ c.consts \subseteq DOMAIN lits /\ A[1].env = e /\ A[1].x.depth <= dep[e] /\ Counters
    BY Resources
  <2>2. ArgList(NIL, heap) BY DEF ArgList
  <2>3. UNCHANGED <<heap, lits>> BY <1>3
  <2>4. PICK de : Framed(0, dep, de) BY <1>3, <2>1, <2>2, <2>3, Framing
  <2>5. /\ NewFrame \in DOMAIN de /\ e \in DOMAIN de /\ de[e] = dep[e]
        /\ Sound(heap', frames', lits', de)
    BY <2>1, <2>4 DEF Framed, Carries
  <2>6. f.stack = <<>> /\ f.env = NewFrame /\ f.code = c /\ f.pc = Tail(pc) OBVIOUS
  <2>7. PICK g : g = f OBVIOUS
  <2>8. Saves(g, de) BY <1>3, <2>5, <2>6, <2>7, EmptyIs DEF Saves
  <2> HIDE DEF f
  <2>9. PICK x \in Codes : x.node = c' /\ x.end = "JOIN" /\ x.depth = A[1].x.depth
                           /\ x.node.consts \subseteq c.consts
    <3>1. Resolved(I, A[1].x) BY <1>1, <2>1, Current
    <3>2. Nested(c', "JOIN", A[1].x.depth, A[1].x) BY <1>1, <1>3, <3>1 DEF Resolved
    <3>3. A[1].x.node = c BY <2>1 DEF Busy, Runs
    <3> QED BY <3>2, <3>3 DEF Nested
  <2>10. x.node.consts \subseteq DOMAIN lits' /\ x.depth <= de[e'] /\ e' \in DOMAIN de
    BY <1>3, <2>1, <2>5, <2>9
  <2>11. Len(Takes(I)) = 1 /\ Leaves(I) = <<"value">> BY <1>1, TakesIs
  <2>12. PICK t : t = Rest(A[1].ty[A[1].at], 1) OBVIOUS
  <2>13. Below = Rest(s, 1) /\ Typed(Rest(s, 1), t, heap) /\ A[1].ty[A[1].at + 1] = <<"value">> \o t
    BY <1>1, <2>1, <2>11, <2>12, StackIs DEF Ends
  <2>14. t \in Seq(Kinds) /\ Typed(s', t, heap') BY <1>3, <2>13 DEF Typed
  <2>15. args' = NoArgs BY <1>1, <1>3, <2>1, Current
  <2>16. Enclosed(x, t, t, g) BY <1>3, <2>6, <2>7, <2>9 DEF Enclosed
  <2>17. status' # "idle" BY <1>3, <2>1 DEF Busy
  <2>18. pc' = c'.ins BY <1>3
  <2>19. \E B : Busy(B, de)'
    BY <1>1, <2>4, <2>8, <2>9, <2>10, <2>13, <2>14, <2>15, <2>16, <2>17, <2>18, BusyEnter
  <2>20. Globals' /\ LocalsGood' BY <1>3 DEF Running, Globals, LocalsGood, Usables
  <2>21. Counters' BY <1>3, <2>1 DEF Counters
  <2> QED BY <2>5, <2>19, <2>20, <2>21, Whole
<1> QED BY <1>2, <1>3 DEF Sel

(* What follows the end of a code node. *)
LEMMA BusyLeave ==
  ASSUME NEW A, NEW dep, Running(A, dep), d # <<>>, UNCHANGED <<heap, frames, lits>>,
         c' = Head(d).code, pc' = Head(d).pc, d' = Tail(d), e' = A[2].env,
         Typed(s', A[2].ty[A[2].at], heap), args' = NoArgs, UNCHANGED status
  PROVE  \E B : Busy(B, dep)'
<1>1. PICK B : B = [n \in Nat |-> A[n + 1]] OBVIOUS
<1>2. Chain(A, d, heap, dep, DOMAIN lits) BY DEF Running, Busy
<1>3. \A n \in 1 .. Len(d) : B[n] = A[n + 1] BY <1>1
<1>4. /\ Chain(B, Tail(d), heap, dep, DOMAIN lits) /\ B[1] = A[2]
      /\ Link(A[1], A[2], Head(d), heap, dep, DOMAIN lits)
  BY <1>2, <1>3, ChainPop
<1>5. Runs(B[1], c', pc', dep, DOMAIN lits) BY <1>4 DEF Link
<1>6. Holding(B[1], s', args', c'.ins, heap)
  <2>1. ~NoArgs.on BY DEF NoArgs
  <2> QED BY <2>1, <1>4 DEF Holding
<1>7. Busy(B, dep)' BY <1>4, <1>5, <1>6 DEF Running, Busy
<1> QED BY <1>7

LEMMA LeaveStep ==
  ASSUME NEW A, NEW dep, Running(A, dep), \E B : Busy(B, dep)',
         UNCHANGED <<input, line, store, genv, args, roots, local, status, result, gcs>>
  PROVE  VMInv'
<1>1. UNCHANGED <<heap, frames, lits>> BY DEF store
<1>2. Counters' BY DEF Running, Counters
<1>3. Globals' /\ LocalsGood' BY <1>1 DEF Running, Globals, LocalsGood, Usables
<1>4. Sound(heap', frames', lits', dep) BY <1>1 DEF Running
<1> QED BY <1>2, <1>3, <1>4, Whole

(* The dump of an activation that comes to its end. *)
LEMMA DumpIs ==
  ASSUME NEW A, NEW dep, Running(A, dep), pc # <<>>, I.op \in Ends
  PROVE  /\ args = NoArgs /\ Typed(s, <<"value">> \o A[1].base, heap) /\ I.op = A[1].x.end
         /\ d # <<>> => Link(A[1], A[2], Head(d), heap, dep, DOMAIN lits)
         /\ d = <<>> => A[1].x.end = "STOP" /\ A[1].base = <<>>
<1>1. Busy(A, dep) BY DEF Running
<1>2. Chain(A, d, heap, dep, DOMAIN lits) BY <1>1 DEF Busy
<1>3. I.op # "ARGS" BY DEF Ends
<1>4. args = NoArgs /\ Typed(s, <<"value">> \o A[1].base, heap) /\ I.op = A[1].x.end
  BY <1>1, <1>3, Current
<1>5. PICK B : B = [n \in Nat |-> A[n + 1]] OBVIOUS
<1>6. \A n \in 1 .. Len(d) : B[n] = A[n + 1] BY <1>5
<1>7. d # <<>> => Link(A[1], A[2], Head(d), heap, dep, DOMAIN lits) BY <1>2, <1>6, ChainPop
<1>8. d = <<>> => A[1].x.end = "STOP" /\ A[1].base = <<>>
  <2> SUFFICES ASSUME d = <<>> PROVE A[1].x.end = "STOP" /\ A[1].base = <<>> OBVIOUS
  <2>1. Len(d) + 1 = 1 OBVIOUS
  <2> QED BY <2>1, <1>2 DEF Chain
<1> QED BY <1>4, <1>7, <1>8

LEMMA JoinStep ==
  ASSUME NEW A, NEW dep, Running(A, dep), Join
  PROVE  VMInv'
<1>1. pc # <<>> /\ I.op = "JOIN" /\ I.op \in Ends BY AtNow DEF Join, Ends
<1>2. CASE Crash BY <1>2, CrashStep
<1>3. CASE /\ d # <<>> /\ c' = Head(d).code /\ pc' = Head(d).pc /\ d' = Tail(d)
           /\ UNCHANGED <<input, line, store, genv, s, e, args, roots, local, status, result, gcs>>
  <2>1. Link(A[1], A[2], Head(d), heap, dep, DOMAIN lits) /\ A[1].x.end = "JOIN"
    BY <1>1, <1>3, DumpIs
  <2>2. A[2].env = A[1].env /\ A[2].ty[A[2].at] = <<"value">> \o A[1].base BY <2>1 DEF Link
  <2>3. Typed(s', A[2].ty[A[2].at], heap) /\ args' = NoArgs BY <1>1, <1>3, <2>2, DumpIs
  <2>4. e' = A[2].env BY <1>3, <2>2, Resources
  <2>5. UNCHANGED <<heap, frames, lits>> BY <1>3 DEF store
  <2>6. \E B : Busy(B, dep)' BY <1>3, <2>3, <2>4, <2>5, BusyLeave
  <2> QED BY <1>3, <2>6, LeaveStep
<1> QED BY <1>2, <1>3 DEF Join

LEMMA OneValue ==
  ASSUME NEW st, NEW hp, Typed(st, <<"value">> \o <<>>, hp)
  PROVE  Len(st) = 1 /\ st # <<>> /\ Head(st) = st[1] /\ Good(st[1], Usable(hp))
<1> DEFINE o == <<"value">>
<1>1. o \in Seq(Kinds) /\ Len(o) = 1 BY DEF Kinds
<1>2. o \o <<>> = o
  <2> HIDE DEF o
  <2> QED BY <1>1, ConcatEmptySeq
<1>3. Len(st) = 1 /\ IsSeq(st) BY <1>1, <1>2 DEF Typed
<1>4. DOMAIN st = 1 .. 1 BY <1>3, SeqIs DEF IsSeq
<1>5. st # <<>> BY <1>3, EmptyIs
<1>6. Head(st) = st[1] BY <1>3, <1>5 DEF IsSeq
<1> QED BY <1>3, <1>4, <1>5, <1>6 DEF Typed, TypedValue

LEMMA RtnStep ==
  ASSUME NEW A, NEW dep, Running(A, dep), Rtn
  PROVE  VMInv'
<1>1. pc # <<>> /\ I.op = "RTN" /\ I.op \in Ends BY AtNow DEF Rtn, Ends
<1>2. CASE Crash BY <1>2, CrashStep
<1>3. CASE /\ d # <<>> /\ s' = <<Top>> \o Head(d).stack /\ e' = Head(d).env
           /\ c' = Head(d).code /\ pc' = Head(d).pc /\ d' = Tail(d)
           /\ UNCHANGED <<input, line, store, genv, args, roots, local, status, result, gcs>>
  <2>1. Link(A[1], A[2], Head(d), heap, dep, DOMAIN lits) /\ A[1].x.end = "RTN"
    BY <1>1, <1>3, DumpIs
  <2>2. PICK t \in Seq(Kinds) : A[2].ty[A[2].at] = <<"value">> \o t /\ Typed(Head(d).stack, t, heap)
    BY <2>1 DEF Link
  <2>3. Head(d).env = A[2].env /\ A[1].base = <<>> BY <2>1 DEF Link
  <2>4. Good(Top, Usable(heap))
    <3>1. Typed(s, <<"value">> \o <<>>, heap) BY <1>1, <2>3, DumpIs
    <3> QED BY <3>1, OneValue DEF Top
  <2>5. TypedValue(Top, "value", heap) /\ "value" \in Kinds BY <2>4 DEF TypedValue, Kinds
  <2>6. Typed(s', A[2].ty[A[2].at], heap) BY <1>3, <2>2, <2>5, PushTyped
  <2>7. args' = NoArgs BY <1>1, <1>3, DumpIs
  <2>8. UNCHANGED <<heap, frames, lits>> BY <1>3 DEF store
  <2>9. \E B : Busy(B, dep)' BY <1>3, <2>3, <2>6, <2>7, <2>8, BusyLeave
  <2> QED BY <1>3, <2>9, LeaveStep
<1> QED BY <1>2, <1>3 DEF Rtn

-----------------------------------------------------------------------------
(* INST_APP.                                                               *)

LEMMA BelowGood ==
  ASSUME AllGood(s)
  PROVE  AllGood(Below)
<1>1. CASE s = <<>> BY <1>1 DEF Below
<1>2. CASE s # <<>>
  <2>1. s \in Seq(Elems(s)) BY DEF AllGood, IsSeq
  <2>2. Len(s) \in Nat /\ DOMAIN s = 1 .. Len(s) BY <2>1, SeqIs
  <2>3. /\ Tail(s) \in Seq(Elems(s)) /\ Len(Tail(s)) = Len(s) - 1
        /\ \A n \in 1 .. Len(Tail(s)) : Tail(s)[n] = s[n + 1]
    BY <1>2, <2>1, HeadTailProperties
  <2>4. IsSeq(Tail(s)) /\ DOMAIN Tail(s) = 1 .. Len(s) - 1 BY <2>3, SeqIs
  <2>5. ASSUME NEW n \in DOMAIN Tail(s) PROVE Good(Tail(s)[n], Usables)
    <3>1. n \in 1 .. Len(Tail(s)) /\ n + 1 \in DOMAIN s BY <2>2, <2>3, <2>4
    <3> QED BY <3>1, <2>3 DEF AllGood
  <2>6. Below = Tail(s) BY <1>2 DEF Below
  <2> QED BY <2>4, <2>5, <2>6 DEF AllGood
<1> QED BY <1>1, <1>2

(* The procedure and its arguments. *)
LEMMA Applied ==
  ASSUME NEW A, NEW dep, Running(A, dep), pc # <<>>, I.op = "APP"
  PROVE  /\ Len(Takes(I)) = 2 /\ Under = Rest(s, 2) /\ Good(Proc, Usables)
         /\ ArgList(Actuals, heap) /\ Good(Actuals, Usables) /\ AllGood(Under) /\ AllGood(Below)
         /\ args = NoArgs
         /\ \E t \in Seq(Kinds) : A[1].ty[A[1].at + 1] = <<"value">> \o t /\ Typed(Under, t, heap)
<1>1. Busy(A, dep) /\ Sane BY Resources
<1>2. Len(Takes(I)) = 2 /\ Leaves(I) = <<"value">> BY TakesIs
<1>3. /\ Len(s) \in Nat /\ DOMAIN s = 1 .. Len(s) /\ Len(s) >= 2 /\ Top = s[1] /\ Actuals = s[2]
      /\ Under = Rest(s, 2) /\ ArgList(s[2], heap)
      /\ Typed(Rest(s, 2), Rest(A[1].ty[A[1].at], 2), heap)
      /\ A[1].ty[A[1].at + 1] = Leaves(I) \o Rest(A[1].ty[A[1].at], 2)
  BY <1>1, <1>2, StackIs DEF Ends
<1>4. 1 \in DOMAIN s /\ 2 \in DOMAIN s BY <1>3
<1>5. Good(Proc, Usables) /\ Good(Actuals, Usables) BY <1>1, <1>3, <1>4 DEF Sane, AllGood, Proc
<1>6. AllGood(Under) BY <1>3, TypedGood
<1>7. AllGood(Below) BY <1>1, BelowGood DEF Sane
<1>8. args = NoArgs BY <1>1, Current
<1>9. PICK t : t = Rest(A[1].ty[A[1].at], 2) OBVIOUS
<1>10. t \in Seq(Kinds) /\ A[1].ty[A[1].at + 1] = <<"value">> \o t /\ Typed(Under, t, heap)
  BY <1>2, <1>3, <1>9 DEF Typed
<1> QED BY <1>2, <1>3, <1>5, <1>6, <1>7, <1>8, <1>10

LEMMA AppErrorStep ==
  ASSUME NEW A, NEW dep, Running(A, dep), AppError
  PROVE  VMInv'
<1>1. pc # <<>> /\ I.op = "APP" BY AtNow DEF AppError
<1>2. Sane BY Resources
<1>3. Good(Proc, Usables) /\ AllGood(Below) BY <1>1, Applied
<1> DEFINE start == GlobalItems \cup VMItems(Below) \cup Items(Proc) \cup LocalItems(Proc, local.list)
<1>4. /\ GlobalItems \subseteq AllItems /\ VMItems(Below) \subseteq AllItems
      /\ LocalItems(Proc, local.list) \subseteq AllItems
  BY <1>2, <1>3, RootsInside DEF Sane, LocalsGood
<1>5. Items(Proc) \subseteq AllItems BY <1>3, ItemsUsable
<1>6. start \subseteq AllItems /\ GlobalItems \subseteq start BY <1>4, <1>5
<1>7. ReturnError(Survivors(start)) BY DEF AppError
<1> HIDE DEF start
<1> QED BY <1>6, <1>7, ErrorStep

LEMMA ClosureIs ==
  ASSUME NEW dep, Sound(heap, frames, lits, dep), NEW v, Good(v, Usables), Tag(v) = "CLOSURE",
         NEW o, o = heap[v.obj]
  PROVE  o.env \in DOMAIN dep /\ o.code.consts \subseteq DOMAIN lits /\ Enters(o.code, o.env, dep)
<1>1. ~Const(v)
  <2> SUFFICES ASSUME Const(v) PROVE FALSE OBVIOUS
  <2>1. ~IsRef(v) BY Statics
  <2>2. Tag(v) \in {"CELL", "SYMBOL", "OTHER"} BY <2>1 DEF Tag
  <2> QED BY <2>2
<1>2. PICK i \in Usables : v = [obj |-> i] BY <1>1 DEF Good
<1>3. IsRef(v) /\ v.obj = i /\ i \in DOMAIN heap BY <1>2, Statics, Refs DEF Usables, Usable
<1>4. o.tag = "CLOSURE" /\ o = heap[i] BY <1>3 DEF Tag
<1>5. ObjectOK(o, Usable(heap), dep, DOMAIN lits) BY <1>3, <1>4 DEF Sound
<1> QED BY <1>4, <1>5 DEF ObjectOK

LEMMA AppClosureStep ==
  ASSUME NEW A, NEW dep, Running(A, dep), AppClosure
  PROVE  VMInv'
<1>1. pc # <<>> /\ I.op = "APP" BY AtNow DEF AppClosure
<1>2. /\ Busy(A, dep) /\ Sane /\ Sound(heap, frames, lits, dep) /\ e \in DOMAIN frames
      /\ c.consts \subseteq DOMAIN lits /\ A[1].env = e /\ Counters /\ dep \in [DOMAIN frames -> Nat]
  BY Resources
<1>3. /\ Good(Proc, Usables) /\ Good(Actuals, Usables) /\ ArgList(Actuals, heap) /\ AllGood(Under)
      /\ args = NoArgs
  BY <1>1, Applied
<1>4. PICK t \in Seq(Kinds) : A[1].ty[A[1].at + 1] = <<"value">> \o t /\ Typed(Under, t, heap)
  BY <1>1, Applied
<1>5. PICK clo : clo = heap[Proc.obj] OBVIOUS
<1>6. clo.env \in DOMAIN dep /\ clo.code.consts \subseteq DOMAIN lits /\ Enters(clo.code, clo.env, dep)
  BY <1>2, <1>3, <1>5, ClosureIs DEF AppClosure
<1>7. clo.env \in DOMAIN frames /\ clo.env # 0 /\ dep[clo.env] \in Nat BY <1>2, <1>6 DEF Sound
<1> DEFINE f == [stack |-> Under, env |-> e, code |-> c, pc |-> Tail(pc)]
<1>8. PICK g : g = f OBVIOUS
<1>9. g.stack = Under /\ g.env = e /\ g.code = c /\ g.pc = Tail(pc) BY <1>8
<1>10. /\ d' = <<g>> \o d /\ s' = <<>> /\ frames' = WithFrame(Actuals, clo.env) /\ e' = NewFrame
       /\ c' = clo.code /\ pc' = c'.ins
       /\ roots' = [roots EXCEPT !.proc = @ + 1, !.list = @ + 1]
       /\ local' = [proc |-> Proc, list |-> Actuals]
       /\ UNCHANGED <<input, heap, lits, genv, args, status, result, gcs>>
  BY <1>5, <1>8 DEF AppClosure
<1> HIDE DEF f
<1>11. PICK de : Framed(clo.env, dep, de) BY <1>2, <1>3, <1>7, <1>10, Framing
<1>12. /\ e' \in DOMAIN de /\ de[e'] = dep[clo.env] + 1 /\ e \in DOMAIN de
       /\ Sound(heap', frames', lits', de)
  BY <1>2, <1>7, <1>10, <1>11 DEF Framed, Carries
<1>13. Saves(g, de) BY <1>3, <1>9, <1>10, <1>12 DEF Saves, AllGood
<1>14. PICK x \in Codes : x.node = c' /\ x.end = "RTN" /\ x.depth <= dep[clo.env] + 1
  BY <1>6, <1>10 DEF Enters
<1>15. x.node.consts \subseteq DOMAIN lits' /\ x.depth <= de[e'] BY <1>6, <1>10, <1>12, <1>14
<1>16. Enclosed(x, <<>>, t, g) BY <1>4, <1>9, <1>10, <1>14 DEF Enclosed
<1>17. <<>> \in Seq(Kinds) /\ Typed(s', <<>>, heap') BY <1>10, EmptyIs DEF Typed
<1>18. args' = NoArgs /\ status' # "idle" BY <1>2, <1>3, <1>10 DEF Busy
<1>19. \E B : Busy(B, de)'
  <2>1. PICK next : next = clo.env OBVIOUS
  <2>2. Framed(next, dep, de) /\ pc' = c'.ins /\ x.node = c' BY <2>1, <1>10, <1>11, <1>14
  <2> QED BY <2>2, <1>1, <1>4, <1>12, <1>13, <1>15, <1>16, <1>17, <1>18, BusyEnter
<1>20. Globals' BY <1>2, <1>10 DEF Sane, Globals, Usables
<1>21. LocalsGood' BY <1>3, <1>10 DEF LocalsGood, Usables
<1>22. Counters'
  <2>1. roots' \in [proc : Nat, list : Nat, dead : Nat]
    <3>1. roots \in [proc : Nat, list : Nat, dead : Nat] BY <1>2 DEF Counters
    <3>2. roots.proc + 1 \in Nat /\ roots.list + 1 \in Nat BY <3>1
    <3>3. roots' = [[roots EXCEPT !.proc = roots.proc + 1] EXCEPT !.list = roots.list + 1] BY <1>10, <3>1
    <3> QED BY ONLY <3>1, <3>2, <3>3
  <2> QED BY <2>1, <1>2, <1>10 DEF Counters
<1> QED BY <1>12, <1>19, <1>20, <1>21, <1>22, Whole

(* A primitive.  The object it is is one of those in the table. *)
LEMMA PrimIs ==
  ASSUME NEW U, NEW v, Good(v, U), "prim" \in DOMAIN v
  PROVE  v.prim \in Prim
<1>1. \A i : "prim" \notin DOMAIN [obj |-> i] OBVIOUS
<1>2. Const(v) BY <1>1 DEF Good
<1>3. DOMAIN NIL = {"static"} /\ DOMAIN TRUEV = {"static"} /\ DOMAIN FALSEV = {"static"}
      /\ DOMAIN UNDEF = {"static"} /\ DOMAIN NULL = {"static"}
  BY DEF NIL, TRUEV, FALSEV, UNDEF, NULL
<1>4. "prim" \notin {"static"} /\ "prim" \notin {"sym"} OBVIOUS
<1>5. DOMAIN v # {"static"} /\ DOMAIN v # {"sym"} BY <1>4
<1>6. v \notin {NIL, TRUEV, FALSEV, UNDEF} /\ v # NULL BY <1>3, <1>5
<1> QED BY <1>2, <1>5, <1>6 DEF Const, Static

(* A list of arguments is kept, cells and elements, with what refers to it.*)
LEMMA ArgumentsInside ==
  ASSUME NEW dep, Sound(heap, frames, lits, dep), NEW L, ClosedItems(L), NEW l, ArgList(l, heap),
         Items(l) \subseteq L
  PROVE  Inside(First(l), ObjsOf(L)) /\ Inside(Second(l), ObjsOf(L))
<1> DEFINE O == ObjsOf(L)
<1>1. Holds(O, FramesOf(L), LitsOf(L), heap, frames, lits) BY ClosedHolds
<1> HIDE DEF O
<1>2. Inside(NULL, O) /\ CAR(NULL) = NULL /\ CDR(NULL) = NULL BY Plain DEF Inside, CAR, CDR
<1>3. CAR(NIL) = NULL /\ CDR(NIL) = NULL BY Plain DEF CAR, CDR
<1>4. ASSUME NEW v, Walked(v), Inside(v, O)
      PROVE  Inside(CAR(v), O) /\ Inside(CDR(v), O)
  <2>1. CASE v = NIL \/ v = NULL BY <2>1, <1>2, <1>3
  <2>2. CASE \E S \in SUBSET DOMAIN heap : CellsOfLists(S, heap) /\ \E i \in S : v = [obj |-> i]
    <3>1. PICK S \in SUBSET DOMAIN heap : CellsOfLists(S, heap) /\ \E i \in S : v = [obj |-> i]
      BY <2>2
    <3>2. PICK i \in S : v = [obj |-> i] BY <3>1
    <3>3. IsRef(v) /\ v.obj = i BY <3>2, Statics, Refs
    <3>4. i \in O /\ heap[i].tag = "CELL" BY <1>4, <3>1, <3>2 DEF Inside, CellsOfLists
    <3>5. Inside(heap[i].car, O) /\ Inside(heap[i].cdr, O) BY <1>1, <3>4 DEF Holds, Within
    <3> QED BY <3>3, <3>5 DEF CAR, CDR
  <2> QED BY <2>1, <2>2, <1>4 DEF Walked, ArgList
<1>5. Good(l, Usable(heap)) BY ListIsGood
<1>6. L \subseteq AllItems BY DEF ClosedItems
<1>7. Inside(l, O) BY <1>5, <1>6, ItemsInside DEF O
<1>8. Walked(l) BY DEF Walked
<1>9. Walked(CDR(l)) BY <1>8, WalkStep
<1> QED BY <1>4, <1>7, <1>8, <1>9 DEF First, Second, O

LEMMA NewObjectOK ==
  ASSUME NEW dep, Sound(heap, frames, lits, dep), NEW l, ArgList(l, heap), NEW o, NewOK(o, l)
  PROVE  /\ ObjectOK(o, Usable(heap), dep, DOMAIN lits) /\ o.tag # "ERROR"
         /\ \A O, F, K : Inside(First(l), O) /\ Inside(Second(l), O) => Within(o, O, F, K)
<1>1. Good(First(l), Usable(heap)) /\ Good(Second(l), Usable(heap)) BY OperandsGood
<1>2. Good(UNDEF, Usable(heap)) BY DEF Good, Const, Static
<1>3. \A O : Inside(UNDEF, O)
  <2>1. \A i : ~Const([obj |-> i]) BY Statics
  <2> QED BY <2>1 DEF Inside, Const, Static
<1>4. CASE o.tag = "INTEGER" /\ o.n \in Words BY <1>4 DEF ObjectOK, Within
<1>5. CASE o.tag = "CELL" /\ o.car = First(l) /\ o.cdr = Second(l)
  BY <1>1, <1>5 DEF ObjectOK, Within
<1>6. CASE /\ o.tag = "VECTOR" /\ o = [tag |-> "VECTOR", elems |-> o.elems]
           /\ IsSeq(o.elems) /\ \A n \in DOMAIN o.elems : o.elems[n] \in {Second(l), UNDEF}
  <2>1. \A n \in DOMAIN o.elems : Good(o.elems[n], Usable(heap)) BY <1>1, <1>2, <1>6
  <2>2. \A O, F, K : Inside(Second(l), O) => Within(o, O, F, K) BY <1>3, <1>6 DEF Within
  <2> QED BY <1>6, <2>1, <2>2 DEF ObjectOK
<1> QED BY <1>4, <1>5, <1>6 DEF NewOK

(* An allocation that finds room changes nothing. *)
LEMMA RoomKeeps ==
  ASSUME NEW dep, Sound(heap, frames, lits, dep), NEW live, Succeeds(live), NEW o,
         Allocates(live, o), ~HeapFull
  PROVE  Keeps(DOMAIN heap, heap, heap')
<1> DEFINE i == NewObj(live)
<1>1. Kept(live) = DOMAIN heap BY DEF Kept
<1>2. i \notin DOMAIN heap BY <1>1, RoomForOne DEF Sound
<1>3. heap' = [x \in DOMAIN heap \cup {i} |-> IF x = i THEN o ELSE heap[x]] BY <1>1 DEF Allocates
<1> HIDE DEF i
<1>4. DOMAIN heap \subseteq DOMAIN heap' /\ \A x \in DOMAIN heap : heap'[x] = heap[x] BY <1>2, <1>3
<1>5. Holds(DOMAIN heap, DOMAIN frames, DOMAIN lits, heap, frames, lits) BY SoundHolds
<1> QED BY <1>4, <1>5, HoldsKeeps

LEMMA LocalsIs ==
  ASSUME NEW dep, Sound(heap, frames, lits, dep), Good(Proc, Usables), Good(Actuals, Usables),
         Keeps(DOMAIN heap, heap, heap'), local' = Locals
  PROVE  LocalsGood'
<1>1. Inside(Proc, DOMAIN heap) /\ Inside(Actuals, DOMAIN heap) BY InsideAll DEF Usables
<1>2. Good(Proc, Usable(heap')) /\ Good(Actuals, Usable(heap')) BY <1>1, GoodKept DEF Usables
<1>3. local'.proc \in {Proc, NIL} /\ local'.list \in {Actuals, NIL} BY DEF Locals
<1>4. Good(local'.proc, Usable(heap')) /\ Good(local'.list, Usable(heap'))
  BY <1>2, <1>3, NoLocalGood
<1> QED BY <1>4 DEF LocalsGood, Usables

(* A vector is written. *)
LEMMA WriteStep ==
  ASSUME NEW A, NEW dep, Running(A, dep), pc # <<>>, I.op = "APP",
         NEW r, r.vec \in DOMAIN heap, heap[r.vec].tag = "VECTOR", r.at \in DOMAIN heap[r.vec].elems,
         Good(r.v, Usable(heap)),
         heap' = [heap EXCEPT ![r.vec].elems[r.at] = r.v], s' = <<UNDEF>> \o Under, Advance,
         local' = Locals,
         UNCHANGED <<input, line, frames, lits, genv, e, c, d, args, roots, status, result, gcs>>
  PROVE  VMInv'
<1>1. /\ Busy(A, dep) /\ Sane /\ Sound(heap, frames, lits, dep) /\ e \in DOMAIN frames
      /\ c.consts \subseteq DOMAIN lits /\ Counters
  BY Resources
<1>2. /\ Len(Takes(I)) = 2 /\ Under = Rest(s, 2) /\ Good(Proc, Usables) /\ Good(Actuals, Usables)
      /\ AllGood(Under)
  BY Applied
<1>3. Sound(heap', frames, lits, dep) /\ Keeps(DOMAIN heap, heap, heap')
  <2>1. PICK i, n, v, hq : i = r.vec /\ n = r.at /\ v = r.v /\ hq = heap' OBVIOUS
  <2>2. i \in DOMAIN heap /\ heap[i].tag = "VECTOR" /\ n \in DOMAIN heap[i].elems BY <2>1
  <2>3. Good(v, Usable(heap)) /\ hq = [heap EXCEPT ![i].elems[n] = v] BY <2>1
  <2>4. Sound(hq, frames, lits, dep) /\ Keeps(DOMAIN heap, heap, hq)
    BY <1>1, <2>2, <2>3, SoundStore
  <2> QED BY <2>1, <2>4
<1>4. Dumped(d, DOMAIN heap, DOMAIN frames, DOMAIN lits) BY <1>1, AllKept
<1>5. DOMAIN dep = DOMAIN frames BY <1>1 DEF Sound
<1>6. Carries(DOMAIN heap, DOMAIN frames, DOMAIN lits, heap, heap', dep, dep, lits')
  BY <1>3, <1>5 DEF Carries
<1>7. \A m \in DOMAIN Under : Inside(Under[m], DOMAIN heap) BY <1>2, InsideAll DEF AllGood, Usables
<1>8. Good(UNDEF, Usable(heap')) BY DEF Good, Const, Static
<1>9. I.op \notin Ends \cup {"ARGS", "POP"} BY DEF Ends
<1>10. Under = Rest(s, Len(Takes(I))) BY <1>2
<1>11. status' # "idle" /\ pc' = Tail(pc) BY <1>1 DEF Busy, Advance
<1>12. \E B : Busy(B, dep)'
  BY <1>1, <1>4, <1>6, <1>7, <1>8, <1>9, <1>10, <1>11, BusyStep
<1>13. \A x \in DOMAIN genv : Inside(genv[x], DOMAIN heap) BY <1>1, AllKept
<1>14. Globals' BY <1>1, <1>3, <1>13, GlobalsKept DEF Sane
<1>15. LocalsGood' BY <1>1, <1>2, <1>3, LocalsIs
<1>16. Counters' BY <1>1 DEF Counters
<1>17. Sound(heap', frames', lits', dep) BY <1>3
<1> QED BY <1>12, <1>14, <1>15, <1>16, <1>17, Whole

LEMMA AppPrimStep ==
  ASSUME NEW A, NEW dep, Running(A, dep), AppPrim
  PROVE  VMInv'
<1>1. pc # <<>> /\ I.op = "APP" /\ status = "run" BY AtNow DEF AppPrim
<1>2. Sane /\ Sound(heap, frames, lits, dep) /\ Counters BY Resources
<1>3. /\ Len(Takes(I)) = 2 /\ Under = Rest(s, 2) /\ Good(Proc, Usables) /\ Good(Actuals, Usables)
      /\ ArgList(Actuals, heap) /\ AllGood(Under)
  BY <1>1, Applied
<1>4. Proc.prim \in Prim BY <1>3, PrimIs DEF AppPrim
<1>5. PICK r : r = apply(Proc.prim, Actuals) OBVIOUS
<1>6. ResultOK(r, Actuals) BY <1>2, <1>3, <1>4, <1>5, ApplyOK
<1> DEFINE start == GlobalItems \cup VMItems(Under) \cup Items(Proc) \cup Items(Actuals)
<1>7. start \subseteq AllItems /\ GlobalItems \subseteq start
  BY <1>2, <1>3, RootsInside, ItemsUsable
<1>8. PICK live : live = Survivors(start) OBVIOUS
<1>9. AppLive = live BY <1>8 DEF AppLive
<1>10. Items(Actuals) \subseteq start /\ GlobalItems \cup VMItems(Under) \subseteq start OBVIOUS
<1> HIDE DEF start
<1>11. CASE r.kind = "crash" /\ Crash BY <1>11, CrashStep
<1>12. CASE r.kind = "error" /\ ReturnError(live) BY <1>7, <1>8, <1>12, ErrorStep
<1>13. CASE /\ r.kind = "value" /\ s' = <<r.v>> \o Under /\ Advance /\ local' = Locals
            /\ UNCHANGED <<input, line, store, genv, e, c, d, args, roots, status, result, gcs>>
  <2>1. Good(r.v, Usable(heap)) BY <1>6, <1>13 DEF ResultOK
  <2>2. UNCHANGED <<heap, frames, lits>> BY <1>13 DEF store
  <2>3. Globals' BY <1>2, <1>13, <2>2 DEF Sane, Globals, Usables
  <2>4. Holds(DOMAIN heap, DOMAIN frames, DOMAIN lits, heap, frames, lits) BY <1>2, SoundHolds
  <2>5. Keeps(DOMAIN heap, heap, heap') BY <2>2, <2>4, HoldsKeeps
  <2>6. LocalsGood' BY <1>2, <1>3, <1>13, <2>5, LocalsIs
  <2>7. I.op \notin Ends \cup {"ARGS", "POP"} BY <1>1 DEF Ends
  <2>8. s' = <<r.v>> \o Rest(s, Len(Takes(I))) BY <1>3, <1>13
  <2> QED BY <1>1, <1>13, <2>1, <2>3, <2>6, <2>7, <2>8, PlainStep DEF Advance
<1>14. CASE /\ r.kind = "store" /\ heap' = [heap EXCEPT ![r.vec].elems[r.at] = r.v]
            /\ s' = <<UNDEF>> \o Under /\ Advance /\ local' = Locals
            /\ UNCHANGED <<input, line, frames, lits, genv, e, c, d, args, roots, status, result, gcs>>
  <2>1. /\ r.vec \in DOMAIN heap /\ heap[r.vec].tag = "VECTOR" /\ r.at \in DOMAIN heap[r.vec].elems
        /\ Good(r.v, Usable(heap))
    BY <1>6, <1>14 DEF ResultOK
  <2> QED BY <1>1, <1>14, <2>1, WriteStep
<1>15. CASE /\ r.kind = "exit" /\ status' = "exit"
            /\ UNCHANGED <<input, line, store, genv, machine, args, roots, local, result, gcs>>
  BY <1>15, Halted
<1>16. CASE r.kind = "new" /\ Fails(live) BY <1>16, FailStep
<1>17. CASE /\ r.kind = "new" /\ Succeeds(live) /\ Allocates(live, r.o)
            /\ s' = <<[obj |-> NewObj(live)]>> \o Under /\ Advance
            /\ status' = (IF StaleFill(r.o) THEN "undefined" ELSE status)
            /\ roots' = RootsAfterGC /\ local' = (IF HeapFull THEN NoLocal ELSE Locals)
            /\ UNCHANGED <<input, line, genv, e, c, d, args, result>>
  <2>1. NewOK(r.o, Actuals) BY <1>6, <1>17 DEF ResultOK
  <2>2. PICK L, o : L = KeptItems(live) /\ o = r.o OBVIOUS
  <2>3. /\ ObjectOK(o, Usable(heap), dep, DOMAIN lits) /\ o.tag # "ERROR"
        /\ \A O, F, K : Inside(First(Actuals), O) /\ Inside(Second(Actuals), O) => Within(o, O, F, K)
    BY <1>2, <1>3, <2>1, <2>2, NewObjectOK
  <2>4. ClosedItems(L) /\ start \subseteq L BY <1>2, <1>7, <1>8, <2>2, KeptClosed
  <2>5. Items(Actuals) \subseteq L BY <1>10, <2>4
  <2>6. Within(o, ObjsOf(L), FramesOf(L), LitsOf(L))
    BY <1>2, <1>3, <2>3, <2>4, <2>5, ArgumentsInside
  <2>7. LocalsGood'
    <3>1. CASE HeapFull
      <4>1. local' = NoLocal BY <1>17, <3>1
      <4> QED BY <4>1, NoLocalGood DEF LocalsGood, NoLocal
    <3>2. CASE ~HeapFull
      <4>1. Keeps(DOMAIN heap, heap, heap') BY <1>2, <1>17, <3>2, RoomKeeps
      <4>2. local' = Locals BY <1>17, <3>2
      <4> QED BY <1>2, <1>3, <4>1, <4>2, LocalsIs
    <3> QED BY <3>1, <3>2
  <2>8. status' \in {"run", "undefined"} BY <1>1, <1>17
  <2>9. Under = Rest(s, Len(Takes(I))) BY <1>3
  <2>10. Allocates(live, o) /\ pc' = Tail(pc) BY <1>17, <2>2 DEF Advance
  <2> QED BY <1>1, <1>7, <1>8, <1>10, <1>17, <2>2, <2>3, <2>6, <2>7, <2>8, <2>9, <2>10, NewStep
<1> QED BY <1>5, <1>9, <1>11, <1>12, <1>13, <1>14, <1>15, <1>16, <1>17 DEF AppPrim

-----------------------------------------------------------------------------
(* INST_ARGS.                                                              *)

LEMMA RestRest ==
  ASSUME NEW S, NEW q \in Seq(S), NEW n \in Nat, n + 1 <= Len(q)
  PROVE  Rest(Rest(q, n), 1) = Rest(q, n + 1)
<1>1. Len(q) \in Nat BY SeqIs
<1>2. n \in 0 .. Len(q) /\ n + 1 \in 0 .. Len(q) BY <1>1
<1>3. /\ Rest(q, n) \in Seq(S) /\ Len(Rest(q, n)) = Len(q) - n
      /\ \A k \in 1 .. Len(q) - n : Rest(q, n)[k] = q[n + k]
  BY <1>2, RestIs
<1>4. /\ Rest(q, n + 1) \in Seq(S) /\ Len(Rest(q, n + 1)) = Len(q) - (n + 1)
      /\ \A k \in 1 .. Len(q) - (n + 1) : Rest(q, n + 1)[k] = q[(n + 1) + k]
  BY <1>2, RestIs
<1>5. PICK r : r = Rest(q, n) OBVIOUS
<1>6. 1 \in 0 .. Len(r) /\ r \in Seq(S) BY <1>1, <1>3, <1>5
<1>7. /\ Rest(r, 1) \in Seq(S) /\ Len(Rest(r, 1)) = Len(r) - 1
      /\ \A k \in 1 .. Len(r) - 1 : Rest(r, 1)[k] = r[1 + k]
  BY <1>6, RestIs
<1>8. Len(Rest(r, 1)) = Len(Rest(q, n + 1)) BY <1>1, <1>3, <1>4, <1>5, <1>7
<1>9. ASSUME NEW k \in 1 .. Len(Rest(r, 1)) PROVE Rest(r, 1)[k] = Rest(q, n + 1)[k]
  <2>1. /\ k \in 1 .. Len(r) - 1 /\ 1 + k \in 1 .. Len(q) - n /\ k \in 1 .. Len(q) - (n + 1)
        /\ n + (1 + k) = (n + 1) + k
    BY <1>1, <1>3, <1>4, <1>5, <1>7
  <2> QED BY <2>1, <1>3, <1>4, <1>5, <1>7
<1>10. Rest(r, 1) = Rest(q, n + 1) BY <1>4, <1>7, <1>8, <1>9, SeqEqual
<1> QED BY <1>5, <1>10

LEMMA ArgListCons ==
  ASSUME NEW hp, NEW l, ArgList(l, hp), NEW i \in DOMAIN hp, hp[i].tag = "CELL", hp[i].cdr = l
  PROVE  ArgList([obj |-> i], hp)
<1>1. CASE l = NIL
  <2>1. {i} \in SUBSET DOMAIN hp /\ CellsOfLists({i}, hp) /\ i \in {i} BY <1>1 DEF CellsOfLists
  <2> QED BY <2>1 DEF ArgList
<1>2. CASE \E S \in SUBSET DOMAIN hp : CellsOfLists(S, hp) /\ \E j \in S : l = [obj |-> j]
  <2>1. PICK S \in SUBSET DOMAIN hp : CellsOfLists(S, hp) /\ \E j \in S : l = [obj |-> j] BY <1>2
  <2>2. CellsOfLists(S \cup {i}, hp) BY <2>1 DEF CellsOfLists
  <2>3. S \cup {i} \in SUBSET DOMAIN hp /\ i \in S \cup {i} OBVIOUS
  <2> QED BY <2>2, <2>3 DEF ArgList
<1> QED BY <1>1, <1>2 DEF ArgList

(* The arguments not yet taken are on the stack. *)
LEMMA Taking ==
  ASSUME NEW A, NEW dep, Running(A, dep), pc # <<>>, I.op = "ARGS", args.on,
         NEW ty, ty = A[1].ty[A[1].at], NEW n, n = I.n
  PROVE  /\ n \in Nat /\ args.left \in 0 .. n /\ ty \in Seq(Kinds) /\ n <= Len(ty) /\ Len(ty) \in Nat
         /\ Typed(s, Rest(ty, n - args.left), heap) /\ Len(s) = Len(ty) - (n - args.left)
         /\ ArgList(args.list, heap)
         /\ args = [on |-> TRUE, left |-> args.left, list |-> args.list]
         /\ A[1].at \in DOMAIN c.ins /\ c.ins[A[1].at] = I
         /\ A[1].ty[A[1].at + 1] = <<"args">> \o Rest(ty, n)
<1>1. Busy(A, dep) BY DEF Running
<1>2. /\ A[1].at \in DOMAIN c.ins /\ I = c.ins[A[1].at] /\ Resolved(I, A[1].x) /\ ty \in Seq(Kinds)
      /\ Moves(I, ty, A[1].ty[A[1].at + 1])
  BY <1>1, Current DEF Ends
<1>3. n \in Nat BY <1>2 DEF Resolved
<1>4. Len(Takes(I)) = n /\ Leaves(I) = <<"args">> BY <1>3, TakesIs
<1>5. n <= Len(ty) /\ A[1].ty[A[1].at + 1] = <<"args">> \o Rest(ty, n) BY <1>2, <1>4 DEF Moves, Rest
<1>6. Holding(A[1], s, args, c.ins, heap) BY <1>1 DEF Busy
<1>7. /\ args.left \in 0 .. n /\ Typed(s, Rest(ty, n - args.left), heap) /\ ArgList(args.list, heap)
      /\ args = [on |-> TRUE, left |-> args.left, list |-> args.list]
  BY <1>2, <1>6 DEF Holding
<1>8. Len(ty) \in Nat BY <1>2, SeqIs
<1>9. n - args.left \in 0 .. Len(ty) BY <1>3, <1>5, <1>7, <1>8
<1>10. Len(Rest(ty, n - args.left)) = Len(ty) - (n - args.left) BY <1>2, <1>9, RestIs
<1>11. Len(s) = Len(ty) - (n - args.left) BY <1>7, <1>10 DEF Typed
<1> QED BY <1>2, <1>3, <1>5, <1>7, <1>8, <1>11

LEMMA ArgsBeginStep ==
  ASSUME NEW A, NEW dep, Running(A, dep), ArgsBegin
  PROVE  VMInv'
<1>1. pc # <<>> /\ I.op = "ARGS" BY AtNow DEF ArgsBegin
<1>2. Busy(A, dep) /\ Sound(heap, frames, lits, dep) /\ Counters /\ Sane BY Resources
<1>3. UNCHANGED <<heap, frames, lits, s, e, c, pc, d>> BY DEF ArgsBegin, store, machine
<1>4. /\ A[1].at \in DOMAIN c.ins /\ I = c.ins[A[1].at] /\ Resolved(I, A[1].x)
      /\ A[1].ty[A[1].at] \in Seq(Kinds) /\ Typed(s, A[1].ty[A[1].at], heap)
  BY <1>1, <1>2, Current DEF ArgsBegin
<1>5. I.n \in Nat BY <1>1, <1>4 DEF Resolved
<1>6. args' = [on |-> TRUE, left |-> I.n, list |-> NIL] BY DEF ArgsBegin
<1>7. args'.on /\ args'.left = I.n /\ args'.list = NIL BY <1>6
<1>8. Rest(A[1].ty[A[1].at], I.n - args'.left) = A[1].ty[A[1].at]
  <2>1. I.n - args'.left = 0 BY <1>5, <1>7
  <2>2. SubSeq(A[1].ty[A[1].at], 1, Len(A[1].ty[A[1].at])) = A[1].ty[A[1].at] BY <1>4, SubSeqFull
  <2> QED BY <2>1, <2>2 DEF Rest
<1>9. args'.left \in 0 .. I.n /\ ArgList(args'.list, heap) BY <1>5, <1>7 DEF ArgList
<1>10. Holding(A[1], s, args', c.ins, heap)
  BY <1>1, <1>4, <1>6, <1>7, <1>8, <1>9 DEF Holding
<1>11. Busy(A, dep)' BY <1>2, <1>3, <1>10 DEF Busy, ArgsBegin
<1>12. Globals' /\ LocalsGood' BY <1>2, <1>3 DEF Sane, Globals, LocalsGood, Usables, ArgsBegin
<1>13. Counters' BY <1>2 DEF Counters, ArgsBegin
<1>14. Sound(heap', frames', lits', dep) BY <1>2, <1>3
<1> QED BY <1>11, <1>12, <1>13, <1>14, Whole

LEMMA ArgsEndStep ==
  ASSUME NEW A, NEW dep, Running(A, dep), ArgsEnd
  PROVE  VMInv'
<1>1. pc # <<>> /\ I.op = "ARGS" /\ args.on /\ args.left = 0 BY AtNow DEF ArgsEnd
<1>2. /\ Busy(A, dep) /\ Sound(heap, frames, lits, dep) /\ Counters /\ Sane
      /\ e \in DOMAIN frames /\ c.consts \subseteq DOMAIN lits
  BY Resources
<1>3. UNCHANGED <<heap, frames, lits>> BY DEF ArgsEnd, store
<1>4. PICK t : t = Rest(A[1].ty[A[1].at], I.n) OBVIOUS
<1>5. /\ I.n \in Nat /\ Typed(s, Rest(A[1].ty[A[1].at], I.n - args.left), heap)
      /\ ArgList(args.list, heap) /\ A[1].ty[A[1].at + 1] = <<"args">> \o t
  BY <1>1, <1>4, Taking
<1>6. I.n - args.left = I.n BY <1>1, <1>5
<1>7. TypedValue(args.list, "args", heap) /\ "args" \in Kinds BY <1>5, ListIsGood DEF TypedValue, Kinds
<1>8. Typed(<<args.list>> \o s, <<"args">> \o t, heap) BY <1>4, <1>5, <1>6, <1>7, PushTyped
<1>9. Typed(s', A[1].ty[A[1].at + 1], heap') BY <1>3, <1>5, <1>8 DEF ArgsEnd, Push
<1>10. /\ Dumped(d, DOMAIN heap, DOMAIN frames, DOMAIN lits)
       /\ Carries(DOMAIN heap, DOMAIN frames, DOMAIN lits, heap, heap', dep, dep, lits')
  BY <1>2, <1>3, AllKept
<1>11. args' = NoArgs /\ pc' = Tail(pc) /\ UNCHANGED <<e, c, d>> BY DEF ArgsEnd, Advance
<1>12. status' # "idle" BY <1>2 DEF Busy, ArgsEnd
<1>13. \E B : Busy(B, dep)' BY <1>1, <1>2, <1>9, <1>10, <1>11, <1>12, BusyNext
<1>14. Globals' /\ LocalsGood' BY <1>2, <1>3 DEF Sane, Globals, LocalsGood, Usables, ArgsEnd
<1>15. Counters' BY <1>2 DEF Counters, ArgsEnd
<1>16. Sound(heap', frames', lits', dep) BY <1>2, <1>3
<1> QED BY <1>13, <1>14, <1>15, <1>16, Whole

(* The cell of INST_ARGS is allocated and nothing it holds is lost. *)
LEMMA ConsKept ==
  ASSUME NEW A, NEW dep, Running(A, dep), pc # <<>>, I.op = "ARGS", args.on, args.left > 0,
         NEW start, start = GlobalItems \cup VMItems(Below) \cup LocalItems(local.proc, local.list),
         NEW live, live = Survivors(start), Succeeds(live), NEW o,
         o = [tag |-> "CELL", car |-> Top, cdr |-> args.list], Allocates(live, o), ~Lost(Top, live),
         args' = [args EXCEPT !.left = @ - 1, !.list = [obj |-> NewObj(live)]], s' = Below,
         roots' = RootsAfterGC, local' = LocalsAfterGC,
         UNCHANGED <<input, line, genv, e, c, pc, d, result, status>>
  PROVE  VMInv'
<1>1. /\ Busy(A, dep) /\ Sound(heap, frames, lits, dep) /\ Counters /\ Sane
      /\ e \in DOMAIN frames /\ e # 0 /\ c.consts \subseteq DOMAIN lits /\ A[1].env = e
  BY Resources
<1>2. PICK ty, n : ty = A[1].ty[A[1].at] /\ n = I.n OBVIOUS
<1>3. /\ n \in Nat /\ args.left \in 0 .. n /\ ty \in Seq(Kinds) /\ n <= Len(ty) /\ Len(ty) \in Nat
      /\ Typed(s, Rest(ty, n - args.left), heap) /\ Len(s) = Len(ty) - (n - args.left)
      /\ ArgList(args.list, heap)
      /\ args = [on |-> TRUE, left |-> args.left, list |-> args.list]
      /\ A[1].at \in DOMAIN c.ins /\ c.ins[A[1].at] = I
  BY <1>2, Taking
<1>4. AllGood(s) /\ AllGood(Below) BY <1>1, BelowGood DEF Sane
<1>5. start \subseteq AllItems /\ GlobalItems \subseteq start /\ VMItems(Below) \subseteq start
  BY <1>1, <1>4, RootsInside DEF Sane, LocalsGood
<1>6. s \in Seq(Elems(s)) /\ Len(s) >= 1 /\ s # <<>>
  <2>1. s \in Seq(Elems(s)) BY <1>4 DEF AllGood, IsSeq
  <2>2. Len(s) >= 1 BY <1>3
  <2> QED BY <2>1, <2>2, EmptyIs
<1>7. Top = s[1] /\ Below = Rest(s, 1) /\ 1 \in DOMAIN s
  <2>1. Tail(s) = SubSeq(s, 2, Len(s)) BY <1>6, TailIsSubSeq
  <2>2. Len(s) \in Nat /\ DOMAIN s = 1 .. Len(s) BY <1>6, SeqIs
  <2> QED BY <2>1, <2>2, <1>6 DEF Top, Below, Rest
<1>8. Good(Top, Usable(heap)) /\ Good(args.list, Usable(heap))
  BY <1>3, <1>4, <1>7, ListIsGood DEF AllGood, Usables
<1>9. o.tag = "CELL" /\ o.car = Top /\ o.cdr = args.list OBVIOUS
<1>10. ObjectOK(o, Usable(heap), dep, DOMAIN lits) BY <1>8, <1>9 DEF ObjectOK
<1>11. PICK L : L = KeptItems(live) OBVIOUS
<1>12. ClosedItems(L) /\ start \subseteq L /\ L \subseteq AllItems BY <1>1, <1>5, <1>11, KeptClosed
<1>13. Items(args.list) \subseteq start BY DEF LocalItems
<1>14. Inside(args.list, ObjsOf(L)) BY <1>8, <1>12, <1>13, ItemsInside
<1>15. Inside(Top, ObjsOf(L))
  <2>1. HeapFull => L = live BY <1>11 DEF KeptItems
  <2>2. ~HeapFull => L = AllItems BY <1>11 DEF KeptItems
  <2>3. Items(Top) \subseteq L
    <3>1. CASE HeapFull BY <3>1, <2>1 DEF Lost, Items
    <3>2. CASE ~HeapFull BY <3>2, <2>2, <1>8, ItemsAll
    <3> QED BY <3>1, <3>2
  <2> QED BY <2>3, <1>8, <1>12, ItemsInside
<1>16. Within(o, ObjsOf(L), FramesOf(L), LitsOf(L)) BY <1>9, <1>14, <1>15 DEF Within
<1>17. /\ \E de : Allocated(live, o, L, dep, de)
       /\ Globals' /\ gcs' \in Nat /\ RootsAfterGC \in [proc : Nat, list : Nat, dead : Nat]
  BY <1>1, <1>5, <1>10, <1>11, <1>16, Allocating
<1>18. PICK de : Allocated(live, o, L, dep, de) BY <1>17
<1> DEFINE O == ObjsOf(L)
           F == FramesOf(L)
           K == LitsOf(L)
<1>19. /\ Sound(heap', frames', lits', de) /\ NewObj(live) \in DOMAIN heap'
       /\ heap'[NewObj(live)] = o /\ Carries(O, F, K, heap, heap', dep, de, lits')
       /\ Keeps(O, heap, heap')
  BY <1>18 DEF Allocated, Carries
<1>20. VMItems(Below) \subseteq L BY <1>5, <1>12
<1>21. /\ \A m \in DOMAIN Below : Inside(Below[m], O)
       /\ e \in F /\ c.consts \subseteq K /\ Dumped(d, O, F, K)
  BY <1>1, <1>4, <1>12, <1>20, RootsKept
<1> HIDE DEF O, F, K
<1>22. ArgList(args.list, heap') BY <1>3, <1>14, <1>19, GoodKept DEF O
<1>23. ArgList([obj |-> NewObj(live)], heap') BY <1>9, <1>19, <1>22, ArgListCons
<1>24. Typed(s', Rest(ty, n - (args.left - 1)), heap')
  <2>1. PICK k : k = n - args.left OBVIOUS
  <2>2. k \in Nat /\ k + 1 <= Len(ty) /\ n - (args.left - 1) = k + 1
    <3>1. PICK m, l : m = args.left /\ l = Len(ty) OBVIOUS
    <3>2. m \in 0 .. n /\ m > 0 /\ n \in Nat /\ l \in Nat /\ n <= l /\ k = n - m
      BY <2>1, <3>1, <1>3
    <3>3. k \in Nat /\ k + 1 <= l /\ n - (m - 1) = k + 1 BY <3>2
    <3> QED BY <3>1, <3>3
  <2>3. Rest(Rest(ty, k), 1) = Rest(ty, k + 1) BY <2>2, <1>3, RestRest
  <2>4. 1 \in 0 .. Len(s) BY <1>6, <1>3
  <2>5. Typed(Rest(s, 1), Rest(Rest(ty, k), 1), heap) BY <2>1, <2>4, <1>3, RestTyped
  <2>6. Typed(Below, Rest(ty, k + 1), heap) BY <2>3, <2>5, <1>7
  <2>7. Typed(Below, Rest(ty, k + 1), heap') BY <2>6, <1>19, <1>21, TypedKept
  <2> QED BY <2>2, <2>7
<1>25. args' = [on |-> TRUE, left |-> args.left - 1, list |-> [obj |-> NewObj(live)]] BY <1>3
<1>26. Holding(A[1], s', args', c.ins, heap')
  <2>1. args'.on /\ args'.left = args.left - 1 /\ args'.list = [obj |-> NewObj(live)] BY <1>25
  <2>2. args'.left \in 0 .. n BY <2>1, <1>3
  <2>3. c.ins[A[1].at].op = "ARGS" /\ c.ins[A[1].at].n = n BY <1>2, <1>3
  <2>4. Typed(s', Rest(A[1].ty[A[1].at], n - args'.left), heap') BY <2>1, <1>2, <1>24
  <2>5. ArgList(args'.list, heap') BY <2>1, <1>23
  <2>6. args' = [on |-> TRUE, left |-> args'.left, list |-> args'.list] BY <2>1, <1>25
  <2> QED BY <2>1, <2>2, <2>3, <2>4, <2>5, <2>6, <1>3 DEF Holding
<1>27. Runs(A[1], c, pc, de, DOMAIN lits') /\ Chain(A, d, heap', de, DOMAIN lits')
  <2>1. Runs(A[1], c, pc, dep, DOMAIN lits) /\ Chain(A, d, heap, dep, DOMAIN lits) BY <1>1 DEF Busy
  <2>2. A[1].env \in F BY <1>1, <1>21
  <2>3. Runs(A[1], c, pc, de, DOMAIN lits') BY <2>1, <2>2, <1>19, <1>21, RunsKept
  <2>4. Chain(A, d, heap', de, DOMAIN lits') BY <2>1, <2>2, <1>19, <1>21, ChainKept
  <2> QED BY <2>3, <2>4
<1>28. Busy(A, de)' BY <1>1, <1>26, <1>27 DEF Busy
<1>29. LocalsGood'
  <2>1. CASE HeapFull
    <3>1. local' = NoLocal BY <2>1 DEF LocalsAfterGC
    <3> QED BY <3>1, NoLocalGood DEF LocalsGood, NoLocal
  <2>2. CASE ~HeapFull
    <3>1. Keeps(DOMAIN heap, heap, heap') BY <1>1, <2>2, RoomKeeps
    <3>2. local' = local BY <2>2 DEF LocalsAfterGC
    <3>3. Inside(local.proc, DOMAIN heap) /\ Inside(local.list, DOMAIN heap) BY <1>1, AllKept
    <3> QED BY <3>1, <3>2, <3>3, <1>1, LocalsKept DEF Sane
  <2> QED BY <2>1, <2>2
<1>30. Counters' BY <1>1, <1>17 DEF Counters
<1> QED BY <1>17, <1>19, <1>28, <1>29, <1>30, Whole

(* A reference is lost: the new cell points at an object that is no longer *)
(* there, but nothing holds an error object.                               *)
LEMMA ConsLost ==
  ASSUME NEW A, NEW dep, Running(A, dep), s # <<>>,
         Good(Top, Usable(heap)), Good(args.list, Usable(heap)),
         NEW live, HeapFull, Succeeds(live), NEW o,
         o = [tag |-> "CELL", car |-> Top, cdr |-> args.list], Allocates(live, o),
         s' = Below, roots' = RootsAfterGC, status' = "undefined",
         UNCHANGED <<input, genv, e, d, result>>
  PROVE  VMInv'
<1>1. /\ Sane /\ Sound(heap, frames, lits, dep) /\ Counters /\ e \in DOMAIN frames
  BY Resources
<1>2. PICK i, O : i = NewObj(live) /\ O = Kept(live) OBVIOUS
<1>3. /\ heap' = [x \in O \cup {i} |-> IF x = i THEN o ELSE heap[x]]
      /\ DOMAIN frames' \subseteq DOMAIN frames /\ DOMAIN lits' \subseteq DOMAIN lits
      /\ \A f \in DOMAIN frames' : frames'[f] = frames[f]
      /\ \A k \in DOMAIN lits' : lits'[k] = lits[k]
      /\ gcs' = gcs + 1
  BY <1>2 DEF Allocates
<1>4. i \in (1 .. MaxObj) \ O /\ O \subseteq DOMAIN heap
  BY <1>1, <1>2, RoomForOne DEF Sound, Kept
<1>5. /\ DOMAIN heap' = O \cup {i} /\ heap'[i] = o /\ \A x \in O : heap'[x] = heap[x]
  BY <1>3, <1>4
<1>6. o.tag = "CELL" /\ o.car = Top /\ o.cdr = args.list OBVIOUS
<1> DEFINE harmless(v) == \A j \in DOMAIN heap' : heap'[j].tag = "ERROR" => v # [obj |-> j]
<1>7. ASSUME NEW v, Good(v, Usables) PROVE harmless(v) /\ Values(v)
  <2>1. Values(v) BY <1>1, <1>7, ItemsUsable DEF Sound
  <2> SUFFICES ASSUME NEW j \in DOMAIN heap', heap'[j].tag = "ERROR", v = [obj |-> j] PROVE FALSE
    BY <2>1
  <2>2. heap[j].tag = "ERROR" BY <1>5, <1>6
  <2>3. ~Const(v) BY Statics
  <2>4. PICK k \in Usables : v = [obj |-> k] BY <1>7, <2>3 DEF Good
  <2>5. k = j BY <2>4, Refs
  <2> QED BY <2>2, <2>4, <2>5 DEF Usables, Usable
<1>8. AllGood(Below) /\ AllGood(s) BY <1>1, BelowGood DEF Sane
<1>9. \A x \in DOMAIN genv : Good(genv[x], Usables) BY <1>1 DEF Sane, Globals
<1>10. \A n \in DOMAIN d : \A m \in DOMAIN d[n].stack : Good(d[n].stack[m], Usables)
  BY <1>1 DEF Sane, AllGood
<1>11. ASSUME NEW f \in DOMAIN frames PROVE Good(frames[f].vars, Usables) /\ frames[f].next \in Nat
  <2>1. FrameOK(f, heap, frames, dep) /\ DOMAIN frames \subseteq Nat \ {0} BY <1>1 DEF Sound
  <2> QED BY <2>1, ListIsGood DEF FrameOK, Usables
<1>12. \A k \in DOMAIN lits : Good(lits[k], Usables) BY <1>1 DEF Sound, Usables
<1>13. ASSUME NEW x \in DOMAIN heap'
       PROVE  /\ heap'[x].tag = "CELL" => Good(heap'[x].car, Usables) /\ Good(heap'[x].cdr, Usables)
              /\ heap'[x].tag = "VECTOR" =>
                   \A n \in DOMAIN heap'[x].elems : Good(heap'[x].elems[n], Usables)
  <2>1. CASE x = i BY <2>1, <1>5, <1>6 DEF Usables
  <2>2. CASE x \in O
    <3>1. heap'[x] = heap[x] /\ x \in DOMAIN heap BY <2>2, <1>4, <1>5
    <3>2. ObjectOK(heap[x], Usable(heap), dep, DOMAIN lits) BY <3>1, <1>1 DEF Sound
    <3> QED BY <3>1, <3>2 DEF ObjectOK, Usables
  <2> QED BY <2>1, <2>2, <1>5
<1>14. Clean'
  <2>1. \A x \in DOMAIN genv' : harmless(genv'[x]) BY <1>7, <1>9
  <2>2. \A n \in DOMAIN s' : harmless(s'[n]) BY <1>7, <1>8 DEF AllGood
  <2>3. \A n \in DOMAIN d' : \A m \in DOMAIN d'[n].stack : harmless(d'[n].stack[m]) BY <1>7, <1>10
  <2>4. \A f \in DOMAIN frames' : harmless(frames'[f].vars) BY <1>3, <1>7, <1>11
  <2>5. \A k \in DOMAIN lits' : harmless(lits'[k]) BY <1>3, <1>7, <1>12
  <2>6. \A x \in DOMAIN heap' :
          /\ heap'[x].tag = "CELL" => harmless(heap'[x].car) /\ harmless(heap'[x].cdr)
          /\ heap'[x].tag = "VECTOR" => \A n \in DOMAIN heap'[x].elems : harmless(heap'[x].elems[n])
    BY <1>7, <1>13
  <2> QED BY <2>1, <2>2, <2>3, <2>4, <2>5, <2>6 DEF Clean, Harmless
<1>15. ErrorsNeverStored'
  <2>1. (Clean => ErrorsNeverStored)' BY CleanIs, PTL
  <2> QED BY <1>14, <2>1
<1>16. Counters'
  <2>1. gcs' \in Nat BY <1>1, <1>3 DEF Counters
  <2>2. roots' \in [proc : Nat, list : Nat, dead : Nat] BY <1>1 DEF RootsAfterGC, NoRoots, Counters
  <2> QED BY <2>1, <2>2, <1>1 DEF Counters
<1>17. TypeOK'
  <2>1. DOMAIN heap' \subseteq 1 .. MaxObj BY <1>1, <1>4, <1>5 DEF Sound
  <2>2. \A f \in DOMAIN frames' : Values(frames'[f].vars) /\ frames'[f].next \in Nat
    BY <1>3, <1>7, <1>11
  <2>3. \A k \in DOMAIN lits' : Values(lits'[k]) BY <1>3, <1>7, <1>12
  <2>4. \A x \in DOMAIN genv' : Values(genv'[x]) BY <1>7, <1>9
  <2>5. \A n \in DOMAIN s' : Values(s'[n]) BY <1>7, <1>8 DEF AllGood
  <2>6. e' \in Nat BY <1>1 DEF Sound
  <2> QED BY <2>1, <2>2, <2>3, <2>4, <2>5, <2>6, <1>16 DEF TypeOK, Values, Counters
<1> QED BY <1>15, <1>16, <1>17 DEF VMInv, Broken

LEMMA ArgsConsStep ==
  ASSUME NEW A, NEW dep, Running(A, dep), ArgsCons
  PROVE  VMInv'
<1>1. pc # <<>> /\ I.op = "ARGS" /\ args.on /\ args.left > 0 BY AtNow DEF ArgsCons
<1> DEFINE start == GlobalItems \cup VMItems(Below) \cup LocalItems(local.proc, local.list)
           o == [tag |-> "CELL", car |-> Top, cdr |-> args.list]
<1>2. PICK b, live : b = start /\ live = Survivors(b) OBVIOUS
<1>3. Live(Below, local.proc, local.list) = live BY <1>2 DEF Live
<1>4. CASE Fails(live) BY <1>4, FailStep
<1>5. CASE Crash BY <1>5, CrashStep
<1>6. CASE /\ Succeeds(live) /\ Allocates(live, o)
           /\ args' = [args EXCEPT !.left = @ - 1, !.list = [obj |-> NewObj(live)]]
           /\ s' = Below /\ status' = (IF Lost(Top, live) THEN "undefined" ELSE status)
           /\ roots' = RootsAfterGC /\ local' = LocalsAfterGC
           /\ UNCHANGED <<input, line, genv, e, c, pc, d, result>>
  <2>1. PICK x : x = o OBVIOUS
  <2> HIDE DEF o, start
  <2>2. x = [tag |-> "CELL", car |-> Top, cdr |-> args.list] BY <2>1 DEF o
  <2>3. CASE ~Lost(Top, live)
    <3>1. status' = status BY <1>6, <2>3
    <3>2. b = GlobalItems \cup VMItems(Below) \cup LocalItems(local.proc, local.list)
      BY <1>2 DEF start
    <3> QED BY <1>1, <1>2, <1>6, <2>1, <2>2, <2>3, <3>1, <3>2, ConsKept
  <2>4. CASE Lost(Top, live)
    <3>1. HeapFull /\ status' = "undefined" BY <1>6, <2>4 DEF Lost
    <3>2. s # <<>> /\ Good(Top, Usable(heap)) /\ Good(args.list, Usable(heap))
      <4>1. PICK n, t : n = I.n /\ t = A[1].ty[A[1].at] OBVIOUS
      <4>2. /\ n \in Nat /\ args.left \in 0 .. n /\ n <= Len(t) /\ Len(t) \in Nat
            /\ Len(s) = Len(t) - (n - args.left) /\ ArgList(args.list, heap)
        BY <1>1, <4>1, Taking
      <4>3. Len(s) # 0
        <5>1. PICK m, l, z : m = args.left /\ l = Len(t) /\ z = Len(s) OBVIOUS
        <5>2. m \in 0 .. n /\ m > 0 /\ n \in Nat /\ l \in Nat /\ n <= l /\ z = l - (n - m)
          BY <5>1, <4>2, <1>1
        <5>3. z # 0 BY <5>2
        <5> QED BY <5>1, <5>3
      <4>4. s # <<>> BY <4>3, EmptyIs
      <4>5. AllGood(s) BY Resources DEF Sane
      <4>6. 1 \in DOMAIN s /\ Top = s[1]
        <5>1. s \in Seq(Elems(s)) BY <4>5 DEF AllGood, IsSeq
        <5>2. Len(s) \in Nat /\ DOMAIN s = 1 .. Len(s) BY <5>1, SeqIs
        <5> QED BY <5>1, <5>2, <4>3, <4>4 DEF Top
      <4> QED BY <4>2, <4>4, <4>5, <4>6, ListIsGood DEF AllGood, Usables
    <3> QED BY <1>6, <2>1, <2>2, <3>1, <3>2, ConsLost
  <2> QED BY <2>3, <2>4
<1> QED BY <1>3, <1>4, <1>5, <1>6 DEF ArgsCons

LEMMA AppNullStep ==
  ASSUME NEW A, NEW dep, Running(A, dep), AppNull \/ CodeEnds
  PROVE  VMInv'
  BY CrashStep DEF AppNull, CodeEnds

-----------------------------------------------------------------------------
(* Between the lines: what the reader does to the store.                   *)

Resting(dep) ==
  /\ Counters /\ Sound(heap, frames, lits, dep) /\ Globals /\ LocalsGood /\ Idle

LEMMA ReadCollectsStep ==
  ASSUME NEW dep, Resting(dep), ReadCollects
  PROVE  VMInv'
<1>1. Sound(heap, frames, lits, dep) /\ Globals /\ LocalsGood /\ Idle /\ Counters BY DEF Resting
<1>2. Sane BY <1>1, IdleSane
<1>3. PICK L : L = Survivors(GlobalItems) OBVIOUS
<1>4. GlobalItems \subseteq AllItems BY <1>2, RootsInside
<1>5. ClosedItems(L) /\ GlobalItems \subseteq L BY <1>1, <1>3, <1>4, SurvivorsClosed
<1>6. L \subseteq AllItems BY <1>5 DEF ClosedItems
<1>7. PICK de : SoundWith(L, dep, de) BY <1>1, <1>5, Collected
<1>8. /\ heap' = [i \in ObjsOf(L) |-> heap[i]] /\ frames' = [f \in FramesOf(L) |-> frames[f]]
      /\ lits' = [k \in LitsOf(L) |-> lits[k]]
      /\ status' \in {"undefined", "exit", "idle"}
  BY <1>3 DEF ReadCollects, ObjsOf, FramesOf, LitsOf
<1>9. Sound(heap', frames', lits', de) BY <1>7, <1>8 DEF SoundWith
<1>10. Globals'
  <2>1. Holds(ObjsOf(L), FramesOf(L), LitsOf(L), heap, frames, lits) BY <1>7 DEF SoundWith
  <2>2. ObjsOf(L) = DOMAIN heap' /\ \A i \in ObjsOf(L) : heap'[i] = heap[i] BY <1>8
  <2>3. Keeps(ObjsOf(L), heap, heap') BY <2>1, <2>2, HoldsKeeps
  <2>4. \A x \in DOMAIN genv : Inside(genv[x], ObjsOf(L)) BY <1>1, <1>2, <1>5, <1>6, RootsKept
  <2>5. genv' = genv BY DEF ReadCollects
  <2> QED BY <1>1, <2>3, <2>4, <2>5, GlobalsKept
<1>11. UNCHANGED <<input, s, e, c, pc, d, args, local, gcs>> BY DEF ReadCollects, machine
<1>12. local = NoLocal BY <1>1 DEF Idle
<1>13. LocalsGood' BY <1>11, <1>12, NoLocalGood DEF LocalsGood, NoLocal
<1>14. Idle' BY <1>1, <1>8, <1>11 DEF Idle
<1>15. Counters'
  <2>1. roots' = NoRoots /\ result' = NoResult BY DEF ReadCollects
  <2> QED BY <2>1, <1>1, <1>8, <1>11 DEF Counters, NoRoots, NoResult
<1> QED BY <1>9, <1>10, <1>13, <1>14, <1>15, Whole

(* The objects of a line's constants.  y is at place[y]. *)
Laid(y, D, place) ==
  LET part(z) == IF z \in D THEN [obj |-> place[z]] ELSE z IN
  IF "lit" \in DOMAIN y THEN [tag |-> "INTEGER", n |-> y.lit]
  ELSE [tag |-> "CELL", car |-> part(y.pair[1]), cdr |-> part(y.pair[2])]

(* The heap hq is hp with the constants D and the garbage G. *)
Grown(hp, hq, D, place, G) ==
  /\ G \subseteq (1 .. MaxObj) \ DOMAIN hp
  /\ \A y \in D : place[y] \in (1 .. MaxObj) \ (DOMAIN hp \cup G)
  /\ DOMAIN hq = DOMAIN hp \cup G \cup {place[y] : y \in D}
  /\ \A i \in DOMAIN hp : hq[i] = hp[i]
  /\ \A i \in G : hq[i] = [tag |-> "INTEGER", n |-> 0]
  /\ \A y \in D : hq[place[y]] = Laid(y, D, place)
Named(li, lq, C, place) ==
  /\ DOMAIN lq = DOMAIN li \cup C
  /\ \A k \in DOMAIN lq : lq[k] = IF k \in C THEN [obj |-> place[k]] ELSE li[k]

(* The constants of a line, as module Code assumes them. *)
Data(D) ==
  /\ IsFiniteSet(D) /\ \A y \in D : Literal(y, D)
  /\ \A S \in SUBSET D : S # {} => \E y \in S : "lit" \in DOMAIN y \/ y.pair[2] \notin S

LEMMA LaidIs ==
  ASSUME NEW D, Data(D), NEW place, Apart(place, D), NEW y \in D
  PROVE  /\ "lit" \in DOMAIN y => /\ Laid(y, D, place).tag = "INTEGER"
                                 /\ Laid(y, D, place).n \in Words
         /\ "lit" \notin DOMAIN y =>
              /\ Laid(y, D, place).tag = "CELL"
              /\ \A v \in {Laid(y, D, place).car, Laid(y, D, place).cdr} :
                   Static(v) \/ \E z \in D : v = [obj |-> place[z]]
              /\ \A z \in D : Laid(y, D, place).cdr = [obj |-> place[z]] => y.pair[2] = z
<1>1. Literal(y, D) BY DEF Data
<1>2. "lit" \in DOMAIN y => Laid(y, D, place) = [tag |-> "INTEGER", n |-> y.lit] /\ y.lit \in Words
  BY <1>1 DEF Laid, Literal
<1> DEFINE part(z) == IF z \in D THEN [obj |-> place[z]] ELSE z
<1>3. "lit" \notin DOMAIN y =>
        /\ Laid(y, D, place) = [tag |-> "CELL", car |-> part(y.pair[1]), cdr |-> part(y.pair[2])]
        /\ \A z \in {y.pair[1], y.pair[2]} : z \in D \/ Static(z)
  BY <1>1 DEF Laid, Literal
<1>4. \A z : (z \in D \/ Static(z)) =>
        /\ Static(part(z)) \/ \E x \in D : part(z) = [obj |-> place[x]]
        /\ \A x \in D : part(z) = [obj |-> place[x]] => z = x
  <2> SUFFICES ASSUME NEW z, z \in D \/ Static(z)
               PROVE  /\ Static(part(z)) \/ \E x \in D : part(z) = [obj |-> place[x]]
                      /\ \A x \in D : part(z) = [obj |-> place[x]] => z = x
    OBVIOUS
  <2>1. CASE z \in D BY <2>1, Refs DEF Apart
  <2>2. CASE z \notin D
    <3>1. Static(z) /\ part(z) = z BY <2>2
    <3>2. \A i : z # [obj |-> i] BY <3>1, Statics DEF Const
    <3> QED BY <3>1, <3>2
  <2> QED BY <2>1, <2>2
<1>5. "lit" \in DOMAIN y => Laid(y, D, place).tag = "INTEGER" /\ Laid(y, D, place).n \in Words
  BY <1>2
<1>6. "lit" \notin DOMAIN y => /\ Laid(y, D, place).tag = "CELL"
                               /\ Laid(y, D, place).car = part(y.pair[1])
                               /\ Laid(y, D, place).cdr = part(y.pair[2])
  BY <1>3
<1> HIDE DEF part
<1> QED BY <1>3, <1>4, <1>5, <1>6

LEMMA Growing ==
  ASSUME NEW hp, NEW fr, NEW li, NEW dep, Sound(hp, fr, li, dep),
         NEW D, Data(D), NEW place, Apart(place, D), NEW G,
         NEW hq, Grown(hp, hq, D, place, G), NEW C, C \subseteq D, NEW lq, Named(li, lq, C, place)
  PROVE  Sound(hq, fr, lq, dep) /\ Keeps(DOMAIN hp, hp, hq)
<1> DEFINE O == DOMAIN hp
<1>1. /\ DOMAIN hq = O \cup G \cup {place[y] : y \in D}
      /\ \A i \in O : hq[i] = hp[i]
      /\ \A i \in G : hq[i].tag = "INTEGER" /\ hq[i].n = 0
      /\ \A y \in D : hq[place[y]] = Laid(y, D, place)
      /\ G \subseteq 1 .. MaxObj /\ \A y \in D : place[y] \in 1 .. MaxObj
  BY DEF Grown
<1>2. Holds(O, DOMAIN fr, DOMAIN li, hp, fr, li) BY SoundHolds
<1>3. Keeps(O, hp, hq) BY <1>1, <1>2, HoldsKeeps
<1>4. \A v : Inside(v, O) => /\ Good(v, Usable(hp)) => Good(v, Usable(hq))
                             /\ ArgList(v, hp) => ArgList(v, hq)
  BY <1>3, GoodKept
<1>5. Usable(hp) \cap O \subseteq Usable(hq) BY <1>1 DEF Usable
<1>6. DOMAIN dep = DOMAIN fr /\ DOMAIN lq = DOMAIN li \cup C BY DEF Sound, Named
<1>7. \A y \in D : place[y] \in Usable(hq)
  <2> SUFFICES ASSUME NEW y \in D PROVE place[y] \in Usable(hq) OBVIOUS
  <2>1. hq[place[y]].tag \in {"INTEGER", "CELL"} BY <1>1, LaidIs
  <2> QED BY <2>1, <1>1 DEF Usable
<1>8. \A v : Static(v) \/ (\E z \in D : v = [obj |-> place[z]]) => Good(v, Usable(hq))
  BY <1>7 DEF Good, Const
<1>9. ASSUME NEW i \in DOMAIN hq PROVE ObjectOK(hq[i], Usable(hq), dep, DOMAIN lq)
  <2>1. CASE i \in O
    <3>1. ObjectOK(hp[i], Usable(hp), dep, DOMAIN li) BY <2>1 DEF Sound
    <3>2. Within(hp[i], O, DOMAIN fr, DOMAIN lq) BY <2>1, <1>2, <1>6 DEF Holds, Within
    <3>3. ObjectOK(hp[i], Usable(hq), dep, DOMAIN lq) BY <3>1, <3>2, <1>5, <1>6, ObjectKept
    <3> QED BY <2>1, <3>3, <1>1
  <2>2. CASE i \in G
    <3>1. 0 \in Words BY LongAssumption DEF Words, LongMin
    <3> QED BY <2>2, <3>1, <1>1 DEF ObjectOK
  <2>3. CASE \E y \in D : i = place[y]
    <3>1. PICK y \in D : i = place[y] BY <2>3
    <3>2. PICK o : o = hq[i] OBVIOUS
    <3>3. o = Laid(y, D, place) BY <3>1, <3>2, <1>1
    <3>4. \/ o.tag = "INTEGER" /\ o.n \in Words
          \/ o.tag = "CELL" /\ Good(o.car, Usable(hq)) /\ Good(o.cdr, Usable(hq))
      <4>1. CASE "lit" \in DOMAIN y BY <3>3, <4>1, LaidIs
      <4>2. CASE "lit" \notin DOMAIN y
        <5>1. o.tag = "CELL" /\ \A v \in {o.car, o.cdr} : Static(v) \/ \E z \in D : v = [obj |-> place[z]]
          BY <3>3, <4>2, LaidIs
        <5>2. \A v \in {o.car, o.cdr} : Good(v, Usable(hq)) BY <5>1, <1>8
        <5> QED BY <5>1, <5>2
      <4> QED BY <4>1, <4>2
    <3> QED BY <3>2, <3>4 DEF ObjectOK
  <2> QED BY <2>1, <2>2, <2>3, <1>1
<1>10. Grounded(hq)
  <2> SUFFICES ASSUME NEW S \in SUBSET DOMAIN hq, S # {}
               PROVE  \E x \in S : hq[x].tag # "CELL" \/ \A j \in S : hq[x].cdr # [obj |-> j]
    BY DEF Grounded
  <2>1. CASE \E i \in G : i \in S BY <2>1, <1>1
  <2>2. CASE \E y \in D : place[y] \in S
    <3> DEFINE Y == {y \in D : place[y] \in S}
    <3>1. Y \in SUBSET D /\ Y # {} BY <2>2
    <3>2. PICK y \in Y : "lit" \in DOMAIN y \/ y.pair[2] \notin Y BY <3>1 DEF Data
    <3>3. y \in D /\ place[y] \in S /\ hq[place[y]] = Laid(y, D, place) BY <1>1
    <3>4. CASE "lit" \in DOMAIN y
      <4>1. hq[place[y]].tag = "INTEGER" BY <3>3, <3>4, LaidIs
      <4> QED BY <3>3, <4>1
    <3>5. CASE "lit" \notin DOMAIN y
      <4>1. y.pair[2] \notin Y BY <3>2, <3>5
      <4> SUFFICES ASSUME NEW j \in S, hq[place[y]].cdr = [obj |-> j] PROVE FALSE BY <3>3
      <4>2. ~Static([obj |-> j]) BY Statics DEF Const
      <4>3. PICK z \in D : [obj |-> j] = [obj |-> place[z]]
        <5>1. PICK v : v = Laid(y, D, place).cdr OBVIOUS
        <5>2. Static(v) \/ \E z \in D : v = [obj |-> place[z]] BY <5>1, <3>3, <3>5, LaidIs
        <5> QED BY <5>1, <5>2, <4>2, <3>3
      <4>4. j = place[z] BY <4>3, Refs
      <4>5. y.pair[2] = z BY <4>3, <3>3, <3>5, LaidIs
      <4> QED BY <4>1, <4>4, <4>5
    <3> QED BY <3>4, <3>5
  <2>3. CASE S \subseteq O
    <3>1. PICK x \in S : hp[x].tag # "CELL" \/ \A j \in S : hp[x].cdr # [obj |-> j]
      BY <2>3 DEF Sound, Grounded
    <3> QED BY <3>1, <2>3, <1>1
  <2>4. (\E i \in G : i \in S) \/ (\E y \in D : place[y] \in S) \/ S \subseteq O BY <1>1
  <2> QED BY <2>1, <2>2, <2>3, <2>4
<1>11. ASSUME NEW f \in DOMAIN fr PROVE FrameOK(f, hq, fr, dep)
  <2>1. FrameOK(f, hp, fr, dep) /\ Inside(fr[f].vars, O) BY <1>2 DEF Sound, Holds
  <2> QED BY <2>1, <1>4 DEF FrameOK
<1>12. IsFiniteSet(DOMAIN lq)
  <2>1. IsFiniteSet(C) BY FS_Subset DEF Data
  <2>2. IsFiniteSet(DOMAIN li) BY DEF Sound
  <2> QED BY <2>1, <2>2, <1>6, FS_Union
<1>13. ASSUME NEW k \in DOMAIN lq PROVE Good(lq[k], Usable(hq))
  <2>1. CASE k \in C
    <3>1. lq[k] = [obj |-> place[k]] BY <2>1 DEF Named
    <3> QED BY <2>1, <3>1, <1>8
  <2>2. CASE k \notin C
    <3>1. k \in DOMAIN li /\ lq[k] = li[k] BY <2>2, <1>6 DEF Named
    <3>2. Good(li[k], Usable(hp)) /\ Inside(li[k], O) BY <3>1, <1>2 DEF Sound, Holds
    <3> QED BY <3>1, <3>2, <1>4
  <2> QED BY <2>1, <2>2
<1>14. DOMAIN hq \subseteq 1 .. MaxObj BY <1>1 DEF Sound
<1>15. dep \in [DOMAIN fr -> Nat] /\ DOMAIN fr \subseteq Nat \ {0} /\ IsFiniteSet(DOMAIN fr)
  BY DEF Sound
<1> QED BY <1>3, <1>9, <1>10, <1>11, <1>12, <1>13, <1>14, <1>15 DEF Sound

(* There is room for the constants of a line, and for garbage beside them. *)
Spare(free, f, D, g) == \E G \in SUBSET (free \ {f[x] : x \in D}) : Cardinality(G) = g

LEMMA RoomIs ==
  ASSUME DOMAIN heap \subseteq 1 .. MaxObj, NEW D, IsFiniteSet(D), Room >= Cardinality(D),
         NEW free, free = (1 .. MaxObj) \ DOMAIN heap
  PROVE  /\ \E f \in [D -> free] : Apart(f, D)
         /\ \A f \in [D -> free], g \in 0 .. Room - Cardinality(D) :
              Apart(f, D) => Spare(free, f, D, g)
<1>1. MaxObj \in Nat BY MaxObjAssumption
<1>2. Cardinality(1 .. MaxObj) = MaxObj /\ IsFiniteSet(1 .. MaxObj)
  <2>1. 1 \in Int /\ MaxObj \in Int /\ MaxObj - 1 + 1 = MaxObj /\ (1 > MaxObj => MaxObj = 0) BY <1>1
  <2> QED BY <2>1, FS_Interval
<1>3. IsFiniteSet(DOMAIN heap) /\ Cardinality(DOMAIN heap) \in Nat
  BY <1>2, FS_Subset, FS_CardinalityType
<1>4. PICK J, H : J = 1 .. MaxObj /\ H = DOMAIN heap OBVIOUS
<1>5. IsFiniteSet(free) /\ Cardinality(free) = Room
  <2>1. IsFiniteSet(J) /\ H \subseteq J /\ Cardinality(J) = MaxObj BY <1>2, <1>4
  <2>2. IsFiniteSet(J \ H) /\ Cardinality(J \ H) = MaxObj - Cardinality(H) BY <2>1, SizeWithout
  <2> QED BY <2>2, <1>4 DEF Room
<1>6. Cardinality(D) \in Nat /\ Room \in Nat BY <1>5, FS_CardinalityType
<1>7. \E f \in [D -> free] : Apart(f, D) BY <1>5, <1>6, Fits
<1>8. ASSUME NEW f \in [D -> free], Apart(f, D), NEW g \in 0 .. Room - Cardinality(D)
      PROVE  Spare(free, f, D, g)
  <2>1. PICK T : T = {f[x] : x \in D} OBVIOUS
  <2>2. IsFiniteSet(T) /\ Cardinality(T) = Cardinality(D) BY <1>8, <2>1, ImageSize
  <2>3. T \subseteq free BY <2>1
  <2>4. IsFiniteSet(free \ T) /\ Cardinality(free \ T) = Room - Cardinality(D)
    BY <1>5, <2>2, <2>3, SizeWithout
  <2>5. g \in Nat /\ g <= Room - Cardinality(D) BY <1>6
  <2>6. \E G \in SUBSET (free \ T) : Cardinality(G) = g BY <2>4, <2>5, SubsetOfSize
  <2> QED BY <2>1, <2>6 DEF Spare
<1> QED BY <1>7, <1>8

(* The line that is read. *)
LEMMA LineIs ==
  ASSUME Counters, input # <<>>
  PROVE  /\ Data(Constants) /\ Program.code.consts \subseteq Constants
         /\ Program.code.ins # <<>> =>
              \E y \in Codes : y.node = Program.code /\ y.end = "STOP" /\ y.depth = 0
         /\ Tail(input) \in Seq(Lines)
<1>1. input \in Seq(Lines) BY DEF Counters
<1>2. Program \in Lines /\ Tail(input) \in Seq(Lines) BY <1>1 DEF Program
<1> QED BY <1>2, ProgramsAssumption DEF Data, Constants

(* Its objects are laid down. *)
LEMMA LaysDown ==
  ASSUME NEW dep, Resting(dep), Load
  PROVE  Sound(heap', frames, lits', dep) /\ Keeps(DOMAIN heap, heap, heap')
         /\ Program.code.consts \subseteq DOMAIN lits'
<1> DEFINE free == (1 .. MaxObj) \ DOMAIN heap
           place == CHOOSE f \in [Constants -> free] : \A x, y \in Constants : x # y => f[x] # f[y]
           lists(g) == CHOOSE G \in SUBSET (free \ {place[x] : x \in Constants}) : Cardinality(G) = g
           hq(g) == [i \in DOMAIN heap \cup lists(g) \cup {place[x] : x \in Constants} |->
                       IF i \in DOMAIN heap THEN heap[i]
                       ELSE IF i \in lists(g) THEN [tag |-> "INTEGER", n |-> 0]
                       ELSE Built(CHOOSE x \in Constants : place[x] = i, place)]
           lq == [x \in DOMAIN lits \cup Program.code.consts |->
                    IF x \in Program.code.consts THEN [obj |-> place[x]] ELSE lits[x]]
<1>1. PICK g \in 0 .. Room - Cardinality(Constants) : heap' = hq(g) /\ lits' = lq BY DEF Load
<1>2. PICK D, C, fr, p, G : /\ D = Constants /\ C = Program.code.consts /\ fr = free
                            /\ p = place /\ G = lists(g)
  OBVIOUS
<1>3. Data(D) /\ C \subseteq D /\ Sound(heap, frames, lits, dep) /\ Room >= Cardinality(D)
  BY <1>2, LineIs DEF Resting, Load
<1>4. fr = (1 .. MaxObj) \ DOMAIN heap BY <1>2
<1>5. IsFiniteSet(D) /\ DOMAIN heap \subseteq 1 .. MaxObj BY <1>3 DEF Data, Sound
<1>6. p \in [D -> fr] /\ Apart(p, D)
  <2>1. \E f \in [D -> fr] : Apart(f, D) BY <1>3, <1>4, <1>5, RoomIs
  <2>2. p = CHOOSE f \in [D -> fr] : \A x, y \in D : x # y => f[x] # f[y] BY <1>2
  <2> QED BY <2>1, <2>2 DEF Apart
<1>7. G \in SUBSET (fr \ {p[x] : x \in D})
  <2>1. G = CHOOSE H \in SUBSET (fr \ {p[x] : x \in D}) : Cardinality(H) = g BY <1>2
  <2>2. g \in 0 .. Room - Cardinality(D) BY <1>2
  <2>3. \E H \in SUBSET (fr \ {p[x] : x \in D}) : Cardinality(H) = g
    <3>1. Spare(fr, p, D, g) BY <2>2, <1>3, <1>4, <1>5, <1>6, RoomIs
    <3> QED BY <3>1 DEF Spare
  <2> QED BY <2>1, <2>3
<1>8. /\ heap' = [i \in DOMAIN heap \cup G \cup {p[x] : x \in D} |->
                    IF i \in DOMAIN heap THEN heap[i]
                    ELSE IF i \in G THEN [tag |-> "INTEGER", n |-> 0]
                    ELSE Built(CHOOSE x \in D : p[x] = i, p)]
      /\ lits' = [x \in DOMAIN lits \cup C |-> IF x \in C THEN [obj |-> p[x]] ELSE lits[x]]
  BY <1>1, <1>2
<1> HIDE DEF free, place, lists, hq, lq
<1>9. G \subseteq (1 .. MaxObj) \ DOMAIN heap
      /\ \A y \in D : p[y] \in (1 .. MaxObj) \ (DOMAIN heap \cup G)
  BY <1>4, <1>6, <1>7
<1>10. Grown(heap, heap', D, p, G)
  <2>1. ASSUME NEW y \in D PROVE heap'[p[y]] = Laid(y, D, p)
    <3>1. (CHOOSE x \in D : p[x] = p[y]) = y BY <1>6 DEF Apart
    <3>2. p[y] \notin DOMAIN heap /\ p[y] \notin G BY <1>9
    <3>3. heap'[p[y]] = Built(y, p) BY <1>8, <3>1, <3>2
    <3>4. Built(y, p) = Laid(y, D, p) BY <1>2 DEF Built, Laid
    <3> QED BY <3>3, <3>4
  <2>2. DOMAIN heap' = DOMAIN heap \cup G \cup {p[y] : y \in D} BY <1>8
  <2>3. \A i \in DOMAIN heap : heap'[i] = heap[i] BY <1>8
  <2>4. \A i \in G : heap'[i] = [tag |-> "INTEGER", n |-> 0] BY <1>8, <1>9
  <2> QED BY <2>1, <2>2, <2>3, <2>4, <1>9 DEF Grown
<1>11. Sound(heap', frames, lits', dep) /\ Keeps(DOMAIN heap, heap, heap')
  <2>1. PICK hp, lp : hp = heap' /\ lp = lits' OBVIOUS
  <2>2. Named(lits, lp, C, p) BY <2>1, <1>8 DEF Named
  <2>3. Grown(heap, hp, D, p, G) /\ Apart(p, D) BY <2>1, <1>6, <1>10
  <2>4. Sound(hp, frames, lp, dep) /\ Keeps(DOMAIN heap, heap, hp)
    BY <2>2, <2>3, <1>3, Growing
  <2> QED BY <2>1, <2>4
<1>12. C \subseteq DOMAIN lits' BY <1>8
<1> QED BY <1>2, <1>11, <1>12

LEMMA LoadLineStep ==
  ASSUME NEW dep, Resting(dep), Load
  PROVE  VMInv'
<1>1. Counters /\ Sound(heap, frames, lits, dep) /\ Globals /\ LocalsGood /\ Idle BY DEF Resting
<1>2. Sane BY <1>1, IdleSane
<1>3. /\ Sound(heap', frames, lits', dep) /\ Keeps(DOMAIN heap, heap, heap')
      /\ Program.code.consts \subseteq DOMAIN lits'
  BY LaysDown
<1>4. UNCHANGED <<genv, args, roots, local>> /\ input' = Tail(input) /\ gcs' = 0 /\ result' = NoResult
  BY DEF Load
<1>5. Globals'
  <2>1. \A x \in DOMAIN genv : Inside(genv[x], DOMAIN heap) BY <1>1, <1>2, AllKept
  <2> QED BY <2>1, <1>1, <1>3, <1>4, GlobalsKept
<1>6. LocalsGood'
  <2>1. local = NoLocal BY <1>1 DEF Idle
  <2> QED BY <2>1, <1>4, NoLocalGood DEF LocalsGood, NoLocal
<1>7. input # <<>> /\ Tail(input) \in Seq(Lines) BY <1>1, LineIs DEF Load
<1>8. CASE Program.code.ins = <<>> /\ UNCHANGED <<frames, machine, status>>
  <2>1. Idle' BY <1>1, <1>4, <1>8 DEF Idle, machine
  <2>2. Counters' BY <1>1, <1>4, <1>7, <1>8 DEF Counters, NoResult
  <2>3. Sound(heap', frames', lits', dep) BY <1>3, <1>8
  <2> QED BY <1>5, <1>6, <2>1, <2>2, <2>3, Whole
<1>9. CASE /\ Program.code.ins # <<>> /\ frames' = WithFrame(NIL, 0)
           /\ e' = NewFrame /\ c' = Program.code /\ pc' = Program.code.ins
           /\ status' = "run" /\ UNCHANGED <<s, d>>
  <2>1. PICK x \in Codes : x.node = Program.code /\ x.end = "STOP" /\ x.depth = 0
    BY <1>1, <1>7, <1>9, LineIs
  <2>2. PICK f, de : /\ f = NewFrame
                     /\ de = [g \in DOMAIN frames \cup {f} |-> IF g = f THEN 0 ELSE dep[g]]
    OBVIOUS
  <2>3. f \in Nat \ {0} /\ f \notin DOMAIN frames BY <1>1, <2>2, NewFrameIs DEF Sound
  <2>4. PICK hp, lp, fp : hp = heap' /\ lp = lits' /\ fp = frames' OBVIOUS
  <2>5. Sound(hp, fp, lp, de)
    <3>1. ArgList(NIL, hp) BY DEF ArgList
    <3>2. fp = [g \in DOMAIN frames \cup {f} |-> IF g = f THEN [vars |-> NIL, next |-> 0] ELSE frames[g]]
      BY <1>9, <2>2, <2>4 DEF WithFrame
    <3>3. de = [g \in DOMAIN frames \cup {f} |->
                  IF g = f THEN (IF 0 = 0 THEN 0 ELSE dep[0] + 1) ELSE dep[g]]
      BY <2>2
    <3>4. Sound(hp, frames, lp, dep) BY <1>3, <2>4
    <3>5. \E z : z = 0 /\ (z = 0 \/ z \in DOMAIN frames) OBVIOUS
    <3> QED BY <2>3, <3>1, <3>2, <3>3, <3>4, <3>5, SoundFrame
  <2>6. f \in DOMAIN de /\ de[f] = 0 BY <2>2
  <2>7. PICK a, B : a = Started(x, f, <<>>) /\ B = [n \in Nat |-> a] OBVIOUS
  <2>8. Begins(a, x, f, <<>>, de, DOMAIN lp)
    <3>1. x.node.consts \subseteq DOMAIN lp BY <1>3, <2>1, <2>4
    <3>2. x.depth <= de[f] BY <2>1, <2>6
    <3>3. <<>> \in Seq(Kinds) OBVIOUS
    <3> QED BY <2>6, <2>7, <3>1, <3>2, <3>3, RunsStart
  <2>9. B[1] = a /\ s = <<>> /\ d = <<>> /\ args = NoArgs BY <1>1, <2>7 DEF Idle
  <2>10. Runs(a, c', pc', de, DOMAIN lits') /\ a.env = e' /\ a.ty[a.at] = <<>> /\ a.x = x /\ a.base = <<>>
    BY <1>9, <2>1, <2>2, <2>4, <2>8 DEF Begins
  <2>11. Holding(B[1], s', args', c'.ins, heap')
    <3>1. ~NoArgs.on BY DEF NoArgs
    <3>2. Typed(<<>>, <<>>, heap') BY EmptyIs DEF Typed
    <3> QED BY <1>4, <1>9, <2>9, <2>10, <3>1, <3>2 DEF Holding
  <2>12. Chain(B, d', heap', de, DOMAIN lits')
    <3>1. d' = <<>> /\ Len(d') + 1 = 1 BY <1>9, <2>9
    <3> QED BY <3>1, <2>1, <2>9, <2>10, EmptyIs DEF Chain
  <2>13. Busy(B, de)' BY <1>9, <2>9, <2>10, <2>11, <2>12 DEF Busy
  <2>14. Counters' BY <1>1, <1>4, <1>7, <1>9 DEF Counters, NoResult
  <2>15. Sound(heap', frames', lits', de) BY <2>4, <2>5
  <2> QED BY <1>5, <1>6, <2>13, <2>14, <2>15, Whole
<1> QED BY <1>8, <1>9 DEF Load

-----------------------------------------------------------------------------
(* The theorems.                                                           *)

LEMMA InstructionStep ==
  ASSUME NEW A, NEW dep, Running(A, dep), Instruction
  PROVE  VMInv'
<1>1. CASE Def BY <1>1, DefStep
<1>2. CASE Ld BY <1>2, LdStep
<1>3. CASE Ldc BY <1>3, LdcStep
<1>4. CASE Ldg BY <1>4, LdgStep
<1>5. CASE Ldf BY <1>5, LdfStep
<1>6. CASE Sel BY <1>6, SelStep
<1>7. CASE Join BY <1>7, JoinStep
<1>8. CASE Pop BY <1>8, PopStep
<1>9. CASE Rtn BY <1>9, RtnStep
<1>10. CASE Stop BY <1>10, StopStep
<1>11. CASE ArgsBegin BY <1>11, ArgsBeginStep
<1>12. CASE ArgsCons BY <1>12, ArgsConsStep
<1>13. CASE ArgsEnd BY <1>13, ArgsEndStep
<1>14. CASE AppError BY <1>14, AppErrorStep
<1>15. CASE AppClosure BY <1>15, AppClosureStep
<1>16. CASE AppPrim BY <1>16, AppPrimStep
<1>17. CASE AppNull \/ CodeEnds BY <1>17, AppNullStep
<1> QED BY <1>1, <1>2, <1>3, <1>4, <1>5, <1>6, <1>7, <1>8, <1>9, <1>10, <1>11, <1>12, <1>13,
          <1>14, <1>15, <1>16, <1>17 DEF Instruction

(* Whether a line is running. *)
LEMMA Phases ==
  ASSUME VMInv
  PROVE  \/ \E dep : Resting(dep)
         \/ \E dep : \E A : Running(A, dep)
         \/ Counters /\ Broken
  BY DEF VMInv, Intact, Resting, Running

LEMMA InstructionRuns ==
  ASSUME Instruction
  PROVE  status = "run"
  BY DEF Instruction, Def, Ld, Ldc, Ldg, Ldf, Sel, Join, Pop, Rtn, Stop, ArgsBegin, ArgsCons,
         ArgsEnd, AppError, AppClosure, AppPrim, AppNull, CodeEnds, At

LEMMA StepInv == VMInv /\ [Next]_vars => VMInv'
<1> SUFFICES ASSUME VMInv, [Next]_vars PROVE VMInv' OBVIOUS
<1>1. CASE UNCHANGED vars
  <2>1. Counters' BY <1>1 DEF vars, VMInv, Counters
  <2>2. CASE Intact
    <3>1. PICK dep : /\ Sound(heap, frames, lits, dep) /\ Globals /\ LocalsGood
                     /\ Idle \/ \E A : Busy(A, dep)
      BY <2>2 DEF Intact
    <3>2. UNCHANGED <<heap, frames, lits, s, e, c, pc, d, args, genv, local, status>>
      BY <1>1 DEF vars
    <3>3. Sound(heap', frames', lits', dep) BY <3>1, <3>2
    <3>4. Globals' /\ LocalsGood' BY <3>1, <3>2 DEF Globals, LocalsGood, Usables
    <3>5. ASSUME Idle PROVE Idle' BY <3>2, <3>5 DEF Idle
    <3>6. ASSUME NEW A, Busy(A, dep) PROVE Busy(A, dep)' BY <3>2, <3>6 DEF Busy
    <3> QED BY <2>1, <3>1, <3>3, <3>4, <3>5, <3>6, Whole
  <2>3. CASE Broken
    <3>1. TypeOK' BY <1>1, <2>3 DEF vars, Broken, TypeOK
    <3>2. ErrorsNeverStored'
      BY <1>1, <2>3 DEF vars, Broken, ErrorsNeverStored, GlobalItems, VMItems, StackItems,
                        FrameItem, ConstItems, AllItems, Reached
    <3>3. status' = "undefined" BY <1>1, <2>3 DEF vars, Broken
    <3> QED BY <2>1, <3>1, <3>2, <3>3 DEF VMInv, Broken
  <2> QED BY <2>2, <2>3 DEF VMInv
<1>2. CASE Load
  <2>1. status = "idle" BY <1>2 DEF Load
  <2>2. PICK dep : Resting(dep) BY <2>1, Phases DEF Running, Busy, Broken
  <2> QED BY <1>2, <2>2, LoadLineStep
<1>3. CASE ReadCollects
  <2>1. status = "idle" BY <1>3 DEF ReadCollects
  <2>2. PICK dep : Resting(dep) BY <2>1, Phases DEF Running, Busy, Broken
  <2> QED BY <1>3, <2>2, ReadCollectsStep
<1>4. CASE Instruction
  <2>1. status = "run" BY <1>4, InstructionRuns
  <2>2. PICK dep, A : Running(A, dep) BY <2>1, Phases DEF Resting, Idle, Broken
  <2> QED BY <1>4, <2>2, InstructionStep
<1> QED BY <1>1, <1>2, <1>3, <1>4 DEF Next

(* What each instruction finds. *)
LEMMA OperandsFound ==
  ASSUME NEW A, NEW dep, Running(A, dep), pc # <<>>
  PROVE  Operands
<1>1. Busy(A, dep) BY DEF Running
<1>2. Resolved(I, A[1].x) BY <1>1, Current
<1>3. CASE I.op \in {"DEF", "SEL", "POP", "APP"}
  <2>1. PICK n : n = Len(Takes(I)) OBVIOUS
  <2>2. n \in 0 .. Len(s) /\ Len(s) \in Nat BY <1>1, <1>3, <2>1, StackIs DEF Ends
  <2>3. n = IF I.op = "APP" THEN 2 ELSE 1 BY <1>3, <2>1, TakesIs
  <2>4. Len(s) >= n BY <2>2
  <2> QED BY <1>3, <2>3, <2>4 DEF Operands
<1>4. CASE I.op = "ARGS"
  <2>1. CASE args.on
    <3>1. PICK n, t, m, l, z : /\ n = I.n /\ t = A[1].ty[A[1].at] /\ m = args.left /\ l = Len(t)
                               /\ z = Len(s)
      OBVIOUS
    <3>2. n \in Nat /\ m \in 0 .. n /\ n <= l /\ l \in Nat /\ z = l - (n - m)
      BY <1>4, <2>1, <3>1, Taking
    <3>3. z >= m BY <3>2
    <3> QED BY <1>4, <2>1, <3>1, <3>3 DEF Operands
  <2>2. CASE ~args.on
    <3>1. Typed(s, A[1].ty[A[1].at], heap) /\ Moves(I, A[1].ty[A[1].at], A[1].ty[A[1].at + 1])
      BY <1>1, <1>4, <2>2, Current DEF Ends
    <3>2. I.n \in Nat BY <1>2, <1>4 DEF Resolved
    <3>3. Len(Takes(I)) = I.n BY <1>4, <3>2, TakesIs
    <3>4. Len(s) >= I.n BY <3>1, <3>3 DEF Typed, Moves
    <3> QED BY <1>4, <2>2, <3>4 DEF Operands
  <2> QED BY <2>1, <2>2
<1>5. CASE I.op \in Ends
  <2>1. /\ Typed(s, <<"value">> \o A[1].base, heap) /\ I.op = A[1].x.end
        /\ d # <<>> => Link(A[1], A[2], Head(d), heap, dep, DOMAIN lits)
        /\ d = <<>> => A[1].x.end = "STOP" /\ A[1].base = <<>>
    BY <1>5, DumpIs
  <2>2. I.op = "JOIN" => d # <<>> /\ Head(d).stack = <<>> BY <2>1 DEF Link
  <2>3. I.op = "RTN" => d # <<>> /\ A[1].base = <<>> BY <2>1 DEF Link
  <2>4. I.op = "STOP" => d = <<>> /\ A[1].base = <<>> BY <2>1 DEF Link
  <2>5. A[1].base = <<>> => Len(s) = 1 BY <2>1, OneValue
  <2> QED BY <1>5, <2>2, <2>3, <2>4, <2>5 DEF Operands, Ends
<1> QED BY <1>3, <1>4, <1>5 DEF Operands, Ends

LEMMA InvIs == VMInv => TypeOK /\ RefsValid /\ ErrorsNeverStored /\ Operands
<1> SUFFICES ASSUME VMInv PROVE TypeOK /\ RefsValid /\ ErrorsNeverStored /\ Operands OBVIOUS
<1>1. CASE \E dep : Resting(dep)
  <2>1. PICK dep : Resting(dep) BY <1>1
  <2>2. Sound(heap, frames, lits, dep) /\ Globals /\ LocalsGood /\ Idle /\ Counters
    BY <2>1 DEF Resting
  <2>3. TypeOK /\ RefsValid /\ ErrorsNeverStored BY <2>2, IdleSane, IntactIs
  <2>4. Operands BY <2>2 DEF Idle, Operands
  <2> QED BY <2>3, <2>4
<1>2. CASE \E dep : \E A : Running(A, dep)
  <2>1. PICK dep, A : Running(A, dep) BY <1>2
  <2>2. Sound(heap, frames, lits, dep) /\ Sane /\ Counters BY <2>1, Resources
  <2>3. TypeOK /\ RefsValid /\ ErrorsNeverStored BY <2>2, IntactIs
  <2>4. pc = <<>> => Operands BY DEF Operands
  <2> QED BY <2>1, <2>3, <2>4, OperandsFound
<1>3. CASE Counters /\ Broken
  BY <1>3 DEF Broken, RefsValid, Operands
<1> QED BY <1>1, <1>2, <1>3, Phases

(* The machine runs the code it was given: at every moment the store is    *)
(* sound and the machine is at rest or in an activation of a code node,    *)
(* with those of its callers in the dump, or a reference has just been     *)
(* lost and the program's behaviour is undefined (vm.c, with gc.c).        *)
THEOREM MachineInvariant == Spec => []VMInv
<1> QED BY InitInv, StepInv, PTL DEF Spec

(* Values are values, and no object is outside the semispace (vm.c).       *)
THEOREM MachineTypes == Spec => []TypeOK
<1>1. VMInv => TypeOK BY InvIs
<1> QED BY <1>1, MachineInvariant, PTL

(* Whatever the machine, the globals and the objects refer to is what a    *)
(* collection kept (vm_collect_roots and fzscm_gc): the frames and stacks  *)
(* of the dump, the code to return to and the registered locals are found, *)
(* except where INST_ARGS and new_vector_obj lose a reference.             *)
THEOREM ReferencesValid == Spec => []RefsValid
<1>1. VMInv => RefsValid BY InvIs
<1> QED BY <1>1, MachineInvariant, PTL

(* No stack, list, vector, variable or constant ever holds an error object *)
(* (INST_LDG, INST_APP): gc.c has no case for OBJ_ERROR.                   *)
THEOREM ErrorsUnstored == Spec => []ErrorsNeverStored
<1>1. VMInv => ErrorsNeverStored BY InvIs
<1> QED BY <1>1, MachineInvariant, PTL

(* Every instruction of vm_run finds its operands on the stack of its own  *)
(* call, INST_JOIN the dump entry of its INST_SEL, INST_RTN that of its    *)
(* call and one value, INST_STOP one value and an empty dump: the s_pop    *)
(* and d_pop of vm.c, which check nothing, never meet an empty stack.      *)
THEOREM OperandsThere == Spec => []Operands
<1>1. VMInv => Operands BY InvIs
<1> QED BY <1>1, MachineInvariant, PTL
=============================================================================
