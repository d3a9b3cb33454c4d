---------------------------- MODULE NodeListProofs ----------------------------
(***************************************************************************)
(* The links of the node lists agree in every reachable state, for any set *)
(* of nodes.  LinksAgree is not inductive alone: while _clear runs, the    *)
(* node to be freed next must be allocated, unreachable from every other   *)
(* cell, and the main list must be detached already.                       *)
(***************************************************************************)
EXTENDS NodeList, TLAPS

Detached ==
  /\ phase # "clear" => cur = NULL
  /\ phase = "clear" => next[MainHead] = NULL
  /\ cur \in alloc \cup {NULL}
  /\ \A x \in alloc \cup Head : next[x] # NULL => next[x] # cur

IInv == TypeOK /\ LinksAgree /\ Detached

-----------------------------------------------------------------------------
(* A push in front of a list whose links agree (_push).                    *)
LEMMA PushAgrees ==
  ASSUME IInv, phase # "clear", NEW n \in Node, NEW h \in Head,
         \A x \in alloc \cup Head : next[x] # n,
         Assign(Pushed(links, n, h)), alloc' = alloc \cup {n},
         cur' = cur, phase' = phase
  PROVE  IInv'
<1> USE NamesAssumption DEF Head, Cell
<1> DEFINE first == next[h]
<1>1. /\ prev' = [x \in Cell |-> IF x = n THEN h ELSE IF x = first THEN n ELSE prev[x]]
      /\ next' = [next EXCEPT ![n] = first, ![h] = n]
  BY DEF Assign, Pushed, links
<1>2. next \in [Cell -> Cell \cup {NULL, FREED}] /\ prev \in [Cell -> Cell \cup {NULL, FREED}]
      /\ alloc \subseteq Node /\ cur = NULL
  BY DEF IInv, TypeOK, Detached
<1>3. first # NULL => first \in alloc /\ first # n /\ prev[first] = h
  BY <1>2 DEF IInv, LinksAgree
<1>4. TypeOK'
  BY <1>1, <1>2, <1>3 DEF IInv, TypeOK
<1>5. LinksAgree'
  BY <1>1, <1>2, <1>3 DEF IInv, LinksAgree
<1>6. Detached'
  BY <1>1, <1>2, <1>3 DEF IInv, Detached
<1> QED  BY <1>4, <1>5, <1>6 DEF IInv

(* Every operation of the lists preserves the strengthened invariant.      *)
THEOREM LinksInductive == IInv /\ [Next]_vars => IInv'
<1> USE NamesAssumption DEF Head, Cell
<1> SUFFICES ASSUME IInv, [Next]_vars PROVE IInv'
  OBVIOUS
<1>0. /\ next \in [Cell -> Cell \cup {NULL, FREED}]
      /\ prev \in [Cell -> Cell \cup {NULL, FREED}]
      /\ alloc \subseteq Node
  BY DEF IInv, TypeOK
<1>1. CASE UNCHANGED vars
  BY <1>1 DEF vars, IInv, TypeOK, LinksAgree, Detached
<1>2. ASSUME NEW n \in Node, New(n) PROVE IInv'
  <2>1. \A x \in alloc \cup Head : next[x] # n
    BY <1>0, <1>2 DEF New, IInv, LinksAgree
  <2> QED  BY <1>2, <2>1, PushAgrees DEF New
<1>3. ASSUME NEW n \in Node, Release(n) PROVE IInv'
  <2>1. PICK p \in alloc \cup Head : p = prev[n] /\ next[p] = n
    BY <1>3 DEF Release, IInv, LinksAgree, Detached
  <2>2. /\ prev' = [x \in Cell |-> IF x = n THEN FREED
                                   ELSE IF x = next[n] THEN p ELSE prev[x]]
        /\ next' = [next EXCEPT ![p] = next[n], ![n] = FREED]
        /\ alloc' = alloc \ {n} /\ cur' = NULL /\ phase' = "mutator"
    BY <1>0, <1>3, <2>1 DEF Release, Removed, Assign, links, IInv, Detached
  <2>3. TypeOK'  BY <1>0, <2>1, <2>2 DEF TypeOK
  <2>4. LinksAgree'
    BY <1>0, <1>3, <2>1, <2>2 DEF Release, IInv, LinksAgree, Detached
  <2>5. Detached'  BY <1>0, <1>3, <2>1, <2>2 DEF Release, IInv, Detached
  <2> QED  BY <2>3, <2>4, <2>5 DEF IInv
<1>4. ASSUME NEW n \in Node, Mark(n) PROVE IInv'
  <2>1. PICK p \in alloc \cup Head : p = prev[n] /\ next[p] = n
    BY <1>4 DEF Mark, IInv, LinksAgree, Detached
  <2> DEFINE first == IF p = MarkedHead THEN next[n] ELSE next[MarkedHead]
  <2>2. /\ prev' = [x \in Cell |-> IF x = n THEN MarkedHead
                                   ELSE IF x = first THEN n
                                   ELSE IF x = next[n] THEN p ELSE prev[x]]
        /\ next' = [x \in Cell |-> IF x = MarkedHead THEN n
                                   ELSE IF x = n THEN first
                                   ELSE IF x = p THEN next[n] ELSE next[x]]
        /\ alloc' = alloc /\ cur' = NULL /\ cur = NULL /\ phase' = "mark"
    BY <1>0, <1>4, <2>1 DEF Mark, Removed, Pushed, Assign, links, IInv, Detached
  <2>3. /\ first # NULL => first \in alloc /\ first # n
        /\ next[n] # NULL => next[n] \in alloc /\ prev[next[n]] = n
    BY <1>0, <1>4, <2>1 DEF Mark, IInv, LinksAgree
  <2>4. TypeOK'  BY <1>0, <2>1, <2>2, <2>3 DEF TypeOK
  <2>5. LinksAgree'
    <3>1. CASE p = MarkedHead
      BY <1>0, <1>4, <2>1, <2>2, <2>3, <3>1 DEF Mark, IInv, LinksAgree, Detached
    <3>2. CASE p # MarkedHead /\ p # n
      BY <1>0, <1>4, <2>1, <2>2, <2>3, <3>2 DEF Mark, IInv, LinksAgree, Detached
    <3>3. CASE p = n
      BY <1>0, <1>4, <2>1, <2>2, <2>3, <3>3 DEF Mark, IInv, LinksAgree, Detached
    <3> QED  BY <3>1, <3>2, <3>3
  <2>6. Detached'
    BY <1>0, <1>4, <2>1, <2>2, <2>3 DEF Mark, IInv, LinksAgree, Detached
  <2> QED  BY <2>4, <2>5, <2>6 DEF IInv
<1>5. CASE StartMarking
  BY <1>5 DEF StartMarking, IInv, TypeOK, LinksAgree, Detached
<1>6. CASE StartClearing
  BY <1>0, <1>6 DEF StartClearing, IInv, TypeOK, LinksAgree, Detached
<1>7. CASE ClearStep
  BY <1>0, <1>7 DEF ClearStep, IInv, TypeOK, LinksAgree, Detached
<1>8. CASE Splice
  BY <1>0, <1>8 DEF Splice, IInv, TypeOK, LinksAgree, Detached
<1> QED  BY <1>1, <1>2, <1>3, <1>4, <1>5, <1>6, <1>7, <1>8 DEF Next, Collect

(* Links are cells, null or freed words; _clear never holds a freed link.  *)
THEOREM ListTyped == Spec => []TypeOK
<1>1. Init => IInv
  BY NamesAssumption DEF Init, IInv, TypeOK, LinksAgree, Detached, Head, Cell
<1> QED  BY <1>1, LinksInductive, PTL DEF Spec, IInv

(* The links of neighbours agree after every operation of the lists, also  *)
(* between two frees of _clear (doubly_linked_list.h).                     *)
THEOREM LinksAlwaysAgree == Spec => []LinksAgree
<1>1. Init => IInv
  BY NamesAssumption DEF Init, IInv, TypeOK, LinksAgree, Detached, Head, Cell
<1> QED  BY <1>1, LinksInductive, PTL DEF Spec, IInv

-----------------------------------------------------------------------------
(***************************************************************************)
(* The linked lists are the sets the collector relies on, for any set of   *)
(* nodes: no node is leaked or in both lists, and every operation on the   *)
(* links is the operation of module NodeSets.  The chains are least sets,  *)
(* so the argument needs no induction over the length of a list: what an   *)
(* operation makes of a chain is closed under the new links, and every set *)
(* closed under them contains it.                                          *)
(***************************************************************************)

(* Chain for a given map of links, to serve before and after a step.       *)
LinkMap == [Cell -> Cell \cup {NULL, FREED}]
Walk(nx, S) == \A y \in S : nx[y] \in Node => nx[y] \in S
ChainOf(nx, x) ==
  {y \in Node : \A S \in SUBSET Cell : {x} \cap Cell \subseteq S /\ Walk(nx, S) => y \in S}

LEMMA Chains ==
  /\ \A x : Chain(x) = ChainOf(next, x)
  /\ Marked = ChainOf(next, MarkedHead) /\ Marked' = ChainOf(next', MarkedHead)
  /\ Main = ChainOf(next, IF phase = "clear" THEN cur ELSE MainHead)
  /\ Main' = ChainOf(next', IF phase' = "clear" THEN cur' ELSE MainHead)
BY DEF Chain, ChainOf, Linked, Walk, Main, Marked

(* A chain is closed under the links, and within every such set.           *)
LEMMA ChainCloses ==
  ASSUME NEW nx, NEW x
  PROVE  /\ ChainOf(nx, x) \subseteq Node
         /\ x \in Node => x \in ChainOf(nx, x)
         /\ \A y \in Cell : y = x \/ y \in ChainOf(nx, x) =>
              (nx[y] \in Node => nx[y] \in ChainOf(nx, x))
BY DEF ChainOf, Walk, Cell

LEMMA ChainIsLeast ==
  ASSUME NEW nx, NEW x, NEW S \in SUBSET Cell, x \in Cell => x \in S, Walk(nx, S)
  PROVE  ChainOf(nx, x) \subseteq S
BY DEF ChainOf

(* How a set is shown to be a chain.                                       *)
LEMMA IsChain ==
  ASSUME NEW nx, NEW x, NEW C \in SUBSET Node, x \in Node => x \in C,
         \A y \in C \cup ({x} \cap Cell) : nx[y] \in Node => nx[y] \in C,
         \A T \in SUBSET Cell : (x \in Cell => x \in T) /\ Walk(nx, T) => C \subseteq T
  PROVE  ChainOf(nx, x) = C
<1> DEFINE S == C \cup ({x} \cap Cell)
<1>1. S \in SUBSET Cell /\ Walk(nx, S) /\ (x \in Cell => x \in S)
  BY DEF Walk, Cell
<1> HIDE DEF S
<1>2. ChainOf(nx, x) \subseteq S
  BY <1>1, ChainIsLeast
<1>3. ChainOf(nx, x) \subseteq C
  BY <1>2, ChainCloses DEF S
<1>4. C \subseteq ChainOf(nx, x)
  BY DEF ChainOf
<1> QED  BY <1>3, <1>4

LEMMA NoChain == \A nx : ChainOf(nx, NULL) = {}
<1> TAKE nx
<1>1. NULL \notin Cell /\ {} \in SUBSET Cell /\ Walk(nx, {})
  BY NamesAssumption DEF Walk
<1> QED  BY <1>1, ChainIsLeast

-----------------------------------------------------------------------------
(* What the operations on the links do to chains.                          *)

(* Links outside a chain do not matter to it.                              *)
LEMMA SameChain ==
  ASSUME NEW nx, NEW ny, NEW x \in Cell, \A y \in ChainOf(nx, x) \cup {x} : ny[y] = nx[y]
  PROVE  ChainOf(ny, x) = ChainOf(nx, x)
<1> DEFINE C == ChainOf(nx, x)
<1>1. /\ C \in SUBSET Node /\ (x \in Node => x \in C)
      /\ \A y \in C \cup {x} : nx[y] \in Node => nx[y] \in C
  BY ChainCloses DEF Cell
<1>2. ASSUME NEW T \in SUBSET Cell, x \in T, Walk(ny, T) PROVE C \subseteq T
  <2> DEFINE S == T \cap (C \cup {x})
  <2>1. S \in SUBSET Cell /\ x \in S /\ Walk(nx, S)
    BY <1>1, <1>2 DEF Walk
  <2> HIDE DEF S
  <2>2. C \subseteq S
    BY <2>1, ChainIsLeast
  <2> QED  BY <2>2 DEF S
<1> HIDE DEF C
<1>3. \A y \in C \cup ({x} \cap Cell) : ny[y] \in Node => ny[y] \in C
  BY <1>1 DEF C
<1>4. ChainOf(ny, x) = C
  BY <1>1, <1>2, <1>3, IsChain
<1> QED  BY <1>4 DEF C

(* A push in front of the chain of h.                                      *)
LEMMA PushedChain ==
  ASSUME NEW nx \in LinkMap, NEW h \in Head, NEW n \in Node, n \notin ChainOf(nx, h)
  PROVE  ChainOf([nx EXCEPT ![n] = nx[h], ![h] = n], h) = ChainOf(nx, h) \cup {n}
<1> DEFINE ny == [nx EXCEPT ![n] = nx[h], ![h] = n]
           C == ChainOf(nx, h)
<1>1. /\ C \in SUBSET Node /\ h \in Cell /\ h \notin Node
      /\ \A y \in C \cup {h} : nx[y] \in Node => nx[y] \in C
  BY ChainCloses, NamesAssumption DEF Cell
<1>2. /\ ny[n] = nx[h] /\ ny[h] = n
      /\ \A y \in Cell \ {n, h} : ny[y] = nx[y]
  BY <1>1 DEF LinkMap, Cell
<1> HIDE DEF ny
<1>3. ASSUME NEW T \in SUBSET Cell, h \in T, Walk(ny, T) PROVE C \cup {n} \subseteq T
  <2> DEFINE S == (T \cap C) \cup {h}
  <2>1. n \in T /\ (nx[h] \in Node => nx[h] \in T)
    BY <1>2, <1>3 DEF Walk
  <2>2. S \in SUBSET Cell /\ h \in S
    BY <1>1
  <2>3. Walk(nx, S)
    BY <1>1, <1>2, <1>3, <2>1 DEF Walk, Cell
  <2> HIDE DEF S
  <2>4. C \subseteq S
    BY <2>2, <2>3, ChainIsLeast
  <2> QED  BY <1>1, <2>1, <2>4 DEF S
<1> HIDE DEF C
<1>4. /\ C \cup {n} \in SUBSET Node
      /\ \A y \in (C \cup {n}) \cup ({h} \cap Cell) : ny[y] \in Node => ny[y] \in C \cup {n}
  BY <1>1, <1>2 DEF Cell, C
<1>5. ChainOf(ny, h) = C \cup {n}
  BY <1>1, <1>3, <1>4, IsChain
<1> QED  BY <1>5 DEF C, ny

(* The removal of n, whose one predecessor is p, from the chain of h.      *)
LEMMA RemovedChain ==
  ASSUME NEW nx \in LinkMap, NEW h \in Head, NEW n \in ChainOf(nx, h), NEW p \in Cell, nx[p] = n,
         \A y \in ChainOf(nx, h) \cup {h} : nx[y] = n => y = p
  PROVE  /\ p # n /\ p \in ChainOf(nx, h) \cup {h}
         /\ \A ny : /\ ny[p] = nx[n]
                    /\ \A y \in Cell \ {n, p} : ny[y] = nx[y]
                    => ChainOf(ny, h) = ChainOf(nx, h) \ {n}
<1> DEFINE C == ChainOf(nx, h)
<1>1. /\ C \in SUBSET Node /\ h \in Cell /\ h \notin Node /\ n \in Node
      /\ \A y \in C \cup {h} : nx[y] \in Node => nx[y] \in C
  BY ChainCloses, NamesAssumption DEF Cell
<1>2. p # n /\ p \in C \cup {h}
  <2> SUFFICES ASSUME p = n \/ p \notin C \cup {h} PROVE FALSE
    OBVIOUS
  <2> DEFINE S == (C \ {n}) \cup {h}
  <2>1. S \in SUBSET Cell /\ h \in S /\ Walk(nx, S)
    BY <1>1 DEF Walk, Cell
  <2> HIDE DEF S
  <2>2. C \subseteq S
    BY <2>1, ChainIsLeast
  <2> QED  BY <1>1, <2>2 DEF S
<1>3. ASSUME NEW ny, ny[p] = nx[n], \A y \in Cell \ {n, p} : ny[y] = nx[y]
      PROVE  ChainOf(ny, h) = C \ {n}
  <2> DEFINE D == C \ {n}
  <2>1. ASSUME NEW T \in SUBSET Cell, h \in T, Walk(ny, T) PROVE D \subseteq T
    <3> DEFINE S == (T \cap (D \cup {h})) \cup {n}
    <3>1. S \in SUBSET Cell /\ h \in S
      BY <1>1, <2>1 DEF Cell
    <3>2. CASE p \in T
      <4>1. Walk(nx, S)
        BY <1>1, <1>2, <1>3, <2>1, <3>2 DEF Walk, Cell
      <4> HIDE DEF S
      <4>2. C \subseteq S
        BY <3>1, <4>1, ChainIsLeast
      <4> QED  BY <1>1, <4>2 DEF S
    <3>3. CASE p \notin T
      <4> DEFINE R == T \cap (D \cup {h})
      <4>1. R \in SUBSET Cell /\ h \in R
        BY <1>1, <2>1 DEF Cell
      <4>2. Walk(nx, R)
        BY <1>1, <1>2, <1>3, <2>1, <3>3 DEF Walk, Cell
      <4> HIDE DEF R
      <4>3. C \subseteq R
        BY <4>1, <4>2, ChainIsLeast
      <4> QED  BY <1>1, <4>3 DEF R
    <3> QED  BY <3>2, <3>3
  <2>2. \A y \in D \cup ({h} \cap Cell) : ny[y] \in Node => ny[y] \in D
    <3> SUFFICES ASSUME NEW y \in D \cup {h}, ny[y] \in Node PROVE ny[y] \in D
      OBVIOUS
    <3>1. CASE y = p
      BY <1>1, <1>2, <1>3, <3>1
    <3>2. CASE y # p
      BY <1>1, <1>2, <1>3, <3>2 DEF Cell
    <3> QED  BY <3>1, <3>2
  <2> HIDE DEF D
  <2>3. D \in SUBSET Node
    BY <1>1 DEF D
  <2>4. ChainOf(ny, h) = D
    BY <1>1, <2>1, <2>2, <2>3, IsChain
  <2> QED  BY <2>4 DEF D
<1> HIDE DEF C
<1> QED  BY <1>2, <1>3 DEF C

(* The chain that begins behind x, when no link of it leads to x.          *)
LEMMA TailChain ==
  ASSUME NEW nx, NEW ny, NEW x \in Cell, nx[x] \in Node \cup {NULL},
         \A y \in ChainOf(nx, x) \cup {x} : nx[y] # x,
         \A y \in Cell \ {x} : ny[y] = nx[y]
  PROVE  ChainOf(ny, nx[x]) = ChainOf(nx, x) \ {x}
<1> DEFINE C == ChainOf(nx, x)
           D == C \ {x}
<1>1. /\ C \in SUBSET Node
      /\ \A y \in C \cup {x} : nx[y] \in Node => nx[y] \in C
      /\ NULL \notin Cell
  BY ChainCloses, NamesAssumption DEF Cell
<1>2. ASSUME NEW T \in SUBSET Cell, nx[x] \in Cell => nx[x] \in T, Walk(ny, T) PROVE D \subseteq T
  <2> DEFINE S == T \cup {x}
  <2>1. S \in SUBSET Cell /\ x \in S /\ Walk(nx, S)
    BY <1>2 DEF Walk, Cell
  <2> HIDE DEF S
  <2>2. C \subseteq S
    BY <2>1, ChainIsLeast
  <2> QED  BY <2>2 DEF S
<1>3. \A y \in D \cup ({nx[x]} \cap Cell) : ny[y] \in Node => ny[y] \in D
  BY <1>1 DEF Cell
<1>4. D \in SUBSET Node /\ (nx[x] \in Node => nx[x] \in D)
  BY <1>1
<1> HIDE DEF D, C
<1>5. ChainOf(ny, nx[x]) = D
  BY <1>2, <1>3, <1>4, IsChain
<1> QED  BY <1>5 DEF D, C

-----------------------------------------------------------------------------
(* The operations as operations on the two sets.  The marked list is empty *)
(* between collections, so a node that is released is in the main list.    *)

NInv == IInv /\ NoLeak /\ (phase = "mutator" => Marked = {})

LEMMA ListFacts ==
  ASSUME NInv
  PROVE  /\ next \in LinkMap /\ prev \in LinkMap /\ alloc \subseteq Node /\ cur \in Node \cup {NULL}
         /\ Head \cap Node = {} /\ MainHead # MarkedHead /\ NULL \notin Cell
         /\ \A x \in alloc \cup Head :
              next[x] # NULL => next[x] \in alloc /\ prev[next[x]] = x /\ next[x] # cur
         /\ Main \subseteq alloc /\ Marked \subseteq alloc
BY NamesAssumption DEF NInv, NoLeak, IInv, TypeOK, LinksAgree, Detached, LinkMap

(* Taking n out of whatever list it is in, with the links before it alone. *)
LEMMA RemovedSets ==
  ASSUME NInv, phase # "clear", NEW n \in alloc, NEW nx,
         nx[prev[n]] = next[n], \A y \in Cell \ {n, prev[n]} : nx[y] = next[y]
  PROVE  /\ ChainOf(nx, MainHead) = Main \ {n} /\ ChainOf(nx, MarkedHead) = Marked \ {n}
         /\ prev[n] # n /\ prev[n] \in alloc \cup Head
<1> DEFINE p == prev[n]
<1>1. /\ next \in LinkMap /\ alloc \subseteq Node /\ Head \cap Node = {} /\ MainHead # MarkedHead
      /\ \A x \in alloc \cup Head : next[x] # NULL => next[x] \in alloc /\ prev[next[x]] = x
      /\ Main = ChainOf(next, MainHead) /\ Marked = ChainOf(next, MarkedHead)
      /\ Main \cup Marked = alloc /\ Main \cap Marked = {}
      /\ NULL \notin Node
  BY ListFacts, Chains DEF NInv, NoLeak, Cell
<1>2. p \in alloc \cup Head /\ next[p] = n /\ p \in Cell
  BY <1>1 DEF NInv, IInv, LinksAgree, Detached, Cell
<1>3. ASSUME NEW h \in Head, NEW g \in Head, h # g, n \in ChainOf(next, h),
             ChainOf(next, h) \cup ChainOf(next, g) = alloc,
             ChainOf(next, h) \cap ChainOf(next, g) = {}
      PROVE  /\ ChainOf(nx, h) = ChainOf(next, h) \ {n}
             /\ ChainOf(nx, g) = ChainOf(next, g) \ {n}
             /\ p # n
  <2>1. \A y \in ChainOf(next, h) \cup {h} : next[y] = n => y = p
    BY <1>1, <1>3
  <2>2. /\ p # n /\ p \in ChainOf(next, h) \cup {h}
        /\ ChainOf(nx, h) = ChainOf(next, h) \ {n}
    BY <1>1, <1>2, <1>3, <2>1, RemovedChain
  <2>3. \A y \in ChainOf(next, g) \cup {g} : y \in Cell \ {n, p}
    BY <1>1, <1>3, <2>2 DEF Cell
  <2>4. ChainOf(nx, g) = ChainOf(next, g)
    BY <2>3, SameChain DEF Cell
  <2> QED  BY <1>3, <2>2, <2>4
<1> HIDE DEF p
<1>4. CASE n \in Main
  BY <1>1, <1>2, <1>3, <1>4 DEF p, Head
<1>5. CASE n \in Marked
  BY <1>1, <1>2, <1>3, <1>5 DEF p, Head
<1> QED  BY <1>1, <1>4, <1>5

LEMMA NewSets ==
  ASSUME NInv, NEW n \in Node, New(n)
  PROVE  Main' = Main \cup {n} /\ Marked' = Marked
<1>1. /\ next \in LinkMap /\ Head \cap Node = {} /\ MainHead # MarkedHead
      /\ n \notin Main /\ n \notin Marked
      /\ phase # "clear" /\ phase' = phase
      /\ next' = [next EXCEPT ![n] = next[MainHead], ![MainHead] = n]
  BY ListFacts DEF New, Assign, Pushed, links
<1>2. /\ Main = ChainOf(next, MainHead) /\ Marked = ChainOf(next, MarkedHead)
      /\ Main' = ChainOf(next', MainHead) /\ Marked' = ChainOf(next', MarkedHead)
  BY <1>1, Chains
<1>3. \A y \in Marked \cup {MarkedHead} : next'[y] = next[y]
  BY <1>1, <1>2, ChainCloses DEF LinkMap, Cell, Head
<1>4. ChainOf(next', MainHead) = Main \cup {n}
  BY <1>1, <1>2, PushedChain DEF Head
<1>5. ChainOf(next', MarkedHead) = Marked
  BY <1>2, <1>3, SameChain DEF Head, Cell
<1> QED  BY <1>2, <1>4, <1>5

LEMMA ReleaseSets ==
  ASSUME NInv, NEW n \in Node, Release(n)
  PROVE  Main' = Main \ {n} /\ Marked' = Marked \ {n}
<1>1. /\ next \in LinkMap /\ n \in alloc /\ alloc \subseteq Node
      /\ phase # "clear" /\ phase' = phase
      /\ next' = [[next EXCEPT ![prev[n]] = next[n]] EXCEPT ![n] = FREED]
  BY ListFacts DEF Release, Assign, Removed, links
<1>2. prev[n] # n /\ prev[n] \in Cell
  <2> DEFINE nx == [next EXCEPT ![prev[n]] = next[n]]
  <2>1. prev[n] \in Cell
    BY <1>1, ListFacts DEF NInv, IInv, LinksAgree, Detached, Cell
  <2>2. nx[prev[n]] = next[n] /\ \A y \in Cell \ {n, prev[n]} : nx[y] = next[y]
    BY <1>1, <2>1 DEF LinkMap
  <2> HIDE DEF nx
  <2> QED  BY <1>1, <2>1, <2>2, RemovedSets
<1>3. next'[prev[n]] = next[n] /\ \A y \in Cell \ {n, prev[n]} : next'[y] = next[y]
  BY <1>1, <1>2 DEF LinkMap
<1> QED  BY <1>1, <1>3, RemovedSets, Chains

LEMMA MarkSets ==
  ASSUME NInv, NEW n \in Node, Mark(n)
  PROVE  Main' = Main \ {n} /\ Marked' = Marked \cup {n} /\ n \in alloc
<1> DEFINE nx == [next EXCEPT ![prev[n]] = next[n]]
<1>1. /\ next \in LinkMap /\ prev \in LinkMap /\ n \in alloc /\ alloc \subseteq Node
      /\ Head \cap Node = {} /\ MainHead # MarkedHead
      /\ phase # "clear" /\ phase' = phase
      /\ next' = [nx EXCEPT ![n] = nx[MarkedHead], ![MarkedHead] = n]
  BY ListFacts DEF Mark, Assign, Removed, Pushed, links
<1>2. prev[n] \in Cell /\ next[n] \in Cell \cup {NULL, FREED}
  BY <1>1, ListFacts DEF NInv, IInv, LinksAgree, Detached, LinkMap, Cell
<1>3. nx \in LinkMap /\ nx[prev[n]] = next[n] /\ \A y \in Cell \ {n, prev[n]} : nx[y] = next[y]
  BY <1>1, <1>2 DEF LinkMap
<1> HIDE DEF nx
<1>4. ChainOf(nx, MainHead) = Main \ {n} /\ ChainOf(nx, MarkedHead) = Marked \ {n}
  BY <1>1, <1>3, RemovedSets
<1>5. ChainOf(next', MarkedHead) = (Marked \ {n}) \cup {n}
  BY <1>1, <1>3, <1>4, PushedChain DEF Head
<1>6. \A y \in ChainOf(nx, MainHead) \cup {MainHead} : next'[y] = nx[y]
  BY <1>1, <1>3, <1>4, ListFacts DEF LinkMap, Cell, Head
<1>7. ChainOf(next', MainHead) = Main \ {n}
  BY <1>4, <1>6, SameChain DEF Cell, Head
<1> QED  BY <1>1, <1>5, <1>7, Chains

(* The chain is cut off from the sentinel, but it is the chain it was.     *)
LEMMA StartClearingSets ==
  ASSUME NInv, StartClearing
  PROVE  Main' = Main /\ Marked' = Marked
<1>1. /\ next \in LinkMap /\ Head \cap Node = {} /\ MainHead # MarkedHead
      /\ phase = "mark" /\ phase' = "clear" /\ cur' = next[MainHead]
      /\ next' = [next EXCEPT ![MainHead] = NULL]
      /\ MainHead \in Cell /\ MarkedHead \in Cell
  BY ListFacts DEF StartClearing, Cell, Head
<1>2. /\ Main = ChainOf(next, MainHead) /\ Marked = ChainOf(next, MarkedHead)
      /\ Main' = ChainOf(next', next[MainHead]) /\ Marked' = ChainOf(next', MarkedHead)
  BY <1>1, Chains
<1>3. Main \subseteq alloc /\ Marked \subseteq alloc /\ alloc \subseteq Node
  BY ListFacts
<1>4. \A y \in Cell \ {MainHead} : next'[y] = next[y]
  BY <1>1 DEF LinkMap
<1>5. /\ next[MainHead] \in Node \cup {NULL}
      /\ \A y \in Main \cup {MainHead} : next[y] # MainHead
  BY <1>1, <1>3, ListFacts DEF Head, Cell
<1>6. ChainOf(next', next[MainHead]) = Main \ {MainHead}
  <2>1. \A y \in ChainOf(next, MainHead) \cup {MainHead} : next[y] # MainHead
    BY <1>2, <1>5
  <2>2. ChainOf(next', next[MainHead]) = ChainOf(next, MainHead) \ {MainHead}
    <3>1. MainHead \in Cell /\ next[MainHead] \in Node \cup {NULL}
      BY <1>1, <1>5
    <3> QED  BY <1>4, <2>1, <3>1, TailChain, Zenon
  <2> QED  BY <1>2, <2>2
<1>7. MainHead \notin Main /\ \A y \in Marked \cup {MarkedHead} : y \in Cell \ {MainHead}
  BY <1>1, <1>3 DEF Head, Cell
<1>8. ChainOf(next', MarkedHead) = Marked
  BY <1>1, <1>2, <1>4, <1>7, SameChain
<1> QED  BY <1>2, <1>6, <1>7, <1>8

LEMMA ClearStepSets ==
  ASSUME NInv, ClearStep
  PROVE  cur \in Main /\ Main' = Main \ {cur} /\ Marked' = Marked
<1>1. /\ next \in LinkMap /\ Head \cap Node = {} /\ phase = "clear" /\ phase' = phase
      /\ cur \in alloc /\ alloc \subseteq Node /\ cur' = next[cur] /\ cur \in Cell
      /\ next' = [next EXCEPT ![cur] = FREED]
      /\ Main \subseteq alloc /\ Marked \subseteq alloc /\ Main \cap Marked = {}
  BY ListFacts DEF ClearStep, NInv, IInv, Detached, Cell, NoLeak
<1>2. /\ Main = ChainOf(next, cur) /\ Marked = ChainOf(next, MarkedHead)
      /\ Main' = ChainOf(next', next[cur]) /\ Marked' = ChainOf(next', MarkedHead)
  BY <1>1, Chains
<1>3. cur \in Main
  BY <1>1, <1>2, ChainCloses
<1>4. \A y \in Cell \ {cur} : next'[y] = next[y]
  BY <1>1 DEF LinkMap
<1>5. next[cur] \in Node \cup {NULL} /\ \A y \in Main \cup {cur} : next[y] # cur
  BY <1>1, ListFacts DEF Cell
<1>6. ChainOf(next', next[cur]) = Main \ {cur}
  BY <1>1, <1>2, <1>4, <1>5, TailChain
<1>7. MarkedHead \in Cell /\ \A y \in Marked \cup {MarkedHead} : y \in Cell \ {cur}
  BY <1>1, <1>3 DEF Head, Cell
<1>8. ChainOf(next', MarkedHead) = Marked
  BY <1>2, <1>4, <1>7, SameChain
<1> QED  BY <1>2, <1>3, <1>6, <1>8

LEMMA SpliceSets ==
  ASSUME NInv, Splice
  PROVE  Main = {} /\ Main' = Marked /\ Marked' = {}
<1>1. /\ next \in LinkMap /\ Head \cap Node = {} /\ MainHead # MarkedHead
      /\ phase = "clear" /\ phase' = "mutator" /\ cur = NULL
      /\ next' = [next EXCEPT ![MainHead] = next[MarkedHead], ![MarkedHead] = NULL]
      /\ MainHead \in Cell /\ MarkedHead \in Cell /\ NULL \notin Cell
  BY ListFacts DEF Splice, Cell, Head
<1>2. /\ Main = ChainOf(next, NULL) /\ Marked = ChainOf(next, MarkedHead)
      /\ Main' = ChainOf(next', MainHead) /\ Marked' = ChainOf(next', MarkedHead)
  BY <1>1, Chains
<1>3. /\ next'[MainHead] = next[MarkedHead] /\ next'[MarkedHead] = NULL
      /\ \A y \in Cell \ Head : next'[y] = next[y]
  BY <1>1 DEF LinkMap, Head
<1>4. /\ Marked \in SUBSET Node
      /\ \A y \in Marked \cup {MarkedHead} : next[y] \in Node => next[y] \in Marked
  BY <1>1, <1>2, ChainCloses DEF Cell
<1>5. ASSUME NEW T \in SUBSET Cell, MainHead \in T, Walk(next', T) PROVE Marked \subseteq T
  <2> DEFINE S == (T \cap Node) \cup {MarkedHead}
  <2>1. S \in SUBSET Cell /\ MarkedHead \in S
    BY <1>1
  <2>2. Walk(next, S)
    BY <1>1, <1>3, <1>5 DEF Walk, Cell
  <2> HIDE DEF S
  <2>3. Marked \subseteq S
    BY <1>2, <2>1, <2>2, ChainIsLeast
  <2> QED  BY <1>1, <1>4, <2>3 DEF S, Head
<1>6. \A y \in Marked \cup ({MainHead} \cap Cell) : next'[y] \in Node => next'[y] \in Marked
  BY <1>1, <1>3, <1>4 DEF Cell, Head
<1>7. ChainOf(next', MainHead) = Marked
  BY <1>1, <1>4, <1>5, <1>6, IsChain DEF Head
<1>8. Walk(next', {MarkedHead})
  BY <1>1, <1>3 DEF Walk, Cell
<1>9. ChainOf(next', MarkedHead) \subseteq {MarkedHead} /\ ChainOf(next', MarkedHead) \subseteq Node
  BY <1>1, <1>8, ChainIsLeast, ChainCloses
<1>10. ChainOf(next', MarkedHead) = {}
  BY <1>1, <1>9 DEF Head
<1> QED  BY <1>2, <1>7, <1>10, NoChain

-----------------------------------------------------------------------------
(* The invariant and the refinement.                                       *)

LEMMA InitNInv == Init => NInv /\ Sets!Init
<1> SUFFICES ASSUME Init PROVE NInv /\ Sets!Init
  OBVIOUS
<1>1. IInv
  BY NamesAssumption DEF Init, IInv, TypeOK, LinksAgree, Detached, Head, Cell
<1>2. ASSUME NEW h \in Head PROVE ChainOf(next, h) = {}
  <2>1. {h} \in SUBSET Cell /\ Walk(next, {h}) /\ Head \cap Node = {}
    BY NamesAssumption DEF Init, Walk, Cell
  <2> QED  BY <2>1, ChainIsLeast, ChainCloses
<1>3. Main = {} /\ Marked = {} /\ alloc = {} /\ phase = "mutator"
  BY <1>2, Chains DEF Init, Head
<1> QED  BY <1>1, <1>3 DEF NInv, NoLeak, Sets!Init

LEMMA NextNInv ==
  ASSUME NInv, [Next]_vars
  PROVE  NInv' /\ [Sets!Next]_(Sets!vars)
<1> USE DEF NoLeak, Sets!vars
<1>1. IInv' /\ alloc \subseteq Node /\ Main \cup Marked = alloc /\ Main \cap Marked = {}
  BY LinksInductive, ListFacts DEF NInv
<1> SUFFICES NoLeak' /\ [Sets!Next]_(Sets!vars) /\ (phase' = "mutator" => Marked' = {})
  BY <1>1 DEF NInv
<1>2. CASE UNCHANGED vars
  <2>1. Main' = Main /\ Marked' = Marked
    BY <1>2, Chains DEF vars
  <2> QED  BY <1>1, <1>2, <2>1 DEF NInv, vars
<1>3. ASSUME NEW n \in Node, New(n) PROVE NoLeak' /\ Sets!New(n) /\ (phase' = "mutator" => Marked' = {})
  BY <1>1, <1>3, NewSets DEF NInv, New, Sets!New
<1>4. ASSUME NEW n \in Node, Release(n) PROVE NoLeak' /\ Sets!Release(n) /\ Marked' = {}
  BY <1>1, <1>4, ReleaseSets DEF NInv, Release, Sets!Release
<1>5. ASSUME NEW n \in Node, Mark(n) PROVE NoLeak' /\ Sets!Mark(n) /\ phase' # "mutator"
  BY <1>1, <1>5, MarkSets DEF Mark, Sets!Mark
<1>6. CASE StartMarking
  <2>1. Main' = Main /\ Marked' = Marked
    BY <1>6, Chains DEF StartMarking
  <2> QED  BY <1>1, <1>6, <2>1 DEF StartMarking, Sets!StartMarking, Sets!Next
<1>7. CASE StartClearing
  BY <1>1, <1>7, StartClearingSets DEF StartClearing, Sets!StartClearing, Sets!Next
<1>8. CASE ClearStep
  <2>1. NoLeak' /\ Sets!Free(cur) /\ cur \in Node /\ phase' # "mutator"
    BY <1>1, <1>8, ClearStepSets DEF ClearStep, Sets!Free
  <2> QED  BY <2>1 DEF Sets!Next
<1>9. CASE Splice
  BY <1>1, <1>9, SpliceSets DEF Splice, Sets!Splice, Sets!Next
<1> QED  BY <1>2, <1>3, <1>4, <1>5, <1>6, <1>7, <1>8, <1>9 DEF Next, Collect, Sets!Next

(* Every node that calloc returned and free has not taken back is in one   *)
(* of the two lists and not in both, also while _clear works.              *)
THEOREM NothingLeaks == Spec => []NoLeak
<1>1. NInv /\ [Next]_vars => NInv'
  BY NextNInv
<1>2. NInv => NoLeak
  BY DEF NInv
<1> QED  BY <1>1, <1>2, InitNInv, PTL DEF Spec

(* The operations on the links are the operations on sets that the         *)
(* collector is written for: marking moves one node whatever list it is    *)
(* in, and a collection frees exactly what was not marked.                 *)
THEOREM LinksImplementSets == Spec => Sets!Spec
<1>1. NInv /\ [Next]_vars => NInv' /\ [Sets!Next]_(Sets!vars)
  BY NextNInv
<1> QED  BY <1>1, InitNInv, PTL DEF Spec, Sets!Spec
=============================================================================
