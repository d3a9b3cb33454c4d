------------------------------ MODULE NodeSets -------------------------------
(***************************************************************************)
(* What the side lists promise the collector: the nodes of one kind        *)
(* (strings, vectors, environments, code, roots) are two disjoint sets.    *)
(* Marking moves a node from main to marked, the collection frees every    *)
(* node left in main and the marked nodes become the main ones.            *)
(* NodeList implements this with doubly linked lists; CopyingGC uses it,   *)
(* with nodes = main \cup marked.                                          *)
(***************************************************************************)
CONSTANT Node

VARIABLES
  main,     \* nodes of the main list
  marked,   \* nodes of the marked list
  phase     \* "mutator", "mark" while a collection marks, "clear" while it frees
vars == <<main, marked, phase>>

Init == main = {} /\ marked = {} /\ phase = "mutator"

New(n) ==
  /\ phase \in {"mutator", "mark"}
  /\ n \notin main \cup marked
  /\ main' = main \cup {n}
  /\ UNCHANGED <<marked, phase>>

Release(n) ==
  /\ phase = "mutator"
  /\ n \in main
  /\ main' = main \ {n}
  /\ UNCHANGED <<marked, phase>>

StartMarking == phase = "mutator" /\ phase' = "mark" /\ UNCHANGED <<main, marked>>

Mark(n) ==
  /\ phase = "mark"
  /\ n \in main \cup marked
  /\ main' = main \ {n}
  /\ marked' = marked \cup {n}
  /\ UNCHANGED phase

StartClearing == phase = "mark" /\ phase' = "clear" /\ UNCHANGED <<main, marked>>

Free(n) ==
  /\ phase = "clear"
  /\ n \in main
  /\ main' = main \ {n}
  /\ UNCHANGED <<marked, phase>>

Splice ==
  /\ phase = "clear" /\ main = {}
  /\ main' = marked
  /\ marked' = {}
  /\ phase' = "mutator"

Next ==
  \/ \E n \in Node : New(n) \/ Release(n) \/ Mark(n) \/ Free(n)
  \/ StartMarking \/ StartClearing \/ Splice

Spec == Init /\ [][Next]_vars
FairSpec == Spec /\ WF_vars(Splice) /\ WF_vars(\E n \in Node : Free(n))
=============================================================================
