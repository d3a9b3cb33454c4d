------------------------------- MODULE NodeList ------------------------------
(***************************************************************************)
(* The doubly linked lists of doubly_linked_list.h, at the level of their  *)
(* pointers, and the mark and collect functions that string_list.c,        *)
(* vector_list.c, env.c and compiler.c repeat for their kind of node.      *)
(* RootNode and ParserRootNode are the same list without a marked one.     *)
(*                                                                         *)
(* A freed node's words read FREED: no outcome of reading them is wanted.  *)
(* Definitions with a suffix (Removed_OneSided) are mutated forms.         *)
(***************************************************************************)

CONSTANTS
  Node,        \* the addresses calloc can return for nodes of this kind
  MainHead,    \* the static sentinel of the main list
  MarkedHead,  \* the static sentinel of the marked list
  NULL,
  FREED

Head == {MainHead, MarkedHead}
Cell == Node \cup Head
ASSUME NamesAssumption ==
  /\ MainHead # MarkedHead /\ NULL # FREED
  /\ Head \cap Node = {} /\ {NULL, FREED} \cap Cell = {}

VARIABLES
  prev, next,  \* the links of every node and sentinel
  alloc,       \* the nodes calloc returned and free was not called on
  cur,         \* the local of _clear
  phase        \* where the program is
vars == <<prev, next, alloc, cur, phase>>
links == [prev |-> prev, next |-> next]

Init ==
  /\ prev = [x \in Cell |-> IF x \in Head THEN NULL ELSE FREED]
  /\ next = [x \in Cell |-> IF x \in Head THEN NULL ELSE FREED]
  /\ alloc = {}
  /\ cur = NULL
  /\ phase = "mutator"

-----------------------------------------------------------------------------
(* _push and _remove on a pair of link maps l.                             *)
Pushed_NoPrev(l, n, head) ==
  [prev |-> [l.prev EXCEPT ![n] = head],
   next |-> [l.next EXCEPT ![n] = l.next[head], ![head] = n]]
Pushed(l, n, head) ==
  LET first == l.next[head] IN
  [prev |-> [x \in Cell |-> IF x = n THEN head
                            ELSE IF x = first THEN n ELSE l.prev[x]],
   next |-> [l.next EXCEPT ![n] = first, ![head] = n]]

Removed_OneSided(l, n) ==
  [prev |-> l.prev, next |-> [l.next EXCEPT ![l.prev[n]] = l.next[n]]]
Removed(l, n) ==
  [prev |-> [x \in Cell |-> IF x = l.next[n] THEN l.prev[n] ELSE l.prev[x]],
   next |-> [l.next EXCEPT ![l.prev[n]] = l.next[n]]]

Assign(l) == prev' = l.prev /\ next' = l.next

(* _new: calloc, then a push onto the main list. *)
New(n) ==
  /\ phase \in {"mutator", "mark"}
  /\ n \notin alloc
  /\ Assign(Pushed(links, n, MainHead))
  /\ alloc' = alloc \cup {n}
  /\ UNCHANGED <<cur, phase>>

(* _remove, then free: how a caller takes a RootNode back. *)
Release(n) ==
  /\ phase = "mutator"
  /\ n \in alloc
  /\ LET l == Removed(links, n) IN
     Assign([prev |-> [l.prev EXCEPT ![n] = FREED],
             next |-> [l.next EXCEPT ![n] = FREED]])
  /\ alloc' = alloc \ {n}
  /\ UNCHANGED <<cur, phase>>

StartMarking ==
  /\ phase = "mutator" /\ phase' = "mark"
  /\ UNCHANGED <<prev, next, alloc, cur>>

(* mark_*_node; the node may be in the marked list already. *)
Mark(n) ==
  /\ phase = "mark"
  /\ n \in alloc
  /\ Assign(Pushed(Removed(links, n), n, MarkedHead))
  /\ UNCHANGED <<alloc, cur, phase>>

(* *_list_gc: _clear empties the main list from its head ... *)
StartClearing ==
  /\ phase = "mark" /\ phase' = "clear"
  /\ cur' = next[MainHead]
  /\ next' = [next EXCEPT ![MainHead] = NULL]
  /\ UNCHANGED <<prev, alloc>>

(* ... frees one node after another, its next read before it is freed ...  *)
ClearStep_KeepLast ==
  /\ phase = "clear" /\ cur # NULL /\ next[cur] # NULL
  /\ cur' = next[cur]
  /\ prev' = [prev EXCEPT ![cur] = FREED]
  /\ next' = [next EXCEPT ![cur] = FREED]
  /\ alloc' = alloc \ {cur}
  /\ UNCHANGED phase
ClearStep_ReadFreed ==
  /\ phase = "clear" /\ cur # NULL
  /\ prev' = [prev EXCEPT ![cur] = FREED]
  /\ next' = [next EXCEPT ![cur] = FREED]
  /\ cur' = next'[cur]
  /\ alloc' = alloc \ {cur}
  /\ UNCHANGED phase
ClearStep ==
  /\ phase = "clear" /\ cur # NULL
  /\ cur' = next[cur]
  /\ prev' = [prev EXCEPT ![cur] = FREED]
  /\ next' = [next EXCEPT ![cur] = FREED]
  /\ alloc' = alloc \ {cur}
  /\ UNCHANGED phase

(* ... and the marked list becomes the main one. *)
Splice_KeepPrev ==
  /\ phase = "clear" /\ cur = NULL
  /\ next' = [next EXCEPT ![MainHead] = next[MarkedHead], ![MarkedHead] = NULL]
  /\ phase' = "mutator"
  /\ UNCHANGED <<prev, alloc, cur>>
Splice_KeepMarked ==
  /\ phase = "clear" /\ cur = NULL
  /\ next' = [next EXCEPT ![MainHead] = next[MarkedHead]]
  /\ prev' = [x \in Cell |-> IF x = next[MarkedHead] THEN MainHead ELSE prev[x]]
  /\ phase' = "mutator"
  /\ UNCHANGED <<alloc, cur>>
Splice ==
  /\ phase = "clear" /\ cur = NULL
  /\ next' = [next EXCEPT ![MainHead] = next[MarkedHead], ![MarkedHead] = NULL]
  /\ prev' = [x \in Cell |-> IF x = next[MarkedHead] THEN MainHead ELSE prev[x]]
  /\ phase' = "mutator"
  /\ UNCHANGED <<alloc, cur>>

Collect == ClearStep \/ Splice
Next ==
  \/ \E n \in Node : New(n) \/ Release(n) \/ Mark(n)
  \/ StartMarking \/ StartClearing \/ Collect

Spec == Init /\ [][Next]_vars
(* *_list_gc is a function call: once begun it runs to its end. *)
FairSpec == Spec /\ WF_vars(Collect)

-----------------------------------------------------------------------------
(* Properties.                                                             *)

(* Types; _clear never takes a freed link for a node.                      *)
TypeOK ==
  /\ prev \in [Cell -> Cell \cup {NULL, FREED}]
  /\ next \in [Cell -> Cell \cup {NULL, FREED}]
  /\ alloc \subseteq Node
  /\ cur \in Node \cup {NULL}
  /\ phase \in {"mutator", "mark", "clear"}

(* The two links of neighbours agree, whatever list they are in: a remove  *)
(* needs no list head because next[prev[n]] = n, and never follows a link  *)
(* to a freed node.  _clear detaches its chain from the sentinel, so the   *)
(* node it frees next is the only one whose predecessor has let go of it.  *)
LinksAgree ==
  /\ \A x \in alloc \cup Head :
       next[x] # NULL => next[x] \in alloc /\ prev[next[x]] = x
  /\ \A n \in alloc \ {cur} : prev[n] \in alloc \cup Head /\ next[prev[n]] = n

(* The nodes a walk along the next links from x meets, x included: the     *)
(* least set that holds x and the successor of each of its members.        *)
Linked(S) == \A y \in S : next[y] \in Node => next[y] \in S
Chain(x) ==
  LET walks == {S \in SUBSET Cell : {x} \cap Cell \subseteq S /\ Linked(S)}
  IN {y \in Node : \A S \in walks : y \in S}

(* Every allocated node is in exactly one list and no list holds another:  *)
(* none is leaked by a removal in the middle, none freed while linked.     *)
Main == IF phase = "clear" THEN Chain(cur) ELSE Chain(MainHead)
Marked == Chain(MarkedHead)
NoLeak == Main \cup Marked = alloc /\ Main \cap Marked = {}

(* The pointer manipulation implements the sets the collector relies on,   *)
(* and the loop over the unmarked nodes ends.                              *)
Sets == INSTANCE NodeSets WITH main <- Main, marked <- Marked
ImplementsSets == Sets!FairSpec
=============================================================================
