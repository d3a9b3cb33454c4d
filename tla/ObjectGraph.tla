----------------------------- MODULE ObjectGraph ------------------------------
(***************************************************************************)
(* What fzscm_alloc and the constructors promise their callers: a graph of *)
(* objects.  A constructor adds an object to it.  While there are Extent   *)
(* objects it first gives up those that the program does not reach; the    *)
(* others get new identities, and everything that refers to them follows.  *)
(* Only if all Extent objects are reached does it end the program.         *)
(* CopyingGC implements this with two semispaces.                          *)
(***************************************************************************)
EXTENDS Integers, FiniteSets

CONSTANTS
  Extent,   \* how many objects there can be
  Id,       \* identities of objects
  NULL, UNDEF, Global, PSlot, Env, Code, Str, Vec, VecLen, SubCode  \* as in CopyingGC

Node == Env \cup Code \cup Str \cup Vec
Slot == Global \cup PSlot \cup Env \cup Code
NoElems == [i \in 1 .. VecLen |-> UNDEF]
NoRequest == [tag |-> "INTEGER", a |-> NULL, b |-> NULL, dst |-> CHOOSE s \in Global : TRUE]

VARIABLES
  object,   \* the objects, by their identities
  slot,     \* what each slot outside the heap holds
  elem,     \* the arrays of the vectors
  enext,    \* the frame around each environment
  nodes,    \* the side nodes there are
  vmNodes,  \* the nodes in the machine's registers and in its dump
  req,      \* the constructor call being served
  at        \* "mutator", "alloc" in a constructor call, "exit" after a shortage
vars == <<object, slot, elem, enext, nodes, vmNodes, req, at>>

-----------------------------------------------------------------------------
(* What the program reaches.                                               *)

Item == DOMAIN object \cup Node
Refers(x, y) ==
  \/ x \in Env /\ y \in {slot[x], enext[x]}
  \/ x \in Code /\ (y = slot[x] \/ y \in SubCode[x])
  \/ x \in Vec /\ \E i \in 1 .. VecLen : y = elem[x][i]
  \/ x \in DOMAIN object /\
       \/ object[x].tag \in {"CELL", "CLOSURE"} /\ y \in {object[x].a, object[x].b}
       \/ object[x].tag \in {"STRING", "VECTOR"} /\ y = object[x].a
Start == {y \in Item : y \in vmNodes \/ \E s \in Global \cup PSlot : y = slot[s]}
Closed(S) == Start \subseteq S /\ \A x \in S, y \in Item : Refers(x, y) => y \in S
Live == {x \in Item : \A S \in SUBSET Item : Closed(S) => x \in S}

-----------------------------------------------------------------------------
Init ==
  /\ object = [x \in {} |-> NULL]
  /\ slot = [s \in Slot |-> NULL]
  /\ elem = [n \in Vec |-> NoElems]
  /\ enext = [e \in Env |-> NULL]
  /\ nodes = {} /\ vmNodes = {}
  /\ req = NoRequest
  /\ at = "mutator"

(* Between two constructor calls the client changes what refers to objects *)
(* and makes nodes, but reaches no object it did not reach before; it      *)
(* gives a constructor what it reaches.                                    *)
Client ==
  /\ at = "mutator"
  /\ object' = object
  /\ nodes \subseteq nodes'
  /\ Live' \subseteq Live \cup (nodes' \ nodes)
  /\ \/ at' = "mutator" /\ req' = req
     \/ at' = "alloc" /\ {req'.a, req'.b} \cap Item \subseteq Live

Full == Cardinality(DOMAIN object) = Extent

New(a, b) ==
  /\ \E x \in Id \ DOMAIN object :
       /\ object' = [y \in DOMAIN object \cup {x} |->
                       IF y = x THEN [tag |-> req.tag, a |-> a, b |-> b] ELSE object[y]]
       /\ slot' = [slot EXCEPT ![req.dst] = x]
  /\ req' = NoRequest
  /\ at' = "mutator"
  /\ UNCHANGED <<enext, vmNodes>>

Make ==
  /\ at = "alloc" /\ ~Full
  /\ \/ req.tag \in {"CELL", "CLOSURE", "INTEGER"} /\ New(req.a, req.b) /\ UNCHANGED <<elem, nodes>>
     \/ \E n \in Str \ nodes :
          req.tag = "STRING" /\ New(n, NULL) /\ nodes' = nodes \cup {n} /\ UNCHANGED elem
     \/ \E n \in Vec \ nodes :
          /\ req.tag = "VECTOR" /\ New(n, NULL)
          /\ nodes' = nodes \cup {n}
          /\ elem' = [elem EXCEPT ![n] = NoElems]

(* The live objects under their new identities. *)
Renames(move) ==
  LET Move(v) == IF v \in DOMAIN move THEN move[v] ELSE v
      Fields(o) == IF o.tag = "CELL" THEN [o EXCEPT !.a = Move(@), !.b = Move(@)] ELSE o
      Named(y) == CHOOSE x \in DOMAIN move : move[x] = y IN
  /\ object' = [y \in {move[x] : x \in DOMAIN move} |-> Fields(object[Named(y)])]
  /\ slot' = [s \in Slot |-> IF s \in Node \ Live THEN NULL ELSE Move(slot[s])]
  /\ elem' = [n \in Vec |-> IF n \in Live THEN [i \in 1 .. VecLen |-> Move(elem[n][i])] ELSE NoElems]
  /\ req' = Fields(req)

Collect ==
  /\ at = "alloc" /\ Full /\ ~Full'
  /\ nodes' = Live \cap Node
  /\ enext' = [e \in Env |-> IF e \in Live THEN enext[e] ELSE NULL]
  /\ UNCHANGED <<vmNodes, at>>
  /\ \E move \in [Live \cap DOMAIN object -> Id] :
       /\ \A x, y \in DOMAIN move : move[x] = move[y] => x = y
       /\ Renames(move)

Shortage ==
  /\ at = "alloc" /\ at' = "exit"
  /\ Full /\ DOMAIN object \subseteq Live
  /\ UNCHANGED <<object, slot, elem, enext, nodes, vmNodes, req>>

Next == Client \/ Make \/ Collect \/ Shortage

Spec == Init /\ [][Next]_vars
=============================================================================
