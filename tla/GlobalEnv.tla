------------------------------- MODULE GlobalEnv ------------------------------
(***************************************************************************)
(* What the symbol table promises: every name has one symbol from its      *)
(* first occurrence on, a variable has the value it was last given, and a  *)
(* collection moves every value.                                           *)
(***************************************************************************)
EXTENDS Naturals, Sequences

CONSTANTS
  Name, Obj,
  Static,  \* objects outside the heap and NULL
  NULL,
  PrimObj  \* sequence of [name, obj], the primitives

VARIABLES
  symbol,  \* name -> symbol, 0 before there is one
  value,   \* name -> value, NULL before there is one
  count,   \* symbols made so far
  space,   \* the semispace in use
  ret,     \* what the last call returned
  left     \* primitives still to be registered

vars == <<symbol, value, count, space, ret, left>>

Value(sp) == Static \cup (Obj \X {sp})
Move(v, sp) == IF v \in Obj \X {1 - sp} THEN <<v[1], sp>> ELSE v

Init ==
  /\ symbol = [n \in Name |-> 0] /\ value = [n \in Name |-> NULL]
  /\ count = 0 /\ space = 0 /\ ret = NULL /\ left = PrimObj

Interned(n) ==
  IF symbol[n] # 0 THEN UNCHANGED <<symbol, count>>
  ELSE symbol' = [symbol EXCEPT ![n] = count + 1] /\ count' = count + 1

Register ==
  /\ left # <<>>
  /\ Interned(Head(left).name)
  /\ value' = [value EXCEPT ![Head(left).name] = Head(left).obj]
  /\ left' = Tail(left)
  /\ UNCHANGED <<space, ret>>

Intern(n) ==
  /\ left = <<>>
  /\ Interned(n)
  /\ ret' = <<"symbol", symbol'[n]>>
  /\ UNCHANGED <<value, space, left>>

Insert(n, v) ==
  /\ left = <<>> /\ symbol[n] # 0
  /\ value' = [value EXCEPT ![n] = v]
  /\ ret' = value[n]
  /\ UNCHANGED <<symbol, count, space, left>>

Get(n) ==
  /\ left = <<>> /\ symbol[n] # 0
  /\ ret' = value[n]
  /\ UNCHANGED <<symbol, value, count, space, left>>

Collect ==
  /\ left = <<>>
  /\ space' = 1 - space
  /\ value' = [n \in Name |-> Move(value[n], 1 - space)]
  /\ ret' = NULL
  /\ UNCHANGED <<symbol, count, left>>

Next ==
  \/ Register \/ Collect
  \/ \E n \in Name : Intern(n) \/ Get(n) \/ \E v \in Value(space) : Insert(n, v)
Spec == Init /\ [][Next]_vars
=============================================================================
