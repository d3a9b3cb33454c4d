---------------------------- MODULE MC_SymbolTable ----------------------------
(* Names that share a bucket and names that share their whole hash.        *)
EXTENDS SymbolTable, TLC

CONSTANTS car, x, y, z, o1, carObj

Collisions == car :> 2 @@ x :> 2 @@ y :> 4 @@ z :> 3
OnePrimitive == <<[name |-> car, obj |-> carObj]>>
=============================================================================
