------------------------------ MODULE SymbolTable -----------------------------
(***************************************************************************)
(* symbol_table.c: hash chains of entries [hash, symbol, value].  A symbol *)
(* is a number, nameOf[s] is the string it holds.  The reader interns      *)
(* names, the machine inserts and gets values by symbol, the collector     *)
(* registers the values and moves them.  A value in the heap is a pair of  *)
(* an object and the semispace it is in.                                   *)
(***************************************************************************)
EXTENDS Naturals, Sequences, FiniteSets

CONSTANTS
  Name, Obj,
  Static,   \* objects outside the heap and NULL
  NULL,
  PrimObj,  \* sequence of [name, obj], the primitives
  Hash,     \* name -> str_hash(name)
  Size,     \* SYMBOL_TABLE_SIZE
  MaxSymbol \* names interned, to bound an instance

ASSUME TableAssumption ==
  /\ Size \in Nat \ {0}
  /\ Hash \in [Name -> Nat]
  /\ NULL \in Static
  /\ Static \cap (Obj \X {0, 1}) = {}
  /\ PrimObj \in Seq([name : Name, obj : Static])

VARIABLES
  table,   \* bucket -> chain
  nameOf,  \* symbol -> name
  space,   \* the semispace in use
  ret,     \* what the last call returned
  left,    \* primitives still to be registered
  status,  \* "up", "crash" or, at the end, "down"
  freed    \* symbol -> times it was freed

vars == <<table, nameOf, space, ret, left, status, freed>>

Value(sp) == Static \cup (Obj \X {sp})
Buckets == 0 .. Size - 1
Symbols == DOMAIN nameOf
Index(n) == Hash[n] % Size

Init ==
  /\ table = [b \in Buckets |-> <<>>]
  /\ nameOf = <<>> /\ space = 0 /\ ret = NULL /\ left = PrimObj
  /\ status = "up" /\ freed = <<>>

-----------------------------------------------------------------------------
(* The walk along a chain stops at the first entry with the hash and the   *)
(* name.                                                                   *)

Hits_HashOnly(n) ==
  LET chain == table[Index(n)] IN {k \in DOMAIN chain : chain[k].hash = Hash[n]}
Hits(n) ==
  LET chain == table[Index(n)] IN
  {k \in DOMAIN chain : chain[k].hash = Hash[n] /\ nameOf[chain[k].symbol] = n}
Hit(n) == CHOOSE k \in Hits(n) : \A m \in Hits(n) : k <= m
Entry(n) == table[Index(n)][Hit(n)]

\* 0 is the null pointer
get_symbol_obj(n) == IF Hits(n) = {} THEN 0 ELSE Entry(n).symbol
NewEntry(n) == [hash |-> Hash[n], symbol |-> Len(nameOf) + 1, value |-> NULL]

(* A new symbol goes to the end of its chain.                              *)
Appended_OnlyBehind(n) ==
  IF table[Index(n)] = <<>> THEN table ELSE [table EXCEPT ![Index(n)] = Append(@, NewEntry(n))]
Appended_NewChain(n) == [table EXCEPT ![Index(n)] = <<NewEntry(n)>>]
Appended(n) == [table EXCEPT ![Index(n)] = Append(@, NewEntry(n))]
intern_name(n) ==
  /\ left = <<>> /\ status = "up"
  /\ \/ /\ get_symbol_obj(n) # 0
        /\ ret' = <<"symbol", get_symbol_obj(n)>>
        /\ UNCHANGED <<table, nameOf>>
     \/ /\ get_symbol_obj(n) = 0 /\ Len(nameOf) < MaxSymbol
        /\ table' = Appended(n)
        /\ nameOf' = Append(nameOf, n)
        /\ ret' = <<"symbol", Len(nameOf) + 1>>
  /\ UNCHANGED <<space, left, status, freed>>

(* The first entry of the bucket is read whether there is one or not.      *)
Reads(n) ==
  /\ left = <<>> /\ status = "up"
  /\ status' = IF table[Index(n)] = <<>> THEN "crash" ELSE status
  /\ ret' = IF Hits(n) = {} THEN NULL ELSE Entry(n).value
  /\ UNCHANGED <<nameOf, space, left, freed>>
Stored(n, v) == [table EXCEPT ![Index(n)] = [@ EXCEPT ![Hit(n)].value = v]]
insert_to_global_env(s, v) ==
  /\ Reads(nameOf[s])
  /\ table' = IF Hits(nameOf[s]) = {} THEN table ELSE Stored(nameOf[s], v)
get_from_global_env(s) == Reads(nameOf[s]) /\ UNCHANGED table

(* REGISTER_PRIMITIVE: intern_name, twice, and insert_to_global_env.       *)
Registered(n, o) ==
  IF get_symbol_obj(n) # 0 THEN Stored(n, o)
  ELSE [table EXCEPT ![Index(n)] = Append(@, [NewEntry(n) EXCEPT !.value = o])]
Register ==
  /\ left # <<>> /\ status = "up"
  /\ table' = Registered(Head(left).name, Head(left).obj)
  /\ nameOf' = IF get_symbol_obj(Head(left).name) # 0 THEN nameOf
               ELSE Append(nameOf, Head(left).name)
  /\ left' = Tail(left)
  /\ UNCHANGED <<space, ret, status, freed>>

(* A collection: the values that are not NULL are registered, and those in *)
(* the heap are moved.                                                     *)
Roots_FirstOfChain(b) == {k \in DOMAIN table[b] : k = 1 /\ table[b][k].value # NULL}
Roots(b) == {k \in DOMAIN table[b] : table[b][k].value # NULL}
Move(v, sp) == IF v \in Obj \X {1 - sp} THEN <<v[1], sp>> ELSE v
global_env_collect_roots ==
  /\ left = <<>> /\ status = "up"
  /\ space' = 1 - space
  /\ table' = [b \in Buckets |-> [k \in DOMAIN table[b] |->
                 IF k \in Roots(b) THEN [table[b][k] EXCEPT !.value = Move(@, 1 - space)]
                 ELSE table[b][k]]]
  /\ ret' = NULL
  /\ UNCHANGED <<nameOf, left, status, freed>>

clear_symbol_table ==
  /\ left = <<>> /\ status = "up"
  /\ status' = "down"
  /\ freed' = [s \in Symbols |->
                 Cardinality({at \in Buckets \X (1 .. Len(nameOf)) :
                                /\ at[2] \in DOMAIN table[at[1]]
                                /\ table[at[1]][at[2]].symbol = s})]
  /\ UNCHANGED <<table, nameOf, space, ret, left>>

Next ==
  \/ Register \/ global_env_collect_roots \/ clear_symbol_table
  \/ \E n \in Name : intern_name(n)
  \/ \E s \in Symbols : \/ get_from_global_env(s)
                        \/ \E v \in Value(space) : insert_to_global_env(s, v)
Spec == Init /\ [][Next]_vars

-----------------------------------------------------------------------------
(* Properties.                                                             *)

(* Types; a value in the heap is in the semispace in use: no entry behind  *)
(* another one in its chain is left out of a collection.                   *)
Entries(sp) == [hash : Nat, symbol : Nat \ {0}, value : Value(sp)]
TypeOK ==
  /\ space \in {0, 1}
  /\ table \in [Buckets -> Seq(Entries(space))]
  /\ nameOf \in Seq(Name)
  /\ left \in Seq([name : Name, obj : Static])
  /\ status \in {"up", "crash", "down"}

(* Two symbols never have the same name, whatever collides, so that        *)
(* compile_expr, position_var and eq? may compare symbols by address.      *)
OneSymbolPerName == \A s, t \in Symbols : nameOf[s] = nameOf[t] => s = t

(* insert_to_global_env and get_from_global_env read the first entry of    *)
(* the bucket before they know that there is one: the symbols they are     *)
(* given are in the table, for good.                                       *)
NoCrash == status # "crash"

(* clear_symbol_table frees every symbol, and no symbol twice.             *)
FreedOnce == status = "down" => \A s \in Symbols : freed[s] = 1

(* The chains implement a map from names to symbols and to values.         *)
Abstract == INSTANCE GlobalEnv WITH
  symbol <- [n \in Name |-> get_symbol_obj(n)],
  value <- [n \in Name |-> IF Hits(n) = {} THEN NULL ELSE Entry(n).value],
  count <- Len(nameOf)
ImplementsMap == Abstract!Spec
=============================================================================
