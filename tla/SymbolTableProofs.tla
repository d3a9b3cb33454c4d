--------------------------- MODULE SymbolTableProofs --------------------------
(***************************************************************************)
(* Proofs about module SymbolTable, for every set of names, every hash     *)
(* function and every number of buckets.                                   *)
(***************************************************************************)
EXTENDS SymbolTable, SequenceTheorems, FiniteSetTheorems, TLAPS

-----------------------------------------------------------------------------
(* The inductive invariant.                                                *)

\* every entry is in the bucket of its symbol's name
Placed ==
  \A b \in Buckets : \A k \in DOMAIN table[b] :
    /\ table[b][k].symbol \in Symbols
    /\ table[b][k].hash = Hash[nameOf[table[b][k].symbol]]
    /\ b = Index(nameOf[table[b][k].symbol])

\* every symbol has an entry, and no more than one
Present ==
  \A s \in Symbols : \E k \in DOMAIN table[Index(nameOf[s])] :
    table[Index(nameOf[s])][k].symbol = s
Single ==
  \A b \in Buckets : \A j, k \in DOMAIN table[b] :
    table[b][j].symbol = table[b][k].symbol => j = k

IInv == TypeOK /\ Placed /\ Present /\ Single /\ OneSymbolPerName /\ NoCrash

-----------------------------------------------------------------------------
LEMMA IndexType == ASSUME NEW n \in Name PROVE Index(n) \in Buckets
BY TableAssumption DEF Index, Buckets

(* A name without a symbol has no hit; a symbol is the only hit of its     *)
(* name.                                                                   *)
LEMMA HitIsSymbol ==
  ASSUME IInv, NEW n \in Name, NEW k \in Hits(n)
  PROVE  /\ k \in DOMAIN table[Index(n)]
         /\ table[Index(n)][k].symbol \in Symbols
         /\ nameOf[table[Index(n)][k].symbol] = n
BY IndexType DEF IInv, Placed, Hits

LEMMA HitOfSymbol ==
  ASSUME IInv, NEW s \in Symbols
  PROVE  \E k \in Hits(nameOf[s]) : table[Index(nameOf[s])][k].symbol = s
<1>1. nameOf[s] \in Name
  BY DEF IInv, TypeOK, Symbols
<1>2. PICK k \in DOMAIN table[Index(nameOf[s])] : table[Index(nameOf[s])][k].symbol = s
  BY DEF IInv, Present
<1>3. table[Index(nameOf[s])][k].hash = Hash[nameOf[s]]
  BY <1>1, <1>2, IndexType DEF IInv, Placed
<1> QED
  BY <1>2, <1>3 DEF Hits

LEMMA OneHit ==
  ASSUME IInv, NEW n \in Name, NEW j \in Hits(n), NEW k \in Hits(n)
  PROVE  j = k
BY HitIsSymbol, IndexType DEF IInv, OneSymbolPerName, Single

(* So the first hit is the hit.                                            *)
LEMMA HitFound ==
  ASSUME IInv, NEW n \in Name, Hits(n) # {}
  PROVE  Hit(n) \in Hits(n)
<1>1. PICK k \in Hits(n) : TRUE
  OBVIOUS
<1>2. k \in Nat
  BY HitIsSymbol, IndexType DEF IInv, TypeOK
<1>3. \A m \in Hits(n) : k <= m
  BY <1>2, OneHit
<1> QED
  BY <1>1, <1>3 DEF Hit

LEMMA SymbolFound ==
  ASSUME IInv, NEW n \in Name
  PROVE  /\ (get_symbol_obj(n) = 0) <=> (Hits(n) = {})
         /\ Hits(n) = {} => \A s \in Symbols : nameOf[s] # n
<1>1. Hits(n) # {} => get_symbol_obj(n) # 0
  <2>1. SUFFICES ASSUME Hits(n) # {} PROVE Entry(n).symbol # 0
    BY DEF get_symbol_obj
  <2>2. Entry(n).symbol \in Symbols
    BY <2>1, HitFound, HitIsSymbol DEF Entry
  <2> QED
    BY <2>2 DEF Symbols, IInv, TypeOK
<1>2. Hits(n) = {} => get_symbol_obj(n) = 0
  BY DEF get_symbol_obj
<1>3. Hits(n) = {} => \A s \in Symbols : nameOf[s] # n
  BY HitOfSymbol
<1> QED
  BY <1>1, <1>2, <1>3

-----------------------------------------------------------------------------
(* The three ways a chain changes.                                         *)

LEMMA Grows ==
  ASSUME IInv, NEW n \in Name, NEW v \in Value(space), Hits(n) = {},
         table' = [table EXCEPT ![Index(n)] =
                     Append(@, [hash |-> Hash[n], symbol |-> Len(nameOf) + 1, value |-> v])],
         nameOf' = Append(nameOf, n), space' = space
  PROVE  /\ table' \in [Buckets -> Seq(Entries(space))] /\ nameOf' \in Seq(Name)
         /\ Placed' /\ Present' /\ Single' /\ OneSymbolPerName'
<1> DEFINE e == [hash |-> Hash[n], symbol |-> Len(nameOf) + 1, value |-> v]
           i == Index(n)
<1>1. i \in Buckets
  BY IndexType
<1>2. /\ nameOf \in Seq(Name) /\ table \in [Buckets -> Seq(Entries(space))]
      /\ table[i] \in Seq(Entries(space))
  BY <1>1 DEF IInv, TypeOK
<1>3. e \in Entries(space)
  BY <1>2, TableAssumption DEF Entries
<1>4. nameOf' \in Seq(Name)
  BY <1>2
<1>5. table' \in [Buckets -> Seq(Entries(space))]
  BY <1>2, <1>3, <1>1
<1>6. /\ DOMAIN nameOf' = DOMAIN nameOf \cup {Len(nameOf) + 1}
      /\ \A s \in DOMAIN nameOf : nameOf'[s] = nameOf[s] /\ s # Len(nameOf) + 1
      /\ nameOf'[Len(nameOf) + 1] = n
  BY <1>2
<1>7. /\ \A b \in Buckets : b # i => table'[b] = table[b]
      /\ table'[i] = Append(table[i], e)
      /\ DOMAIN table'[i] = DOMAIN table[i] \cup {Len(table[i]) + 1}
      /\ \A k \in DOMAIN table[i] : table'[i][k] = table[i][k] /\ k # Len(table[i]) + 1
      /\ table'[i][Len(table[i]) + 1] = e
  BY <1>1, <1>2, <1>3
<1>8. \A s \in Symbols : nameOf[s] # n
  BY SymbolFound
<1>9. Placed'
  <2> SUFFICES ASSUME NEW b \in Buckets, NEW k \in DOMAIN table'[b]
               PROVE  /\ table'[b][k].symbol \in DOMAIN nameOf'
                      /\ table'[b][k].hash = Hash[nameOf'[table'[b][k].symbol]]
                      /\ b = Index(nameOf'[table'[b][k].symbol])
    BY DEF Placed, Symbols, Index, Buckets
  <2>1. CASE b = i /\ k = Len(table[i]) + 1
    <3>1. table'[b][k] = e
      BY <2>1, <1>7
    <3>2. table'[b][k].symbol = Len(nameOf) + 1 /\ table'[b][k].hash = Hash[n]
      BY <3>1
    <3>3. nameOf'[table'[b][k].symbol] = n
      BY <3>2, <1>6
    <3> QED
      BY <2>1, <3>2, <3>3, <1>6
  <2>2. CASE ~(b = i /\ k = Len(table[i]) + 1)
    <3>1. k \in DOMAIN table[b] /\ table'[b][k] = table[b][k]
      BY <2>2, <1>7
    <3>2. /\ table[b][k].symbol \in DOMAIN nameOf
          /\ table[b][k].hash = Hash[nameOf[table[b][k].symbol]]
          /\ b = Index(nameOf[table[b][k].symbol])
      BY <3>1 DEF IInv, Placed, Symbols
    <3>3. nameOf'[table[b][k].symbol] = nameOf[table[b][k].symbol]
      BY <3>2, <1>6
    <3> QED
      BY <3>1, <3>2, <3>3, <1>6
  <2> QED
    BY <2>1, <2>2
<1>10. Present'
  <2> SUFFICES ASSUME NEW s \in DOMAIN nameOf'
               PROVE  \E k \in DOMAIN table'[Index(nameOf'[s])] :
                        table'[Index(nameOf'[s])][k].symbol = s
    BY DEF Present, Symbols, Index
  <2>1. CASE s = Len(nameOf) + 1
    BY <2>1, <1>6, <1>7
  <2>2. CASE s \in DOMAIN nameOf
    <3>1. nameOf'[s] = nameOf[s] /\ nameOf[s] \in Name
      BY <2>2, <1>2, <1>6
    <3>2. PICK k \in DOMAIN table[Index(nameOf[s])] : table[Index(nameOf[s])][k].symbol = s
      BY <2>2 DEF IInv, Present, Symbols
    <3>3. Index(nameOf[s]) \in Buckets
      BY <3>1, IndexType
    <3> QED
      BY <3>1, <3>2, <3>3, <1>7
  <2> QED
    BY <2>1, <2>2, <1>6
<1>11. Single'
  <2> SUFFICES ASSUME NEW b \in Buckets, NEW j \in DOMAIN table'[b], NEW k \in DOMAIN table'[b],
                      table'[b][j].symbol = table'[b][k].symbol
               PROVE  j = k
    BY DEF Single, Buckets
  <2>1. \A m \in DOMAIN table[b] : table[b][m].symbol \in DOMAIN nameOf
    BY DEF IInv, Placed, Symbols
  <2>2. CASE b # i
    BY <2>2, <1>7 DEF IInv, Single
  <2>3. CASE b = i
    <3>1. CASE j \in DOMAIN table[i] /\ k \in DOMAIN table[i]
      BY <2>3, <3>1, <1>7 DEF IInv, Single
    <3>2. CASE j \notin DOMAIN table[i] /\ k \in DOMAIN table[i]
      BY <2>1, <2>3, <3>2, <1>6, <1>7
    <3>3. CASE j \in DOMAIN table[i] /\ k \notin DOMAIN table[i]
      BY <2>1, <2>3, <3>3, <1>6, <1>7
    <3>4. CASE j \notin DOMAIN table[i] /\ k \notin DOMAIN table[i]
      BY <2>3, <3>4, <1>7
    <3> QED
      BY <3>1, <3>2, <3>3, <3>4
  <2> QED
    BY <2>2, <2>3
<1>12. OneSymbolPerName'
  BY <1>6, <1>8 DEF IInv, OneSymbolPerName, Symbols
<1> QED
  BY <1>4, <1>5, <1>9, <1>10, <1>11, <1>12

(* Values change, in the chains given by T.                                *)
LEMMA Revalues ==
  ASSUME IInv, NEW sp \in {0, 1}, table' \in [Buckets -> Seq(Entries(sp))], nameOf' = nameOf,
         \A b \in Buckets : DOMAIN table'[b] = DOMAIN table[b],
         \A b \in Buckets : \A k \in DOMAIN table[b] :
           table'[b][k].symbol = table[b][k].symbol /\ table'[b][k].hash = table[b][k].hash
  PROVE  Placed' /\ Present' /\ Single' /\ OneSymbolPerName'
<1>1. Placed'
  BY DEF IInv, Placed, Symbols, Index, Buckets
<1>2. Present'
  <2> SUFFICES ASSUME NEW s \in DOMAIN nameOf
               PROVE  \E k \in DOMAIN table'[Index(nameOf[s])] :
                        table'[Index(nameOf[s])][k].symbol = s
    BY DEF Present, Symbols, Index
  <2>1. Index(nameOf[s]) \in Buckets
    BY IndexType DEF IInv, TypeOK
  <2> QED
    BY <2>1 DEF IInv, Present, Symbols
<1>3. Single' /\ OneSymbolPerName'
  BY DEF IInv, Single, OneSymbolPerName, Symbols, Buckets
<1> QED
  BY <1>1, <1>2, <1>3

LEMMA Stores ==
  ASSUME IInv, NEW n \in Name, NEW v \in Value(space), Hits(n) # {},
         table' = Stored(n, v), nameOf' = nameOf, space' = space
  PROVE  /\ table' \in [Buckets -> Seq(Entries(space))]
         /\ Placed' /\ Present' /\ Single' /\ OneSymbolPerName'
<1> DEFINE i == Index(n)
           h == Hit(n)
<1>1. i \in Buckets /\ table \in [Buckets -> Seq(Entries(space))] /\ table[i] \in Seq(Entries(space))
  BY IndexType DEF IInv, TypeOK
<1>2. h \in DOMAIN table[i]
  BY HitFound, HitIsSymbol
<1>3. table[i][h] \in Entries(space)
  BY <1>1, <1>2
<1>4. [table[i][h] EXCEPT !.value = v] \in Entries(space)
  BY <1>3 DEF Entries
<1>5. /\ \A b \in Buckets : b # i => table'[b] = table[b]
      /\ table'[i] = [table[i] EXCEPT ![h] = [table[i][h] EXCEPT !.value = v]]
  BY <1>1, <1>2 DEF Stored
<1>6. table'[i] \in Seq(Entries(space))
  BY <1>1, <1>2, <1>4, <1>5
<1>7. table' \in [Buckets -> Seq(Entries(space))]
  BY <1>1, <1>6 DEF Stored
<1>8. /\ DOMAIN table'[i] = DOMAIN table[i]
      /\ \A k \in DOMAIN table[i] :
           table'[i][k].symbol = table[i][k].symbol /\ table'[i][k].hash = table[i][k].hash
  BY <1>2, <1>3, <1>5 DEF Entries
<1>9. space \in {0, 1}
  BY DEF IInv, TypeOK
<1> HIDE DEF i, h
<1> QED
  BY <1>5, <1>7, <1>8, <1>9, Revalues

LEMMA Collects ==
  ASSUME IInv, global_env_collect_roots
  PROVE  /\ table' \in [Buckets -> Seq(Entries(space'))]
         /\ Placed' /\ Present' /\ Single' /\ OneSymbolPerName'
<1>1. /\ table \in [Buckets -> Seq(Entries(space))] /\ space \in {0, 1} /\ space' = 1 - space
      /\ nameOf' = nameOf
  BY DEF IInv, TypeOK, global_env_collect_roots
<1>2. space' \in {0, 1} /\ 1 - space' = space
  BY <1>1
<1> DEFINE new(b, k) == IF k \in Roots(b) THEN [table[b][k] EXCEPT !.value = Move(@, 1 - space)]
                        ELSE table[b][k]
<1>3. /\ table' = [b \in Buckets |-> [k \in DOMAIN table[b] |-> new(b, k)]]
  BY DEF global_env_collect_roots
<1>4. ASSUME NEW b \in Buckets, NEW k \in DOMAIN table[b]
      PROVE  /\ new(b, k) \in Entries(space')
             /\ new(b, k).symbol = table[b][k].symbol /\ new(b, k).hash = table[b][k].hash
  <2>1. table[b][k] \in Entries(space)
    BY <1>1
  <2>2. NULL \in Value(space')
    BY TableAssumption DEF Value
  <2>3. Move(table[b][k].value, 1 - space) \in Value(space')
    BY <1>1, <1>2, <2>1 DEF Move, Value, Entries
  <2>4. table[b][k].value = NULL => table[b][k] \in Entries(space')
    BY <2>1, <2>2 DEF Entries
  <2> QED
    BY <2>1, <2>3, <2>4 DEF Entries, Roots
<1>5. \A b \in Buckets : table[b] \in Seq(Entries(space))
  BY <1>1
<1>6. \A b \in Buckets : DOMAIN table'[b] = DOMAIN table[b]
  BY <1>3
<1>7. \A b \in Buckets : \A k \in DOMAIN table[b] : table'[b][k] = new(b, k)
  BY <1>3
<1>8. ASSUME NEW b \in Buckets PROVE table'[b] \in Seq(Entries(space'))
  <2>1. PICK m \in Nat : DOMAIN table[b] = 1 .. m
    BY <1>5
  <2>2. table'[b] \in [1 .. m -> Entries(space')]
    BY <1>3, <1>4, <2>1
  <2> QED
    BY <2>2, SeqDef
<1>9. table' \in [Buckets -> Seq(Entries(space'))]
  BY <1>3, <1>8
<1> HIDE DEF new
<1> QED
  BY <1>1, <1>2, <1>4, <1>6, <1>7, <1>9, Revalues

-----------------------------------------------------------------------------
(* Every step keeps the invariant.                                         *)

LEMMA Starts == Init => IInv
<1> SUFFICES ASSUME Init PROVE IInv
  OBVIOUS
<1>1. table \in [Buckets -> Seq(Entries(space))]
  BY DEF Init
<1> QED
  BY <1>1, TableAssumption
     DEF Init, IInv, TypeOK, Placed, Present, Single, OneSymbolPerName, NoCrash, Symbols

LEMMA Interns == ASSUME IInv, NEW n \in Name, intern_name(n) PROVE IInv'
<1>1. CASE get_symbol_obj(n) # 0
  <2>1. UNCHANGED <<table, nameOf, space, left, status>>
    BY <1>1 DEF intern_name
  <2> QED
    BY <2>1 DEF IInv, TypeOK, Placed, Present, Single, OneSymbolPerName, NoCrash,
                Symbols, Index, Buckets
<1>2. CASE get_symbol_obj(n) = 0
  <2>1. Hits(n) = {} /\ NULL \in Value(space)
    BY <1>2, SymbolFound, TableAssumption DEF Value
  <2>2. UNCHANGED <<space, left, status>>
    BY DEF intern_name
  <2>3. /\ nameOf' = Append(nameOf, n)
        /\ table' = [table EXCEPT ![Index(n)] =
             Append(@, [hash |-> Hash[n], symbol |-> Len(nameOf) + 1, value |-> NULL])]
    BY <1>2 DEF intern_name, Appended, NewEntry
  <2> QED
    BY <2>1, <2>2, <2>3, Grows DEF IInv, TypeOK, NoCrash
<1> QED
  BY <1>1, <1>2

LEMMA Registers == ASSUME IInv, Register PROVE IInv'
<1> DEFINE n == Head(left).name
           o == Head(left).obj
<1>1. left \in Seq([name : Name, obj : Static]) /\ left # <<>>
  BY DEF IInv, TypeOK, Register
<1>2. n \in Name /\ o \in Value(space) /\ left' \in Seq([name : Name, obj : Static])
  <2>1. Head(left) \in [name : Name, obj : Static] /\ Tail(left) \in Seq([name : Name, obj : Static])
    BY <1>1, HeadTailProperties
  <2> QED
    BY <2>1 DEF Register, Value
<1>3. UNCHANGED <<space, status>>
  BY DEF Register
<1>4. CASE get_symbol_obj(n) # 0
  <2>1. Hits(n) # {}
    BY <1>2, <1>4, SymbolFound
  <2>2. table' = Stored(n, o) /\ nameOf' = nameOf
    BY <1>4 DEF Register, Registered
  <2> HIDE DEF n, o
  <2> QED
    BY <1>2, <1>3, <2>1, <2>2, Stores DEF IInv, TypeOK, NoCrash
<1>5. CASE get_symbol_obj(n) = 0
  <2>1. Hits(n) = {}
    BY <1>2, <1>5, SymbolFound
  <2>2. /\ nameOf' = Append(nameOf, n)
        /\ table' = [table EXCEPT ![Index(n)] = Append(@, [NewEntry(n) EXCEPT !.value = o])]
    BY <1>5 DEF Register, Registered
  <2> HIDE DEF n, o
  <2>3. [NewEntry(n) EXCEPT !.value = o]
          = [hash |-> Hash[n], symbol |-> Len(nameOf) + 1, value |-> o]
    BY DEF NewEntry
  <2>4. table' = [table EXCEPT ![Index(n)] =
             Append(@, [hash |-> Hash[n], symbol |-> Len(nameOf) + 1, value |-> o])]
    BY <2>2, <2>3
  <2> QED
    BY <1>2, <1>3, <2>1, <2>2, <2>4, Grows DEF IInv, TypeOK, NoCrash
<1> QED
  BY <1>4, <1>5

(* A symbol is in the table, so the bucket that is read is not empty.      *)
LEMMA ReadsEntry ==
  ASSUME IInv, NEW s \in Symbols
  PROVE  nameOf[s] \in Name /\ Hits(nameOf[s]) # {} /\ table[Index(nameOf[s])] # <<>>
<1>1. nameOf[s] \in Name
  BY DEF IInv, TypeOK, Symbols
<1>2. PICK k \in Hits(nameOf[s]) : TRUE
  BY HitOfSymbol
<1>3. k \in DOMAIN table[Index(nameOf[s])]
  BY <1>1, HitIsSymbol
<1> QED
  BY <1>1, <1>2, <1>3

LEMMA Inserts ==
  ASSUME IInv, NEW s \in Symbols, NEW v \in Value(space), insert_to_global_env(s, v)
  PROVE  IInv'
<1>1. table' = Stored(nameOf[s], v)
  BY ReadsEntry DEF insert_to_global_env
<1>2. UNCHANGED <<nameOf, space, left, status>>
  BY ReadsEntry DEF insert_to_global_env, Reads
<1> QED
  BY <1>1, <1>2, ReadsEntry, Stores DEF IInv, TypeOK, NoCrash

LEMMA Gets == ASSUME IInv, NEW s \in Symbols, get_from_global_env(s) PROVE IInv'
<1>1. UNCHANGED <<table, nameOf, space, left, status>>
  BY ReadsEntry DEF get_from_global_env, Reads
<1> QED
  BY <1>1 DEF IInv, TypeOK, Placed, Present, Single, OneSymbolPerName, NoCrash, Symbols, Index, Buckets

LEMMA Keeps == ASSUME IInv, [Next]_vars PROVE IInv'
<1>1. CASE Register
  BY <1>1, Registers
<1>2. CASE global_env_collect_roots
  <2>1. UNCHANGED <<nameOf, left, status>> /\ space' \in {0, 1}
    BY <1>2 DEF global_env_collect_roots, IInv, TypeOK
  <2> QED
    BY <1>2, <2>1, Collects DEF IInv, TypeOK, NoCrash
<1>3. CASE clear_symbol_table
  BY <1>3 DEF clear_symbol_table, IInv, TypeOK, Placed, Present, Single, OneSymbolPerName, NoCrash,
              Symbols, Index, Buckets
<1>4. ASSUME NEW n \in Name, intern_name(n) PROVE IInv'
  BY <1>4, Interns
<1>5. ASSUME NEW s \in Symbols, get_from_global_env(s) PROVE IInv'
  BY <1>5, Gets
<1>6. ASSUME NEW s \in Symbols, NEW v \in Value(space), insert_to_global_env(s, v) PROVE IInv'
  BY <1>6, Inserts
<1>7. CASE UNCHANGED vars
  BY <1>7 DEF vars, IInv, TypeOK, Placed, Present, Single, OneSymbolPerName, NoCrash,
              Symbols, Index, Buckets
<1> QED
  BY <1>1, <1>2, <1>3, <1>4, <1>5, <1>6, <1>7 DEF Next

-----------------------------------------------------------------------------
(* The invariant holds in every state, for every hash function.            *)
THEOREM TableInvariant == Spec => []IInv
<1>1. Init => IInv
  BY Starts
<1>2. IInv /\ [Next]_vars => IInv'
  BY Keeps
<1> QED
  BY <1>1, <1>2, PTL DEF Spec

(* A value in the table is never behind in the semispace that a collection *)
(* has left (global_env_collect_roots registers every entry of a chain).   *)
THEOREM TableTyped == Spec => []TypeOK
<1>1. IInv => TypeOK
  BY DEF IInv
<1> QED
  BY <1>1, TableInvariant, PTL

(* Whatever collides, no two symbols have one name (intern_name), which    *)
(* lets the compiler, the environments and eq? compare addresses.          *)
THEOREM SymbolsUnique == Spec => []OneSymbolPerName
<1>1. IInv => OneSymbolPerName
  BY DEF IInv
<1> QED
  BY <1>1, TableInvariant, PTL

(* insert_to_global_env and get_from_global_env never meet the empty       *)
(* bucket whose first entry they would read.                               *)
THEOREM TableNeverCrashes == Spec => []NoCrash
<1>1. IInv => NoCrash
  BY DEF IInv
<1> QED
  BY <1>1, TableInvariant, PTL

-----------------------------------------------------------------------------
(* The entry of a symbol, as clear_symbol_table meets it.  A chain is not  *)
(* longer than there are symbols, since its entries have different ones.   *)

EntriesOf(s) ==
  {at \in Buckets \X (1 .. Len(nameOf)) :
     at[2] \in DOMAIN table[at[1]] /\ table[at[1]][at[2]].symbol = s}

LEMMA ChainIsShort ==
  ASSUME IInv, NEW b \in Buckets
  PROVE  Len(table[b]) <= Len(nameOf)
<1> DEFINE f == [k \in 1 .. Len(table[b]) |-> table[b][k].symbol]
<1>1. /\ table[b] \in Seq(Entries(space)) /\ nameOf \in Seq(Name)
      /\ Len(table[b]) \in Nat /\ Len(nameOf) \in Nat
      /\ DOMAIN table[b] = 1 .. Len(table[b]) /\ Symbols = 1 .. Len(nameOf)
  BY DEF IInv, TypeOK, Symbols
<1>2. f \in Injection(1 .. Len(table[b]), 1 .. Len(nameOf))
  BY <1>1 DEF IInv, Placed, Single, Injection, IsInjective
<1>3. \A n \in Nat : IsFiniteSet(1 .. n) /\ Cardinality(1 .. n) = n
  <2>1. \A n \in Nat : IsFiniteSet(1 .. n)
                       /\ Cardinality(1 .. n) = IF 1 > n THEN 0 ELSE n - 1 + 1
    BY FS_Interval
  <2> QED
    BY <2>1
<1> HIDE DEF f
<1>4. Cardinality(1 .. Len(table[b])) <= Cardinality(1 .. Len(nameOf))
  BY <1>1, <1>2, <1>3, FS_Injection
<1> QED
  BY <1>1, <1>3, <1>4

LEMMA OneEntry ==
  ASSUME IInv, NEW s \in Symbols
  PROVE  Cardinality(EntriesOf(s)) = 1
<1>1. PICK k \in DOMAIN table[Index(nameOf[s])] : table[Index(nameOf[s])][k].symbol = s
  BY DEF IInv, Present
<1>2. Index(nameOf[s]) \in Buckets
  BY IndexType DEF IInv, TypeOK, Symbols
<1>3. k \in 1 .. Len(nameOf)
  BY <1>1, <1>2, ChainIsShort DEF IInv, TypeOK
<1>4. ASSUME NEW at \in EntriesOf(s) PROVE at = <<Index(nameOf[s]), k>>
  <2>1. /\ at \in Buckets \X (1 .. Len(nameOf)) /\ at[2] \in DOMAIN table[at[1]]
        /\ table[at[1]][at[2]].symbol = s
    BY <1>4 DEF EntriesOf
  <2>2. at[1] = Index(nameOf[s])
    BY <2>1 DEF IInv, Placed
  <2>3. at[2] = k
    BY <1>1, <1>2, <2>1, <2>2 DEF IInv, Single
  <2> QED
    BY <2>1, <2>2, <2>3
<1>5. <<Index(nameOf[s]), k>> \in EntriesOf(s)
  BY <1>1, <1>2, <1>3 DEF EntriesOf
<1>6. EntriesOf(s) = {<<Index(nameOf[s]), k>>}
  BY <1>4, <1>5
<1> QED
  BY <1>6, FS_Singleton

LEMMA FreesOnce == ASSUME IInv, FreedOnce, [Next]_vars PROVE FreedOnce'
<1>1. CASE clear_symbol_table
  <2>1. nameOf' = nameOf /\ freed' = [s \in Symbols |-> Cardinality(EntriesOf(s))]
    BY <1>1 DEF clear_symbol_table, EntriesOf
  <2> QED
    BY <2>1, OneEntry DEF FreedOnce, Symbols
<1>2. CASE UNCHANGED vars
  BY <1>2 DEF vars, FreedOnce, Symbols
<1>3. ASSUME status = "up", status' \in {status, "crash"} PROVE FreedOnce'
  BY <1>3 DEF FreedOnce
<1> QED
  BY <1>1, <1>2, <1>3 DEF Next, Register, global_env_collect_roots, intern_name,
     get_from_global_env, insert_to_global_env, Reads

(* clear_symbol_table frees every symbol, and none twice, whatever chains  *)
(* the names were hashed into.                                             *)
THEOREM SymbolsFreedOnce == Spec => []FreedOnce
<1>1. Init => FreedOnce
  BY DEF Init, FreedOnce
<1>2. IInv /\ FreedOnce /\ [Next]_vars => FreedOnce'
  BY FreesOnce
<1> QED
  BY <1>1, <1>2, TableInvariant, PTL DEF Spec

-----------------------------------------------------------------------------
(* The refinement: the maps that module GlobalEnv is about, for any table  *)
(* and any names, so that the lemmas serve before and after a step.        *)

HitsIn(t, nm, n) ==
  {k \in DOMAIN t[Index(n)] : t[Index(n)][k].hash = Hash[n] /\ nm[t[Index(n)][k].symbol] = n}
FirstOf(H) == CHOOSE k \in H : \A m \in H : k <= m
SymIn(t, nm, n) ==
  IF HitsIn(t, nm, n) = {} THEN 0 ELSE t[Index(n)][FirstOf(HitsIn(t, nm, n))].symbol
ValIn(t, nm, n) ==
  IF HitsIn(t, nm, n) = {} THEN NULL ELSE t[Index(n)][FirstOf(HitsIn(t, nm, n))].value

SymMap == [n \in Name |-> get_symbol_obj(n)]
ValMap == [n \in Name |-> IF Hits(n) = {} THEN NULL ELSE Entry(n).value]

LEMMA Views ==
  /\ SymMap = [n \in Name |-> SymIn(table, nameOf, n)]
  /\ ValMap = [n \in Name |-> ValIn(table, nameOf, n)]
  /\ SymMap' = [n \in Name |-> SymIn(table', nameOf', n)]
  /\ ValMap' = [n \in Name |-> ValIn(table', nameOf', n)]
BY DEF SymMap, ValMap, SymIn, ValIn, HitsIn, FirstOf, get_symbol_obj, Entry, Hit, Hits, Index

LEMMA TheOnlyHit ==
  ASSUME NEW t, NEW nm, NEW n, NEW k \in Nat, HitsIn(t, nm, n) = {k}
  PROVE  SymIn(t, nm, n) = t[Index(n)][k].symbol /\ ValIn(t, nm, n) = t[Index(n)][k].value
<1>1. FirstOf({k}) = k
  BY DEF FirstOf
<1> QED
  BY <1>1 DEF SymIn, ValIn

LEMMA HitCases ==
  ASSUME IInv, NEW n \in Name
  PROVE  \/ HitsIn(table, nameOf, n) = {}
         \/ \E k \in DOMAIN table[Index(n)] : k \in Nat /\ HitsIn(table, nameOf, n) = {k}
<1>1. HitsIn(table, nameOf, n) = Hits(n)
  BY DEF Hits, HitsIn
<1>2. ASSUME NEW k \in Hits(n) PROVE k \in Nat /\ k \in DOMAIN table[Index(n)] /\ Hits(n) = {k}
  BY <1>2, OneHit, HitIsSymbol, IndexType DEF IInv, TypeOK
<1> QED
  BY <1>1, <1>2

(* Two states with the same hit for a name.                                *)
LEMMA SameView ==
  ASSUME IInv, NEW n \in Name, NEW t, NEW nm,
         HitsIn(t, nm, n) = HitsIn(table, nameOf, n)
  PROVE  /\ (\A k \in HitsIn(table, nameOf, n) : t[Index(n)][k].symbol = table[Index(n)][k].symbol)
               => SymIn(t, nm, n) = SymIn(table, nameOf, n)
         /\ (\A k \in HitsIn(table, nameOf, n) : t[Index(n)][k].value = table[Index(n)][k].value)
               => ValIn(t, nm, n) = ValIn(table, nameOf, n)
<1>1. CASE HitsIn(table, nameOf, n) = {}
  BY <1>1 DEF SymIn, ValIn
<1>2. ASSUME NEW k \in Nat, HitsIn(table, nameOf, n) = {k}
      PROVE  /\ SymIn(t, nm, n) = t[Index(n)][k].symbol /\ ValIn(t, nm, n) = t[Index(n)][k].value
             /\ SymIn(table, nameOf, n) = table[Index(n)][k].symbol
             /\ ValIn(table, nameOf, n) = table[Index(n)][k].value
  BY <1>2, TheOnlyHit
<1> QED
  BY <1>1, <1>2, HitCases

LEMMA GrowsMaps ==
  ASSUME IInv, NEW n \in Name, NEW v \in Value(space), Hits(n) = {},
         table' = [table EXCEPT ![Index(n)] =
                     Append(@, [hash |-> Hash[n], symbol |-> Len(nameOf) + 1, value |-> v])],
         nameOf' = Append(nameOf, n)
  PROVE  /\ SymMap' = [SymMap EXCEPT ![n] = Len(nameOf) + 1]
         /\ ValMap' = [ValMap EXCEPT ![n] = v]
<1> DEFINE e == [hash |-> Hash[n], symbol |-> Len(nameOf) + 1, value |-> v]
           i == Index(n)
<1>1. /\ i \in Buckets /\ table \in [Buckets -> Seq(Entries(space))]
      /\ table[i] \in Seq(Entries(space)) /\ nameOf \in Seq(Name)
  BY IndexType DEF IInv, TypeOK
<1>2. e \in Entries(space) /\ e.hash = Hash[n] /\ e.symbol = Len(nameOf) + 1 /\ e.value = v
  BY <1>1, TableAssumption DEF Entries
<1>3. /\ \A b \in Buckets : b # i => table'[b] = table[b]
      /\ table'[i] = Append(table[i], e)
      /\ DOMAIN table'[i] = DOMAIN table[i] \cup {Len(table[i]) + 1}
      /\ \A k \in DOMAIN table[i] : table'[i][k] = table[i][k] /\ k # Len(table[i]) + 1
      /\ table'[i][Len(table[i]) + 1] = e
  BY <1>1, <1>2
<1>4. /\ \A s \in DOMAIN nameOf : nameOf'[s] = nameOf[s] /\ nameOf[s] # n
      /\ nameOf'[Len(nameOf) + 1] = n
  BY <1>1, SymbolFound DEF Symbols
<1>5. \A b \in Buckets : \A k \in DOMAIN table[b] : table[b][k].symbol \in DOMAIN nameOf
  BY DEF IInv, Placed, Symbols
<1> HIDE DEF e
<1>6. /\ SymIn(table', nameOf', n) = Len(nameOf) + 1
      /\ ValIn(table', nameOf', n) = v
  <2>1. HitsIn(table', nameOf', n) = {Len(table[i]) + 1}
    <3>1. ASSUME NEW k \in DOMAIN table[i] PROVE nameOf'[table'[i][k].symbol] # n
      BY <1>1, <1>3, <1>4, <1>5
    <3>2. table'[i][Len(table[i]) + 1].hash = Hash[n]
          /\ nameOf'[table'[i][Len(table[i]) + 1].symbol] = n
      BY <1>2, <1>3, <1>4
    <3> QED
      BY <1>3, <3>1, <3>2 DEF HitsIn
  <2>2. Len(table[i]) + 1 \in Nat
    BY <1>1
  <2>3. /\ SymIn(table', nameOf', n) = table'[i][Len(table[i]) + 1].symbol
        /\ ValIn(table', nameOf', n) = table'[i][Len(table[i]) + 1].value
    <3> DEFINE k == Len(table[i]) + 1
               t == table'
               nm == nameOf'
    <3>1. HitsIn(t, nm, n) = {k} /\ k \in Nat
      BY <2>1, <2>2
    <3> HIDE DEF i, k, t, nm
    <3>2. SymIn(t, nm, n) = t[Index(n)][k].symbol /\ ValIn(t, nm, n) = t[Index(n)][k].value
      <4>1. FirstOf({k}) = k
        BY <3>1 DEF FirstOf
      <4> QED
        BY <3>1, <4>1 DEF SymIn, ValIn
    <3> QED
      BY <3>2 DEF i, k, t, nm
  <2> QED
    BY <2>3, <1>2, <1>3
<1>7. ASSUME NEW m \in Name, m # n
      PROVE  /\ SymIn(table', nameOf', m) = SymIn(table, nameOf, m)
             /\ ValIn(table', nameOf', m) = ValIn(table, nameOf, m)
  <2> DEFINE b == Index(m)
  <2>1. b \in Buckets
    BY IndexType
  <2>2. \A k \in DOMAIN table[b] : k \in DOMAIN table'[b] /\ table'[b][k] = table[b][k]
                                  /\ nameOf'[table[b][k].symbol] = nameOf[table[b][k].symbol]
    BY <2>1, <1>3, <1>4, <1>5
  <2>3. \A k \in DOMAIN table'[b] : k \notin DOMAIN table[b] => nameOf'[table'[b][k].symbol] = n
    BY <2>1, <1>2, <1>3, <1>4
  <2>4. HitsIn(table', nameOf', m) = HitsIn(table, nameOf, m)
    <3>1. ASSUME NEW k \in HitsIn(table', nameOf', m) PROVE k \in HitsIn(table, nameOf, m)
      <4>1. k \in DOMAIN table'[b] /\ table'[b][k].hash = Hash[m] /\ nameOf'[table'[b][k].symbol] = m
        BY <3>1 DEF HitsIn
      <4>2. k \in DOMAIN table[b]
        BY <4>1, <2>3, <1>7
      <4> QED
        BY <4>1, <4>2, <2>2 DEF HitsIn
    <3>2. ASSUME NEW k \in HitsIn(table, nameOf, m) PROVE k \in HitsIn(table', nameOf', m)
      <4>1. k \in DOMAIN table[b] /\ table[b][k].hash = Hash[m] /\ nameOf[table[b][k].symbol] = m
        BY <3>2 DEF HitsIn
      <4> QED
        BY <4>1, <2>2 DEF HitsIn
    <3> QED
      BY <3>1, <3>2
  <2>5. \A k \in HitsIn(table, nameOf, m) : table'[b][k] = table[b][k]
    BY <2>2 DEF HitsIn
  <2> QED
    BY <2>4, <2>5, SameView
<1> QED
  BY <1>6, <1>7, Views

LEMMA StoresMaps ==
  ASSUME IInv, NEW n \in Name, NEW v \in Value(space), Hits(n) # {},
         table' = Stored(n, v), nameOf' = nameOf
  PROVE  SymMap' = SymMap /\ ValMap' = [ValMap EXCEPT ![n] = v]
<1> DEFINE i == Index(n)
           h == Hit(n)
<1>1. /\ i \in Buckets /\ table \in [Buckets -> Seq(Entries(space))]
      /\ table[i] \in Seq(Entries(space))
  BY IndexType DEF IInv, TypeOK
<1>2. /\ h \in DOMAIN table[i] /\ h \in Nat /\ nameOf[table[i][h].symbol] = n
      /\ HitsIn(table, nameOf, n) = {h}
  <2>1. h \in Hits(n) /\ h \in DOMAIN table[i] /\ nameOf[table[i][h].symbol] = n
    BY HitFound, HitIsSymbol
  <2>2. Hits(n) = {h}
    BY <2>1, OneHit
  <2> QED
    BY <1>1, <2>1, <2>2 DEF Hits, HitsIn
<1>3. table[i][h] \in Entries(space)
  BY <1>1, <1>2
<1>4. /\ \A b \in Buckets : b # i => table'[b] = table[b]
      /\ table'[i] = [table[i] EXCEPT ![h] = [table[i][h] EXCEPT !.value = v]]
  BY <1>1, <1>2 DEF Stored
<1> HIDE DEF h, i
<1>5. /\ DOMAIN table'[i] = DOMAIN table[i]
      /\ \A k \in DOMAIN table[i] : k # h => table'[i][k] = table[i][k]
      /\ table'[i][h].symbol = table[i][h].symbol /\ table'[i][h].hash = table[i][h].hash
      /\ table'[i][h].value = v
  BY <1>2, <1>3, <1>4 DEF Entries
<1>6. \A b \in Buckets : /\ DOMAIN table'[b] = DOMAIN table[b]
                         /\ \A k \in DOMAIN table[b] : /\ table'[b][k].symbol = table[b][k].symbol
                                                        /\ table'[b][k].hash = table[b][k].hash
  BY <1>4, <1>5
<1>7. ASSUME NEW m \in Name
      PROVE  /\ HitsIn(table', nameOf', m) = HitsIn(table, nameOf, m)
             /\ SymIn(table', nameOf', m) = SymIn(table, nameOf, m)
  <2>1. Index(m) \in Buckets
    BY IndexType
  <2>2. HitsIn(table', nameOf', m) = HitsIn(table, nameOf, m)
    BY <1>6, <2>1 DEF HitsIn
  <2>3. \A k \in HitsIn(table, nameOf, m) : table'[Index(m)][k].symbol = table[Index(m)][k].symbol
    BY <1>6, <2>1 DEF HitsIn
  <2> QED
    BY <2>2, <2>3, SameView
<1>8. ValIn(table', nameOf', n) = v
  <2>1. HitsIn(table', nameOf', n) = {h}
    BY <1>2, <1>7
  <2> QED
    BY <2>1, <1>2, <1>5, TheOnlyHit DEF i
<1>9. ASSUME NEW m \in Name, m # n PROVE ValIn(table', nameOf', m) = ValIn(table, nameOf, m)
  <2>1. ASSUME NEW k \in HitsIn(table, nameOf, m) PROVE table'[Index(m)][k] = table[Index(m)][k]
    <3>1. k \in DOMAIN table[Index(m)] /\ nameOf[table[Index(m)][k].symbol] = m /\ Index(m) \in Buckets
      BY <2>1, IndexType DEF HitsIn
    <3> QED
      BY <3>1, <1>2, <1>4, <1>5, <1>9
  <2> QED
    BY <2>1, <1>7, SameView
<1> QED
  BY <1>7, <1>8, <1>9, Views

LEMMA CollectsMaps ==
  ASSUME IInv, global_env_collect_roots
  PROVE  /\ SymMap' = SymMap
         /\ ValMap' = [n \in Name |-> Move(ValMap[n], 1 - space)]
<1>1. /\ table \in [Buckets -> Seq(Entries(space))] /\ space \in {0, 1}
      /\ nameOf' = nameOf
  BY DEF IInv, TypeOK, global_env_collect_roots
<1>2. Move(NULL, 1 - space) = NULL
  BY <1>1, TableAssumption DEF Move
<1>3. ASSUME NEW b \in Buckets, NEW k \in DOMAIN table[b]
      PROVE  /\ table'[b][k].symbol = table[b][k].symbol /\ table'[b][k].hash = table[b][k].hash
             /\ table'[b][k].value = Move(table[b][k].value, 1 - space)
  <2>1. table[b][k] \in Entries(space)
    BY <1>1
  <2>2. table'[b][k] = IF k \in Roots(b) THEN [table[b][k] EXCEPT !.value = Move(@, 1 - space)]
                       ELSE table[b][k]
    BY DEF global_env_collect_roots
  <2> QED
    BY <2>1, <2>2, <1>2 DEF Entries, Roots
<1>4. \A b \in Buckets : DOMAIN table'[b] = DOMAIN table[b]
  BY DEF global_env_collect_roots
<1>5. ASSUME NEW m \in Name
      PROVE  /\ SymIn(table', nameOf', m) = SymIn(table, nameOf, m)
             /\ ValIn(table', nameOf', m) = Move(ValIn(table, nameOf, m), 1 - space)
  <2>1. Index(m) \in Buckets
    BY IndexType
  <2>2. HitsIn(table', nameOf', m) = HitsIn(table, nameOf, m)
    BY <1>1, <1>3, <1>4, <2>1 DEF HitsIn
  <2>3. \A k \in HitsIn(table, nameOf, m) : table'[Index(m)][k].symbol = table[Index(m)][k].symbol
    BY <1>3, <2>1 DEF HitsIn
  <2>4. CASE HitsIn(table, nameOf, m) = {}
    BY <2>2, <2>4, <1>2 DEF SymIn, ValIn
  <2>5. ASSUME NEW k \in DOMAIN table[Index(m)], k \in Nat, HitsIn(table, nameOf, m) = {k}
        PROVE  ValIn(table', nameOf', m) = Move(ValIn(table, nameOf, m), 1 - space)
    BY <2>1, <2>2, <2>5, <1>3, TheOnlyHit
  <2> QED
    BY <2>2, <2>3, <2>4, <2>5, HitCases, SameView
<1> QED
  BY <1>5, Views

-----------------------------------------------------------------------------
(* Each step is a step of GlobalEnv, or none.                              *)

LEMMA InternImplements ==
  ASSUME IInv, NEW n \in Name, intern_name(n)
  PROVE  Abstract!Intern(n)
<1>1. left = <<>> /\ UNCHANGED <<space, left>>
  BY DEF intern_name
<1>2. SymMap[n] = get_symbol_obj(n)
  BY DEF SymMap
<1>3. CASE get_symbol_obj(n) # 0
  <2>1. UNCHANGED <<table, nameOf>> /\ ret' = <<"symbol", get_symbol_obj(n)>>
    BY <1>3 DEF intern_name
  <2>2. SymMap' = SymMap /\ ValMap' = ValMap
    BY <2>1, Views
  <2> QED
    BY <1>1, <1>2, <1>3, <2>1, <2>2 DEF Abstract!Intern, Abstract!Interned, SymMap, ValMap
<1>4. CASE get_symbol_obj(n) = 0
  <2>1. Hits(n) = {} /\ NULL \in Value(space) /\ nameOf \in Seq(Name)
    BY <1>4, SymbolFound, TableAssumption DEF Value, IInv, TypeOK
  <2>2. /\ nameOf' = Append(nameOf, n)
        /\ table' = [table EXCEPT ![Index(n)] =
             Append(@, [hash |-> Hash[n], symbol |-> Len(nameOf) + 1, value |-> NULL])]
        /\ ret' = <<"symbol", Len(nameOf) + 1>>
    BY <1>4 DEF intern_name, Appended, NewEntry
  <2>3. SymMap' = [SymMap EXCEPT ![n] = Len(nameOf) + 1] /\ ValMap' = [ValMap EXCEPT ![n] = NULL]
    BY <2>1, <2>2, GrowsMaps
  <2>4. ValMap' = ValMap
    BY <2>1, <2>3 DEF ValMap
  <2>5. Len(nameOf') = Len(nameOf) + 1 /\ SymMap'[n] = Len(nameOf) + 1
    BY <2>1, <2>2, <2>3 DEF SymMap
  <2> QED
    BY <1>1, <1>2, <1>4, <2>2, <2>3, <2>4, <2>5
       DEF Abstract!Intern, Abstract!Interned, SymMap, ValMap
<1> QED
  BY <1>3, <1>4

LEMMA RegisterImplements ==
  ASSUME IInv, Register
  PROVE  Abstract!Register
<1> DEFINE n == Head(left).name
           o == Head(left).obj
<1>1. left \in Seq([name : Name, obj : Static]) /\ left # <<>>
  BY DEF IInv, TypeOK, Register
<1>2. n \in Name /\ o \in Value(space)
  <2>1. Head(left) \in [name : Name, obj : Static]
    BY <1>1, HeadTailProperties
  <2> QED
    BY <2>1 DEF Value
<1>3. UNCHANGED <<space, ret>> /\ left' = Tail(left)
  BY DEF Register
<1>4. SymMap[n] = get_symbol_obj(n)
  BY <1>2 DEF SymMap
<1>5. CASE get_symbol_obj(n) # 0
  <2>1. Hits(n) # {}
    BY <1>2, <1>5, SymbolFound
  <2>2. table' = Stored(n, o) /\ nameOf' = nameOf
    BY <1>5 DEF Register, Registered
  <2>3. SymMap' = SymMap /\ ValMap' = [ValMap EXCEPT ![n] = o]
    <3> HIDE DEF n, o
    <3> QED
      BY <1>2, <2>1, <2>2, StoresMaps
  <2> QED
    BY <1>1, <1>3, <1>4, <1>5, <2>2, <2>3
       DEF Abstract!Register, Abstract!Interned, SymMap, ValMap
<1>6. CASE get_symbol_obj(n) = 0
  <2>1. Hits(n) = {} /\ nameOf \in Seq(Name)
    BY <1>2, <1>6, SymbolFound DEF IInv, TypeOK
  <2>2. /\ nameOf' = Append(nameOf, n)
        /\ table' = [table EXCEPT ![Index(n)] = Append(@, [NewEntry(n) EXCEPT !.value = o])]
    BY <1>6 DEF Register, Registered
  <2>3. /\ SymMap' = [SymMap EXCEPT ![n] = Len(nameOf) + 1] /\ ValMap' = [ValMap EXCEPT ![n] = o]
        /\ Len(nameOf') = Len(nameOf) + 1
    <3> HIDE DEF n, o
    <3>1. [NewEntry(n) EXCEPT !.value = o]
            = [hash |-> Hash[n], symbol |-> Len(nameOf) + 1, value |-> o]
      BY DEF NewEntry
    <3>2. table' = [table EXCEPT ![Index(n)] =
               Append(@, [hash |-> Hash[n], symbol |-> Len(nameOf) + 1, value |-> o])]
      BY <2>2, <3>1
    <3>3. nameOf' = Append(nameOf, n)
      BY <2>2
    <3>4. SymMap' = [SymMap EXCEPT ![n] = Len(nameOf) + 1] /\ ValMap' = [ValMap EXCEPT ![n] = o]
      BY <1>2, <2>1, <3>2, <3>3, GrowsMaps
    <3> QED
      BY <1>2, <2>1, <3>3, <3>4
  <2> QED
    BY <1>1, <1>3, <1>4, <1>6, <2>3
       DEF Abstract!Register, Abstract!Interned, SymMap, ValMap
<1> QED
  BY <1>5, <1>6

LEMMA ReadsFound ==
  ASSUME IInv, NEW s \in Symbols, Reads(nameOf[s])
  PROVE  /\ nameOf[s] \in Name /\ SymMap[nameOf[s]] # 0 /\ left = <<>>
         /\ ret' = ValMap[nameOf[s]] /\ UNCHANGED <<nameOf, space, left>>
BY ReadsEntry, SymbolFound DEF Reads, SymMap, ValMap

LEMMA InsertImplements ==
  ASSUME IInv, NEW s \in Symbols, NEW v \in Value(space), insert_to_global_env(s, v)
  PROVE  Abstract!Insert(nameOf[s], v)
<1>1. Reads(nameOf[s]) /\ table' = Stored(nameOf[s], v)
  BY ReadsEntry DEF insert_to_global_env
<1>2. SymMap' = SymMap /\ ValMap' = [ValMap EXCEPT ![nameOf[s]] = v]
  BY <1>1, ReadsEntry, ReadsFound, StoresMaps
<1> QED
  BY <1>1, <1>2, ReadsFound DEF Abstract!Insert, SymMap, ValMap

LEMMA GetImplements ==
  ASSUME IInv, NEW s \in Symbols, get_from_global_env(s)
  PROVE  Abstract!Get(nameOf[s])
<1>1. Reads(nameOf[s]) /\ table' = table
  BY DEF get_from_global_env
<1>2. SymMap' = SymMap /\ ValMap' = ValMap
  BY <1>1, ReadsFound, Views
<1> QED
  BY <1>1, <1>2, ReadsFound DEF Abstract!Get, SymMap, ValMap

LEMMA CollectImplements ==
  ASSUME IInv, global_env_collect_roots
  PROVE  Abstract!Collect
<1>1. SymMap' = SymMap /\ ValMap' = [n \in Name |-> Move(ValMap[n], 1 - space)]
  BY CollectsMaps
<1>2. left = <<>> /\ space' = 1 - space /\ ret' = NULL /\ UNCHANGED <<nameOf, left>>
  BY DEF global_env_collect_roots
<1> QED
  BY <1>1, <1>2 DEF Abstract!Collect, Abstract!Move, Move, SymMap, ValMap

LEMMA StartsAbstract == ASSUME Init PROVE Abstract!Init
<1>1. \A n \in Name : Hits(n) = {}
  BY IndexType DEF Init, Hits
<1> QED
  BY <1>1 DEF Init, Abstract!Init, get_symbol_obj

LEMMA StepImplements == ASSUME IInv, [Next]_vars PROVE [Abstract!Next]_(Abstract!vars)
<1>1. CASE Register
  BY <1>1, RegisterImplements DEF Abstract!Next
<1>2. CASE global_env_collect_roots
  BY <1>2, CollectImplements DEF Abstract!Next
<1>3. ASSUME UNCHANGED <<table, nameOf, space, ret, left>> PROVE UNCHANGED Abstract!vars
  BY <1>3, Views DEF SymMap, ValMap, Abstract!vars
<1>4. CASE clear_symbol_table
  BY <1>3, <1>4 DEF clear_symbol_table
<1>5. ASSUME NEW n \in Name, intern_name(n) PROVE Abstract!Next
  BY <1>5, InternImplements DEF Abstract!Next
<1>6. ASSUME NEW s \in Symbols, get_from_global_env(s) PROVE Abstract!Next
  BY <1>6, GetImplements, ReadsEntry DEF Abstract!Next
<1>7. ASSUME NEW s \in Symbols, NEW v \in Value(space), insert_to_global_env(s, v)
      PROVE  Abstract!Next
  BY <1>7, InsertImplements, ReadsEntry DEF Abstract!Next, Abstract!Value, Value
<1>8. CASE UNCHANGED vars
  BY <1>3, <1>8 DEF vars
<1> QED
  BY <1>1, <1>2, <1>4, <1>5, <1>6, <1>7, <1>8 DEF Next

(* The chains implement the map of module GlobalEnv: a name keeps its      *)
(* symbol, a variable has the value it was last given, a collection moves  *)
(* each, for every hash function and every number of buckets.              *)
THEOREM ChainsImplementMap == Spec => ImplementsMap
<1>1. Init => Abstract!Init
  BY StartsAbstract
<1>2. IInv /\ [Next]_vars => [Abstract!Next]_(Abstract!vars)
  BY StepImplements
<1> QED
  BY <1>1, <1>2, TableInvariant, PTL DEF Spec, ImplementsMap, Abstract!Spec
=============================================================================
