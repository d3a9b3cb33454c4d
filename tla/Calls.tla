--------------------------------- MODULE Calls ---------------------------------
(***************************************************************************)
(* Calls of the primitives: Pass builds the list of the arguments, as      *)
(* INST_ARGS does, Apply calls the primitive on it.  A family is a heap    *)
(* and the calls to be made on it: the primitives, the values that may be  *)
(* arguments, how many of them and how many calls in a row.                *)
(***************************************************************************)
EXTENDS Primitives

CONSTANT Families  \* set of [heap, prims, values, most, calls]

(* A value of a heap of n objects, and the i-th object: a cell refers to   *)
(* what there was when it was built, a vector to anything.                 *)
Held(v, n) == Static(v) \/ \E i \in 1 .. n : v = [obj |-> i]
IsObject(o, i, n) ==
  \/ o.tag = "INTEGER" /\ o = [tag |-> "INTEGER", n |-> o.n] /\ o.n \in Words
  \/ o.tag = "STRING" /\ o = [tag |-> "STRING", str |-> o.str]
  \/ /\ o.tag = "CELL" /\ o = [tag |-> "CELL", car |-> o.car, cdr |-> o.cdr]
     /\ Held(o.car, i - 1) /\ Held(o.cdr, i - 1)
  \/ /\ o.tag = "VECTOR" /\ o = [tag |-> "VECTOR", elems |-> o.elems]
     /\ o.elems \in Seq(Elems(o.elems)) /\ \A v \in Elems(o.elems) : Held(v, n)
Objects(h, n) == h \in Seq(Elems(h)) /\ \A i \in DOMAIN h : IsObject(h[i], i, n)

ASSUME FamiliesAssumption ==
  \A f \in Families :
    /\ Objects(f.heap, Len(f.heap)) /\ f.prims \subseteq Prim
    /\ \A v \in f.values : Held(v, Len(f.heap))
    /\ f.most \in Nat /\ f.calls \in Nat

VARIABLES
  family,  \* where the calls are taken from
  call,    \* the call under way or just done: primitive, arguments, list
  result,  \* what it did, Pending while it is under way
  left     \* calls still to come

vars == <<heap, family, call, result, left>>

NoCall == [p |-> "none", args |-> <<>>, l |-> NIL]
Pending == [kind |-> "pending"]
Init ==
  /\ family \in Families
  /\ heap = family.heap
  /\ call = NoCall /\ result = Returns(UNDEF)
  /\ left = family.calls

(* The list of the arguments q, in the objects after the last one; it is   *)
(* built from its end.                                                     *)
ListCells(q) ==
  LET n == Len(heap) IN
  [k \in DOMAIN q |-> [tag |-> "CELL", car |-> q[Len(q) + 1 - k],
                       cdr |-> IF k = 1 THEN NIL ELSE [obj |-> n + k - 1]]]

Pass ==
  /\ result # Pending /\ left > 0
  /\ \E p \in family.prims, m \in 0 .. family.most : \E q \in [1 .. m -> family.values] :
       /\ call' = [p |-> p, args |-> q,
                   l |-> IF m = 0 THEN NIL ELSE [obj |-> Len(heap) + m]]
       /\ heap' = heap \o ListCells(q)
  /\ result' = Pending
  /\ left' = left - 1
  /\ UNCHANGED family

(* The list is garbage once the primitive returns.                         *)
Apply ==
  /\ result = Pending
  /\ result' = apply(call.p, call.l)
  /\ LET old == SubSeq(heap, 1, Len(heap) - Len(call.args)) IN
     heap' = CASE result'.kind = "new" -> old \o <<result'.o>>
               [] result'.kind = "store" ->
                    [old EXCEPT ![result'.vec].elems[result'.at] = result'.v]
               [] OTHER -> old
  /\ left' = IF result'.kind \in {"exit", "crash"} THEN 0 ELSE left
  /\ UNCHANGED <<family, call>>

Next == Pass \/ Apply
Spec == Init /\ [][Next]_vars

-----------------------------------------------------------------------------
(* Properties.  Args and Result speak of the call just done.               *)

Done == result # Pending /\ call.p # "none"
Args == call.args
Count == Len(Args)
Num(k) == IntOf(Args[k])

(* The reference for sums and products is on the integers, and for the two *)
(* divisions the equation the C standard gives.                            *)
Sum(q) ==
  LET sum[k \in 0 .. Len(q)] == IF k = 0 THEN 0 ELSE sum[k - 1] + IntOf(q[k]) IN sum[Len(q)]
Product(q) ==
  LET prod[k \in 0 .. Len(q)] == IF k = 0 THEN 1 ELSE prod[k - 1] * IntOf(q[k]) IN prod[Len(q)]
Truncating(a, b, q) == Magnitude(q * b) <= Magnitude(a) /\ Magnitude(a - q * b) < Magnitude(b)

(* Arithmetic is exact modulo ULONG_MAX + 1: the partial results that wrap *)
(* do not spoil the result (prim_plus, prim_times, prim_minus), and div    *)
(* and modulo are the quotient and the remainder of one division, which    *)
(* rounds towards zero whatever the signs.                                 *)
Exactly(n) == result.o.n \in Words /\ (result.o.n - n) % Modulus = 0
ArithmeticExact ==
  Done /\ result.kind = "new" =>
    CASE call.p = "+" -> Exactly(Sum(Args))
      [] call.p = "*" -> Exactly(Product(Args))
      [] call.p = "-" -> Exactly(IF Count = 1 THEN -Num(1) ELSE 2 * Num(1) - Sum(Args))
      [] call.p = "div" -> Truncating(Num(1), Num(2), result.o.n)
      [] call.p = "modulo" ->
           \E q \in Words : Truncating(Num(1), Num(2), q) /\ result.o.n = Num(1) - q * Num(2)
      [] OTHER -> TRUE

(* The tree of numbers, strings and other objects that v is, and all the   *)
(* values it holds.                                                        *)
Tree(v) ==
  LET tree[i \in DOMAIN heap] ==
        LET o == heap[i]
            part(x) == IF IsRef(x) THEN tree[x.obj] ELSE x
        IN CASE o.tag = "INTEGER" -> [int |-> o.n]
             [] o.tag = "STRING" -> [str |-> o.str]
             [] o.tag = "CELL" -> [pair |-> <<part(o.car), part(o.cdr)>>]
             [] OTHER -> [obj |-> i]
  IN IF IsRef(v) THEN tree[v.obj] ELSE v
Inside(x) ==
  CASE IsPair(x) -> {CAR(x), CDR(x)}
    [] Tag(x) = "VECTOR" -> Elems(heap[x.obj].elems)
    [] OTHER -> {}
Within(v) ==
  LET within[k \in 0 .. Len(heap)] ==
        IF k = 0 THEN {v} ELSE UNION {{x} \cup Inside(x) : x \in within[k - 1]}
  IN within[Len(heap)]
Improper(v) == \E x \in Within(v) : IsPair(x) /\ CDR(x) # NIL /\ ~IsPair(CDR(x))

(* equal? (primitive.c:77-94) answers #t for the same tree only, improper  *)
(* lists included, and it answers #f for the same tree only if both values *)
(* hold a list that ends in a string: it compares the nodes of two strings *)
(* in that place, not their text, so (equal? '(1 . "a") '(1 . "a")) is #f. *)
TwinEnds(a, b) ==
  \E x \in Within(a), y \in Within(b) :
    /\ IsPair(x) /\ IsPair(y) /\ CDR(x) # CDR(y)
    /\ Tag(CDR(x)) = "STRING" /\ Tag(CDR(y)) = "STRING"
    /\ heap[CDR(x).obj].str = heap[CDR(y).obj].str
EqualIsStructural ==
  Done /\ call.p = "equal?" /\ result.kind = "value" =>
    LET same == Tree(Args[1]) = Tree(Args[2]) IN
    /\ result.v = TRUEV => same
    /\ same => result.v = TRUEV \/ TwinEnds(Args[1], Args[2])

(* A crash has one of these causes: car, cdr or display without an         *)
(* argument, a negative size, the one quotient that is not a long, equal?  *)
(* of two values that both hold an improper list, and printing a value     *)
(* that holds itself or a list of the symbol quote alone.                  *)
HoldsItself(v) ==
  \E x \in Within(v) : Tag(x) = "VECTOR" /\ \E y \in Elems(heap[x.obj].elems) : x \in Within(y)
LoneQuote(v) == \E x \in Within(v) : Quoted(x) /\ CDR(x) = NIL
CrashesExplained ==
  Done /\ result.kind = "crash" =>
    CASE call.p \in {"car", "cdr"} -> Count = 0
      [] call.p = "display" -> Count = 0 \/ HoldsItself(Args[1]) \/ LoneQuote(Args[1])
      [] call.p = "make-vector" -> Num(1) < 0
      [] call.p \in {"div", "modulo"} -> Num(1) = LongMin /\ Num(2) = -1
      [] call.p = "equal?" -> Improper(Args[1]) /\ Improper(Args[2])
      [] OTHER -> FALSE

(* The contract of the error messages of primitive.c: what each of them    *)
(* demands of the arguments, their number where a message names one.       *)
Ints(K) == \A k \in K : IsInt(Args[k])
Index(v, x) == Tag(v) = "VECTOR" /\ IsInt(x) /\ IntOf(x) >= 0 /\ IntOf(x) < Len(heap[v.obj].elems)
Contract ==
  CASE call.p \in {"car", "cdr"} -> Count > 0 /\ IsPair(Args[1])
    [] call.p \in {"cons", "eq?", "eqv?", "equal?"} -> Count = 2
    [] call.p \in {"+", "*"} -> Ints(1 .. Count)
    [] call.p = "-" -> Count > 0 /\ Ints(1 .. Count)
    [] call.p \in {"div", "modulo"} -> Count = 2 /\ Ints({1, 2}) /\ Num(2) # 0
    [] call.p = "make-vector" -> Count > 0 /\ Ints({1}) /\ Num(1) >= 0
    [] call.p = "vector-ref" -> Count = 2 /\ Index(Args[1], Args[2])
    [] call.p = "vector-set!" -> Count = 3 /\ Index(Args[1], Args[2])
    [] call.p = "vector-length" -> Count = 1 /\ Tag(Args[1]) = "VECTOR"
    [] OTHER -> TRUE
(* A call that keeps the contract is not refused, and one that breaks it   *)
(* is, with an error object, but for the two calls whose test is missing   *)
(* or has no effect, which crash: car and cdr without an argument and a    *)
(* negative size of make-vector.  In particular the last element of a      *)
(* vector is reached and the one behind it is not.                         *)
Untested ==
  \/ call.p \in {"car", "cdr"} /\ Count = 0
  \/ call.p = "make-vector" /\ Count > 0 /\ Ints({1}) /\ Num(1) < 0
ContractKept ==
  Done =>
    /\ result.kind = "error" => ~Contract
    /\ ~Contract => result.kind = "error" \/ (result.kind = "crash" /\ Untested)
=============================================================================
