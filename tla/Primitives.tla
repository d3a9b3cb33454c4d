------------------------------ MODULE Primitives ------------------------------
(***************************************************************************)
(* Objects and the functions of primitive.c.  A value is a record:         *)
(* [obj |-> i] refers to the heap object i; [static |-> "NIL"],            *)
(* [prim |-> "cons"] and [sym |-> x] are the objects outside the heap and  *)
(* NULL is the C null pointer.                                             *)
(*                                                                         *)
(* What a primitive does with the list l of its arguments is a record      *)
(* whose kind is "value", "new" (an object is allocated first), "error"    *)
(* (an error object is), "store" (a vector is written), "exit" or "crash". *)
(***************************************************************************)
EXTENDS Words, Sequences, FiniteSets

VARIABLE heap  \* object number -> object, garbage included

NIL == [static |-> "NIL"]
TRUEV == [static |-> "TRUE"]
FALSEV == [static |-> "FALSE"]
UNDEF == [static |-> "UNDEF"]
NULL == [static |-> "NULL"]
IsRef(v) == "obj" \in DOMAIN v
Prim == {"car", "cdr", "cons", "display", "newline", "eq?", "eqv?", "equal?", "+", "*", "-",
         "div", "modulo", "exit", "make-vector", "vector-ref", "vector-set!", "vector-length"}
\* objects outside the heap
Static(v) ==
  \/ v \in {NIL, TRUEV, FALSEV, UNDEF} \/ DOMAIN v = {"sym"}
  \/ DOMAIN v = {"prim"} /\ v.prim \in Prim
Tag(v) ==
  IF IsRef(v) THEN heap[v.obj].tag
  ELSE IF v = NIL THEN "CELL"
  ELSE IF "sym" \in DOMAIN v THEN "SYMBOL" ELSE "OTHER"
IsPair(v) == Tag(v) = "CELL" /\ v # NIL
\* the words of NIL and of a null pointer
CAR(v) == IF IsRef(v) THEN heap[v.obj].car ELSE NULL
CDR(v) == IF IsRef(v) THEN heap[v.obj].cdr ELSE NULL

(* The cells of the list v and what ends it.  A cell never changes once it *)
(* is built, so there is an end.                                           *)
Spine(v) ==
  LET rest[k \in 1 .. Cardinality(DOMAIN heap) + 1] == IF k = 1 THEN v ELSE CDR(rest[k - 1])
      n == CHOOSE k \in 0 .. Cardinality(DOMAIN heap) :
             ~IsPair(rest[k + 1]) /\ \A m \in 1 .. k : IsPair(rest[m])
  IN [cells |-> [k \in 1 .. n |-> rest[k]], end |-> rest[n + 1]]
get_list_length(v) == IF Spine(v).end = NIL THEN Len(Spine(v).cells) ELSE -1
Elements(v) == LET q == Spine(v).cells IN [k \in DOMAIN q |-> CAR(q[k])]

Returns(v) == [kind |-> "value", v |-> v]
Makes(o) == [kind |-> "new", o |-> o]
Error_Pushed == Makes([tag |-> "ERROR"])
Error == [kind |-> "error"]
Crashes == [kind |-> "crash"]

First(l) == CAR(l)
Second(l) == CAR(CDR(l))
Third(l) == CAR(CDR(CDR(l)))
IsInt(v) == Tag(v) = "INTEGER"
IntOf(v) == heap[v.obj].n
Integer(n) == Makes([tag |-> "INTEGER", n |-> ToSigned(n)])
Truth(b) == Returns(IF b THEN TRUEV ELSE FALSEV)

-----------------------------------------------------------------------------
(* Pairs.  car and cdr do not count their arguments.                       *)

prim_car(l) ==
  IF First(l) = NULL THEN Crashes
  ELSE IF IsPair(First(l)) THEN Returns(CAR(First(l))) ELSE Error
prim_cdr(l) ==
  IF First(l) = NULL THEN Crashes
  ELSE IF IsPair(First(l)) THEN Returns(CDR(First(l))) ELSE Error
prim_cons(l) ==
  IF get_list_length(l) # 2 THEN Error
  ELSE Makes([tag |-> "CELL", car |-> First(l), cdr |-> Second(l)])

-----------------------------------------------------------------------------
(* Equality.                                                               *)

eqv(a, b) == IF IsInt(a) /\ IsInt(b) THEN IntOf(a) = IntOf(b) ELSE a = b

(* Past an improper end equal goes on through the words of the object that *)
(* ends the list.  The first one leads to the name of a symbol, to the     *)
(* symbol of a primitive or to the object's own list node; a number is no  *)
(* address, NULL for short.  A name and a node begin with no tag of an     *)
(* object.                                                                 *)
first_word(v) ==
  IF IsPair(v) THEN CAR(v)
  ELSE IF "sym" \in DOMAIN v THEN [name |-> v.sym]
  ELSE IF "prim" \in DOMAIN v THEN [sym |-> v.prim]
  ELSE IF IsRef(v) /\ ~IsInt(v) THEN [node |-> v.obj]
  ELSE NULL
\* eqv reads the second tag only after an integer, equal after a cell or a string too
equal_words(x, y) ==
  IF x = NULL \/ (y = NULL /\ Tag(x) \in {"INTEGER", "CELL", "STRING"}) THEN "crash"
  ELSE IF x = y THEN "true" ELSE "false"
(* Of the lists at l and r one has come to its end.  The second word of an *)
(* object that is no pair is null, a number, the code of a primitive or a  *)
(* chain of nodes that ends in null.                                       *)
equal_ends(l, r) ==
  LET same == equal_words(first_word(l), first_word(r)) IN
  IF same # "true" THEN same
  ELSE IF ~IsPair(l) THEN "crash"
  ELSE IF CDR(l) = NIL THEN "true" ELSE equal_words(first_word(CDR(l)), NULL)

(* equal: "true", "false" or "crash".  walk[i][j] is its answer for the    *)
(* lists that begin with the cells i and j.                                *)
Cells == {i \in DOMAIN heap : heap[i].tag = "CELL"}
equal_lists(walk, l, r) ==
  IF l = NIL THEN "true"
  ELSE IF IsPair(l) /\ IsPair(r) THEN walk[l.obj][r.obj] ELSE equal_ends(l, r)
equal_objs_AnyLength(walk, a, b) ==
  IF eqv(a, b) THEN "true"
  ELSE IF Tag(a) = "CELL" /\ Tag(b) = "CELL" THEN equal_lists(walk, a, b)
  ELSE IF Tag(a) = "STRING" /\ Tag(b) = "STRING" /\ heap[a.obj].str = heap[b.obj].str
  THEN "true" ELSE "false"
equal_objs(walk, a, b) ==
  IF eqv(a, b) THEN "true"
  ELSE IF Tag(a) = "CELL" /\ Tag(b) = "CELL"
  THEN IF get_list_length(a) # get_list_length(b) THEN "false" ELSE equal_lists(walk, a, b)
  ELSE IF Tag(a) = "STRING" /\ Tag(b) = "STRING" /\ heap[a.obj].str = heap[b.obj].str
  THEN "true" ELSE "false"
equal_cells_Identity(walk, a, b) ==
  IF eqv(a.car, b.car) THEN equal_lists(walk, a.cdr, b.cdr) ELSE "false"
equal_cells(walk, a, b) ==
  LET same == equal_objs(walk, a.car, b.car)
  IN IF same = "true" THEN equal_lists(walk, a.cdr, b.cdr) ELSE same
equal(a, b) ==
  LET walk[i \in Cells] == [j \in Cells |-> equal_cells(walk, heap[i], heap[j])]
  IN equal_objs(walk, a, b)

prim_eq(l) ==
  IF get_list_length(l) # 2 THEN Error ELSE Truth(First(l) = Second(l))
prim_eqv(l) ==
  IF get_list_length(l) # 2 THEN Error ELSE Truth(eqv(First(l), Second(l)))
prim_equal(l) ==
  IF get_list_length(l) # 2 THEN Error
  ELSE LET same == equal(First(l), Second(l))
       IN IF same = "crash" THEN Crashes ELSE Truth(same = "true")

-----------------------------------------------------------------------------
(* Arithmetic.  Each partial result is a long.                             *)

prim_plus(l) ==
  LET q == Elements(l)
      sum[k \in 0 .. Len(q)] == IF k = 0 THEN 0 ELSE ToSigned(sum[k - 1] + IntOf(q[k]))
  IN IF \E k \in DOMAIN q : ~IsInt(q[k]) THEN Error ELSE Integer(sum[Len(q)])
prim_times(l) ==
  LET q == Elements(l)
      product[k \in 0 .. Len(q)] == IF k = 0 THEN 1 ELSE ToSigned(product[k - 1] * IntOf(q[k]))
  IN IF \E k \in DOMAIN q : ~IsInt(q[k]) THEN Error ELSE Integer(product[Len(q)])
prim_minus(l) ==
  LET q == Elements(l)
      rest[k \in 1 .. Len(q)] == IF k = 1 THEN IntOf(q[1]) ELSE ToSigned(rest[k - 1] - IntOf(q[k]))
  IN IF q = <<>> \/ \E k \in DOMAIN q : ~IsInt(q[k]) THEN Error
     ELSE Integer(IF Len(q) = 1 THEN -IntOf(q[1]) ELSE rest[Len(q)])

Divides(l, result) ==
  IF get_list_length(l) # 2 \/ ~IsInt(First(l)) \/ ~IsInt(Second(l)) THEN Error
  ELSE IF IntOf(Second(l)) = 0 THEN Error
  ELSE IF Quotient(IntOf(First(l)), IntOf(Second(l))) \notin Words THEN Crashes
  ELSE Integer(result)
prim_div(l) == Divides(l, Quotient(IntOf(First(l)), IntOf(Second(l))))
prim_modulo(l) == Divides(l, Remainder(IntOf(First(l)), IntOf(Second(l))))

-----------------------------------------------------------------------------
(* Vectors.  The size is unsigned, so a negative one is a huge one, for    *)
(* which calloc returns a null pointer.                                    *)

prim_make_vector(l) ==
  IF get_list_length(l) < 1 \/ ~IsInt(First(l)) THEN Error
  ELSE IF IntOf(First(l)) < 0 THEN Crashes
  ELSE LET fill == IF get_list_length(l) > 1 THEN Second(l) ELSE UNDEF
       IN Makes([tag |-> "VECTOR", elems |-> [n \in 1 .. IntOf(First(l)) |-> fill]])

InVector_LastOut(vec, index) ==
  Tag(vec) = "VECTOR" /\ IsInt(index) /\ IntOf(index) \in 0 .. Len(heap[vec.obj].elems) - 2
InVector(vec, index) ==
  Tag(vec) = "VECTOR" /\ IsInt(index) /\ IntOf(index) \in 0 .. Len(heap[vec.obj].elems) - 1
prim_vector_ref(l) ==
  IF get_list_length(l) # 2 \/ ~InVector(First(l), Second(l)) THEN Error
  ELSE Returns(heap[First(l).obj].elems[IntOf(Second(l)) + 1])
prim_vector_set(l) ==
  IF get_list_length(l) # 3 \/ ~InVector(First(l), Second(l)) THEN Error
  ELSE [kind |-> "store", vec |-> First(l).obj, at |-> IntOf(Second(l)) + 1, v |-> Third(l)]
prim_vector_length(l) ==
  IF get_list_length(l) # 1 \/ Tag(First(l)) # "VECTOR" THEN Error
  ELSE Integer(Len(heap[First(l).obj].elems))

-----------------------------------------------------------------------------
(* Printing.  print_obj recurses into Parts(v); it reads the datum of a    *)
(* list that begins with quote without asking whether there is one, and    *)
(* does not return from a vector that contains itself.                     *)

Quoted(v) == IsPair(v) /\ CAR(v) = [sym |-> "quote"]
Elems(q) == {q[n] : n \in DOMAIN q}
Parts(v) ==
  CASE Quoted(v) -> IF IsPair(CDR(v)) THEN {CAR(CDR(v))} ELSE {}
    [] IsPair(v) /\ ~Quoted(v) -> Elems(Elements(v)) \cup ({Spine(v).end} \ {NIL})
    [] Tag(v) = "VECTOR" -> Elems(heap[v.obj].elems)
    [] OTHER -> {}
Printable(v) ==
  LET most == Cardinality(DOMAIN heap) + 1
      depth[k \in 0 .. most] == IF k = 0 THEN {v} ELSE UNION {Parts(x) : x \in depth[k - 1]}
  IN /\ depth[most] = {}
     /\ \A k \in 0 .. most : \A x \in depth[k] : x # NULL /\ ~(Quoted(x) /\ CDR(x) = NIL)

prim_display(l) == IF Printable(First(l)) THEN Returns(UNDEF) ELSE Crashes
prim_newline(l) == Returns(UNDEF)
prim_exit(l) == [kind |-> "exit"]

apply(p, l) ==
  CASE p = "car" -> prim_car(l)
    [] p = "cdr" -> prim_cdr(l)
    [] p = "cons" -> prim_cons(l)
    [] p = "display" -> prim_display(l)
    [] p = "newline" -> prim_newline(l)
    [] p = "eq?" -> prim_eq(l)
    [] p = "eqv?" -> prim_eqv(l)
    [] p = "equal?" -> prim_equal(l)
    [] p = "+" -> prim_plus(l)
    [] p = "*" -> prim_times(l)
    [] p = "-" -> prim_minus(l)
    [] p = "div" -> prim_div(l)
    [] p = "modulo" -> prim_modulo(l)
    [] p = "exit" -> prim_exit(l)
    [] p = "make-vector" -> prim_make_vector(l)
    [] p = "vector-ref" -> prim_vector_ref(l)
    [] p = "vector-set!" -> prim_vector_set(l)
    [] p = "vector-length" -> prim_vector_length(l)
=============================================================================
