----------------------------- MODULE MC_Primitives ----------------------------
(***************************************************************************)
(* Heaps and arguments on which TLC calls the primitives.                  *)
(***************************************************************************)
EXTENDS Calls

Int_(n) == [tag |-> "INTEGER", n |-> n]
String(x) == [tag |-> "STRING", str |-> x]
Cell(a, b) == [tag |-> "CELL", car |-> a, cdr |-> b]
Vector(q) == [tag |-> "VECTOR", elems |-> q]
Obj(i) == [obj |-> i]
Objs(I) == {Obj(i) : i \in I}

\* every integer and one other object
Arithmetic ==
  LET words == [n \in 1 .. Modulus |-> Int_(n - 1 + LongMin)] IN
  [heap |-> words, prims |-> {"+", "*", "-", "div", "modulo", "eqv?"},
   values |-> Objs(DOMAIN words) \cup {NIL}, most |-> 3, calls |-> 1]

\* three cells, each over what is before it
Structures(q, statics) ==
  LET n == Len(q)
      V(m) == statics \cup Objs(1 .. m) IN
  {[heap |-> q \o <<Cell(a, b), Cell(c, d), Cell(e, f)>>,
    prims |-> {"equal?", "car", "cdr", "display"},
    values |-> Objs(n + 2 .. n + 3), most |-> 2, calls |-> 1] :
     a, b \in V(n), c, d \in V(n + 1), e, f \in V(n + 2)}
Pairs == Structures(<<Int_(1), Int_(1)>>, {NIL})
Quotes == Structures(<<String("a"), String("a")>>, {[sym |-> "quote"], NIL})
Ends == Structures(<<Int_(1), Vector(<<>>)>>, {[sym |-> "car"], [prim |-> "car"]})

Mixed ==
  LET q == <<Int_(1), Int_(1), String("a"), String("b"), Cell(Obj(1), NIL), Vector(<<Obj(1)>>),
             Vector(<<Obj(2)>>)>> IN
  [heap |-> q, prims |-> Prim,
   values |-> Objs(DOMAIN q) \cup {NIL, TRUEV, [sym |-> "a"], [prim |-> "car"]},
   most |-> 2, calls |-> 1]

\* two vectors, written one after the other
Vectors ==
  LET q == <<Int_(-1), Int_(0), Int_(1), Vector(<<>>), Vector(<<NIL, Obj(1)>>)>> IN
  [heap |-> q, prims |-> {"vector-set!", "vector-ref", "vector-length", "make-vector", "display"},
   values |-> Objs(DOMAIN q), most |-> 3, calls |-> 2]

AllFamilies == Pairs \cup Quotes \cup Ends \cup {Arithmetic, Mixed, Vectors}
=============================================================================
