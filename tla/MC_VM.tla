--------------------------------- MODULE MC_VM --------------------------------
(***************************************************************************)
(* Sessions for module VM: each line is an expression, compiled by module  *)
(* Compiler, with the value a definition of the language gives it.         *)
(***************************************************************************)
EXTENDS VM

C == INSTANCE Compiler

-----------------------------------------------------------------------------
(* Expressions.                                                            *)
\* k + 10n is the n-th occurrence of the integer k
Int_(k) == [form |-> "const",
            v |-> IF k < 0 THEN [lit |-> k, nth |-> 0] ELSE [lit |-> k % 10, nth |-> k \div 10]]
False == [form |-> "const", v |-> FALSEV]
V(x) == [form |-> "sym", x |-> x]
Nil == [form |-> "nil"]
NoElse == [form |-> "none"]
NoRest == "none"
If(p, t, f) == [form |-> "if", p |-> p, t |-> t, f |-> f]
Lam(ps, rest, body) == [form |-> "lambda", ps |-> ps, rest |-> rest, body |-> body]
Fn(ps, x) == Lam(ps, NoRest, <<x>>)
Define(x, x0) == [form |-> "define", x |-> x, e |-> x0]
App(f, as) == [form |-> "app", f |-> f, as |-> as]
Quote(v) == [form |-> "quote", v |-> v]
\* (vector-set! x i v)
Store(x, i, v) == [form |-> "store", x |-> x, i |-> i, e |-> v]
\* the datum is another way to write the expression
Written(datum, x) == [form |-> "written", datum |-> datum, x |-> x]

Pair(a, b) == [pair |-> <<a, b>>]
RECURSIVE ListOf(_, _)
ListOf(q, end) == IF q = <<>> THEN end ELSE Pair(Head(q), ListOf(Tail(q), end))
Lst(q) == ListOf(q, NIL)
Sym(x) == [sym |-> x]

(* What the reader makes of an expression.                                 *)
RECURSIVE Datum(_)
Data(xs) == [n \in DOMAIN xs |-> Datum(xs[n])]
Datum(x) ==
  CASE x.form = "const" -> x.v
    [] x.form = "sym" -> Sym(x.x)
    [] x.form = "nil" -> NIL
    [] x.form = "quote" -> Lst(<<Sym("quote"), x.v>>)
    [] x.form = "if" -> Lst(<<Sym("if"), Datum(x.p), Datum(x.t)>>
                              \o IF x.f = NoElse THEN <<>> ELSE <<Datum(x.f)>>)
    [] x.form = "lambda" ->
         Pair(Sym("lambda"),
              Pair(ListOf([n \in DOMAIN x.ps |-> Sym(x.ps[n])],
                          IF x.rest = NoRest THEN NIL ELSE Sym(x.rest)),
                   Lst(Data(x.body))))
    [] x.form = "define" -> Lst(<<Sym("define"), Sym(x.x), Datum(x.e)>>)
    [] x.form = "app" -> Pair(Datum(x.f), Lst(Data(x.as)))
    [] x.form = "store" -> Lst(<<Sym("vector-set!"), Sym(x.x), Datum(x.i), Datum(x.e)>>)
    [] x.form = "written" -> x.datum

-----------------------------------------------------------------------------
(* What an expression means.  rho is a sequence of frames [ps, rest, vs];  *)
(* Wrong stands for every error, a missing argument among them.            *)
Wrong == [wrong |-> TRUE]
RECURSIVE Eval(_, _, _), Shape(_), Denote(_), QuoteValue(_)

Binds(f, x) == x = f.rest \/ x \in Elems(f.ps)
Lookup(x, rho, G) ==
  LET here == {n \in DOMAIN rho : Binds(rho[n], x)} IN
  IF here = {} THEN (IF x \in DOMAIN G THEN G[x] ELSE Wrong)
  ELSE LET f == rho[CHOOSE n \in here : \A m \in here : n <= m]
           at == {n \in DOMAIN f.ps : f.ps[n] = x} IN
       IF at # {} THEN LET n == CHOOSE n \in at : \A m \in at : n <= m
                       IN IF n <= Len(f.vs) THEN f.vs[n] ELSE Wrong
       ELSE IF Len(f.vs) < Len(f.ps) THEN Wrong
       ELSE Lst(SubSeq(f.vs, Len(f.ps) + 1, Len(f.vs)))

Pairs(v) == "pair" \in DOMAIN v
Numeric(q) == \A n \in DOMAIN q : "int" \in DOMAIN q[n]
Bool(b) == IF b THEN TRUEV ELSE FALSEV
Primitive(p, q) ==
  LET n == Len(q)
      sum[k \in 0 .. n] == IF k = 0 THEN 0 ELSE sum[k - 1] + q[k].int IN
  CASE p = "car" /\ n >= 1 /\ Pairs(q[1]) -> q[1].pair[1]
    [] p = "cdr" /\ n >= 1 /\ Pairs(q[1]) -> q[1].pair[2]
    [] p = "cons" /\ n = 2 -> [pair |-> q]
    [] p \in {"eq?", "equal?"} /\ n = 2 -> Bool(q[1] = q[2])
    [] p = "+" /\ Numeric(q) -> [int |-> sum[n]]
    [] p = "-" /\ Numeric(q) /\ n = 2 -> [int |-> q[1].int - q[2].int]
    [] p = "div" /\ Numeric(q) /\ n = 2 /\ q[2].int > 0 -> [int |-> q[1].int \div q[2].int]
    [] p = "make-vector" /\ n \in {1, 2} /\ Numeric(<<q[1]>>) /\ q[1].int >= 0 ->
         [vector |-> [k \in 1 .. q[1].int |-> IF n = 2 THEN q[2] ELSE UNDEF]]
    [] p = "vector-ref" /\ n = 2 /\ "vector" \in DOMAIN q[1] /\ Numeric(<<q[2]>>)
         /\ q[2].int + 1 \in DOMAIN q[1].vector -> q[1].vector[q[2].int + 1]
    [] p = "vector-length" /\ n = 1 /\ "vector" \in DOMAIN q[1] -> [int |-> Len(q[1].vector)]
    [] p \in {"display", "exit"} /\ n = 1 -> UNDEF
    [] OTHER -> Wrong

QuoteValue(v) ==
  CASE "lit" \in DOMAIN v -> [int |-> v.lit]
    [] Pairs(v) -> Pair(QuoteValue(v.pair[1]), QuoteValue(v.pair[2]))
    [] OTHER -> v
Last(q) == q[Len(q)]
Eval(x, rho, G) ==
  CASE x.form \in {"const", "quote"} -> QuoteValue(x.v)
    [] x.form = "written" -> Eval(x.x, rho, G)
    [] x.form = "sym" -> Lookup(x.x, rho, G)
    [] x.form = "if" ->
         LET p == Eval(x.p, rho, G) IN
         IF p = Wrong THEN Wrong
         ELSE IF p # FALSEV THEN Eval(x.t, rho, G)
         ELSE IF x.f = NoElse THEN UNDEF ELSE Eval(x.f, rho, G)
    [] x.form = "lambda" -> [fn |-> x, rho |-> rho]
    [] x.form = "app" ->
         LET f == Eval(x.f, rho, G)
             q == [n \in DOMAIN x.as |-> Eval(x.as[n], rho, G)] IN
         IF f = Wrong \/ \E n \in DOMAIN q : q[n] = Wrong THEN Wrong
         ELSE IF "prim" \in DOMAIN f THEN Primitive(f.prim, q)
         ELSE IF "fn" \notin DOMAIN f THEN Wrong
         ELSE LET rho1 == <<[ps |-> f.fn.ps, rest |-> f.fn.rest, vs |-> q]>> \o f.rho
                  body == [n \in DOMAIN f.fn.body |-> Eval(f.fn.body[n], rho1, G)]
              IN IF \E n \in DOMAIN body : body[n] = Wrong THEN Wrong ELSE Last(body)
    [] OTHER -> Wrong

\* values as they can be observed: a function is a function
Shape(v) ==
  CASE Pairs(v) -> Pair(Shape(v.pair[1]), Shape(v.pair[2]))
    [] "vector" \in DOMAIN v -> [vector |-> [k \in DOMAIN v.vector |-> Shape(v.vector[k])]]
    [] "fn" \in DOMAIN v -> [fn |-> TRUE]
    [] OTHER -> v
Denote(v) ==
  IF ~IsRef(v) THEN v
  ELSE LET o == heap[v.obj] IN
       CASE o.tag = "INTEGER" -> [int |-> o.n]
         [] o.tag = "CELL" -> Pair(Denote(o.car), Denote(o.cdr))
         [] o.tag = "VECTOR" -> [vector |-> [k \in DOMAIN o.elems |-> Denote(o.elems[k])]]
         [] o.tag = "CLOSURE" -> [fn |-> TRUE]

-----------------------------------------------------------------------------
(* A session of expressions becomes the programs the machine reads.        *)
Meaning(x, G) ==
  CASE x.form = "define" -> Eval(x.e, <<>>, G)
    [] x.form = "store" ->
         IF Primitive("vector-ref", <<G[x.x], Eval(x.i, <<>>, G)>>) = Wrong THEN Wrong ELSE UNDEF
    [] OTHER -> Eval(x, <<>>, G)
With(G, y, v) == [z \in DOMAIN G \cup {y} |-> IF z = y THEN v ELSE G[z]]
After(x, G) ==
  CASE Meaning(x, G) = Wrong -> G
    [] x.form = "define" -> With(G, x.x, Meaning(x, G))
    [] x.form = "store" ->
         With(G, x.x, [G[x.x] EXCEPT !.vector[Eval(x.i, <<>>, G).int + 1] = Eval(x.e, <<>>, G)])
    [] OTHER -> G

RECURSIVE Objects(_)
Objects(v) ==
  CASE Pairs(v) -> {v} \cup Objects(v.pair[1]) \cup Objects(v.pair[2])
    [] "lit" \in DOMAIN v -> {v}
    [] OTHER -> {}
Session(xs) ==
  LET G[n \in Nat] == IF n = 0 THEN PrimEnv ELSE After(xs[n], G[n - 1])
  IN [n \in DOMAIN xs |->
        LET code == C!CodeNode(C!compile(Datum(xs[n])))
            v == Meaning(xs[n], G[n - 1]) IN
        [code |-> code,
         data |-> UNION {Objects(x) : x \in code.consts},
         expected |-> IF xs[n].form = "define" /\ v # Wrong THEN Sym(xs[n].x)
                      ELSE Shape(v)]]

X == V("x")
Y == V("y")
Prims(p, as) == App(V(p), as)
Rest == Quote(NIL)

Sessions == {
  \* (define f (lambda (x y) (cons x (cons y '())))) (f 1 (+ 2 3)) (f f (f 4 5))
  <<Define("f", Fn(<<"x", "y">>, Prims("cons", <<X, Prims("cons", <<Y, Rest>>)>>))),
    App(V("f"), <<Int_(1), Prims("+", <<Int_(2), Int_(3)>>)>>),
    App(V("f"), <<V("f"), App(V("f"), <<Int_(4), Int_(5)>>)>>)>>,
  \* (define g (lambda (x) (lambda (y) (+ x y)))) (define h (g 1)) (h (h 2))
  <<Define("g", Fn(<<"x">>, Fn(<<"y">>, Prims("+", <<X, Y>>)))),
    Define("h", App(V("g"), <<Int_(1)>>)),
    App(V("h"), <<App(V("h"), <<Int_(2)>>)>>)>>,
  \* (define len (lambda (x) (if (eq? x '()) 0 (+ 1 (len (cdr x)))))) (len (cons 1 (cons 2 '())))
  <<Define("len", Fn(<<"x">>, If(Prims("eq?", <<X, Rest>>), Int_(0),
                                 Prims("+", <<Int_(1), App(V("len"), <<Prims("cdr", <<X>>)>>)>>)))),
    App(V("len"), <<Prims("cons", <<Int_(11), Prims("cons", <<Int_(2), Rest>>)>>)>>)>>,
  \* ((lambda (x . y) (cons y x)) 1 2 3) ((lambda x x) 4) ((lambda (x x) x) 5 6)
  <<App(Lam(<<"x">>, "y", <<Prims("cons", <<Y, X>>)>>), <<Int_(1), Int_(2), Int_(3)>>),
    App(Lam(<<>>, "x", <<X>>), <<Int_(4)>>),
    App(Lam(<<"x", "x">>, NoRest, <<X>>), <<Int_(5), Int_(6)>>)>>,
  \* ((lambda (x) ((lambda (x) x (if #f x) (if x x x)) 2)) 1) ((lambda (x) x) 3 4)
  <<App(Fn(<<"x">>, App(Lam(<<"x">>, NoRest,
                            <<X, If(False, X, NoElse), If(X, X, X)>>), <<Int_(2)>>)),
        <<Int_(1)>>),
    App(Fn(<<"x">>, X), <<Int_(3), Int_(4)>>)>>,
  \* (vector-ref (make-vector 2 1) 1) (vector-ref (make-vector 3 'x) 3)
  <<Prims("vector-ref", <<Prims("make-vector", <<Int_(2), Int_(1)>>), Int_(11)>>),
    Prims("vector-ref", <<Prims("make-vector", <<Int_(3), Quote(Sym("x"))>>), Int_(13)>>)>>,
  \* (car 1) y (1 2) () (define y (cdr '())) (cons (car (cons 3 4)))
  <<Prims("car", <<Int_(1)>>), Y, App(Int_(11), <<Int_(2)>>), Nil,
    Define("y", Prims("cdr", <<Rest>>)),
    Prims("cons", <<Prims("car", <<Prims("cons", <<Int_(3), Int_(4)>>)>>)>>)>>,
  \* a missing argument, by what the null pointer meets
  <<App(Fn(<<"x">>, X), <<>>)>>,
  <<App(Fn(<<"x">>, App(X, <<>>)), <<>>)>>,
  <<App(Fn(<<"x">>, If(X, Rest, Rest)), <<>>)>>,
  <<App(Fn(<<"x", "y">>, Prims("car", <<Y>>)), <<Int_(1)>>)>>,
  <<App(Fn(<<"x", "y", "z">>, V("z")), <<Int_(1)>>)>>,
  <<Prims("car", <<>>)>>,
  \* (make-vector -1)
  <<Prims("make-vector", <<Int_(-1)>>)>>,
  \* (+ 1 ()): an error in the last argument leaves code that ends too early
  <<Prims("+", <<Int_(1), Nil>>)>>,
  \* (define f (lambda (x) x ())) (f 1)
  <<Define("f", Lam(<<"x">>, NoRest, <<X, Nil>>)), App(V("f"), <<Int_(1)>>)>>,
  \* (define x '(1 . 2)) (cons (cdr x) (car x)) (equal? x '(1 . 2)) (eq? (car x) 1)
  <<Define("x", Quote(Pair(Int_(1).v, Int_(2).v))),
    Prims("cons", <<Prims("cdr", <<X>>), Prims("car", <<X>>)>>),
    Prims("equal?", <<Prims("car", <<X>>), Int_(11)>>)>>,
  \* (define x (make-vector 2 0)) (vector-set! x 1 (cons 1 '())) (vector-ref x 1) x
  <<Define("x", Prims("make-vector", <<Int_(2), Int_(0)>>)),
    Store("x", Int_(1), Prims("cons", <<Int_(11), Rest>>)),
    Prims("vector-ref", <<X, Int_(21)>>), X>>,
  \* (- . (3 . 1))  (div 3 (vector-length (make-vector 2)))  (if #f 1 2 3)  (if #f)  (quote)
  <<Written(Pair(Sym("-"), Pair(Int_(3).v, Int_(1).v)), Prims("-", <<Int_(3), Int_(1)>>)),
    Prims("div", <<Int_(13), Prims("vector-length", <<Prims("make-vector", <<Int_(2)>>)>>)>>),
    Written(Lst(<<Sym("if"), FALSEV, Int_(1).v, Int_(2).v, Int_(3).v>>), Int_(2)),
    Written(Lst(<<Sym("if"), FALSEV>>), Nil),
    Written(Lst(<<Sym("quote")>>), Nil),
    Written(Lst(<<Sym("define"), Int_(1).v, Int_(2).v>>), Nil)>>,
  \* (define x)  (exit (display 1))
  <<Written(Lst(<<Sym("define"), Sym("x")>>), Prims("define", <<X>>)),
    Prims("exit", <<Prims("display", <<Int_(1)>>)>>)>>,
  \* ((lambda (define) (define 1)) car): one argument makes it a call
  <<App(Fn(<<"define">>, Written(Lst(<<Sym("define"), Int_(1).v>>), App(V("define"), <<Int_(1)>>))),
        <<V("car")>>)>>,
  \* (cons 'quote '()): printed, it has no datum
  <<Prims("cons", <<Quote(Sym("quote")), Rest>>)>>
}
AllSessions == {Session(xs) : xs \in Sessions}

(* The code nodes of the sessions, with what their instructions leave on   *)
(* the stack.                                                              *)
ShapeOf(ins) ==
  LET shape[n \in 1 .. Len(ins) + 1] ==
        IF n = 1 \/ ins[n - 1].op \in Ends THEN <<>>
        ELSE LET i == ins[n - 1] IN
             Leaves(i) \o SubSeq(shape[n - 1], Len(Takes(i)) + 1, Len(shape[n - 1]))
  IN [n \in 1 .. Len(ins) + 1 |-> shape[n]]
RECURSIVE Nodes(_, _, _)
Nodes(node, end, depth) ==
  {[node |-> node, end |-> end, depth |-> depth, shape |-> ShapeOf(node.ins)]}
    \cup UNION {CASE i.op = "LDF" -> Nodes(i.code, "RTN", depth + 1)
                  [] i.op = "SEL" -> Nodes(i.t, "JOIN", depth) \cup Nodes(i.f, "JOIN", depth)
                  [] OTHER -> {} : i \in Elems(node.ins)}
AllCodes ==
  UNION {UNION {IF p[n].code.ins = <<>> THEN {} ELSE Nodes(p[n].code, "STOP", 0) :
                  n \in DOMAIN p} : p \in AllSessions}

(* The machine, collections at any allocation included, answers each line  *)
(* with the value the language gives it, with an error only when there is  *)
(* one to report, and dereferences a null pointer only in a program that   *)
(* has such an error or answers (quote), which print_obj cannot print.     *)
ResultsCorrect ==
  /\ result.kind = "value" => Denote(result.v) = line.expected
  /\ result.kind = "error" => line.expected = Wrong
  /\ status = "crash" => line.expected \in {Wrong, Lst(<<Sym("quote")>>)}
=============================================================================
