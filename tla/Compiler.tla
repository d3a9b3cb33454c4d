------------------------------- MODULE Compiler -------------------------------
(***************************************************************************)
(* compiler.c: what the reader read becomes the instructions of the SECD   *)
(* machine (module VM).  A datum is a record: [pair |-> <<car, cdr>>],     *)
(* [sym |-> x], an integer [lit |-> n, nth |-> m], the m-th n of the line, *)
(* or an object outside the heap.  Code is a sequence of instructions and  *)
(* the null pointer is the empty one, so code that was linked to a null    *)
(* continuation is a sequence that ends too early, as in C.  Compilation   *)
(* passes the code to continue with, k, as compile_expr does.  An if,      *)
(* lambda or define whose list ends in something other than () is outside  *)
(* the model: C reads the words of that other object.                      *)
(***************************************************************************)
EXTENDS Integers, Sequences, FiniteSets

Nil == [static |-> "NIL"]
Undef == [static |-> "UNDEF"]
Truncated == <<>>
Sym(x) == [sym |-> x]
IsPair(x) == "pair" \in DOMAIN x
Car(x) == x.pair[1]
Cdr(x) == x.pair[2]

(* code_collect_roots: the constants of a code node and of those nested.   *)
ConstsOf(i) ==
  CASE i.op = "LDC" /\ (IsPair(i.v) \/ "lit" \in DOMAIN i.v) -> {i.v}
    [] i.op = "LDF" -> i.code.consts
    [] i.op = "SEL" -> i.t.consts \cup i.f.consts
    [] OTHER -> {}
CodeNode(ins) ==
  [ins |-> ins, consts |-> UNION {ConstsOf(ins[n]) : n \in DOMAIN ins}]

-----------------------------------------------------------------------------
(* env.c: where a variable is, as the pair (i . j) of INST_LD: i frames    *)
(* out, j-th argument, or -(j + 1) for the list of the arguments from the  *)
(* j-th on.                                                                *)

\* the set of no or one position of x in the parameters vs
RECURSIVE position(_, _, _)
position(x, vs, i) ==
  IF vs = Sym(x) THEN {-(i + 1)}
  ELSE IF ~IsPair(vs) THEN {}
  ELSE IF Car(vs) = Sym(x) THEN {i} ELSE position(x, Cdr(vs), i + 1)
position_var(vs, x) == position(x, vs, 0)
Binds(vs, x) == position_var(vs, x) # {}
Bound(env, x) == \E n \in DOMAIN env : Binds(env[n], x)
location_Outermost(env, x) ==
  LET n == CHOOSE n \in DOMAIN env :
             Binds(env[n], x) /\ \A m \in n + 1 .. Len(env) : ~Binds(env[m], x)
  IN [i |-> n - 1, j |-> CHOOSE j \in position_var(env[n], x) : TRUE]
location(env, x) ==
  LET n == CHOOSE n \in DOMAIN env :
             Binds(env[n], x) /\ \A m \in 1 .. n - 1 : ~Binds(env[m], x)
  IN [i |-> n - 1, j |-> CHOOSE j \in position_var(env[n], x) : TRUE]

-----------------------------------------------------------------------------
RECURSIVE compile_expr(_, _, _), compile_list(_, _, _), compile_body(_, _, _)
RECURSIVE get_args_len(_), get_list_length(_)

\* the objects after the first; what follows a dot counts as one
get_args_len(x) ==
  CASE Cdr(x) = Nil -> 0
    [] IsPair(Cdr(x)) -> 1 + get_args_len(Cdr(x))
    [] OTHER -> 1
get_list_length(x) == IF x = Nil THEN 0 ELSE 1 + get_list_length(Cdr(x))
AtLeastTwo(x) == Cdr(x) # Nil /\ Cdr(Cdr(x)) # Nil
Second(x) == Car(Cdr(x))
Third(x) == Car(Cdr(Cdr(x)))
AfterThird(x) == Cdr(Cdr(Cdr(x)))
Opens(x, name) == IsPair(x) /\ Car(x) = Sym(name)

Constant(v, k) == <<[op |-> "LDC", v |-> v]>> \o k

Variable(x, env, k) ==
  IF Bound(env, x)
  THEN <<[op |-> "LD", i |-> location(env, x).i, j |-> location(env, x).j]>> \o k
  ELSE <<[op |-> "LDG", x |-> x]>> \o k

Quotation(x, k) ==
  IF IsPair(Cdr(x)) THEN Constant(Second(x), k) ELSE Truncated

JoinCode == <<[op |-> "JOIN"]>>
Conditional(x, env, k) ==
  LET t == compile_expr(Third(x), env, JoinCode)
      f == IF AfterThird(x) = Nil THEN Constant(Undef, JoinCode)
           ELSE compile_expr(Car(AfterThird(x)), env, JoinCode)
  IN IF ~AtLeastTwo(x) \/ t = Truncated \/ f = Truncated THEN Truncated
     ELSE compile_expr(Second(x), env,
            <<[op |-> "SEL", t |-> CodeNode(t), f |-> CodeNode(f)]>> \o k)

Abstraction(x, env, k) ==
  LET body == compile_body(Cdr(Cdr(x)), <<Second(x)>> \o env, <<[op |-> "RTN"]>>)
  IN IF ~AtLeastTwo(x) \/ body = Truncated THEN Truncated
     ELSE <<[op |-> "LDF", code |-> CodeNode(body)]>> \o k

Definition(x, env, k) ==
  IF "sym" \in DOMAIN Second(x)
  THEN compile_expr(Third(x), env, <<[op |-> "DEF", x |-> Second(x).sym]>> \o k)
  ELSE Truncated

(* The arguments, then INST_ARGS, the operator and INST_APP.  A null       *)
(* operator leaves INST_ARGS with no successor.                            *)
Application(x, env, k) ==
  compile_list(Cdr(x), env, <<[op |-> "ARGS", n |-> get_args_len(x)]>>
                              \o compile_expr(Car(x), env, <<[op |-> "APP"]>> \o k))

(* A define without a value is an application.                             *)
compile_expr(x, env, k) ==
  CASE "sym" \in DOMAIN x -> Variable(x.sym, env, k)
    [] x = Nil -> Truncated
    [] Opens(x, "quote") -> Quotation(x, k)
    [] Opens(x, "if") -> Conditional(x, env, k)
    [] Opens(x, "lambda") -> Abstraction(x, env, k)
    [] Opens(x, "define") /\ AtLeastTwo(x) -> Definition(x, env, k)
    [] IsPair(x) /\ ~\E name \in {"quote", "if", "lambda"} : Opens(x, name)
         /\ ~(Opens(x, "define") /\ AtLeastTwo(x)) -> Application(x, env, k)
    [] OTHER -> Constant(x, k)

compile_list(xs, env, k) ==
  CASE xs = Nil -> k
    [] IsPair(xs) -> compile_expr(Car(xs), env, compile_list(Cdr(xs), env, k))
    [] OTHER -> compile_expr(xs, env, k)

(* The value of every expression but the last is popped. *)
compile_body(xs, env, k) ==
  CASE get_list_length(xs) = 0 -> Truncated
    [] get_list_length(xs) = 1 -> compile_expr(Car(xs), env, k)
    [] OTHER -> compile_expr(Car(xs), env,
                  <<[op |-> "POP"]>> \o compile_body(Cdr(xs), env, k))

compile(x) == compile_expr(x, <<>>, <<[op |-> "STOP"]>>)
=============================================================================
