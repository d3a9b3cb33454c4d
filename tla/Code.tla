--------------------------------- MODULE Code ---------------------------------
(***************************************************************************)
(* The programs the machine of module VM reads, and what is true of the    *)
(* code that compiler.c emits.  A program is a line [code, data]: the code *)
(* node and the objects of its constants, an integer [lit |-> n, ...] or a *)
(* cell [pair |-> <<a, b>>].                                               *)
(***************************************************************************)
EXTENDS Primitives

CONSTANTS
  Programs,  \* sequences of programs, one per line of input
  Codes      \* the code nodes in Programs, [node, end, depth, shape]: the
             \* instruction each ends with if it is complete, the frames it may
             \* count on, what it has on the stack before each instruction

Ends == {"STOP", "RTN", "JOIN"}
Kinds == {"value", "args"}

(* What an instruction takes off the stack and what it leaves instead, a   *)
(* value or a list of arguments; the instructions in Ends are not among    *)
(* these.                                                                  *)
Takes(i) ==
  CASE i.op \in {"DEF", "SEL", "POP"} -> <<"value">>
    [] i.op = "ARGS" -> [n \in 1 .. i.n |-> "value"]
    [] i.op = "APP" -> <<"value", "args">>
    [] OTHER -> <<>>
Leaves(i) ==
  CASE i.op = "ARGS" -> <<"args">> [] i.op = "POP" -> <<>> [] OTHER -> <<"value">>
Moves(i, before, after) ==
  LET t == Takes(i) IN
  /\ Len(before) >= Len(t) /\ \A n \in DOMAIN t : before[n] = t[n]
  /\ after = Leaves(i) \o SubSeq(before, Len(t) + 1, Len(before))

(* Code that begins above base ends with one value above it.               *)
Balanced(ins, end, shape, base) ==
  /\ shape \in [1 .. Len(ins) + 1 -> Seq(Kinds)]
  /\ shape[1] = base
  /\ \A n \in DOMAIN ins :
       IF ins[n].op \in Ends
       THEN n = Len(ins) /\ ins[n].op = end /\ shape[n] = <<"value">> \o base
       ELSE Moves(ins[n], shape[n], shape[n + 1])

(* What an instruction of the node x refers to is there.                   *)
Nested(node, end, depth, x) ==
  /\ node.consts \subseteq x.node.consts
  /\ \E y \in Codes : y.node = node /\ y.end = end /\ y.depth = depth
Resolved(i, x) ==
  /\ i.op \in Ends \cup {"DEF", "LD", "LDC", "LDG", "LDF", "SEL", "POP", "ARGS", "APP"}
  /\ i.op = "LDC" => i.v \in x.node.consts \/ Static(i.v)
  /\ i.op = "LD" => i.i \in 0 .. x.depth - 1 /\ i.j \in Int
  /\ i.op = "ARGS" => i.n \in Nat
  /\ i.op = "LDF" => Nested(i.code, "RTN", x.depth + 1, x)
  /\ i.op = "SEL" => Nested(i.t, "JOIN", x.depth, x) /\ Nested(i.f, "JOIN", x.depth, x)

Instructions == UNION {Elems(x.node.ins) : x \in Codes}
ASSUME CodesAssumption ==
  \A x \in Codes :
    /\ x.node.ins \in Seq(Instructions) /\ x.depth \in Nat
    /\ Balanced(x.node.ins, x.end, x.shape, <<>>)
    /\ \A n \in DOMAIN x.node.ins : Resolved(x.node.ins[n], x)

(* The data of a line are numbers and cells of each other, no list a cycle.*)
Literal(x, data) ==
  IF "lit" \in DOMAIN x THEN x.lit \in Words
  ELSE "pair" \in DOMAIN x /\ \A y \in {x.pair[1], x.pair[2]} : y \in data \/ Static(y)
Lines == UNION {Elems(p) : p \in Programs}
ASSUME ProgramsAssumption ==
  /\ Programs \subseteq Seq(Lines)
  /\ \A x \in Lines :
       /\ IsFiniteSet(x.data) /\ x.code.consts \subseteq x.data
       /\ \A y \in x.data : Literal(y, x.data)
       /\ \A S \in SUBSET x.data :
            S # {} => \E y \in S : "lit" \in DOMAIN y \/ y.pair[2] \notin S
       /\ x.code.ins # <<>> => \E y \in Codes : y.node = x.code /\ y.end = "STOP" /\ y.depth = 0
=============================================================================
