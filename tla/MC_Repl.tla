------------------------------- MODULE MC_Repl --------------------------------
(***************************************************************************)
(* Inputs for module Repl, and the grammar of data.                        *)
(***************************************************************************)
EXTENDS Repl

-----------------------------------------------------------------------------
(* Data, as sequences of tokens.                                           *)

RECURSIVE Items_(_), Tree(_)
Items_(ts) ==
  IF ts = <<>> THEN <<>>
  ELSE IF Datum_(ts) > Len(ts) THEN <<ts>>
  ELSE <<SubSeq(ts, 1, Datum_(ts))>> \o Items_(SubSeq(ts, Datum_(ts) + 1, Len(ts)))

NoTree == [wrong |-> TRUE]
RECURSIVE Pairs(_, _)
Pairs(ds, end) == IF ds = <<>> THEN end ELSE [pair |-> <<Head(ds), Pairs(Tail(ds), end)>>]
IsDot(ts) == Len(ts) = 1 /\ token[ts[1]].tag = "DOT"
\* the datum that ts stands for, or NoTree
Tree(ts) ==
  LET t == token[Head(ts)]
      rest == Tree(Tail(ts))
      parts == Items_(SubSeq(ts, 2, Len(ts) - 1))
      n == Len(parts)
      dotted == n >= 3 /\ IsDot(parts[n - 1])
      front == IF dotted THEN SubSeq(parts, 1, n - 2) ELSE parts
      ds == [k \in DOMAIN front |-> Tree(front[k])]
      end == IF dotted THEN Tree(parts[n]) ELSE NIL IN
  CASE ts = <<>> -> NoTree
    [] t.tag = "QUOTE" ->
         IF rest = NoTree THEN NoTree
         ELSE Pairs(<<Symbol(<<"q", "u", "o", "t", "e">>), rest>>, NIL)
    [] t.tag = "LPAREN" ->
         IF end = NoTree \/ \E k \in DOMAIN ds : ds[k] = NoTree THEN NoTree ELSE Pairs(ds, end)
    [] Len(ts) > 1 \/ t.tag \in {"DOT", "RPAREN"} -> NoTree
    [] t.tag = "IDENT" -> Symbol(t.val)
    [] t.tag \in {"INT", "STR"} -> [tag |-> t.tag, val |-> t.val]
    [] OTHER -> [static |-> t.tag]

\* the tree that v is the root of
RECURSIVE Denoted(_)
Denoted(v) ==
  IF ~IsRef(v) THEN v
  ELSE LET o == heap[v.obj]
       IN IF o.tag = "CELL" THEN [pair |-> <<Denoted(o.car), Denoted(o.cdr)>>] ELSE o

(* A datum is read as the tree the grammar gives it, whichever allocations *)
(* collect, and neither refused nor taken past its last token.             *)
ReadsTree ==
  LET tree == Tree(Chain(top_tok)) IN
  /\ Parsed /\ tree # NoTree => ret # NULL /\ Denoted(ret) = tree
  /\ status = "crash" => tree = NoTree

(* parse_obj and parse_objs report what is not a datum ("parse error: bad  *)
(* dot syntax", parse.c:58, 68 and 85).                                    *)
BadDotReported == Parsed /\ ret # NULL => Tree(Chain(top_tok)) # NoTree

-----------------------------------------------------------------------------
(* Inputs.                                                                 *)

Upto(C, n) == UNION {[1 .. k -> C] : k \in 1 .. n}
Forms == {<<"(">> \o x \o <<")", "\n">> : x \in [1 .. 5 -> {"a", "1", ".", "'", "(", ")"}]}
Lines == Upto({"(", ")", "'", ".", "a", "\n"}, 5)
Lexical == Upto({"\"", "\\", "0", "a", "1", "-", "#", " "}, 4)
\* a second line over the text of the first
Stale == {<<"(", "a", " ", "\"", ")", "\n">> \o x : x \in Upto({"\"", "\\", "A"}, 3)}
Numbers == {<<x, y, z, "\n">> : x \in {"-", "0", "1"}, y \in {"1", "7", "8", "9"}, z \in Digit}
\* lines longer than the buffer
Long == {<<"(", "a", " ", "1">> \o x \o <<")", "'", "a", "\n">> :
           x \in [1 .. 4 -> {"a", " ", ")", "\"", "\\"}]}
\* a line after one on which the reader went wrong
After == {x \o y \o <<"\n">> :
            x \in {<<"(", "1", ".", "1", " ", "1", ")", "\n">>,
                    <<"(", "a", ".", "(", ")", ".", "1", ")", "\n">>},
            y \in Upto({"(", ")", "1", "'"}, 4)}
AllStreams == Forms \cup Lines \cup Lexical \cup Stale \cup Numbers
              \cup Long \cup After
=============================================================================
