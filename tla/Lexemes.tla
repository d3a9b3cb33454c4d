-------------------------------- MODULE Lexemes --------------------------------
(***************************************************************************)
(* The lexical grammar of a line, and what its lexemes stand for: what     *)
(* module Tokenizer is compared with.  A word is a sequence of characters. *)
(***************************************************************************)
EXTENDS Tokenizer

\* the text in the buffer before its first NUL
Line(buf) ==
  LET n == CHOOSE n \in DOMAIN buf : buf[n] = NUL /\ \A m \in 1 .. n - 1 : buf[m] # NUL
  IN SubSeq(buf, 1, n - 1)

-----------------------------------------------------------------------------
(* Lexemes.                                                                *)

\* behind the opening quote, a backslash that is not escaped escapes what follows
Escaped(w) ==
  LET escaped[n \in DOMAIN w] == n > 2 /\ w[n - 1] = "\\" /\ ~escaped[n - 1]
  IN escaped

IsString(w) ==
  /\ Len(w) > 1 /\ w[1] = "\"" /\ w[Len(w)] = "\""
  /\ \A n \in 2 .. Len(w) : w[n] = "\"" => (Escaped(w)[n] <=> n < Len(w))
Digits(w) == IF w[1] = "-" THEN Tail(w) ELSE w
IsNumber(w) == Digits(w) # <<>> /\ \A n \in DOMAIN Digits(w) : Digits(w)[n] \in Digit
IsIdent(w) ==
  /\ w[1] \in IdentStart /\ \A n \in DOMAIN w : w[n] \in IdentChar
  /\ ~(w[1] = "-" /\ Len(w) > 1 /\ w[2] \in Digit)
Punctuation == [LPAREN |-> <<"(">>, RPAREN |-> <<")">>, QUOTE |-> <<"'">>, DOT |-> <<".">>,
                TRUE |-> <<"#", "t">>, FALSE |-> <<"#", "f">>]
IsLexeme(w) ==
  \/ IsString(w) \/ IsNumber(w) \/ IsIdent(w)
  \/ \E p \in DOMAIN Punctuation : w = Punctuation[p]

(* The lexemes of w, each as long as it can be, with <<>> for what is none *)
(* and ends the line.                                                      *)
Split(w) ==
  LET from[p \in 1 .. Len(w) + 1] ==
        IF p > Len(w) THEN <<>>
        ELSE IF w[p] \in Blank THEN from[p + 1]
        ELSE LET ends == {n \in p .. Len(w) : IsLexeme(SubSeq(w, p, n))} IN
             IF ends = {} THEN <<<<>>>>
             ELSE LET n == CHOOSE n \in ends : \A m \in ends : m <= n
                  IN <<SubSeq(w, p, n)>> \o from[n + 1]
  IN from[1]

-----------------------------------------------------------------------------
(* Meaning.                                                                *)

Numeral(ds) ==
  LET value[k \in 0 .. Len(ds)] ==
        IF k = 0 THEN 0 ELSE 10 * value[k - 1] + DigitValue[ds[k]]
  IN value[Len(ds)]
NumberOf(w) == IF w[1] = "-" THEN -Numeral(Digits(w)) ELSE Numeral(Digits(w))

\* the characters between the quotes, up to the first NUL
TextOf(w) ==
  LET text[n \in 2 .. Len(w)] ==
        IF n = Len(w) \/ (Escaped(w)[n] /\ w[n] = "0") THEN <<>>
        ELSE IF Escaped(w)[n] THEN <<read_escaped_char(w[n])>> \o text[n + 1]
        ELSE IF w[n] = "\\" THEN text[n + 1]
        ELSE <<w[n]>> \o text[n + 1]
  IN text[2]

(* The token t is what the lexeme w stands for; of a number that a word    *)
(* cannot hold, the value is left open.                                    *)
Denotes(t, w) ==
  IF w = <<>> THEN t = Bad
  ELSE /\ IsString(w) => t = [tag |-> "STR", str |-> TextOf(w)]
       /\ IsNumber(w) => t.tag = "INT" /\ (NumberOf(w) \in Words => t.val = NumberOf(w))
       /\ IsIdent(w) => t = [tag |-> "IDENT", str |-> w]
       /\ \A p \in DOMAIN Punctuation : w = Punctuation[p] => t = Token(p)
=============================================================================
