------------------------------- MODULE Tokenizer ------------------------------
(***************************************************************************)
(* tokenize.c.  The input is the array of repl's buffer, a sequence of     *)
(* characters (strings of one letter) with NUL after the line; Unknown is  *)
(* what an uninitialized element, or memory behind the array, holds.       *)
(* tokenize returns the tokens, with Bad last if the line is rejected and  *)
(* Stray last if it reads an unknown character.                            *)
(***************************************************************************)
EXTENDS Words, Sequences

NUL == "NUL"
Unknown == "unknown"
Blank == {" ", "\t"}
Digit == {"0", "1", "2", "3", "4", "5", "6", "7", "8", "9"}
Letter == {"a", "b", "c", "d", "e", "f", "g", "h", "i", "j", "k", "l", "m", "n", "o", "p", "q",
           "r", "s", "t", "u", "v", "w", "x", "y", "z", "A", "B", "C", "D", "E", "F", "G", "H",
           "I", "J", "K", "L", "M", "N", "O", "P", "Q", "R", "S", "T", "U", "V", "W", "X", "Y", "Z"}
is_special_initial_char ==
  {"!", "$", "%", "&", "*", "/", ":", "<", "=", ">", "?", "^", "_", "~"}
is_special_subsequent_char == {"+", "-", ".", "@"}
IdentStart == Letter \cup is_special_initial_char \cup {"+", "-"}
IdentChar == Letter \cup Digit \cup is_special_initial_char \cup is_special_subsequent_char

Char(buf, p) == IF p \in DOMAIN buf THEN buf[p] ELSE Unknown
Token(tag) == [tag |-> tag]
Bad == Token("bad")
Stray == Token("stray")

-----------------------------------------------------------------------------
(* Integers.  strtoul stops at the largest unsigned value; the sign is     *)
(* applied to the two's complement value.                                  *)

DigitValue == [c \in Digit |-> CHOOSE n \in 0 .. 9 :
                 c = <<"0", "1", "2", "3", "4", "5", "6", "7", "8", "9">>[n + 1]]
strtoul(ds) ==
  LET val[k \in 0 .. Len(ds)] ==
        IF k = 0 THEN 0
        ELSE LET n == 10 * val[k - 1] + DigitValue[ds[k]]
             IN IF n < Modulus THEN n ELSE Modulus - 1
  IN val[Len(ds)]
IntToken(ds, sign) == [tag |-> "INT", val |-> ToSigned(sign * strtoul(ds))]

-----------------------------------------------------------------------------
(* Strings.  A backslash takes the next character along, whatever it is,   *)
(* the NUL at the end of the line included.                                *)

Unclosed == 0
string_literal_end_NoEscape(buf, p) ==
  LET end[q \in Nat] ==
        CASE Char(buf, q) = NUL -> Unclosed
          [] Char(buf, q) \in {"\"", Unknown} -> q
          [] OTHER -> end[q + 1]
  IN end[p]
string_literal_end(buf, p) ==
  LET end[q \in Nat] ==
        CASE Char(buf, q) = NUL -> Unclosed
          [] Char(buf, q) \in {"\"", Unknown} -> q
          [] Char(buf, q) = "\\" -> end[q + 2]
          [] OTHER -> end[q + 1]
  IN end[p]

Escape == [n |-> "\n", r |-> "\r", f |-> "\f", t |-> "\t", a |-> "BEL", b |-> "BS"]
read_escaped_char(c) ==
  CASE c = "0" -> NUL [] c \in DOMAIN Escape -> Escape[c] [] OTHER -> c
(* The characters between p and end; what uses the token takes a C string. *)
read_string_literal(buf, p, end) ==
  LET text[q \in Nat] ==
        IF q >= end THEN <<>>
        ELSE IF buf[q] = "\\" THEN <<read_escaped_char(buf[q + 1])>> \o text[q + 2]
        ELSE <<buf[q]>> \o text[q + 1]
      full == text[p]
      cut == {n \in DOMAIN full : full[n] = NUL /\ \A m \in 1 .. n - 1 : full[m] # NUL}
  IN [tag |-> "STR", str |-> IF cut = {} THEN full
                             ELSE SubSeq(full, 1, (CHOOSE n \in cut : TRUE) - 1)]

-----------------------------------------------------------------------------
\* the first position from p on that is not in C
Past(buf, p, C) ==
  CHOOSE q \in p .. Len(buf) + 1 : Char(buf, q) \notin C /\ \A n \in p .. q - 1 : buf[n] \in C

(* One round of tokenize's loop, at position p; from[q] is what the rounds  *)
(* from q on yield.                                                        *)
lex(buf, from, p) ==
  LET c == Char(buf, p)
      next == Char(buf, p + 1)
      negative == c = "-" /\ next \in Digit
      sign == IF negative THEN -1 ELSE 1
      first == IF negative THEN p + 1 ELSE p
      strend == string_literal_end(buf, p + 1) IN
  CASE c = NUL -> <<>>
    [] c = Unknown \/ (c = "#" /\ next = Unknown) -> <<Stray>>
    [] c \in Blank -> from[p + 1]
    [] negative \/ c \in Digit ->
         LET end == Past(buf, first, Digit)
         IN <<IntToken(SubSeq(buf, first, end - 1), sign)>> \o from[end]
    [] c = "\"" ->
         IF strend = Unclosed THEN <<Bad>>
         ELSE IF Char(buf, strend) = Unknown THEN <<Stray>>
         ELSE <<read_string_literal(buf, p + 1, strend)>> \o from[strend + 1]
    [] c = "(" -> <<Token("LPAREN")>> \o from[p + 1]
    [] c = ")" -> <<Token("RPAREN")>> \o from[p + 1]
    [] c = "'" -> <<Token("QUOTE")>> \o from[p + 1]
    [] c = "." -> <<Token("DOT")>> \o from[p + 1]
    [] c = "#" /\ next \in {"t", "f"} ->
         <<Token(IF next = "t" THEN "TRUE" ELSE "FALSE")>> \o from[p + 2]
    [] c \in IdentStart /\ ~negative ->
         LET end == Past(buf, p, IdentChar)
         IN <<[tag |-> "IDENT", str |-> SubSeq(buf, p, end - 1)]>> \o from[end]
    [] OTHER -> <<Bad>>
tokenize(buf) ==
  LET from[p \in Nat] == lex(buf, from, p)
  IN from[1]
=============================================================================
