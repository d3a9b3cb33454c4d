--------------------------------- MODULE Repl ---------------------------------
(***************************************************************************)
(* repl.c over modules Tokenizer and Reader: lines are read into a buffer  *)
(* of fixed size, tokenized and kept until the parentheses balance; then   *)
(* the tokens are parsed, the result is compiled and run, and the tokens   *)
(* are freed.  Tokens are numbered in the order of their allocation and    *)
(* linked through next.                                                    *)
(*                                                                         *)
(* Definitions with a suffix (Discard_KeepCur) are mutated forms.          *)
(***************************************************************************)
EXTENDS Lexemes, Reader

CONSTANTS
  Streams,  \* what may be typed: sequences of characters
  BufSize   \* INPUT_BUF_SIZE

ASSUME BufSizeAssumption == BufSize \in Nat \ {0, 1}
\* NUL and Unknown stand for what is in the buffer without having been typed
Typed == STRING \ {NUL, Unknown}
ASSUME StreamsAssumption == Streams \subseteq Seq(Typed)

VARIABLES
  stdin,        \* what is still to be typed
  buffer,
  top_tok, cur_tok,  \* first and last token of the form so far, 0 is NULL
  line_tok,     \* the local tok: first token of the last line
  paren_level,
  at            \* where repl is

vars == <<token, rvars, stdin, buffer, top_tok, cur_tok, line_tok, paren_level, at>>

Init ==
  /\ ReaderInit
  /\ token = <<>>
  /\ stdin \in Streams
  /\ buffer = [n \in 1 .. BufSize |-> Unknown]
  /\ top_tok = 0 /\ cur_tok = 0 /\ line_tok = 0 /\ paren_level = 0
  /\ at = "prompt"

-----------------------------------------------------------------------------
(* A line.                                                                 *)

(* fgets takes at most BufSize - 1 characters and stops after a newline;   *)
(* what the buffer held behind the new text stays.                         *)
Newlines == {n \in DOMAIN stdin : stdin[n] = "\n"}
Chunk ==
  LET ends == {n \in DOMAIN stdin : n = BufSize - 1 \/ n = Len(stdin) \/ n \in Newlines}
  IN SubSeq(stdin, 1, CHOOSE n \in ends : \A m \in ends : n <= m)
Text(chunk) == [n \in DOMAIN chunk |-> IF chunk[n] = "\n" THEN NUL ELSE chunk[n]]
Filled(chunk) ==
  [n \in 1 .. BufSize |->
     CASE n <= Len(chunk) -> Text(chunk)[n] [] n = Len(chunk) + 1 -> NUL [] OTHER -> buffer[n]]

Reading == status = "ok" /\ at = "prompt"
EndOfInput_Retry == Reading /\ stdin = <<>> /\ UNCHANGED vars
EndOfInput ==
  /\ Reading /\ stdin = <<>>
  /\ status' = "exit"
  /\ UNCHANGED <<token, tok, stack, ret, heap, nilcdr, dead, stdin, buffer, top_tok, cur_tok,
                 line_tok, paren_level, at>>
ReadLine ==
  /\ Reading /\ stdin # <<>>
  /\ stdin' = SubSeq(stdin, Len(Chunk) + 1, Len(stdin))
  /\ buffer' = Filled(Chunk)
  /\ at' = IF buffer'[1] = NUL THEN "prompt" ELSE "tokenize"
  /\ UNCHANGED <<token, rvars, top_tok, cur_tok, line_tok, paren_level>>

(* The tokens ts, allocated and linked. *)
Linked_NoEnd(ts) ==
  [n \in DOMAIN ts |->
     [tag |-> ts[n].tag, val |-> 0, next |-> Len(token) + n + 1, freed |-> 0]]
Linked(ts) ==
  LET from == Len(token) IN
  [n \in DOMAIN ts |->
     [tag |-> ts[n].tag,
      val |-> CASE ts[n].tag = "INT" -> ts[n].val
                [] ts[n].tag \in {"STR", "IDENT"} -> ts[n].str
                [] OTHER -> 0,
      next |-> IF n = Len(ts) THEN 0 ELSE from + n + 1,
      freed |-> 0]]
Tokenize ==
  /\ status = "ok" /\ at = "tokenize"
  /\ LET ts == tokenize(buffer)
         rejected == ts = <<>> \/ ts[Len(ts)] = Bad
         stray == ts # <<>> /\ ts[Len(ts)] = Stray IN
     /\ token' = IF rejected \/ stray THEN token ELSE token \o Linked(ts)
     /\ line_tok' = IF rejected \/ stray THEN 0 ELSE Len(token) + 1
     /\ top_tok' = IF top_tok = 0 THEN line_tok' ELSE top_tok
     /\ at' = IF rejected THEN "prompt" ELSE "level"
     /\ status' = IF stray THEN "undefined" ELSE "ok"
  /\ UNCHANGED <<tok, stack, ret, heap, nilcdr, dead, stdin, buffer, cur_tok, paren_level>>

-----------------------------------------------------------------------------
(* The level of parentheses.                                               *)

\* the tokens linked from t on
Chain(t) ==
  LET chain[i \in 0 .. Len(token)] ==
        IF i = 0 THEN <<>> ELSE <<i>> \o chain[token[i].next]
  IN chain[t]
Step(tag) == CASE tag = "LPAREN" -> 1 [] tag = "RPAREN" -> -1 [] OTHER -> 0

(* get_paren_level: the level after the tokens from t on and the token at  *)
(* which it was known; a form that ends before its line does, and a line   *)
(* that ends in a quote outside of parentheses, count as level -1.         *)
get_paren_level_NoExtra(level, t) ==
  LET walk[i \in DOMAIN token] == [before \in Int |->
        LET now == before + Step(token[i].tag) IN
        IF now < 0 \/ token[i].next = 0 THEN [level |-> now, end |-> i]
        ELSE walk[token[i].next][now]]
  IN walk[t][level]
get_paren_level(level, t) ==
  LET walk[i \in DOMAIN token] == [before \in Int |->
        LET now == before + Step(token[i].tag)
            last == token[i].next = 0 IN
        IF now = 0 /\ (token[i].tag = "QUOTE") = last THEN [level |-> -1, end |-> i]
        ELSE IF now < 0 \/ last THEN [level |-> now, end |-> i]
        ELSE walk[token[i].next][now]]
  IN walk[t][level]
Level == get_paren_level(paren_level, line_tok)

\* free_token
Freed(t) ==
  LET gone == Chain(t)
      ids == {gone[n] : n \in DOMAIN gone}
  IN [i \in DOMAIN token |-> IF i \in ids THEN [token[i] EXCEPT !.freed = @ + 1] ELSE token[i]]
(* cur_tok->next = tok *)
Joined_Never == token
Joined ==
  IF cur_tok = 0 THEN token ELSE [token EXCEPT ![cur_tok].next = line_tok]

Discard_KeepCur ==
  /\ status = "ok" /\ at = "level" /\ Level.level < 0
  /\ token' = Freed(top_tok)
  /\ top_tok' = 0 /\ paren_level' = 0 /\ line_tok' = 0
  /\ at' = "prompt"
  /\ UNCHANGED <<rvars, stdin, buffer, cur_tok>>
Discard ==
  /\ status = "ok" /\ at = "level" /\ Level.level < 0
  /\ token' = Freed(top_tok)
  /\ top_tok' = 0 /\ cur_tok' = 0 /\ paren_level' = 0 /\ line_tok' = 0
  /\ at' = "prompt"
  /\ UNCHANGED <<rvars, stdin, buffer>>

Continue ==
  /\ status = "ok" /\ at = "level" /\ Level.level > 0
  /\ token' = Joined
  /\ cur_tok' = Level.end
  /\ paren_level' = Level.level
  /\ line_tok' = 0
  /\ at' = "prompt"
  /\ UNCHANGED <<rvars, stdin, buffer, top_tok>>

Parse ==
  /\ status = "ok" /\ at = "level" /\ Level.level = 0
  /\ token' = Joined
  /\ paren_level' = 0 /\ line_tok' = 0
  /\ at' = "parse"
  /\ tok' = top_tok /\ ret' = Pending
  /\ UNCHANGED <<stack, heap, nilcdr, dead, status, stdin, buffer, top_tok, cur_tok>>

Read ==
  /\ at = "parse" /\ ParseStep
  /\ UNCHANGED <<token, stdin, buffer, top_tok, cur_tok, line_tok, paren_level, at>>

Parsed == status = "ok" /\ at = "parse" /\ stack = <<>> /\ ret # Pending

(* A form was read: the parser roots are cleared, then it is compiled.     *)
ClearRoots_Skipped ==
  /\ Parsed /\ ret # NULL
  /\ at' = "run"
  /\ UNCHANGED <<token, rvars, stdin, buffer, top_tok, cur_tok, line_tok, paren_level>>
ClearRoots ==
  /\ Parsed /\ ret # NULL
  /\ dead' = 0
  /\ at' = "run"
  /\ UNCHANGED <<token, tok, stack, ret, heap, nilcdr, status, stdin, buffer, top_tok, cur_tok,
                 line_tok, paren_level>>

FreeForm_KeepTop ==
  /\ token' = Freed(top_tok)
  /\ cur_tok' = 0 /\ tok' = 0
  /\ at' = "prompt"
  /\ heap' = [i \in {} |-> NIL] /\ ret' = NULL
  /\ UNCHANGED top_tok
FreeForm ==
  /\ token' = Freed(top_tok)
  /\ top_tok' = 0 /\ cur_tok' = 0 /\ tok' = 0
  /\ at' = "prompt"
  /\ heap' = [i \in {} |-> NIL] /\ ret' = NULL

(* compile allocates no object; vm_run does and may collect, end or crash  *)
(* (module VM).  What it leaves in the heap is not followed here.          *)
Run ==
  /\ status = "ok" /\ at = "run"
  /\ \E collects, ends \in BOOLEAN :
       status' = CASE collects /\ dead > 0 -> "undefined" [] ends -> "exit" [] OTHER -> "ok"
  /\ FreeForm
  /\ UNCHANGED <<stack, nilcdr, dead, stdin, buffer, line_tok, paren_level>>

NotRead ==
  /\ Parsed /\ ret = NULL
  /\ FreeForm
  /\ UNCHANGED <<stack, nilcdr, dead, status, stdin, buffer, line_tok, paren_level>>

Next ==
  \/ EndOfInput \/ ReadLine \/ Tokenize \/ Discard \/ Continue \/ Parse \/ Read
  \/ ClearRoots \/ Run \/ NotRead

Spec == Init /\ [][Next]_vars
FairSpec == Spec /\ WF_vars(Next)

-----------------------------------------------------------------------------
(* Properties.                                                             *)

(* Types; a token's link leads to a younger token. *)
TypeOK ==
  /\ status \in {"ok", "exit", "crash", "undefined"}
  /\ \A i \in DOMAIN token : token[i].next = 0 \/ token[i].next \in i + 1 .. Len(token)
  /\ {tok, top_tok, cur_tok, line_tok} \subseteq 0 .. Len(token)
  /\ paren_level \in Nat /\ dead \in Nat
  /\ buffer \in [1 .. BufSize -> Typed \cup {NUL, Unknown}]

(* The tokens of a line are its lexemes, each as long as it can be, with   *)
(* the text, the number or the value it denotes, if the number fits a word *)
(* and the line does not end in a backslash before the end of the input.   *)
EndsInBackslash ==
  LET n == CHOOSE n \in DOMAIN buffer : buffer[n] = NUL /\ \A m \in 1 .. n - 1 : buffer[m] # NUL
  IN n > 1 /\ buffer[n - 1] = "\\" /\ Char(buffer, n + 1) # NUL
TokensAreLexemes ==
  at = "tokenize" =>
    LET ts == tokenize(buffer)
        ws == Split(Line(buffer)) IN
    EndsInBackslash \/ (Len(ts) = Len(ws) /\ \A n \in DOMAIN ts : Denotes(ts[n], ws[n]))

(* At the prompt, what repl keeps of the lines before is a form that has   *)
(* not ended: it has paren_level parentheses open, had at least one open   *)
(* at every earlier token that is not a quote before it, and ends with     *)
(* cur_tok, to which the next line is linked.                              *)
LevelOf(ts) ==
  LET sum[n \in 0 .. Len(ts)] == IF n = 0 THEN 0 ELSE sum[n - 1] + Step(token[ts[n]].tag)
  IN sum[Len(ts)]
PendingIsOpen ==
  at = "prompt" /\ status = "ok" =>
    LET form == Chain(top_tok) IN
    /\ paren_level = LevelOf(form)
    /\ (top_tok = 0) = (paren_level = 0) /\ (cur_tok = 0) = (top_tok = 0)
    /\ form # <<>> => form[Len(form)] = cur_tok
    /\ \A n \in DOMAIN form :
         LevelOf(SubSeq(form, 1, n)) > 0 \/ \A m \in 1 .. n : token[form[m]].tag = "QUOTE"

(* How many of the tokens ts the first datum takes, counting parentheses   *)
(* only: quotes, and then a token that is none or all that is between      *)
(* parentheses.                                                            *)
Datum_(ts) ==
  LET ends == {n \in DOMAIN ts : /\ LevelOf(SubSeq(ts, 1, n)) <= 0
                                 /\ \E m \in 1 .. n : token[ts[m]].tag # "QUOTE"}
  IN IF ends = {} THEN Len(ts) + 1 ELSE CHOOSE n \in ends : \A m \in ends : n <= m

(* What the repl hands to the reader is the tokens of one datum, by the    *)
(* parentheses: nothing is left over and nothing is missing.               *)
FormIsOneDatum ==
  at = "parse" => LET form == Chain(top_tok) IN Datum_(form) = Len(form)

(* Whatever an activation of the reader holds, whatever was just returned  *)
(* and whatever they contain is still in the heap after any collections,   *)
(* unless the behaviour became undefined.                                  *)
HeldBy(a) == IF a.fn = "list" THEN Items(a.head) \cup Items(a.cur) \cup Items(a.obj) ELSE {}
HeldAlive ==
  status # "undefined" =>
    Reach(Items(ret) \cup UNION {HeldBy(stack[n]) : n \in DOMAIN stack}) \subseteq DOMAIN heap

(* The ways in which reading goes wrong with a collection or past the end  *)
(* of the buffer are only these: the pair of a 'x under construction,      *)
(* ParserRootNodes left by the early return after a dotted tail, a quote   *)
(* that took the parenthesis after it for its datum, and a line without    *)
(* newline that ends in a backslash.  Running never does.                  *)
UndefinedExplained ==
  status = "undefined" =>
    \/ at = "parse" /\ (dead > 0 \/ (stack # <<>> /\ A.fn = "quote")
                          \/ HoldsParen(DOMAIN heap))
    \/ at = "level" /\ EndsInBackslash

(* RPAREN_FOUND never leaves the reader.  A quote before a parenthesis     *)
(* takes it for its datum, but then a parenthesis is missing at the end,   *)
(* and no form that is compiled and run holds the mark.                    *)
ParenStaysInside ==
  at = "run" => ret # RPAREN_FOUND /\ ~HoldsParen(Reach(Items(ret)))

(* free_token frees a token once, and nothing links to a token or changes  *)
(* it after that.                                                          *)
FreedUntouched ==
  [][\A i \in DOMAIN token : token[i].freed > 0 => token'[i] = token[i]]_vars

(* A token is dropped without being freed only in one way: a line that     *)
(* goes on with a form and closes more parentheses than are open, or has a *)
(* token behind the end of the form (get_paren_level is negative,          *)
(* repl.c:17 and 20-24), is not linked to the lines before it, and its     *)
(* tokens are lost.                                                        *)
Owned == Chain(top_tok) \o (IF at = "level" THEN Chain(line_tok) ELSE <<>>)
OwnedTokens == {Owned[n] : n \in DOMAIN Owned}
LeaksExplained ==
  [][\A i \in OwnedTokens :
       \/ i \in OwnedTokens'
       \/ token'[i].freed > 0
       \/ at = "level" /\ cur_tok # 0 /\ Level.level < 0]_vars

(* Every input is read to its end, whatever the lines contain: neither the *)
(* reader nor the repl goes round without taking a token or a line.        *)
InputEnds == <>(status # "ok")
=============================================================================
