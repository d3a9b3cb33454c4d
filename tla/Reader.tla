-------------------------------- MODULE Reader --------------------------------
(***************************************************************************)
(* parse.c: parse_obj and parse_objs as a stack of activations, top first, *)
(* with a collection possible at each allocation.  An activation of        *)
(* parse_objs has its locals head, cur and obj, registered as parser roots *)
(* from the moment at which each has a ParserRootNode; the one of 'x has   *)
(* the pair it is building, which nothing registers.                       *)
(*                                                                         *)
(* Objects do not move here (module CopyingGC shows how they do): a        *)
(* collection keeps what the parser roots reach, and using an object it    *)
(* did not keep, or collecting while a ParserRootNode points into a call   *)
(* that has returned, makes the program's behaviour undefined.  So does a  *)
(* collection that finds RPAREN_FOUND in a cell: the collector takes it    *)
(* for an object of the heap and leaves a forwarding address in it.        *)
(***************************************************************************)
EXTENDS Integers, Sequences, FiniteSets

VARIABLES
  token,   \* every token ever allocated: tag, value, next, freed
  tok,     \* *tok, the next token to read; 0 is NULL
  stack,   \* activations
  ret,     \* what the last activation returned, Pending while none has
  heap,    \* object number -> object
  nilcdr,  \* the second word of the object NIL
  dead,    \* ParserRootNodes on locals of activations that have returned
  status   \* "ok", "exit", "crash" or "undefined"

rvars == <<tok, stack, ret, heap, nilcdr, dead, status>>

NULL == [static |-> "NULL"]
NIL == [static |-> "NIL"]
RPAREN_FOUND == [static |-> "RPAREN_FOUND"]
Pending == [static |-> "pending"]
Symbol(x) == [sym |-> x]
Ref(i) == [obj |-> i]
IsRef(v) == "obj" \in DOMAIN v

ReaderInit ==
  /\ tok = 0 /\ stack = <<>> /\ ret = NULL
  /\ heap = [i \in {} |-> NIL] /\ nilcdr = NULL
  /\ dead = 0 /\ status = "ok"

-----------------------------------------------------------------------------
(* The parser roots and a collection.                                      *)

Items(v) == IF IsRef(v) THEN {v.obj} ELSE {}
Cell(a, b) == [tag |-> "CELL", car |-> a, cdr |-> b]
Reach(start) ==
  LET reach[k \in 0 .. Cardinality(DOMAIN heap)] ==
        IF k = 0 THEN start
        ELSE LET seen == reach[k - 1]
                 cells == {i \in seen \cap DOMAIN heap : heap[i].tag = "CELL"}
             IN seen \cup UNION {Items(heap[i].car) \cup Items(heap[i].cdr) : i \in cells}
  IN reach[Cardinality(DOMAIN heap)]

HoldsParen(I) ==
  \E i \in I \cap DOMAIN heap : heap[i].tag = "CELL" /\ heap[i].car = RPAREN_FOUND

Registered_CurOnly(a) == IF a.fn = "list" /\ a.pc = "item" THEN Items(a.cur) ELSE {}
(* While parse_objs reads its first datum it has no root yet. *)
Registered(a) ==
  IF a.fn = "list" /\ a.pc = "item" THEN Items(a.head) \cup Items(a.cur) \cup Items(a.obj) ELSE {}
ParserRoots == UNION {Registered(stack[n]) : n \in DOMAIN stack}

(* fzscm_alloc of o, which is built from C arguments: the possible results. *)
(* held is what the running activation has registered since its last call. *)
Result(live, o) ==
  LET i == CHOOSE i \in 1 .. Cardinality(live) + 1 :
             i \notin live /\ \A k \in 1 .. i - 1 : k \in live
  IN [status |-> "ok", new |-> Ref(i),
      heap |-> [k \in live \cup {i} |-> IF k = i THEN o ELSE heap[k]]]
Allocate(o, held) ==
  LET live == Reach(ParserRoots \cup held)
      used == IF o.tag = "CELL" THEN Items(o.car) \cup Items(o.cdr) ELSE {}
      sound == dead = 0 /\ used \subseteq live /\ ~HoldsParen(live)
  IN {Result(DOMAIN heap, o)} \cup
       IF sound THEN {Result(live, o), [status |-> "exit"]} ELSE {[status |-> "undefined"]}
(* The activation goes on with resume unless r ended the program. *)
Proceed(r, resume) ==
  /\ status' = r.status
  /\ IF r.status = "ok" THEN resume ELSE UNCHANGED <<tok, stack, ret, heap>>
  /\ UNCHANGED <<nilcdr, dead>>

-----------------------------------------------------------------------------
(* parse_obj.                                                              *)

A == Head(stack)
Calling == status = "ok" /\ ret = Pending /\ (stack # <<>> => A.pc # "next")
T == token[tok]
NextToken == tok' = T.next
(* The running activation returns v to the one below it.                   *)
Returns(v) == ret' = v
Goes(a) == stack' = <<a>> \o Tail(stack) /\ ret' = Pending

ParseNull ==
  /\ Calling /\ tok = 0
  /\ Returns(NULL)
  /\ UNCHANGED <<tok, stack, heap, nilcdr, dead, status>>

Immediate(t) ==
  CASE t.tag = "DOT" -> NULL
    [] t.tag = "RPAREN" -> RPAREN_FOUND
    [] t.tag = "IDENT" -> Symbol(t.val)
    [] OTHER -> [static |-> t.tag]
ParseImmediate ==
  /\ Calling /\ tok # 0 /\ T.tag \in {"DOT", "RPAREN", "IDENT", "TRUE", "FALSE"}
  /\ Returns(Immediate(T))
  /\ NextToken
  /\ UNCHANGED <<stack, heap, nilcdr, dead, status>>

ParseNew ==
  /\ Calling /\ tok # 0 /\ T.tag \in {"INT", "STR"}
  /\ \E r \in Allocate([tag |-> T.tag, val |-> T.val], {}) :
       Proceed(r, Returns(r.new) /\ heap' = r.heap /\ NextToken /\ UNCHANGED stack)

ParseList ==
  /\ Calling /\ tok # 0 /\ T.tag = "LPAREN"
  /\ NextToken
  /\ stack' = <<[fn |-> "list", pc |-> "head", head |-> NULL, cur |-> NULL, obj |-> NULL,
                 dot |-> 0]>> \o stack
  /\ UNCHANGED <<ret, heap, nilcdr, dead, status>>

ParseQuote ==
  /\ Calling /\ tok # 0 /\ T.tag = "QUOTE"
  /\ NextToken
  /\ stack' = <<[fn |-> "quote", pc |-> "datum"]>> \o stack
  /\ UNCHANGED <<ret, heap, nilcdr, dead, status>>

(* 'x after its datum: the cell (x) and then the cell (quote x), neither   *)
(* of whose parts is a root.                                               *)
Returned(fn, pc) ==
  /\ status = "ok" /\ ret # Pending /\ stack # <<>>
  /\ A.fn = fn /\ A.pc = pc
Leave(v) == stack' = Tail(stack) /\ Returns(v)

QuoteFails ==
  /\ Returned("quote", "datum") /\ ret = NULL
  /\ Leave(NULL)
  /\ UNCHANGED <<tok, heap, nilcdr, dead, status>>

QuoteInner ==
  /\ Returned("quote", "datum") /\ ret # NULL
  /\ \E r \in Allocate(Cell(ret, NIL), {}) :
       Proceed(r, /\ stack' = <<[A EXCEPT !.pc = "inner"]>> \o Tail(stack)
                   /\ Returns(r.new) /\ heap' = r.heap /\ UNCHANGED tok)

QuoteOuter ==
  /\ Returned("quote", "inner")
  /\ \E r \in Allocate(Cell(Symbol(<<"q", "u", "o", "t", "e">>), ret), {}) :
       Proceed(r, Leave(r.new) /\ heap' = r.heap /\ UNCHANGED tok)

-----------------------------------------------------------------------------
(* parse_objs.                                                             *)

ListEmpty ==
  /\ Returned("list", "head") /\ ret \in {NULL, RPAREN_FOUND}
  /\ Leave(IF ret = NULL THEN NULL ELSE NIL)
  /\ UNCHANGED <<tok, heap, nilcdr, dead, status>>

(* head is registered when its cell is allocated. *)
ListHead ==
  /\ Returned("list", "head") /\ ret \notin {NULL, RPAREN_FOUND}
  /\ \E r \in Allocate(Cell(ret, NIL), Items(ret)) :
       Proceed(r, /\ Goes([A EXCEPT !.pc = "next", !.head = r.new, !.cur = r.new])
                   /\ heap' = r.heap /\ UNCHANGED tok)

(* The top of the loop looks at the next token without asking whether      *)
(* there is one.                                                           *)
NextDot_SameDatum(dot) == IF T.tag = "DOT" THEN -1 ELSE dot
NextDot(dot) == IF T.tag = "DOT" THEN -1 ELSE IF dot < 0 THEN dot - 1 ELSE dot
ListNext_EndsOnNull ==
  /\ status = "ok" /\ ret = Pending /\ stack # <<>> /\ A.pc = "next"
  /\ IF tok = 0
     THEN Leave(A.head) /\ UNCHANGED tok
     ELSE /\ tok' = IF T.tag = "DOT" THEN T.next ELSE tok
          /\ stack' = <<[A EXCEPT !.pc = "item", !.dot = NextDot(@)]>> \o Tail(stack)
          /\ UNCHANGED ret
  /\ UNCHANGED <<heap, nilcdr, dead, status>>
ListNext ==
  /\ status = "ok" /\ ret = Pending /\ stack # <<>> /\ A.pc = "next"
  /\ IF tok = 0
     THEN status' = "crash" /\ UNCHANGED <<tok, stack>>
     ELSE /\ tok' = IF T.tag = "DOT" THEN T.next ELSE tok
          /\ stack' = <<[A EXCEPT !.pc = "item", !.dot = NextDot(@)]>> \o Tail(stack)
          /\ UNCHANGED status
  /\ UNCHANGED <<ret, heap, nilcdr, dead>>

ListFails ==
  /\ Returned("list", "item") /\ ret = NULL
  /\ Leave(NULL)
  /\ UNCHANGED <<tok, heap, nilcdr, dead, status>>

DotsAgree(dot) == dot \in {0, -2}
ListEnds ==
  /\ Returned("list", "item") /\ ret = RPAREN_FOUND
  /\ Leave(IF DotsAgree(A.dot) THEN A.head ELSE NULL)
  /\ UNCHANGED <<tok, heap, nilcdr, dead, status>>

(* CDR(v) = x.  The second word of a symbol, number, string or truth value *)
(* is never read.                                                          *)
SetCdr(hp, v, x) ==
  IF IsRef(v) /\ hp[v.obj].tag = "CELL" THEN [hp EXCEPT ![v.obj].cdr = x] ELSE hp

Datum == Returned("list", "item") /\ ret \notin {NULL, RPAREN_FOUND}

ListTail ==
  /\ Datum /\ A.dot = -1
  /\ heap' = SetCdr(heap, A.cur, ret)
  /\ nilcdr' = IF A.cur = NIL THEN ret ELSE nilcdr
  /\ Goes([A EXCEPT !.pc = "next", !.cur = ret, !.obj = ret])
  /\ UNCHANGED <<tok, dead, status>>

(* A datum after the tail: three ParserRootNodes remain registered. *)
ListAfterTail ==
  /\ Datum /\ A.dot < -1
  /\ Leave(NULL)
  /\ dead' = dead + 3
  /\ UNCHANGED <<tok, heap, nilcdr, status>>

(* obj is registered, so the datum outlives the allocation of its cell. *)
ListItem ==
  /\ Datum /\ A.dot = 0
  /\ \E r \in Allocate(Cell(ret, NIL), Items(ret)) :
       Proceed(r, /\ heap' = SetCdr(r.heap, A.cur, r.new)
                   /\ Goes([A EXCEPT !.pc = "next", !.cur = r.new, !.obj = ret])
                   /\ UNCHANGED tok)

ParseStep ==
  \/ ParseNull \/ ParseImmediate \/ ParseNew \/ ParseList \/ ParseQuote
  \/ QuoteFails \/ QuoteInner \/ QuoteOuter
  \/ ListEmpty \/ ListHead \/ ListNext \/ ListFails \/ ListEnds \/ ListTail
  \/ ListAfterTail \/ ListItem
=============================================================================
