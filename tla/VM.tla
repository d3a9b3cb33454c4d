---------------------------------- MODULE VM ----------------------------------
(***************************************************************************)
(* The SECD machine of vm.c together with what a collection does to it.    *)
(*                                                                         *)
(* The values, the heap and the primitives are those of module Primitives, *)
(* the programs those of module Code.                                      *)
(* The collector runs inside an allocation that finds the heap full and    *)
(* keeps what the registered roots reach (module CopyingGC is the detailed *)
(* one); a reference that no root holds is lost, and the program's         *)
(* behaviour is then undefined.                                            *)
(*                                                                         *)
(* One action is one instruction, except INST_ARGS: one allocation is one  *)
(* step.  Definitions with a suffix (VMItems_NoDump) are mutated forms.    *)
(***************************************************************************)
EXTENDS Code

CONSTANT MaxObj  \* objects a semispace holds

ASSUME MaxObjAssumption == MaxObj \in Nat \ {0}

CRASH == [static |-> "CRASH"]
PrimEnv == [p \in Prim |-> [prim |-> p]]

VARIABLES
  input,   \* the programs still to be read
  line,    \* the program read last
  frames,  \* environment number -> [vars, next]; next is 0 at the top level
  lits,    \* constant of an INST_LDC -> value
  genv,    \* symbol -> value
  s, e, c, pc, d,
           \* the registers: stack (top first), environment, code node, rest of
           \* the code, dump
  args,    \* INST_ARGS in progress: arguments still to take, list so far
  roots,   \* RootNodes on &proc_obj, &args_list (APP and ARGS) and dead locals
  local,   \* the locals proc_obj and args_list of INST_APP
  status,  \* where the program is
  result,  \* what the last program returned
  gcs      \* collections since reset_gc_state

machine == <<s, e, c, pc, d>>
store == <<heap, frames, lits>>
vars == <<input, line, heap, frames, lits, genv, s, e, c, pc, d, args, roots, local,
          status, result, gcs>>

NoCode == [ins |-> <<>>, consts |-> {}]
NoArgs == [on |-> FALSE, left |-> 0, list |-> NIL]
NoLocal == [proc |-> NIL, list |-> NIL]
NoResult == [kind |-> "none", v |-> NIL]
NoRoots == [proc |-> 0, list |-> 0, dead |-> 0]

Init ==
  /\ input \in Programs
  /\ line = [code |-> NoCode, data |-> {}]
  /\ heap = [i \in {} |-> 0]
  /\ frames = [i \in {} |-> 0] /\ lits = [i \in {} |-> NIL]
  /\ genv = PrimEnv
  /\ s = <<>> /\ e = 0 /\ c = NoCode /\ pc = <<>> /\ d = <<>>
  /\ args = NoArgs /\ roots = NoRoots /\ local = NoLocal
  /\ status = "idle" /\ result = NoResult /\ gcs = 0

-----------------------------------------------------------------------------
(* get_lvar: frame i of the chain, then the j-th argument or, if j < 0,    *)
(* the rest of the list.  CRASH is a null pointer dereferenced.           *)
get_lvar(i, j) ==
  LET frame[k \in 0 .. i] == IF k = 0 THEN e ELSE frames[frame[k - 1]].next
      vs == frames[frame[i]].vars
      n == IF j < 0 THEN -(j + 1) ELSE j
      cdr[k \in 0 .. n] == IF k = 0 THEN vs ELSE CDR(cdr[k - 1])
  IN CASE vs = NIL /\ j # -1 -> NULL
       [] j < 0 /\ (\A k \in 0 .. n - 1 : cdr[k] # NULL) -> cdr[n]
       [] j >= 0 /\ (\A k \in 0 .. n : cdr[k] # NULL) -> CAR(cdr[n])
       [] OTHER -> CRASH

-----------------------------------------------------------------------------
(* The collector, seen from the machine.                                   *)

Items(v) == IF IsRef(v) THEN {v} ELSE {}
ConstItems(code) == {[lit |-> k] : k \in code.consts}
FrameItem(f) == IF f = 0 THEN {} ELSE {[frame |-> f]}
Reached(x) ==
  CASE "frame" \in DOMAIN x -> FrameItem(frames[x.frame].next) \cup Items(frames[x.frame].vars)
    [] "lit" \in DOMAIN x -> Items(lits[x.lit])
    [] OTHER ->
         LET o == heap[x.obj] IN
         CASE o.tag = "CELL" -> Items(o.car) \cup Items(o.cdr)
           [] o.tag = "CLOSURE" -> FrameItem(o.env) \cup ConstItems(o.code)
           [] o.tag = "VECTOR" -> UNION {Items(v) : v \in Elems(o.elems)}
           [] OTHER -> {}
Survivors(start) ==
  LET most == MaxObj + Cardinality(DOMAIN frames) + Cardinality(DOMAIN lits)
      reach[k \in 0 .. most] ==
        IF k = 0 THEN start ELSE UNION {{x} \cup Reached(x) : x \in reach[k - 1]}
  IN reach[most]

StackItems(st) == UNION {Items(st[n]) : n \in DOMAIN st}
GlobalItems == UNION {Items(genv[x]) : x \in DOMAIN genv}

(* vm_collect_roots with the stack st; the dump's frames and code count.   *)
VMItems_NoDump(st) == StackItems(st) \cup FrameItem(e) \cup ConstItems(c)
VMItems(st) ==
  StackItems(st) \cup FrameItem(e) \cup ConstItems(c)
    \cup UNION {StackItems(d[n].stack) \cup FrameItem(d[n].env)
                  \cup ConstItems(d[n].code) : n \in DOMAIN d}

(* The RootNode list: proc_obj and args_list of INST_APP with the values p *)
(* and l, args_list of INST_ARGS.                                          *)
LocalItems_NoArgs(p, l) ==
  (IF roots.proc > 0 THEN Items(p) ELSE {}) \cup (IF roots.list > 0 THEN Items(l) ELSE {})
LocalItems(p, l) ==
  (IF roots.proc > 0 THEN Items(p) ELSE {}) \cup (IF roots.list > 0 THEN Items(l) ELSE {})
    \cup (IF args.on THEN Items(args.list) ELSE {})

HeapFull == Cardinality(DOMAIN heap) = MaxObj
Kept(live) == IF HeapFull THEN {i \in DOMAIN heap : [obj |-> i] \in live} ELSE DOMAIN heap
NewObj_Past(live) ==
  1 + CHOOSE i \in 1 .. MaxObj : i \notin Kept(live) /\ \A k \in 1 .. i - 1 : k \in Kept(live)
NewObj(live) ==
  CHOOSE i \in 1 .. MaxObj : i \notin Kept(live) /\ \A k \in 1 .. i - 1 : k \in Kept(live)

(* fzscm_alloc of the object o, when live is what the roots reach.  After  *)
(* a collection the RootNode list is empty.                                *)
Allocates(live, o) ==
  LET i == NewObj(live) IN
  /\ heap' = [x \in Kept(live) \cup {i} |-> IF x = i THEN o ELSE heap[x]]
  /\ frames' = [f \in {g \in DOMAIN frames : HeapFull => [frame |-> g] \in live} |-> frames[f]]
  /\ lits' = [k \in {l \in DOMAIN lits : HeapFull => [lit |-> l] \in live} |-> lits[k]]
  /\ gcs' = IF HeapFull THEN gcs + 1 ELSE gcs
Shortage(live) == Cardinality(Kept(live)) = MaxObj
Lost(v, live) == HeapFull /\ IsRef(v) /\ v \notin live

(* The allocation cannot be carried out: the program ends, or the roots    *)
(* include locals of a call of vm_run that has returned.                   *)
Fails_Retry(live) ==
  /\ HeapFull
  /\ status' = IF roots.dead > 0 THEN "undefined" ELSE status
  /\ roots.dead > 0 \/ Shortage(live)
  /\ UNCHANGED <<input, line, store, genv, machine, args, roots, local, result, gcs>>
Fails(live) ==
  /\ HeapFull
  /\ status' = IF roots.dead > 0 THEN "undefined" ELSE "exit"
  /\ roots.dead > 0 \/ Shortage(live)
  /\ UNCHANGED <<input, line, store, genv, machine, args, roots, local, result, gcs>>
Succeeds(live) == HeapFull => roots.dead = 0 /\ ~Shortage(live)
RootsAfterGC == IF HeapFull THEN NoRoots ELSE roots
LocalsAfterGC == IF HeapFull THEN NoLocal ELSE local

-----------------------------------------------------------------------------
(* Instructions.                                                           *)

At(op) == status = "run" /\ pc # <<>> /\ Head(pc).op = op
I == Head(pc)
Push(v) == s' = <<v>> \o s
Advance == pc' = Tail(pc)
\* s_pop of an empty stack is the null pointer
Top == IF s = <<>> THEN NULL ELSE Head(s)
Below == IF s = <<>> THEN <<>> ELSE Tail(s)

(* vm_run returns: the RootNodes left on its locals stay registered.       *)
Return(r, rt) ==
  /\ result' = r
  /\ status' = "idle"
  /\ s' = <<>> /\ e' = 0 /\ c' = NoCode /\ pc' = <<>> /\ d' = <<>>
  /\ args' = NoArgs /\ local' = NoLocal
  /\ roots' = [proc |-> 0, list |-> 0, dead |-> rt.dead + rt.proc + rt.list]
Value(v) == [kind |-> "value", v |-> v]

ReturnError(live) ==
  \/ Fails(live)
  \/ /\ Succeeds(live)
     /\ Allocates(live, [tag |-> "ERROR"])
     /\ Return([kind |-> "error", v |-> NIL], RootsAfterGC)
     /\ UNCHANGED <<input, line, genv>>

Crash ==
  /\ status' = "crash"
  /\ UNCHANGED <<input, line, store, genv, machine, args, roots, local, result, gcs>>

(* repl reads a line.  The objects of its constants are allocated, and     *)
(* lists that are garbage once compiled, in any number.  [lit |-> n, ...]  *)
(* is an integer, [pair |-> <<a, b>>] a cell.                              *)
Program == Head(input)
Constants == Program.data
Room == MaxObj - Cardinality(DOMAIN heap)
Built(x, at) ==
  LET part(y) == IF y \in Constants THEN [obj |-> at[y]] ELSE y IN
  IF "lit" \in DOMAIN x THEN [tag |-> "INTEGER", n |-> x.lit]
  ELSE [tag |-> "CELL", car |-> part(x.pair[1]), cdr |-> part(x.pair[2])]

(* A collection while reading: no machine exists, the globals are the      *)
(* roots, and whatever vm_run left registered.                             *)
ReadCollects ==
  /\ status = "idle" /\ input # <<>>
  /\ Room < Cardinality(Constants)
  /\ LET live == Survivors(GlobalItems)
         kept == {i \in DOMAIN heap : [obj |-> i] \in live} IN
     /\ heap' = [i \in kept |-> heap[i]]
     /\ frames' = [f \in {g \in DOMAIN frames : [frame |-> g] \in live} |-> frames[f]]
     /\ lits' = [k \in {l \in DOMAIN lits : [lit |-> l] \in live} |-> lits[k]]
     /\ status' = CASE roots.dead > 0 -> "undefined"
                    [] Cardinality(kept) + Cardinality(Constants) > MaxObj -> "exit"
                    [] OTHER -> "idle"
  /\ roots' = NoRoots
  /\ result' = NoResult
  /\ UNCHANGED <<input, line, genv, machine, args, local, gcs>>

NewFrame == CHOOSE f \in 1 .. Cardinality(DOMAIN frames) + 1 : f \notin DOMAIN frames
WithFrame(vs, next) ==
  [f \in DOMAIN frames \cup {NewFrame} |->
     IF f = NewFrame THEN [vars |-> vs, next |-> next] ELSE frames[f]]

(* The line is parsed and compiled, and new_vm starts on its code; there   *)
(* is nothing to run after a compile error.                                *)
Load ==
  /\ status = "idle" /\ input # <<>>
  /\ Room >= Cardinality(Constants)
  /\ \E garbage \in 0 .. Room - Cardinality(Constants) :
       LET free == (1 .. MaxObj) \ DOMAIN heap
           at == CHOOSE f \in [Constants -> free] : \A x, y \in Constants : x # y => f[x] # f[y]
           lists == CHOOSE G \in SUBSET (free \ {at[x] : x \in Constants}) : Cardinality(G) = garbage
       IN
       /\ heap' = [i \in DOMAIN heap \cup lists \cup {at[x] : x \in Constants} |->
                     IF i \in DOMAIN heap THEN heap[i]
                     ELSE IF i \in lists THEN [tag |-> "INTEGER", n |-> 0]
                     ELSE Built(CHOOSE x \in Constants : at[x] = i, at)]
       /\ lits' = [x \in DOMAIN lits \cup Program.code.consts |->
                     IF x \in Program.code.consts THEN [obj |-> at[x]] ELSE lits[x]]
  /\ input' = Tail(input)
  /\ line' = Program
  /\ result' = NoResult
  /\ gcs' = 0
  /\ IF Program.code.ins = <<>>
     THEN UNCHANGED <<frames, machine, status>>
     ELSE /\ frames' = WithFrame(NIL, 0)
          /\ e' = NewFrame /\ c' = Program.code /\ pc' = Program.code.ins
          /\ status' = "run"
          /\ UNCHANGED <<s, d>>
  /\ UNCHANGED <<genv, args, roots, local>>

Same == <<input, line, e, c, d, args, roots, local, status, result, gcs>>

Def ==
  /\ At("DEF")
  /\ genv' = [x \in DOMAIN genv \cup {I.x} |-> IF x = I.x THEN Top ELSE genv[x]]
  /\ s' = <<[sym |-> I.x]>> \o Below
  /\ Advance
  /\ UNCHANGED <<Same, store>>

Ld ==
  /\ At("LD")
  /\ LET v == get_lvar(I.i, I.j) IN
     \/ /\ v = CRASH /\ Crash
     \/ /\ v # CRASH /\ Push(v) /\ Advance
        /\ UNCHANGED <<Same, store, genv>>

Ldc ==
  /\ At("LDC")
  /\ Push(IF I.v \in c.consts THEN lits[I.v] ELSE I.v)
  /\ Advance
  /\ UNCHANGED <<Same, store, genv>>

(* current_working_vm is NULL when the error object is allocated.          *)
Ldg ==
  /\ At("LDG")
  /\ LET found == I.x \in DOMAIN genv /\ genv[I.x] # NULL IN
     \/ found /\ Push(genv[I.x]) /\ Advance /\ UNCHANGED <<Same, store, genv>>
     \/ ~found /\ ReturnError(Survivors(GlobalItems \cup LocalItems(local.proc, local.list)))

Live(st, p, l) == Survivors(GlobalItems \cup VMItems(st) \cup LocalItems(p, l))

Ldf ==
  /\ At("LDF")
  /\ LET live == Live(s, local.proc, local.list) IN
     \/ Fails(live)
     \/ /\ Succeeds(live)
        /\ Allocates(live, [tag |-> "CLOSURE", code |-> I.code, env |-> e])
        /\ Push([obj |-> NewObj(live)])
        /\ Advance
        /\ roots' = RootsAfterGC /\ local' = LocalsAfterGC
        /\ UNCHANGED <<input, line, genv, e, c, d, args, status, result>>

Sel ==
  /\ At("SEL")
  /\ \/ Top = NULL /\ Crash
     \/ /\ Top # NULL
        /\ d' = <<[stack |-> <<>>, env |-> NewFrame, code |-> c, pc |-> Tail(pc)]>> \o d
        /\ frames' = WithFrame(NIL, 0)
        /\ c' = IF Top = FALSEV THEN I.f ELSE I.t
        /\ pc' = c'.ins
        /\ s' = Below
        /\ UNCHANGED <<input, line, heap, lits, genv, e, args, roots, local, status, result, gcs>>

Join ==
  /\ At("JOIN")
  /\ \/ d = <<>> /\ Crash
     \/ /\ d # <<>>
        /\ c' = Head(d).code /\ pc' = Head(d).pc /\ d' = Tail(d)
        /\ UNCHANGED <<input, line, store, genv, s, e, args, roots, local, status, result, gcs>>

Pop_Peeks == At("POP") /\ Advance /\ UNCHANGED <<s, Same, store, genv>>
Pop ==
  /\ At("POP")
  /\ s' = Below
  /\ Advance
  /\ UNCHANGED <<Same, store, genv>>

Rtn ==
  /\ At("RTN")
  /\ \/ (d = <<>> \/ Top = NULL) /\ Crash
     \/ /\ d # <<>> /\ Top # NULL
        /\ LET f == Head(d) IN
           /\ s' = <<Top>> \o f.stack
           /\ e' = f.env /\ c' = f.code /\ pc' = f.pc
           /\ d' = Tail(d)
        /\ UNCHANGED <<input, line, store, genv, args, roots, local, status, result, gcs>>

Stop ==
  /\ At("STOP")
  /\ \/ ~Printable(Top) /\ Crash
     \/ Printable(Top) /\ Return(Value(Top), roots) /\ UNCHANGED <<input, line, store, genv, gcs>>

(* The code ends without INST_STOP: pc is the null pointer.                *)
CodeEnds == status = "run" /\ pc = <<>> /\ Crash

(* INST_ARGS: args_list is registered again after a collection; the popped *)
(* item is in no root while new_cell_obj allocates, and CHECK_OBJ_MOVING   *)
(* finds its new address only if something else kept it.                   *)
ArgsBegin ==
  /\ At("ARGS") /\ ~args.on
  /\ args' = [on |-> TRUE, left |-> I.n, list |-> NIL]
  /\ UNCHANGED <<input, line, store, genv, machine, roots, local, status, result, gcs>>

ArgsCons ==
  /\ At("ARGS") /\ args.on /\ args.left > 0
  /\ LET live == Live(Below, local.proc, local.list) IN
     \/ Fails(live)
     \/ Succeeds(live) /\ Top = NULL /\ Crash
     \/ /\ Succeeds(live) /\ Top # NULL
        /\ Allocates(live, [tag |-> "CELL", car |-> Top, cdr |-> args.list])
        /\ args' = [args EXCEPT !.left = @ - 1, !.list = [obj |-> NewObj(live)]]
        /\ s' = Below
        /\ status' = IF Lost(Top, live) THEN "undefined" ELSE status
        /\ roots' = RootsAfterGC /\ local' = LocalsAfterGC
        /\ UNCHANGED <<input, line, genv, e, c, pc, d, result>>

ArgsEnd ==
  /\ At("ARGS") /\ args.on /\ args.left = 0
  /\ Push(args.list)
  /\ args' = NoArgs
  /\ Advance
  /\ UNCHANGED <<input, line, store, genv, e, c, d, roots, local, status, result, gcs>>

-----------------------------------------------------------------------------
(* INST_APP.  proc_obj and args_list are registered while a primitive      *)
(* runs; after a closure call their nodes stay in the list.                *)

Proc == Top
Actuals == IF Len(s) < 2 THEN NULL ELSE s[2]
Under == IF Len(s) < 2 THEN <<>> ELSE SubSeq(s, 3, Len(s))
AppLive == Survivors(GlobalItems \cup VMItems(Under) \cup Items(Proc) \cup Items(Actuals))

Applicable(v) == "prim" \in DOMAIN v \/ Tag(v) = "CLOSURE"

AppError ==
  /\ At("APP") /\ Proc # NULL /\ ~Applicable(Proc)
  /\ ReturnError(Survivors(GlobalItems \cup VMItems(Below) \cup Items(Proc)
                             \cup LocalItems(Proc, local.list)))

AppClosure ==
  /\ At("APP") /\ Proc # NULL /\ Tag(Proc) = "CLOSURE"
  /\ LET clo == heap[Proc.obj] IN
     /\ d' = <<[stack |-> Under, env |-> e, code |-> c, pc |-> Tail(pc)]>> \o d
     /\ s' = <<>>
     /\ frames' = WithFrame(Actuals, clo.env)
     /\ e' = NewFrame /\ c' = clo.code /\ pc' = clo.code.ins
     /\ roots' = [roots EXCEPT !.proc = @ + 1, !.list = @ + 1]
     /\ local' = [proc |-> Proc, list |-> Actuals]
  /\ UNCHANGED <<input, line, heap, lits, genv, args, status, result, gcs>>

(* The words of the locals now hold this call's values: a node a closure   *)
(* call left registered sees them.                                         *)
Locals == [proc |-> IF roots.proc > 0 THEN Proc ELSE NIL,
           list |-> IF roots.list > 0 THEN Actuals ELSE NIL]

(* new_vector_obj stores fill as it was before the allocation.             *)
StaleFill(o) == HeapFull /\ o.tag = "VECTOR" /\ o.elems # <<>> /\ IsRef(o.elems[1])

AppPrim ==
  /\ At("APP") /\ "prim" \in DOMAIN Proc
  /\ LET r == apply(Proc.prim, Actuals) IN
     \/ r.kind = "crash" /\ Crash
     \/ r.kind = "error" /\ ReturnError(AppLive)
     \/ /\ r.kind = "value"
        /\ s' = <<r.v>> \o Under
        /\ Advance
        /\ local' = Locals
        /\ UNCHANGED <<input, line, store, genv, e, c, d, args, roots, status, result, gcs>>
     \/ /\ r.kind = "store"
        /\ heap' = [heap EXCEPT ![r.vec].elems[r.at] = r.v]
        /\ s' = <<UNDEF>> \o Under
        /\ Advance
        /\ local' = Locals
        /\ UNCHANGED <<input, line, frames, lits, genv, e, c, d, args, roots, status, result, gcs>>
     \/ /\ r.kind = "exit"
        /\ status' = "exit"
        /\ UNCHANGED <<input, line, store, genv, machine, args, roots, local, result, gcs>>
     \/ /\ r.kind = "new" /\ Fails(AppLive)
     \/ /\ r.kind = "new" /\ Succeeds(AppLive)
        /\ Allocates(AppLive, r.o)
        /\ s' = <<[obj |-> NewObj(AppLive)]>> \o Under
        /\ Advance
        /\ status' = IF StaleFill(r.o) THEN "undefined" ELSE status
        /\ roots' = RootsAfterGC
        /\ local' = IF HeapFull THEN NoLocal ELSE Locals
        /\ UNCHANGED <<input, line, genv, e, c, d, args, result>>

AppNull == At("APP") /\ Proc = NULL /\ Crash

-----------------------------------------------------------------------------
Instruction ==
  \/ Def \/ Ld \/ Ldc \/ Ldg \/ Ldf \/ Sel \/ Join \/ Pop \/ Rtn \/ Stop
  \/ ArgsBegin \/ ArgsCons \/ ArgsEnd
  \/ AppError \/ AppClosure \/ AppPrim \/ AppNull \/ CodeEnds
Next == Load \/ ReadCollects \/ Instruction

Spec == Init /\ [][Next]_vars
FairSpec == Spec /\ WF_vars(Next)

-----------------------------------------------------------------------------
(* Properties.                                                             *)

(* Types; an object lies within the semispace.                             *)
Values(v) ==
  \/ IsRef(v) /\ v.obj \in 1 .. MaxObj
  \/ v \in {NIL, TRUEV, FALSEV, UNDEF, NULL} \/ "sym" \in DOMAIN v \/ "prim" \in DOMAIN v
TypeOK ==
  /\ DOMAIN heap \subseteq 1 .. MaxObj
  /\ \A f \in DOMAIN frames : Values(frames[f].vars) /\ frames[f].next \in Nat
  /\ \A k \in DOMAIN lits : Values(lits[k])
  /\ \A x \in DOMAIN genv : Values(genv[x])
  /\ \A n \in DOMAIN s : Values(s[n])
  /\ e \in Nat /\ gcs \in Nat
  /\ status \in {"idle", "run", "exit", "crash", "undefined"}
  /\ result.kind \in {"none", "value", "error"}
  /\ roots.proc \in Nat /\ roots.list \in Nat /\ roots.dead \in Nat

(* Every reference of the machine, the globals and the objects is to an    *)
(* object, a frame or a constant that the collector kept: the stacks and   *)
(* the frames in the dump, the code a closure returns to and the registered *)
(* locals are all found.  The steps that lose a reference end in           *)
(* "undefined".                                                            *)
AllItems ==
  {[obj |-> i] : i \in DOMAIN heap} \cup {[frame |-> f] : f \in DOMAIN frames}
    \cup {[lit |-> k] : k \in DOMAIN lits}
RefsValid ==
  status # "undefined" =>
    /\ GlobalItems \cup VMItems(s) \cup LocalItems(local.proc, local.list) \subseteq AllItems
    /\ \A x \in AllItems : Reached(x) \subseteq AllItems

(* An error object is never on a stack, in a list or in a variable: it is  *)
(* live only between its allocation and the line the repl prints.  This is *)
(* why gc.c needs no case for OBJ_ERROR, whose message nothing marks, and  *)
(* why the error branch of INST_RTN, which leaves current_working_vm set,  *)
(* is never taken.                                                         *)
ErrorsNeverStored ==
  LET errors == {[obj |-> i] : i \in {j \in DOMAIN heap : heap[j].tag = "ERROR"}} IN
  (GlobalItems \cup VMItems(s) \cup UNION {Reached(x) : x \in AllItems}) \cap errors = {}

(* Each instruction of compiled code finds what it takes: the operands on  *)
(* this call's stack, under JOIN the dump entry of its SEL, under RTN that *)
(* of its call with one value to return, at STOP one value and no dump.    *)
Operands ==
  status = "run" /\ pc # <<>> =>
    CASE I.op \in {"DEF", "SEL", "POP"} -> Len(s) >= 1
      [] I.op = "APP" -> Len(s) >= 2
      [] I.op = "ARGS" -> Len(s) >= (IF args.on THEN args.left ELSE I.n)
      [] I.op = "JOIN" -> d # <<>> /\ Head(d).stack = <<>>
      [] I.op = "RTN" -> Len(s) = 1 /\ d # <<>>
      [] I.op = "STOP" -> Len(s) = 1 /\ d = <<>>
      [] OTHER -> TRUE

(* Every line is answered or ends the program: no cycle of instructions    *)
(* and collections goes on for ever (the programs of the instance are      *)
(* recursive over finite lists).                                           *)
Answered == <>(status \in {"exit", "crash", "undefined"} \/ (status = "idle" /\ input = <<>>))

(* The comment in repl (repl.c:99-100): a second collection before         *)
(* reset_gc_state is called again is not permitted.                        *)
OneCollectionPerCycle == gcs <= 1

(* The same comment: it is the second collection that has unexpected       *)
(* results.                                                                *)
FirstCollectionHarmless == pc # <<>> /\ gcs <= 1 => status # "undefined"

(* prim_make_vector answers a negative size with the message "first        *)
(* argument is not positive integer" (primitive.c:197).                    *)
NegativeSizeReported ==
  status = "crash" /\ pc # <<>> /\ Head(pc).op = "APP" => ~(Proc = PrimEnv["make-vector"] /\ IsInt(First(Actuals)))

=============================================================================
