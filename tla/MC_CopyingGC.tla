----------------------------- MODULE MC_CopyingGC -----------------------------
(* Instances of CopyingGC for TLC: the code nodes and what refers to what.  *)
EXTENDS CopyingGC

CONSTANTS c1, c2

NoSub == [c \in Code |-> {}]
\* c1 loads the nested code c2 (INST_LDF or INST_SEL)
Nested == [c \in Code |-> IF c = c1 THEN Code \ {c1} ELSE {}]
=============================================================================
