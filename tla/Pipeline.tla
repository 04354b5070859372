------------------------------- MODULE Pipeline -------------------------------
(***************************************************************************)
(* What a set of event processors promises, in whatever way they wait,     *)
(* fail and stop: every stage takes every published event, one at a time   *)
(* and in order, after all stages it depends on have finished with it; a   *)
(* stage that failed terminally takes no further event.  In a graph the    *)
(* failed event stays unfinished, so that nobody downstream sees it; a     *)
(* plain handler finishes it, so that producers are not held back          *)
(* (src/docs/api-guide.md:301-311,                                         *)
(* src/docs/superpowers/specs/2026-06-23-disruptor-go-design.md:565-601).  *)
(***************************************************************************)
EXTENDS Integers

CONSTANT Stages

VARIABLES
  needs,      \* the stages each stage depends on
  isGraph,    \* whether a failed event stays unfinished
  published,  \* the last published event
  pos,        \* the last event each stage has finished
  failed      \* the stages that failed terminally

vars == <<needs, isGraph, published, pos, failed>>

Init ==
  /\ needs = [c \in Stages |-> {}]
  /\ isGraph = FALSE
  /\ published = -1
  /\ pos = [c \in Stages |-> -1]
  /\ failed = {}

(* The stages are put together once, before any of them has moved.         *)
Assemble ==
  /\ \A c \in Stages : pos[c] = -1
  /\ needs' \in [Stages -> SUBSET Stages]
  /\ isGraph' \in BOOLEAN
  /\ UNCHANGED <<published, pos, failed>>

Publish ==
  /\ published' = published + 1
  /\ UNCHANGED <<needs, isGraph, pos, failed>>

Ready(c) ==
  /\ c \notin failed
  /\ pos[c] < published
  /\ \A d \in needs[c] : pos[c] < pos[d]

Finish(c) ==
  /\ Ready(c)
  /\ pos' = [pos EXCEPT ![c] = @ + 1]
  /\ UNCHANGED <<needs, isGraph, published, failed>>

Fail(c) ==
  /\ Ready(c)
  /\ failed' = failed \union {c}
  /\ pos' = IF isGraph THEN pos ELSE [pos EXCEPT ![c] = @ + 1]
  /\ UNCHANGED <<needs, isGraph, published>>

Next == Assemble \/ Publish \/ \E c \in Stages : Finish(c) \/ Fail(c)

Spec == Init /\ [][Next]_vars
===============================================================================
