-------------------------- MODULE Processors_proofs --------------------------
(***************************************************************************)
(* The processors of Processors implement the Pipeline, and a halt in a    *)
(* graph keeps the failed event from what depends on it, for every graph,  *)
(* every mix of exception handlers, ring size and bound.                   *)
(***************************************************************************)
EXTENDS Processors, TLAPS

(* The invariant holds at first: nothing has moved.                        *)
LEMMA Initially == Init => IInv
<1> SUFFICES ASSUME Init PROVE IInv
  OBVIOUS
<1>1. LineTypes
  <2>1. -1 \in Nat \union {-1} /\ -1 \in Int /\ "new" \in StageNames
    BY DEF StageNames
  <2> QED
    BY <2>1 DEF Init, LineTypes
<1>2. NewUntouched /\ BatchAvailable /\ HaltedStay
  BY DEF Init, NewUntouched, BatchAvailable, HaltedStay, Halted, Procs
<1> QED
  BY <1>1, <1>2 DEF IInv

(* Every step preserves the invariant.  Sequences only grow, so that what  *)
(* was available for a batch stays so while the batch is worked off.       *)
LEMMA Inductive == IInv /\ [Next]_vars => IInv'
<1> SUFFICES ASSUME IInv, [Next]_vars PROVE IInv'
  OBVIOUS
<1> USE UpstreamAssumption DEF Procs, IInv, LineTypes, NewUntouched, BatchAvailable, HaltedStay, Halted, Needs, StageNames, facadeVars, logVars, errVars, retryVars, stopVars, waitVars, Go
<1>1. CASE HandleEvents
  BY <1>1 DEF HandleEvents
<1>2. CASE HandleGraph
  BY <1>2 DEF HandleGraph
<1>3. CASE Start
  BY <1>3 DEF Start
<1>4. CASE Publish
  BY <1>4 DEF Publish
<1>5. CASE ParentEnds
  BY <1>5 DEF ParentEnds
<1>6. CASE UserStop
  BY <1>6 DEF UserStop, Once
<1>7. CASE Wait
  BY <1>7 DEF Wait
<1>8. ASSUME NEW c \in Procs, StartProcessor(c) PROVE IInv'
  BY <1>8 DEF StartProcessor
<1>9. ASSUME NEW c \in Procs, OnStart(c) PROVE IInv'
  BY <1>9 DEF OnStart, Succeeds, Fails, StoreTerminal
<1>10. ASSUME NEW c \in Procs, PollBarrier(c) PROVE IInv'
  BY <1>10 DEF PollBarrier, StoreTerminal
<1>11. ASSUME NEW c \in Procs, LookBarrier(c) PROVE IInv'
  <2>1. PICK s \in -1 .. MaxSeq :
          /\ IsAvailable(c, s)
          /\ IF seq[c] < s
             THEN avail' = [avail EXCEPT ![c] = s] /\ Go(c, "batch")
             ELSE Interrupted(c) /\ Go(c, "wait") /\ UNCHANGED avail
    BY <1>11 DEF LookBarrier
  <2>2. s \in Int /\ s <= cursor /\ \A d \in Needs(c) : s <= seq[d]
    BY <2>1 DEF IsAvailable
  <2>3. /\ stage[c] = "look" /\ mode' = mode /\ started' = started
        /\ cursor' = cursor /\ seq' = seq /\ haltedAt' = haltedAt
    BY <1>11 DEF LookBarrier
  <2>4. CASE seq[c] < s
    BY <2>1, <2>2, <2>3, <2>4
  <2>5. CASE ~ (seq[c] < s)
    BY <2>1, <2>3, <2>5
  <2> QED
    BY <2>4, <2>5
<1>12. ASSUME NEW c \in Procs, OnBatchStart(c) PROVE IInv'
  BY <1>12 DEF OnBatchStart, Succeeds, Fails, StoreTerminal
<1>13. ASSUME NEW c \in Procs, OnEvent(c) PROVE IInv'
  BY <1>13 DEF OnEvent, Advance
<1>14. ASSUME NEW c \in Procs, RetryEvent(c) PROVE IInv'
  BY <1>14 DEF RetryEvent, EventFails
<1>15. ASSUME NEW c \in Procs, SkipEvent(c) PROVE IInv'
  BY <1>15 DEF SkipEvent, EventFails, Advance, GiveUp
<1>16. ASSUME NEW c \in Procs, HaltOnEvent(c) PROVE IInv'
  BY <1>16 DEF HaltOnEvent, EventFails, GiveUp, HaltAdvances
<1>17. ASSUME NEW c \in Procs, NotifyHalt(c) PROVE IInv'
  BY <1>17 DEF NotifyHalt, Once, Finished
<1>18. ASSUME NEW c \in Procs, OnShutdown(c) PROVE IInv'
  BY <1>18 DEF OnShutdown, Succeeds, Fails, StoreTerminal
<1>19. ASSUME NEW c \in Procs, RemoveGating(c) PROVE IInv'
  BY <1>19 DEF RemoveGating
<1>20. ASSUME NEW c \in Procs, Done(c) PROVE IInv'
  BY <1>20 DEF Done
<1>21. ASSUME NEW c \in Procs, ProcessorWait(c) PROVE IInv'
  BY <1>21 DEF ProcessorWait
<1>22. ASSUME NEW c \in Procs, StopOnce(c) PROVE IInv'
  BY <1>22 DEF StopOnce, Once, Finished
<1>23. ASSUME NEW s \in Stoppers, StopProcessor(s) PROVE IInv'
  BY <1>23 DEF StopProcessor
<1>24. CASE UNCHANGED vars
  BY <1>24 DEF vars
<1> QED
  BY <1>1, <1>2, <1>3, <1>4, <1>5, <1>6, <1>7, <1>8, <1>9, <1>10, <1>11, <1>12, <1>13, <1>14, <1>15, <1>16, <1>17, <1>18, <1>19, <1>20, <1>21, <1>22, <1>23, <1>24 DEF Next, Run, Facade

(* The invariant holds in every reachable state.                           *)
LEMMA Invariant == Spec => []IInv
  BY Initially, Inductive, PTL DEF Spec

(* Whatever processor halts at an event of a graph, no processor that      *)
(* depends on it handles that event or a later one.                        *)
THEOREM HaltIsContained == Spec => []HaltContained
<1>1. IInv => HaltContained
  <2> SUFFICES ASSUME IInv, mode = "graph",
                      NEW c \in Halted, NEW d \in Procs,
                      c \in Upstream[d], stage[d] = "handle"
               PROVE  seq[d] + 1 < haltedAt[c]
    BY DEF HaltContained
  <2>1. c \in Procs /\ haltedAt[c] = seq[c] + 1
    BY DEF IInv, HaltedStay, Halted
  <2>2. seq[d] < avail[d] /\ avail[d] <= seq[c]
    BY DEF IInv, BatchAvailable, Needs
  <2>3. seq[c] \in Int /\ seq[d] \in Int /\ avail[d] \in Int
    BY <2>1 DEF IInv, LineTypes
  <2> QED
    BY <2>1, <2>2, <2>3
<1> QED
  BY <1>1, Invariant, PTL


(* The variables the Pipeline sees.                                        *)
lineVars == <<mode, cursor, seq, haltedAt>>

(* Steps that leave them alone are stuttering steps of the Pipeline.       *)
LEMMA Unseen == UNCHANGED lineVars => UNCHANGED Line!vars
  BY DEF lineVars, Line!vars, Needs, Halted

(* A registration puts the Pipeline together.                              *)
LEMMA Registration ==
  ASSUME IInv, HandleEvents \/ HandleGraph
  PROVE  Line!Assemble
<1>1. \A c \in Procs : seq[c] = -1
  BY DEF HandleEvents, HandleGraph, IInv, NewUntouched
<1>2. [c \in Procs |-> Needs(c)]' \in [Procs -> SUBSET Procs]
  BY UpstreamAssumption DEF Needs
<1>3. UNCHANGED <<cursor, seq, haltedAt>>
  BY DEF HandleEvents, HandleGraph
<1> QED
  BY <1>1, <1>2, <1>3 DEF Line!Assemble, Halted

(* A processor at an event is ready for it in the sense of the Pipeline.   *)
LEMMA HandlesReady ==
  ASSUME IInv, NEW c \in Procs, stage[c] = "handle"
  PROVE  /\ Line!Ready(c)
         /\ mode # "unset"
<1>1. seq[c] < avail[c] /\ avail[c] <= cursor /\ \A d \in Needs(c) : avail[c] <= seq[d]
  BY DEF IInv, BatchAvailable
<1>2. seq \in [Procs -> Int] /\ avail[c] \in Int /\ cursor \in Int
  BY DEF IInv, LineTypes
<1>3. Needs(c) \subseteq Procs
  BY UpstreamAssumption DEF Needs
<1>4. seq[c] < cursor /\ \A d \in Needs(c) : seq[c] < seq[d]
  BY <1>1, <1>2, <1>3
<1>5. c \notin Halted
  BY DEF IInv, HaltedStay
<1>6. mode # "unset"
  BY DEF IInv, NewUntouched
<1> QED
  BY <1>4, <1>5, <1>6 DEF Line!Ready

(* Handled and skipped events are finished.                                *)
LEMMA Finishes ==
  ASSUME IInv, NEW c \in Procs, OnEvent(c) \/ SkipEvent(c)
  PROVE  Line!Finish(c)
<1>1. stage[c] = "handle" /\ seq' = [seq EXCEPT ![c] = @ + 1]
  BY DEF OnEvent, SkipEvent, EventFails, Advance
<1>2. UNCHANGED <<mode, cursor, haltedAt>>
  BY DEF OnEvent, SkipEvent, EventFails, facadeVars
<1> QED
  BY <1>1, <1>2, HandlesReady DEF Line!Finish, Needs, Halted

(* A halting event fails; whether it counts as handled depends on the mode.*)
LEMMA FailsStage ==
  ASSUME IInv, NEW c \in Procs, HaltOnEvent(c)
  PROVE  Line!Fail(c)
<1>1. /\ stage[c] = "handle"
      /\ seq' = IF HaltAdvances THEN [seq EXCEPT ![c] = @ + 1] ELSE seq
      /\ haltedAt' = [haltedAt EXCEPT ![c] = seq[c] + 1]
      /\ UNCHANGED <<mode, cursor>>
  BY DEF HaltOnEvent, EventFails, facadeVars
<1>2. Line!Ready(c) /\ mode \in {"fan_out", "graph"}
  BY <1>1, HandlesReady DEF IInv, LineTypes
<1>3. seq[c] + 1 # -1 /\ haltedAt \in [Procs -> Int]
  BY DEF IInv, LineTypes
<1>4. Halted' = Halted \union {c}
  BY <1>1, <1>3 DEF Halted
<1>5. seq' = IF mode = "graph" THEN seq ELSE [seq EXCEPT ![c] = @ + 1]
  BY <1>1, <1>2 DEF HaltAdvances
<1> QED
  BY <1>1, <1>2, <1>4, <1>5 DEF Line!Fail, Needs

(* Every step is a step of the Pipeline or none.                           *)
LEMMA StepSimulation == IInv /\ [Next]_vars => [Line!Next]_(Line!vars)
<1> SUFFICES ASSUME IInv, [Next]_vars PROVE [Line!Next]_(Line!vars)
  OBVIOUS
<1> USE DEF lineVars, facadeVars, logVars
<1>1. CASE HandleEvents \/ HandleGraph
  BY <1>1, Registration DEF Line!Next
<1>2. CASE Publish
  BY <1>2 DEF Publish, Line!Next, Line!Publish, Needs, Halted
<1>3. ASSUME NEW c \in Procs, OnEvent(c) \/ SkipEvent(c) PROVE Line!Next
  BY <1>3, Finishes DEF Line!Next
<1>4. ASSUME NEW c \in Procs, HaltOnEvent(c) PROVE Line!Next
  BY <1>4, FailsStage DEF Line!Next
<1>5. CASE Start
  BY <1>5, Unseen DEF Start
<1>6. CASE ParentEnds
  BY <1>6, Unseen DEF ParentEnds
<1>7. CASE UserStop
  BY <1>7, Unseen DEF UserStop
<1>8. CASE Wait
  BY <1>8, Unseen DEF Wait
<1>9. ASSUME NEW c \in Procs, StartProcessor(c) PROVE UNCHANGED lineVars
  BY <1>9 DEF StartProcessor
<1>10. ASSUME NEW c \in Procs, OnStart(c) PROVE UNCHANGED lineVars
  BY <1>10 DEF OnStart, Succeeds, Fails
<1>11. ASSUME NEW c \in Procs, PollBarrier(c) PROVE UNCHANGED lineVars
  BY <1>11 DEF PollBarrier
<1>12. ASSUME NEW c \in Procs, LookBarrier(c) PROVE UNCHANGED lineVars
  BY <1>12 DEF LookBarrier
<1>13. ASSUME NEW c \in Procs, OnBatchStart(c) PROVE UNCHANGED lineVars
  BY <1>13 DEF OnBatchStart, Succeeds, Fails
<1>14. ASSUME NEW c \in Procs, RetryEvent(c) PROVE UNCHANGED lineVars
  BY <1>14 DEF RetryEvent, EventFails
<1>15. ASSUME NEW c \in Procs, NotifyHalt(c) PROVE UNCHANGED lineVars
  BY <1>15 DEF NotifyHalt
<1>16. ASSUME NEW c \in Procs, OnShutdown(c) PROVE UNCHANGED lineVars
  BY <1>16 DEF OnShutdown, Succeeds, Fails
<1>17. ASSUME NEW c \in Procs, RemoveGating(c) PROVE UNCHANGED lineVars
  BY <1>17 DEF RemoveGating
<1>18. ASSUME NEW c \in Procs, Done(c) PROVE UNCHANGED lineVars
  BY <1>18 DEF Done
<1>19. ASSUME NEW c \in Procs, ProcessorWait(c) PROVE UNCHANGED lineVars
  BY <1>19 DEF ProcessorWait
<1>20. ASSUME NEW c \in Procs, StopOnce(c) PROVE UNCHANGED lineVars
  BY <1>20 DEF StopOnce
<1>21. ASSUME NEW s \in Stoppers, StopProcessor(s) PROVE UNCHANGED lineVars
  BY <1>21 DEF StopProcessor
<1>22. CASE UNCHANGED vars
  BY <1>22, Unseen DEF vars
<1> QED
  BY Unseen, <1>1, <1>2, <1>3, <1>4, <1>5, <1>6, <1>7, <1>8, <1>9, <1>10, <1>11, <1>12, <1>13, <1>14, <1>15, <1>16, <1>17, <1>18, <1>19, <1>20, <1>21, <1>22 DEF Next, Run, Facade

(* Events pass through the processors in order, behind what they depend on *)
(* and not beyond a halt: the processors implement the Pipeline.           *)
THEOREM ImplementsPipeline == Spec => PipelineSpec
<1>1. Init => Line!Init
  BY DEF Init, Line!Init, Needs, Halted
<1> QED
  BY <1>1, Invariant, StepSimulation, PTL DEF Spec, PipelineSpec, Line!Spec


(* A task reports only after the processor has left the gating set and     *)
(* stored its last error, because the WaitGroup is told last.              *)
LEMMA EndInductive == IInv /\ EndInv /\ [Next]_vars => EndInv'
<1> SUFFICES ASSUME IInv, EndInv, [Next]_vars PROVE EndInv'
  OBVIOUS
<1> USE DEF EndInv, GatingRuns, TasksReport, HaltsTerminal, Halted, StageNames,
            facadeVars, logVars, errVars, retryVars, stopVars, waitVars, Go
<1>1. CASE HandleEvents
  BY <1>1 DEF HandleEvents, IInv, NewUntouched
<1>2. CASE HandleGraph
  BY <1>2 DEF HandleGraph, Leaves, IInv, NewUntouched
<1>3. CASE Start
  BY <1>3 DEF Start
<1>4. CASE Publish
  BY <1>4 DEF Publish
<1>5. CASE ParentEnds
  BY <1>5 DEF ParentEnds
<1>6. CASE UserStop
  BY <1>6 DEF UserStop
<1>7. CASE Wait
  BY <1>7 DEF Wait
<1>8. ASSUME NEW c \in Procs, StartProcessor(c) PROVE EndInv'
  BY <1>8 DEF StartProcessor
<1>9. ASSUME NEW c \in Procs, OnStart(c) PROVE EndInv'
  BY <1>9 DEF OnStart, Succeeds, Fails, StoreTerminal
<1>10. ASSUME NEW c \in Procs, PollBarrier(c) PROVE EndInv'
  BY <1>10 DEF PollBarrier, StoreTerminal
<1>11. ASSUME NEW c \in Procs, LookBarrier(c) PROVE EndInv'
  BY <1>11 DEF LookBarrier
<1>12. ASSUME NEW c \in Procs, OnBatchStart(c) PROVE EndInv'
  BY <1>12 DEF OnBatchStart, Succeeds, Fails, StoreTerminal
<1>13. ASSUME NEW c \in Procs, OnEvent(c) PROVE EndInv'
  BY <1>13 DEF OnEvent, Advance
<1>14. ASSUME NEW c \in Procs, RetryEvent(c) PROVE EndInv'
  BY <1>14 DEF RetryEvent, EventFails
<1>15. ASSUME NEW c \in Procs, SkipEvent(c) PROVE EndInv'
  BY <1>15 DEF SkipEvent, EventFails, Advance, GiveUp
<1>16. ASSUME NEW c \in Procs, HaltOnEvent(c) PROVE EndInv'
  <2>1. seq[c] + 1 \in Int
    BY DEF IInv, LineTypes
  <2>2. /\ stage[c] = "handle"
        /\ stage' = [stage EXCEPT ![c] = IF mode = "graph" THEN "notify" ELSE "shutdown"]
        /\ haltedAt' = [haltedAt EXCEPT ![c] = seq[c] + 1]
        /\ terminal' = terminal \/ \E kind \in {"plain", "join"} :
                                      terminal' = [terminal EXCEPT ![c] = kind]
        /\ terminal'[c] # "none"
        /\ UNCHANGED <<gating, task, reported>>
    BY <1>16 DEF HaltOnEvent, EventFails, StoreTerminal
  <2>3. terminal' \in [Procs -> {"none", "plain", "join"}]
    BY <2>2
  <2>4. GatingRuns' /\ TasksReport'
    BY <2>2
  <2>5. HaltsTerminal'
    BY <2>2
  <2> QED
    BY <2>1, <2>2, <2>3, <2>4, <2>5
<1>17. ASSUME NEW c \in Procs, NotifyHalt(c) PROVE EndInv'
  BY <1>17 DEF NotifyHalt
<1>18. ASSUME NEW c \in Procs, OnShutdown(c) PROVE EndInv'
  BY <1>18 DEF OnShutdown, Succeeds, Fails, StoreTerminal
<1>19. ASSUME NEW c \in Procs, RemoveGating(c) PROVE EndInv'
  BY <1>19 DEF RemoveGating
<1>20. ASSUME NEW c \in Procs, Done(c) PROVE EndInv'
  BY <1>20 DEF Done
<1>21. ASSUME NEW c \in Procs, ProcessorWait(c) PROVE EndInv'
  BY <1>21 DEF ProcessorWait, HasEnded, AfterWait
<1>22. ASSUME NEW c \in Procs, StopOnce(c) PROVE EndInv'
  BY <1>22 DEF StopOnce
<1>23. ASSUME NEW s \in Stoppers, StopProcessor(s) PROVE EndInv'
  BY <1>23 DEF StopProcessor
<1>24. CASE UNCHANGED vars
  BY <1>24 DEF vars
<1> QED
  BY <1>1, <1>2, <1>3, <1>4, <1>5, <1>6, <1>7, <1>8, <1>9, <1>10, <1>11, <1>12, <1>13, <1>14, <1>15, <1>16, <1>17, <1>18, <1>19, <1>20, <1>21, <1>22, <1>23, <1>24 DEF Next, Run, Facade

(* Wait returns when all callbacks have, nobody gates the producers any    *)
(* more and every terminal error is known.                                 *)
THEOREM WaitIsComplete == Spec => []WaitComplete
<1>1. Init => EndInv
  <2> SUFFICES ASSUME Init PROVE EndInv
    OBVIOUS
  <2>1. haltedAt \in [Procs -> Int] /\ stage \in [Procs -> StageNames]
    BY -1 \in Int DEF Init, StageNames
  <2> QED
    BY <2>1 DEF Init, EndInv, GatingRuns, TasksReport, HaltsTerminal, Halted
<1>2. EndInv => WaitComplete
  BY DEF EndInv, GatingRuns, TasksReport, HaltsTerminal, Halted, WaitComplete,
         Waited
<1> QED
  BY <1>1, <1>2, EndInductive, Invariant, PTL DEF Spec


(* Only registration, Start and the context change the facade's state.     *)
LEMMA FacadeFrame ==
  ASSUME [Next]_vars
  PROVE  \/ UNCHANGED facadeVars
         \/ HandleEvents \/ HandleGraph \/ Start \/ ParentEnds
  BY DEF Next, Run, Facade, vars, facadeVars, logVars, errVars,
         retryVars, stopVars, waitVars, Publish, UserStop, Wait,
         StartProcessor, OnStart, PollBarrier, LookBarrier,
         OnBatchStart, OnEvent, RetryEvent, SkipEvent, HaltOnEvent,
         NotifyHalt, OnShutdown, RemoveGating, Done, ProcessorWait,
         StopOnce, StopProcessor, Succeeds, Fails, EventFails, Advance,
         GiveUp

(* Only publications, looks at the barrier and event steps move sequences. *)
LEMMA RunFrame ==
  ASSUME [Next]_vars
  PROVE  \/ UNCHANGED <<cursor, seq, avail, haltedAt>>
         \/ Publish
         \/ \E c \in Procs :
              LookBarrier(c) \/ OnEvent(c) \/ SkipEvent(c) \/ HaltOnEvent(c)
  BY DEF Next, Run, Facade, vars, facadeVars, logVars, errVars,
         retryVars, stopVars, waitVars, HandleEvents, HandleGraph,
         Start, ParentEnds, UserStop, Wait, StartProcessor, OnStart,
         PollBarrier, OnBatchStart, RetryEvent, NotifyHalt, OnShutdown,
         RemoveGating, Done, ProcessorWait, StopOnce, StopProcessor,
         Succeeds, Fails, EventFails, Advance, GiveUp

(* Only event steps touch the retry handlers.                              *)
LEMMA RetryFrame ==
  ASSUME [Next]_vars
  PROVE  \/ UNCHANGED retryVars
         \/ \E c \in Procs :
              OnEvent(c) \/ RetryEvent(c) \/ SkipEvent(c) \/ HaltOnEvent(c)
  BY DEF Next, Run, Facade, vars, facadeVars, logVars, errVars,
         retryVars, stopVars, waitVars, HandleEvents, HandleGraph,
         Start, Publish, ParentEnds, UserStop, Wait, StartProcessor,
         OnStart, PollBarrier, LookBarrier, OnBatchStart, NotifyHalt,
         OnShutdown, RemoveGating, Done, ProcessorWait, StopOnce,
         StopProcessor, Succeeds, Fails, EventFails, Advance, GiveUp

(* Only the callers of Stop stop processors, one after the other.          *)
LEMMA StopFrame ==
  ASSUME [Next]_vars
  PROVE  \/ UNCHANGED stopVars
         \/ \E s \in Stoppers : Once(s) /\ UNCHANGED stopped
         \/ \E s \in Stoppers : StopProcessor(s)
  BY DEF Stoppers, Next, Run, Facade, vars, facadeVars, logVars, errVars,
         retryVars, stopVars, waitVars, HandleEvents, HandleGraph,
         Start, Publish, ParentEnds, UserStop, Wait, StartProcessor,
         OnStart, PollBarrier, LookBarrier, OnBatchStart, OnEvent,
         RetryEvent, SkipEvent, HaltOnEvent, NotifyHalt, OnShutdown,
         RemoveGating, Done, ProcessorWait, StopOnce, Succeeds, Fails,
         EventFails, Advance, GiveUp

(* The facade's part of TypeOK is kept: Start needs a registration.        *)
LEMMA FacadeInductive ==
  ASSUME FacadeType, [Next]_vars
  PROVE  FacadeType'
<1> USE DEF FacadeType
<1>1. CASE UNCHANGED facadeVars
  BY <1>1 DEF facadeVars
<1>2. CASE HandleEvents \/ HandleGraph
  <2>1. mode' \in {"fan_out", "graph"} /\ UNCHANGED <<started, parent>>
    BY <1>2 DEF HandleEvents, HandleGraph
  <2> QED
    BY <2>1
<1>3. CASE Start
  BY <1>3 DEF Start
<1>4. CASE ParentEnds
  BY <1>4 DEF ParentEnds
<1> QED
  BY <1>1, <1>2, <1>3, <1>4, FacadeFrame

(* The processors' part of TypeOK is kept: a Sequence never passes what is *)
(* published, because a batch does not.                                    *)
LEMMA RunInductive ==
  ASSUME IInv, IInv', RunType, [Next]_vars
  PROVE  RunType'
<1>1. /\ stage' \in [Procs -> StageNames]
      /\ \A c \in Procs : stage'[c] \in {"batch", "handle"} =>
           seq'[c] < avail'[c] /\ avail'[c] <= cursor'
  BY DEF IInv, LineTypes, BatchAvailable
<1> DEFINE Counters ==
      /\ cursor \in -1 .. MaxSeq
      /\ seq \in [Procs -> -1 .. MaxSeq]
      /\ \A c \in Procs : seq[c] <= cursor
      /\ avail \in [Procs -> -1 .. MaxSeq]
      /\ haltedAt \in [Procs -> -1 .. MaxSeq]
<1>2. ASSUME UNCHANGED <<cursor, seq, avail, haltedAt>> PROVE Counters'
  BY <1>2 DEF RunType
<1>3. ASSUME Publish PROVE Counters'
  <2>1. cursor < MaxSeq /\ cursor' = cursor + 1 /\ UNCHANGED <<seq, avail, haltedAt>>
    BY <1>3 DEF Publish, retryVars
  <2> QED
    BY <2>1, MaxSeqAssumption DEF RunType
<1>4. ASSUME NEW c \in Procs, LookBarrier(c) PROVE Counters'
  <2>1. UNCHANGED <<cursor, seq, haltedAt>>
    BY <1>4 DEF LookBarrier, logVars
  <2>2. \/ UNCHANGED avail
        \/ \E s \in -1 .. MaxSeq : avail' = [avail EXCEPT ![c] = s]
    BY <1>4 DEF LookBarrier
  <2> QED
    BY <2>1, <2>2 DEF RunType
<1>5. ASSUME NEW c \in Procs, stage[c] = "handle"
      PROVE  seq[c] + 1 <= cursor /\ seq[c] + 1 \in -1 .. MaxSeq
  <2>1. seq[c] < avail[c] /\ avail[c] <= cursor
    BY <1>5 DEF RunType
  <2>2. seq[c] \in -1 .. MaxSeq /\ avail[c] \in -1 .. MaxSeq /\ cursor \in -1 .. MaxSeq
    BY DEF RunType
  <2> QED
    BY <2>1, <2>2, MaxSeqAssumption
<1>6. ASSUME NEW c \in Procs, OnEvent(c) \/ SkipEvent(c) PROVE Counters'
  <2>1. /\ stage[c] = "handle" /\ seq' = [seq EXCEPT ![c] = @ + 1]
        /\ UNCHANGED <<cursor, avail, haltedAt>>
    BY <1>6 DEF OnEvent, SkipEvent, EventFails, Advance
  <2> QED
    BY <1>5, <2>1 DEF RunType
<1>7. ASSUME NEW c \in Procs, HaltOnEvent(c) PROVE Counters'
  <2>1. /\ stage[c] = "handle"
        /\ seq' = [seq EXCEPT ![c] = @ + 1] \/ seq' = seq
        /\ haltedAt' = [haltedAt EXCEPT ![c] = seq[c] + 1]
        /\ UNCHANGED <<cursor, avail>>
    BY <1>7 DEF HaltOnEvent, EventFails
  <2> QED
    BY <1>5, <2>1 DEF RunType
<1> QED
  BY <1>1, <1>2, <1>3, <1>4, <1>6, <1>7, RunFrame DEF RunType

(* The gating set stays the registered processors that have not left it: a *)
(* processor leaves it once, on its way out.                               *)
LEMMA GatingInductive ==
  ASSUME IInv, RunType, FacadeType, GatingType, [Next]_vars
  PROVE  GatingType'
<1> DEFINE Left(c) == stage[c] \in {"done", "ended"}
<1> USE DEF GatingType, Registered, Go, RunType
<1>1. CASE HandleEvents \/ HandleGraph
  <2>1. \A c \in Procs : stage[c] = "new"
    BY <1>1 DEF HandleEvents, HandleGraph, IInv, NewUntouched
  <2> QED
    BY <1>1, <2>1 DEF HandleEvents, HandleGraph, Leaves
<1>2. ASSUME NEW c \in Procs, RemoveGating(c) PROVE GatingType'
  <2>1. gating' = gating \ {c} /\ mode' = mode /\ stage' = [stage EXCEPT ![c] = "done"]
    BY <1>2 DEF RemoveGating, facadeVars
  <2> QED
    BY <2>1 DEF Leaves
<1>3. CASE UNCHANGED <<gating, mode>> /\ \A c \in Procs : Left(c)' <=> Left(c)
  BY <1>3 DEF Leaves
<1>4. \/ HandleEvents \/ HandleGraph
      \/ \E c \in Procs : RemoveGating(c)
      \/ UNCHANGED <<gating, mode>> /\ \A c \in Procs : Left(c)' <=> Left(c)
  BY DEF Next, Run, Facade, vars, facadeVars, logVars, errVars,
         retryVars, stopVars, waitVars, Start, Publish, ParentEnds,
         UserStop, Wait, StartProcessor, OnStart, PollBarrier,
         LookBarrier, OnBatchStart, OnEvent, RetryEvent, SkipEvent,
         HaltOnEvent, NotifyHalt, OnShutdown, Done, ProcessorWait,
         StopOnce, StopProcessor, Succeeds, Fails, EventFails, Advance,
         GiveUp
<1> QED
  BY <1>1, <1>2, <1>3, <1>4

(* Terminal errors, tasks and reports stay in their types.                 *)
LEMMA ErrorInductive ==
  ASSUME ErrorType, [Next]_vars
  PROVE  ErrorType'
<1>1. \/ UNCHANGED errVars
      \/ \E c \in Procs, kind \in {"plain", "join"} : StoreTerminal(c, kind)
  BY DEF Next, Run, Facade, vars, facadeVars, logVars, errVars,
         retryVars, stopVars, waitVars, HandleEvents, HandleGraph,
         Start, Publish, ParentEnds, UserStop, Wait, StartProcessor,
         OnStart, PollBarrier, LookBarrier, OnBatchStart, OnEvent,
         RetryEvent, SkipEvent, HaltOnEvent, NotifyHalt, OnShutdown,
         RemoveGating, Done, ProcessorWait, StopOnce, StopProcessor,
         Succeeds, Fails, EventFails, Advance, GiveUp
<1>2. terminal' \in [Procs -> {"none", "plain", "join"}] /\ crashed' \in BOOLEAN
  BY <1>1 DEF ErrorType, errVars, StoreTerminal
<1>3. \/ UNCHANGED waitVars
      \/ Wait
      \/ \E c \in Procs : ProcessorWait(c) \/ StopOnce(c)
  BY DEF Next, Run, Facade, vars, facadeVars, logVars, errVars,
         retryVars, stopVars, waitVars, HandleEvents, HandleGraph,
         Start, Publish, ParentEnds, UserStop, StartProcessor, OnStart,
         PollBarrier, LookBarrier, OnBatchStart, OnEvent, RetryEvent,
         SkipEvent, HaltOnEvent, NotifyHalt, OnShutdown, RemoveGating,
         Done, StopProcessor, Succeeds, Fails, EventFails, Advance,
         GiveUp
<1>4. task' \in [Procs -> {"none", "waiting", "once", "sent"}] /\ reported' \subseteq Procs
  BY <1>3 DEF ErrorType, waitVars, Wait, ProcessorWait, StopOnce, AfterWait
<1> QED
  BY <1>2, <1>4 DEF ErrorType

(* The callers of Stop stay within the processors.                         *)
LEMMA StopInductive ==
  ASSUME StopType, [Next]_vars
  PROVE  StopType'
<1> USE NAssumption DEF StopType, Procs
<1>1. CASE UNCHANGED stopVars
  BY <1>1 DEF stopVars
<1>2. ASSUME NEW s \in Stoppers, Once(s), UNCHANGED stopped PROVE StopType'
  BY <1>2 DEF Once
<1>3. ASSUME NEW s \in Stoppers, StopProcessor(s) PROVE StopType'
  <2>1. /\ at[s] \in 0 .. N - 1
        /\ stopped' = stopped \union {at[s] + 1}
        /\ at' = [at EXCEPT ![s] = @ + 1]
    BY <1>3 DEF StopProcessor
  <2>2. at[s] + 1 \in 1 .. N /\ at[s] + 1 \in -1 .. N
    BY <2>1
  <2>3. stopped' \subseteq Procs
    BY <2>1, <2>2
  <2>4. at' \in [Stoppers -> -1 .. N]
    BY <2>1, <2>2
  <2> QED
    BY <2>3, <2>4
<1> QED
  BY <1>1, <1>2, <1>3, StopFrame

(* Attempts stay within MaxRetries, whoever shares a handler.              *)
LEMMA RetryInductive ==
  ASSUME RetryType, [Next]_vars
  PROVE  RetryType'
<1> USE RetryAssumption DEF RetryType
<1>1. CASE UNCHANGED retryVars
  BY <1>1 DEF retryVars
<1>2. ASSUME NEW c \in Procs, NEW n \in 0 .. MaxRetries, SetAttempts(c, n)
      PROVE  attempts' \in [Procs -> [0 .. MaxSeq -> 0 .. MaxRetries]]
  BY <1>2, PolicyAssumption DEF SetAttempts
<1>3. ASSUME NEW c \in Procs, OnEvent(c) \/ SkipEvent(c) \/ HaltOnEvent(c)
      PROVE  RetryType'
  <2>1. /\ SetAttempts(c, 0)
        /\ tries' = [tries EXCEPT ![c] = 0]
        /\ gaveUp' = gaveUp \/ gaveUp' = [gaveUp EXCEPT ![c] = tries[c] + 1]
    BY <1>3 DEF OnEvent, SkipEvent, HaltOnEvent, Advance, GiveUp
  <2>2. attempts' \in [Procs -> [0 .. MaxSeq -> 0 .. MaxRetries]]
    BY <1>2, <2>1
  <2>3. tries[c] + 1 \in Nat
    OBVIOUS
  <2>4. tries' \in [Procs -> Nat] /\ gaveUp' \in [Procs -> Nat]
    BY <2>1, <2>3
  <2> QED
    BY <2>2, <2>4
<1>4. ASSUME NEW c \in Procs, RetryEvent(c)
      PROVE  RetryType'
  <2>1. attempts' \in [Procs -> [0 .. MaxSeq -> 0 .. MaxRetries]]
    <3>1. CASE Policy[c] = "retry"
      <4>1. Attempts(c) < MaxRetries
        BY <1>4, <3>1 DEF RetryEvent, EventActions, Attempts
      <4>2. attempts' = [attempts EXCEPT ![Handler[c]][seq[c] + 1] = Attempts(c) + 1]
        BY <1>4, <3>1 DEF RetryEvent, SetAttempts
      <4>3. CASE seq[c] + 1 \in 0 .. MaxSeq
        <5>1. Attempts(c) \in 0 .. MaxRetries
          BY <4>3, PolicyAssumption DEF Attempts
        <5>2. Attempts(c) + 1 \in 0 .. MaxRetries
          BY <4>1, <5>1
        <5> QED
          BY <4>2, <5>2, PolicyAssumption
      <4>4. CASE seq[c] + 1 \notin 0 .. MaxSeq
        BY <4>2, <4>4, PolicyAssumption
      <4> QED
        BY <4>3, <4>4
    <3>2. CASE Policy[c] # "retry"
      BY <1>4, <3>2 DEF RetryEvent, SetAttempts
    <3> QED
      BY <3>1, <3>2
  <2>2. tries' \in [Procs -> Nat] /\ gaveUp' = gaveUp
    BY <1>4 DEF RetryEvent
  <2> QED
    BY <2>1, <2>2
<1> QED
  BY <1>1, <1>3, <1>4, RetryFrame

(* All variables stay in their types, whatever fails and whoever stops.    *)
THEOREM TypeCorrect == Spec => []TypeOK
<1>1. Init => TypeOK
  <2> SUFFICES ASSUME Init PROVE TypeOK
    OBVIOUS
  <2> USE NAssumption, RetryAssumption, MaxSeqAssumption DEF Init
  <2>1. FacadeType /\ GatingType /\ ErrorType
    BY DEF FacadeType, GatingType, ErrorType, Registered
  <2>2. -1 \in -1 .. MaxSeq /\ 0 \in 0 .. MaxRetries /\ -1 \in -1 .. N /\ "new" \in StageNames
    BY DEF StageNames
  <2>3. RunType
    BY <2>2 DEF RunType
  <2>4. RetryType /\ StopType
    BY <2>2 DEF RetryType, StopType
  <2> QED
    BY <2>1, <2>3, <2>4 DEF TypeOK
<1>2. IInv /\ IInv' /\ TypeOK /\ [Next]_vars => TypeOK'
  BY FacadeInductive, RunInductive, GatingInductive, ErrorInductive,
     RetryInductive, StopInductive DEF TypeOK
<1> QED
  BY <1>1, <1>2, Invariant, PTL DEF Spec


(* The steps with which a processor handles an event or fails to.          *)
EventStep(c) == OnEvent(c) \/ RetryEvent(c) \/ SkipEvent(c) \/ HaltOnEvent(c)

(* Steps that are not event steps leave Sequences and attempts alone.      *)
LEMMA EventFrame ==
  ASSUME [Next]_vars
  PROVE  UNCHANGED <<seq, retryVars>> \/ \E c \in Procs : EventStep(c)
  BY DEF EventStep, Next, Run, Facade, vars, facadeVars, logVars, errVars,
         retryVars, stopVars, waitVars, HandleEvents, HandleGraph,
         Start, Publish, ParentEnds, UserStop, Wait, StartProcessor,
         OnStart, PollBarrier, LookBarrier, OnBatchStart, NotifyHalt,
         OnShutdown, RemoveGating, Done, ProcessorWait, StopOnce,
         StopProcessor, Succeeds, Fails, EventFails, Advance, GiveUp

(* What the conjunct of AttemptsCounted says of processor c.               *)
Counted(c) ==
  /\ tries[c] \in 0 .. MaxRetries
  /\ gaveUp[c] \in {0, MaxRetries + 1}
  /\ \A s \in 0 .. MaxSeq : s > seq[c] =>
       attempts[Handler[c]][s] = IF s = seq[c] + 1 THEN tries[c] ELSE 0

(* With own handlers, an event step of one processor leaves alone what     *)
(* another counts.                                                         *)
LEMMA OthersCounted ==
  ASSUME OwnHandlers, RetryType, RunType,
         NEW c \in Procs, EventStep(c),
         NEW d \in Procs, d # c, Policy[d] = "retry", Counted(d)
  PROVE  Counted(d)'
<1>1. \/ attempts' = attempts
      \/ /\ Policy[c] = "retry"
         /\ \E n : attempts' = [attempts EXCEPT ![Handler[c]][seq[c] + 1] = n]
  BY DEF EventStep, OnEvent, RetryEvent, SkipEvent, HaltOnEvent, GiveUp, SetAttempts
<1>2. attempts'[Handler[d]] = attempts[Handler[d]]
  <2>1. Policy[c] = "retry" => Handler[c] # Handler[d]
    BY DEF OwnHandlers
  <2> QED
    BY <1>1, <2>1, PolicyAssumption DEF RetryType
<1>3. seq'[d] = seq[d] /\ tries'[d] = tries[d] /\ gaveUp'[d] = gaveUp[d]
  BY DEF EventStep, OnEvent, RetryEvent, SkipEvent, HaltOnEvent, GiveUp, Advance,
         RetryType, RunType
<1> QED
  BY <1>2, <1>3 DEF Counted

(* An event step of a processor counts its own failures: once more on a    *)
(* retry, from zero after it.                                              *)
LEMMA OwnCounted ==
  ASSUME RetryType, RunType, NEW c \in Procs, EventStep(c),
         Policy[c] = "retry", Counted(c)
  PROVE  Counted(c)'
<1> DEFINE h == Handler[c]
<1>1. stage[c] = "handle" /\ h \in Procs
  BY PolicyAssumption DEF EventStep, OnEvent, RetryEvent, SkipEvent, HaltOnEvent,
                          EventFails
<1>2. /\ seq[c] \in Int /\ seq[c] + 1 \in 0 .. MaxSeq /\ seq[c] + 1 > seq[c]
      /\ tries[c] \in Int /\ MaxRetries \in Nat /\ MaxSeq \in Nat
  <2>1. seq[c] < avail[c] /\ avail[c] <= cursor
    BY <1>1 DEF RunType
  <2>2. seq[c] \in -1 .. MaxSeq /\ avail[c] \in -1 .. MaxSeq /\ cursor \in -1 .. MaxSeq
    BY DEF RunType
  <2> QED
    BY <2>1, <2>2, RetryAssumption, MaxSeqAssumption DEF RetryType
<1>3. attempts[h][seq[c] + 1] = tries[c]
  BY <1>2 DEF Counted
<1>4. ASSUME NEW n, SetAttempts(c, n)
      PROVE  \A s \in 0 .. MaxSeq :
               attempts'[h][s] = IF s = seq[c] + 1 THEN n ELSE attempts[h][s]
  BY <1>1, <1>2, <1>4 DEF SetAttempts, RetryType
<1>5. ASSUME SetAttempts(c, 0), tries'[c] = 0,
             seq'[c] = seq[c] + 1 \/ seq'[c] = seq[c],
             gaveUp'[c] \in {0, MaxRetries + 1}
      PROVE  Counted(c)'
  <2>1. ASSUME NEW s \in 0 .. MaxSeq, s > seq'[c] PROVE attempts'[h][s] = 0
    <3>1. s > seq[c]
      BY <1>2, <1>5, <2>1
    <3> QED
      BY <1>4, <1>5, <3>1 DEF Counted
  <2> QED
    BY <1>2, <1>5, <2>1 DEF Counted
<1>6. CASE OnEvent(c)
  <2>1. SetAttempts(c, 0) /\ tries'[c] = 0 /\ seq'[c] = seq[c] + 1 /\ gaveUp'[c] = gaveUp[c]
    BY <1>6 DEF OnEvent, Advance, RetryType, RunType
  <2> QED
    BY <1>5, <2>1 DEF Counted
<1>7. CASE RetryEvent(c)
  <2>1. /\ tries[c] < MaxRetries /\ SetAttempts(c, tries[c] + 1)
        /\ tries'[c] = tries[c] + 1
        /\ seq' = seq /\ gaveUp' = gaveUp
    <3>1. tries[c] < MaxRetries
      BY <1>3, <1>7, RetryAssumption DEF RetryEvent, EventActions
    <3>2. SetAttempts(c, tries[c] + 1)
      BY <1>3, <1>7 DEF RetryEvent, Attempts
    <3>3. tries'[c] = tries[c] + 1 /\ seq' = seq /\ gaveUp' = gaveUp
      BY <1>7 DEF RetryEvent, RetryType
    <3> QED
      BY <3>1, <3>2, <3>3
  <2>2. ASSUME NEW s \in 0 .. MaxSeq, s > seq[c]
        PROVE  attempts'[h][s] = IF s = seq[c] + 1 THEN tries[c] + 1 ELSE 0
    BY <1>4, <2>1, <2>2 DEF Counted
  <2>3. tries[c] + 1 \in 0 .. MaxRetries
    BY <1>2, <2>1 DEF Counted
  <2> QED
    BY <2>1, <2>2, <2>3 DEF Counted
<1>8. CASE SkipEvent(c) \/ HaltOnEvent(c)
  <2>1. ~ (tries[c] < MaxRetries)
    BY <1>3, <1>8 DEF SkipEvent, HaltOnEvent, EventActions
  <2>2. tries[c] = MaxRetries
    BY <1>2, <2>1 DEF Counted
  <2>3. SetAttempts(c, 0) /\ gaveUp'[c] = tries[c] + 1 /\ tries'[c] = 0
    BY <1>8 DEF SkipEvent, HaltOnEvent, GiveUp, Advance, RetryType
  <2>4. seq'[c] = seq[c] + 1 \/ seq'[c] = seq[c]
    BY <1>8 DEF SkipEvent, HaltOnEvent, Advance, RunType
  <2> QED
    BY <1>5, <2>2, <2>3, <2>4
<1> QED
  BY <1>6, <1>7, <1>8 DEF EventStep

(* With a retry handler of its own, a processor gives an event up after    *)
(* exactly MaxRetries retries.                                             *)
THEOREM BudgetIsKept == ASSUME OwnHandlers PROVE Spec => []RetryBudget
<1>1. Init => AttemptsCounted
  <2> SUFFICES ASSUME Init PROVE AttemptsCounted
    OBVIOUS
  <2> QED
    BY RetryAssumption, MaxSeqAssumption, PolicyAssumption DEF Init, AttemptsCounted
<1>2. TypeOK /\ AttemptsCounted /\ [Next]_vars => AttemptsCounted'
  <2> SUFFICES ASSUME TypeOK, AttemptsCounted, [Next]_vars,
                      NEW d \in Procs, Policy[d] = "retry"
               PROVE  Counted(d)'
    BY DEF AttemptsCounted, Counted
  <2>1. Counted(d) /\ RetryType /\ RunType
    BY DEF AttemptsCounted, Counted, TypeOK
  <2>2. CASE UNCHANGED <<seq, retryVars>>
    BY <2>1, <2>2 DEF Counted, retryVars
  <2>3. ASSUME NEW c \in Procs, EventStep(c) PROVE Counted(d)'
    BY <2>1, <2>3, OthersCounted, OwnCounted
  <2> QED
    BY <2>2, <2>3, EventFrame
<1>3. AttemptsCounted => RetryBudget
  BY RetryAssumption DEF AttemptsCounted, RetryBudget
<1> QED
  BY <1>1, <1>2, <1>3, TypeCorrect, PTL DEF Spec

===============================================================================
