-------------------------- MODULE BlockingWait_proofs --------------------------
(***************************************************************************)
(* No wakeup is lost and no processor overtakes what it depends on, for    *)
(* every set of producers and of processors, every size of the ring and    *)
(* every bound; the slots are kept where the dependencies have no cycle.   *)
(***************************************************************************)
EXTENDS BlockingWait, WellFoundedInduction, TLAPS

(* Nobody waits at first, so nothing can have been missed.                 *)
LEMMA InvInit == Init => IInv
<1> SUFFICES ASSUME Init PROVE IInv
  OBVIOUS
<1>1. WaitTypes
  BY DEF Init, WaitTypes, Goroutines, Leaves, ProducerStages, ConsumerStages
<1>2. CurrentWaits /\ HooksSet /\ InterruptSignalled /\ ProgressSignalled
  BY DEF Init, CurrentWaits, HooksSet, InterruptSignalled, ProgressSignalled,
         InWait
<1> QED
  BY <1>1, <1>2 DEF IInv

(* Every step keeps the variables the argument reads in their types.       *)
LEMMA TypesStep ==
  ASSUME WaitTypes, [Next]_vars
  PROVE  WaitTypes'
<1> USE DisjointAssumption
    DEF WaitTypes, Goroutines, ProducerStages, ConsumerStages,
        logVars, workVars, stopVars
<1>1. ASSUME NEW p \in Producers, Request(p) PROVE WaitTypes'
  BY <1>1 DEF Request, Moves
<1>2. ASSUME NEW p \in Producers, Cancel(p) PROVE WaitTypes'
  BY <1>2 DEF Cancel, End
<1>3. ASSUME NEW p \in Producers, PollContext(p) PROVE WaitTypes'
  BY <1>3 DEF PollContext, Moves
<1>4. ASSUME NEW p \in Producers, Claim(p) PROVE WaitTypes'
  BY <1>4 DEF Claim, Moves
<1>5. ASSUME NEW p \in Producers, Refused(p) PROVE WaitTypes'
  BY <1>5 DEF Refused, Moves, SetHook
<1>6. ASSUME NEW p \in Producers, CapacityGeneration(p) PROVE WaitTypes'
  BY <1>6 DEF CapacityGeneration, Moves, Return, ReadGeneration
<1>7. ASSUME NEW p \in Producers, LookCapacity(p) PROVE WaitTypes'
  BY <1>7 DEF LookCapacity, Moves, Return
<1>8. ASSUME NEW g \in Goroutines, FallAsleep(g) PROVE WaitTypes'
  BY <1>8 DEF FallAsleep, Moves, MustWait
<1>9. ASSUME NEW p \in Producers, LeaveCapacity(p) PROVE WaitTypes'
  BY <1>9 DEF LeaveCapacity, Moves, Return
<1>10. ASSUME NEW p \in Producers, PublishRange(p) PROVE WaitTypes'
  BY <1>10 DEF PublishRange, Moves
<1>11. ASSUME NEW p \in Producers, PublishSignal(p) PROVE WaitTypes'
  BY <1>11 DEF PublishSignal, SignalAll, Woken
<1>12. ASSUME NEW c \in Consumers, PollBarrier(c) PROVE WaitTypes'
  BY <1>12 DEF PollBarrier, Moves
<1>13. ASSUME NEW c \in Consumers, LookBarrier(c) PROVE WaitTypes'
  BY <1>13 DEF LookBarrier, Moves, SetHook
<1>14. ASSUME NEW c \in Consumers, SequenceGeneration(c) PROVE WaitTypes'
  BY <1>14 DEF SequenceGeneration, Moves, ReadGeneration
<1>15. ASSUME NEW c \in Consumers, PollSequence(c) PROVE WaitTypes'
  BY <1>15 DEF PollSequence, Moves, Return
<1>16. ASSUME NEW c \in Consumers, LookSequence(c) PROVE WaitTypes'
  BY <1>16 DEF LookSequence, Moves, Return
<1>17. ASSUME NEW c \in Consumers, LeaveSequence(c) PROVE WaitTypes'
  BY <1>17 DEF LeaveSequence, Moves
<1>18. ASSUME NEW c \in Consumers, StoreSequence(c) PROVE WaitTypes'
  BY <1>18 DEF StoreSequence, Moves
<1>19. ASSUME NEW c \in Consumers, StoreSignal(c) PROVE WaitTypes'
  BY <1>19 DEF StoreSignal, SignalAll, Woken
<1>20. ASSUME NEW c \in Consumers, RemoveGating(c) PROVE WaitTypes'
  BY <1>20 DEF RemoveGating, Moves
<1>21. ASSUME NEW c \in Consumers, RemoveSignal(c) PROVE WaitTypes'
  BY <1>21 DEF RemoveSignal, SignalAll, Woken
<1>22. ASSUME NEW c \in Consumers, StopCancel(c) PROVE WaitTypes'
  BY <1>22 DEF StopCancel, End
<1>23. ASSUME NEW c \in Consumers, StopAlert(c) PROVE WaitTypes'
  BY <1>23 DEF StopAlert
<1>24. ASSUME NEW c \in Consumers, StopSignal(c) PROVE WaitTypes'
  BY <1>24 DEF StopSignal, SignalAll, Woken
<1>25. ASSUME NEW g \in Goroutines, ContextSignal(g) PROVE WaitTypes'
  BY <1>25 DEF ContextSignal, SignalAll, Woken
<1>26. CASE Stop
  BY <1>26 DEF Stop
<1>27. CASE UNCHANGED vars
  BY <1>27 DEF vars
<1> QED
  BY <1>1, <1>2, <1>3, <1>4, <1>5, <1>6, <1>7, <1>8, <1>9, <1>10, <1>11,
     <1>12, <1>13, <1>14, <1>15, <1>16, <1>17, <1>18, <1>19, <1>20, <1>21, <1>22,
     <1>23, <1>24, <1>25, <1>26, <1>27
  DEF Next, ProducerMoves, ConsumerMoves, StopMoves, Goroutines

(* Every step keeps remembered generations inside waits, and sleepers      *)
(* without a newer one.                                                    *)
LEMMA CurrentStep ==
  ASSUME WaitTypes, CurrentWaits, [Next]_vars
  PROVE  CurrentWaits'
<1> USE DisjointAssumption
    DEF WaitTypes, Goroutines, ProducerStages, ConsumerStages, CurrentWaits,
        InWait, logVars, workVars, stopVars
<1>1. ASSUME NEW p \in Producers, Request(p) PROVE CurrentWaits'
  BY <1>1 DEF Request, Moves
<1>2. ASSUME NEW p \in Producers, Cancel(p) PROVE CurrentWaits'
  BY <1>2 DEF Cancel, End
<1>3. ASSUME NEW p \in Producers, PollContext(p) PROVE CurrentWaits'
  BY <1>3 DEF PollContext, Moves
<1>4. ASSUME NEW p \in Producers, Claim(p) PROVE CurrentWaits'
  BY <1>4 DEF Claim, Moves
<1>5. ASSUME NEW p \in Producers, Refused(p) PROVE CurrentWaits'
  BY <1>5 DEF Refused, Moves, SetHook
<1>6. ASSUME NEW p \in Producers, CapacityGeneration(p) PROVE CurrentWaits'
  BY <1>6 DEF CapacityGeneration, Moves, Return, ReadGeneration
<1>7. ASSUME NEW p \in Producers, LookCapacity(p) PROVE CurrentWaits'
  BY <1>7 DEF LookCapacity, Moves, Return
<1>8. ASSUME NEW g \in Goroutines, FallAsleep(g) PROVE CurrentWaits'
  BY <1>8 DEF FallAsleep, Moves, MustWait
<1>9. ASSUME NEW p \in Producers, LeaveCapacity(p) PROVE CurrentWaits'
  BY <1>9 DEF LeaveCapacity, Moves, Return
<1>10. ASSUME NEW p \in Producers, PublishRange(p) PROVE CurrentWaits'
  BY <1>10 DEF PublishRange, Moves
<1>11. ASSUME NEW p \in Producers, PublishSignal(p) PROVE CurrentWaits'
  BY <1>11 DEF PublishSignal, SignalAll, Woken
<1>12. ASSUME NEW c \in Consumers, PollBarrier(c) PROVE CurrentWaits'
  BY <1>12 DEF PollBarrier, Moves
<1>13. ASSUME NEW c \in Consumers, LookBarrier(c) PROVE CurrentWaits'
  BY <1>13 DEF LookBarrier, Moves, SetHook
<1>14. ASSUME NEW c \in Consumers, SequenceGeneration(c) PROVE CurrentWaits'
  BY <1>14 DEF SequenceGeneration, Moves, ReadGeneration
<1>15. ASSUME NEW c \in Consumers, PollSequence(c) PROVE CurrentWaits'
  BY <1>15 DEF PollSequence, Moves, Return
<1>16. ASSUME NEW c \in Consumers, LookSequence(c) PROVE CurrentWaits'
  BY <1>16 DEF LookSequence, Moves, Return
<1>17. ASSUME NEW c \in Consumers, LeaveSequence(c) PROVE CurrentWaits'
  BY <1>17 DEF LeaveSequence, Moves
<1>18. ASSUME NEW c \in Consumers, StoreSequence(c) PROVE CurrentWaits'
  BY <1>18 DEF StoreSequence, Moves
<1>19. ASSUME NEW c \in Consumers, StoreSignal(c) PROVE CurrentWaits'
  BY <1>19 DEF StoreSignal, SignalAll, Woken
<1>20. ASSUME NEW c \in Consumers, RemoveGating(c) PROVE CurrentWaits'
  BY <1>20 DEF RemoveGating, Moves
<1>21. ASSUME NEW c \in Consumers, RemoveSignal(c) PROVE CurrentWaits'
  BY <1>21 DEF RemoveSignal, SignalAll, Woken
<1>22. ASSUME NEW c \in Consumers, StopCancel(c) PROVE CurrentWaits'
  BY <1>22 DEF StopCancel, End
<1>23. ASSUME NEW c \in Consumers, StopAlert(c) PROVE CurrentWaits'
  BY <1>23 DEF StopAlert
<1>24. ASSUME NEW c \in Consumers, StopSignal(c) PROVE CurrentWaits'
  BY <1>24 DEF StopSignal, SignalAll, Woken
<1>25. ASSUME NEW g \in Goroutines, ContextSignal(g) PROVE CurrentWaits'
  BY <1>25 DEF ContextSignal, SignalAll, Woken
<1>26. CASE Stop
  BY <1>26 DEF Stop
<1>27. CASE UNCHANGED vars
  BY <1>27 DEF vars
<1> QED
  BY <1>1, <1>2, <1>3, <1>4, <1>5, <1>6, <1>7, <1>8, <1>9, <1>10, <1>11,
     <1>12, <1>13, <1>14, <1>15, <1>16, <1>17, <1>18, <1>19, <1>20, <1>21, <1>22,
     <1>23, <1>24, <1>25, <1>26, <1>27
  DEF Next, ProducerMoves, ConsumerMoves, StopMoves, Goroutines

(* Every step keeps a signal set for the end of a waiting goroutine's      *)
(* context.                                                                *)
LEMMA HooksStep ==
  ASSUME WaitTypes, HooksSet, [Next]_vars
  PROVE  HooksSet'
<1> USE DisjointAssumption
    DEF WaitTypes, Goroutines, ProducerStages, ConsumerStages, HooksSet,
        InWait, logVars, workVars, stopVars
<1>1. ASSUME NEW p \in Producers, Request(p) PROVE HooksSet'
  BY <1>1 DEF Request, Moves
<1>2. ASSUME NEW p \in Producers, Cancel(p) PROVE HooksSet'
  BY <1>2 DEF Cancel, End
<1>3. ASSUME NEW p \in Producers, PollContext(p) PROVE HooksSet'
  BY <1>3 DEF PollContext, Moves
<1>4. ASSUME NEW p \in Producers, Claim(p) PROVE HooksSet'
  BY <1>4 DEF Claim, Moves
<1>5. ASSUME NEW p \in Producers, Refused(p) PROVE HooksSet'
  BY <1>5 DEF Refused, Moves, SetHook
<1>6. ASSUME NEW p \in Producers, CapacityGeneration(p) PROVE HooksSet'
  BY <1>6 DEF CapacityGeneration, Moves, Return, ReadGeneration
<1>7. ASSUME NEW p \in Producers, LookCapacity(p) PROVE HooksSet'
  BY <1>7 DEF LookCapacity, Moves, Return
<1>8. ASSUME NEW g \in Goroutines, FallAsleep(g) PROVE HooksSet'
  BY <1>8 DEF FallAsleep, Moves, MustWait
<1>9. ASSUME NEW p \in Producers, LeaveCapacity(p) PROVE HooksSet'
  BY <1>9 DEF LeaveCapacity, Moves, Return
<1>10. ASSUME NEW p \in Producers, PublishRange(p) PROVE HooksSet'
  BY <1>10 DEF PublishRange, Moves
<1>11. ASSUME NEW p \in Producers, PublishSignal(p) PROVE HooksSet'
  BY <1>11 DEF PublishSignal, SignalAll, Woken
<1>12. ASSUME NEW c \in Consumers, PollBarrier(c) PROVE HooksSet'
  BY <1>12 DEF PollBarrier, Moves
<1>13. ASSUME NEW c \in Consumers, LookBarrier(c) PROVE HooksSet'
  BY <1>13 DEF LookBarrier, Moves, SetHook
<1>14. ASSUME NEW c \in Consumers, SequenceGeneration(c) PROVE HooksSet'
  BY <1>14 DEF SequenceGeneration, Moves, ReadGeneration
<1>15. ASSUME NEW c \in Consumers, PollSequence(c) PROVE HooksSet'
  BY <1>15 DEF PollSequence, Moves, Return
<1>16. ASSUME NEW c \in Consumers, LookSequence(c) PROVE HooksSet'
  BY <1>16 DEF LookSequence, Moves, Return
<1>17. ASSUME NEW c \in Consumers, LeaveSequence(c) PROVE HooksSet'
  BY <1>17 DEF LeaveSequence, Moves
<1>18. ASSUME NEW c \in Consumers, StoreSequence(c) PROVE HooksSet'
  BY <1>18 DEF StoreSequence, Moves
<1>19. ASSUME NEW c \in Consumers, StoreSignal(c) PROVE HooksSet'
  BY <1>19 DEF StoreSignal, SignalAll, Woken
<1>20. ASSUME NEW c \in Consumers, RemoveGating(c) PROVE HooksSet'
  BY <1>20 DEF RemoveGating, Moves
<1>21. ASSUME NEW c \in Consumers, RemoveSignal(c) PROVE HooksSet'
  BY <1>21 DEF RemoveSignal, SignalAll, Woken
<1>22. ASSUME NEW c \in Consumers, StopCancel(c) PROVE HooksSet'
  BY <1>22 DEF StopCancel, End
<1>23. ASSUME NEW c \in Consumers, StopAlert(c) PROVE HooksSet'
  BY <1>23 DEF StopAlert
<1>24. ASSUME NEW c \in Consumers, StopSignal(c) PROVE HooksSet'
  BY <1>24 DEF StopSignal, SignalAll, Woken
<1>25. ASSUME NEW g \in Goroutines, ContextSignal(g) PROVE HooksSet'
  BY <1>25 DEF ContextSignal, SignalAll, Woken
<1>26. CASE Stop
  BY <1>26 DEF Stop
<1>27. CASE UNCHANGED vars
  BY <1>27 DEF vars
<1> QED
  BY <1>1, <1>2, <1>3, <1>4, <1>5, <1>6, <1>7, <1>8, <1>9, <1>10, <1>11,
     <1>12, <1>13, <1>14, <1>15, <1>16, <1>17, <1>18, <1>19, <1>20, <1>21, <1>22,
     <1>23, <1>24, <1>25, <1>26, <1>27
  DEF Next, ProducerMoves, ConsumerMoves, StopMoves, Goroutines

(* A signal makes every remembered generation stale; any other step leaves *)
(* the signals that are due due.                                           *)
DueKept == (SignalDue => SignalDue') \/ current' = {}

(* No step loses a signal that is due.                                     *)
LEMMA DueStays ==
  ASSUME WaitTypes, HooksSet, [Next]_vars
  PROVE  DueKept
<1> USE DisjointAssumption
    DEF WaitTypes, Goroutines, ProducerStages, ConsumerStages, HooksSet,
        DueKept, SignalDue, logVars, workVars, stopVars
<1>1. ASSUME NEW p \in Producers, Request(p) PROVE DueKept
  BY <1>1 DEF Request, Moves
<1>2. ASSUME NEW p \in Producers, Cancel(p) PROVE DueKept
  BY <1>2 DEF Cancel, End
<1>3. ASSUME NEW p \in Producers, PollContext(p) PROVE DueKept
  BY <1>3 DEF PollContext, Moves
<1>4. ASSUME NEW p \in Producers, Claim(p) PROVE DueKept
  BY <1>4 DEF Claim, Moves
<1>5. ASSUME NEW p \in Producers, Refused(p) PROVE DueKept
  BY <1>5 DEF Refused, Moves, SetHook
<1>6. ASSUME NEW p \in Producers, CapacityGeneration(p) PROVE DueKept
  BY <1>6 DEF CapacityGeneration, Moves, Return, ReadGeneration
<1>7. ASSUME NEW p \in Producers, LookCapacity(p) PROVE DueKept
  BY <1>7 DEF LookCapacity, Moves, Return
<1>8. ASSUME NEW g \in Goroutines, FallAsleep(g) PROVE DueKept
  BY <1>8 DEF FallAsleep, Moves, MustWait
<1>9. ASSUME NEW p \in Producers, LeaveCapacity(p) PROVE DueKept
  BY <1>9 DEF LeaveCapacity, Moves, Return
<1>10. ASSUME NEW p \in Producers, PublishRange(p) PROVE DueKept
  BY <1>10 DEF PublishRange, Moves
<1>11. ASSUME NEW p \in Producers, PublishSignal(p) PROVE DueKept
  BY <1>11 DEF PublishSignal, SignalAll, Woken
<1>12. ASSUME NEW c \in Consumers, PollBarrier(c) PROVE DueKept
  BY <1>12 DEF PollBarrier, Moves
<1>13. ASSUME NEW c \in Consumers, LookBarrier(c) PROVE DueKept
  BY <1>13 DEF LookBarrier, Moves, SetHook
<1>14. ASSUME NEW c \in Consumers, SequenceGeneration(c) PROVE DueKept
  BY <1>14 DEF SequenceGeneration, Moves, ReadGeneration
<1>15. ASSUME NEW c \in Consumers, PollSequence(c) PROVE DueKept
  BY <1>15 DEF PollSequence, Moves, Return
<1>16. ASSUME NEW c \in Consumers, LookSequence(c) PROVE DueKept
  BY <1>16 DEF LookSequence, Moves, Return
<1>17. ASSUME NEW c \in Consumers, LeaveSequence(c) PROVE DueKept
  BY <1>17 DEF LeaveSequence, Moves
<1>18. ASSUME NEW c \in Consumers, StoreSequence(c) PROVE DueKept
  BY <1>18 DEF StoreSequence, Moves
<1>19. ASSUME NEW c \in Consumers, StoreSignal(c) PROVE DueKept
  BY <1>19 DEF StoreSignal, SignalAll, Woken
<1>20. ASSUME NEW c \in Consumers, RemoveGating(c) PROVE DueKept
  BY <1>20 DEF RemoveGating, Moves
<1>21. ASSUME NEW c \in Consumers, RemoveSignal(c) PROVE DueKept
  BY <1>21 DEF RemoveSignal, SignalAll, Woken
<1>22. ASSUME NEW c \in Consumers, StopCancel(c) PROVE DueKept
  BY <1>22 DEF StopCancel, End
<1>23. ASSUME NEW c \in Consumers, StopAlert(c) PROVE DueKept
  BY <1>23 DEF StopAlert
<1>24. ASSUME NEW c \in Consumers, StopSignal(c) PROVE DueKept
  BY <1>24 DEF StopSignal, SignalAll, Woken
<1>25. ASSUME NEW g \in Goroutines, ContextSignal(g) PROVE DueKept
  BY <1>25 DEF ContextSignal, SignalAll, Woken
<1>26. CASE Stop
  BY <1>26 DEF Stop
<1>27. CASE UNCHANGED vars
  BY <1>27 DEF vars
<1> QED
  BY <1>1, <1>2, <1>3, <1>4, <1>5, <1>6, <1>7, <1>8, <1>9, <1>10, <1>11,
     <1>12, <1>13, <1>14, <1>15, <1>16, <1>17, <1>18, <1>19, <1>20, <1>21, <1>22,
     <1>23, <1>24, <1>25, <1>26, <1>27
  DEF Next, ProducerMoves, ConsumerMoves, StopMoves, Goroutines

(* A context that ends, or an alert, after the wait tested them, is        *)
(* followed by a signal: the steps that matter are Cancel, StopCancel and  *)
(* StopAlert, which make one due.                                          *)
LEMMA InterruptStep ==
  ASSUME WaitTypes, CurrentWaits, HooksSet, InterruptSignalled, [Next]_vars
  PROVE  InterruptSignalled'
<1>0. DueKept
  BY DueStays
<1> USE <1>0, DisjointAssumption
    DEF DueKept, WaitTypes, Goroutines, ProducerStages, ConsumerStages, CurrentWaits,
        InWait, HooksSet, InterruptSignalled, Interrupted, logVars, workVars,
        stopVars
<1>1. ASSUME NEW p \in Producers, Request(p) PROVE InterruptSignalled'
  BY <1>1 DEF Request, Moves
<1>2. ASSUME NEW p \in Producers, Cancel(p) PROVE InterruptSignalled'
  BY <1>2 DEF Cancel, End, SignalDue
<1>3. ASSUME NEW p \in Producers, PollContext(p) PROVE InterruptSignalled'
  BY <1>3 DEF PollContext, Moves
<1>4. ASSUME NEW p \in Producers, Claim(p) PROVE InterruptSignalled'
  BY <1>4 DEF Claim, Moves
<1>5. ASSUME NEW p \in Producers, Refused(p) PROVE InterruptSignalled'
  BY <1>5 DEF Refused, Moves, SetHook
<1>6. ASSUME NEW p \in Producers, CapacityGeneration(p) PROVE InterruptSignalled'
  BY <1>6 DEF CapacityGeneration, Moves, Return, ReadGeneration
<1>7. ASSUME NEW p \in Producers, LookCapacity(p) PROVE InterruptSignalled'
  BY <1>7 DEF LookCapacity, Moves, Return
<1>8. ASSUME NEW g \in Goroutines, FallAsleep(g) PROVE InterruptSignalled'
  BY <1>8 DEF FallAsleep, Moves, MustWait
<1>9. ASSUME NEW p \in Producers, LeaveCapacity(p) PROVE InterruptSignalled'
  BY <1>9 DEF LeaveCapacity, Moves, Return
<1>10. ASSUME NEW p \in Producers, PublishRange(p) PROVE InterruptSignalled'
  BY <1>10 DEF PublishRange, Moves
<1>11. ASSUME NEW p \in Producers, PublishSignal(p) PROVE InterruptSignalled'
  BY <1>11 DEF PublishSignal, SignalAll, Woken
<1>12. ASSUME NEW c \in Consumers, PollBarrier(c) PROVE InterruptSignalled'
  BY <1>12 DEF PollBarrier, Moves
<1>13. ASSUME NEW c \in Consumers, LookBarrier(c) PROVE InterruptSignalled'
  BY <1>13 DEF LookBarrier, Moves, SetHook
<1>14. ASSUME NEW c \in Consumers, SequenceGeneration(c) PROVE InterruptSignalled'
  BY <1>14 DEF SequenceGeneration, Moves, ReadGeneration
<1>15. ASSUME NEW c \in Consumers, PollSequence(c) PROVE InterruptSignalled'
  BY <1>15 DEF PollSequence, Moves, Return
<1>16. ASSUME NEW c \in Consumers, LookSequence(c) PROVE InterruptSignalled'
  BY <1>16 DEF LookSequence, Moves, Return
<1>17. ASSUME NEW c \in Consumers, LeaveSequence(c) PROVE InterruptSignalled'
  BY <1>17 DEF LeaveSequence, Moves
<1>18. ASSUME NEW c \in Consumers, StoreSequence(c) PROVE InterruptSignalled'
  BY <1>18 DEF StoreSequence, Moves
<1>19. ASSUME NEW c \in Consumers, StoreSignal(c) PROVE InterruptSignalled'
  BY <1>19 DEF StoreSignal, SignalAll, Woken
<1>20. ASSUME NEW c \in Consumers, RemoveGating(c) PROVE InterruptSignalled'
  BY <1>20 DEF RemoveGating, Moves
<1>21. ASSUME NEW c \in Consumers, RemoveSignal(c) PROVE InterruptSignalled'
  BY <1>21 DEF RemoveSignal, SignalAll, Woken
<1>22. ASSUME NEW c \in Consumers, StopCancel(c) PROVE InterruptSignalled'
  BY <1>22 DEF StopCancel, End, SignalDue
<1>23. ASSUME NEW c \in Consumers, StopAlert(c) PROVE InterruptSignalled'
  BY <1>23 DEF StopAlert, SignalDue
<1>24. ASSUME NEW c \in Consumers, StopSignal(c) PROVE InterruptSignalled'
  BY <1>24 DEF StopSignal, SignalAll, Woken
<1>25. ASSUME NEW g \in Goroutines, ContextSignal(g) PROVE InterruptSignalled'
  BY <1>25 DEF ContextSignal, SignalAll, Woken
<1>26. CASE Stop
  BY <1>26 DEF Stop
<1>27. CASE UNCHANGED vars
  BY <1>27 DEF vars
<1> QED
  BY <1>1, <1>2, <1>3, <1>4, <1>5, <1>6, <1>7, <1>8, <1>9, <1>10, <1>11,
     <1>12, <1>13, <1>14, <1>15, <1>16, <1>17, <1>18, <1>19, <1>20, <1>21, <1>22,
     <1>23, <1>24, <1>25, <1>26, <1>27
  DEF Next, ProducerMoves, ConsumerMoves, StopMoves, Goroutines

(* Room or a sequence that appears after the wait looked is followed by a  *)
(* signal: the steps that matter are PublishRange, StoreSequence and       *)
(* RemoveGating, which make one due, and the looks themselves.             *)
LEMMA ProgressStep ==
  ASSUME WaitTypes, CurrentWaits, HooksSet, InterruptSignalled,
         ProgressSignalled, [Next]_vars
  PROVE  ProgressSignalled'
<1>0. DueKept
  BY DueStays
<1>i. InterruptSignalled'
  BY InterruptStep
<1> USE <1>0, <1>i, DisjointAssumption
    DEF DueKept, WaitTypes, Goroutines, ProducerStages, ConsumerStages, CurrentWaits,
        InWait, InterruptSignalled, ProgressSignalled, MayProceed, Interrupted,
        HasCapacity, Ready, logVars, workVars, stopVars
<1>1. ASSUME NEW p \in Producers, Request(p) PROVE ProgressSignalled'
  BY <1>1 DEF Request, Moves
<1>2. ASSUME NEW p \in Producers, Cancel(p) PROVE ProgressSignalled'
  BY <1>2 DEF Cancel, End, SignalDue
<1>3. ASSUME NEW p \in Producers, PollContext(p) PROVE ProgressSignalled'
  BY <1>3 DEF PollContext, Moves
<1>4. ASSUME NEW p \in Producers, Claim(p) PROVE ProgressSignalled'
  BY <1>4 DEF Claim, Moves
<1>5. ASSUME NEW p \in Producers, Refused(p) PROVE ProgressSignalled'
  BY <1>5 DEF Refused, Moves, SetHook
<1>6. ASSUME NEW p \in Producers, CapacityGeneration(p) PROVE ProgressSignalled'
  BY <1>6 DEF CapacityGeneration, Moves, Return, ReadGeneration
<1>7. ASSUME NEW p \in Producers, LookCapacity(p) PROVE ProgressSignalled'
  BY <1>7 DEF LookCapacity, Moves, Return
<1>8. ASSUME NEW g \in Goroutines, FallAsleep(g) PROVE ProgressSignalled'
  BY <1>8 DEF FallAsleep, Moves, MustWait
<1>9. ASSUME NEW p \in Producers, LeaveCapacity(p) PROVE ProgressSignalled'
  BY <1>9 DEF LeaveCapacity, Moves, Return
<1>10. ASSUME NEW p \in Producers, PublishRange(p) PROVE ProgressSignalled'
  BY <1>10 DEF PublishRange, Moves, SignalDue
<1>11. ASSUME NEW p \in Producers, PublishSignal(p) PROVE ProgressSignalled'
  BY <1>11 DEF PublishSignal, SignalAll, Woken
<1>12. ASSUME NEW c \in Consumers, PollBarrier(c) PROVE ProgressSignalled'
  BY <1>12 DEF PollBarrier, Moves
<1>13. ASSUME NEW c \in Consumers, LookBarrier(c) PROVE ProgressSignalled'
  BY <1>13 DEF LookBarrier, Moves, SetHook
<1>14. ASSUME NEW c \in Consumers, SequenceGeneration(c) PROVE ProgressSignalled'
  BY <1>14 DEF SequenceGeneration, Moves, ReadGeneration
<1>15. ASSUME NEW c \in Consumers, PollSequence(c) PROVE ProgressSignalled'
  BY <1>15 DEF PollSequence, Moves, Return
<1>16. ASSUME NEW c \in Consumers, LookSequence(c) PROVE ProgressSignalled'
  BY <1>16 DEF LookSequence, Moves, Return
<1>17. ASSUME NEW c \in Consumers, LeaveSequence(c) PROVE ProgressSignalled'
  BY <1>17 DEF LeaveSequence, Moves
<1>18. ASSUME NEW c \in Consumers, StoreSequence(c) PROVE ProgressSignalled'
  BY <1>18 DEF StoreSequence, Moves, SignalDue
<1>19. ASSUME NEW c \in Consumers, StoreSignal(c) PROVE ProgressSignalled'
  BY <1>19 DEF StoreSignal, SignalAll, Woken
<1>20. ASSUME NEW c \in Consumers, RemoveGating(c) PROVE ProgressSignalled'
  BY <1>20 DEF RemoveGating, Moves, SignalDue
<1>21. ASSUME NEW c \in Consumers, RemoveSignal(c) PROVE ProgressSignalled'
  BY <1>21 DEF RemoveSignal, SignalAll, Woken
<1>22. ASSUME NEW c \in Consumers, StopCancel(c) PROVE ProgressSignalled'
  BY <1>22 DEF StopCancel, End, SignalDue
<1>23. ASSUME NEW c \in Consumers, StopAlert(c) PROVE ProgressSignalled'
  BY <1>23 DEF StopAlert, SignalDue
<1>24. ASSUME NEW c \in Consumers, StopSignal(c) PROVE ProgressSignalled'
  BY <1>24 DEF StopSignal, SignalAll, Woken
<1>25. ASSUME NEW g \in Goroutines, ContextSignal(g) PROVE ProgressSignalled'
  BY <1>25 DEF ContextSignal, SignalAll, Woken
<1>26. CASE Stop
  BY <1>26 DEF Stop
<1>27. CASE UNCHANGED vars
  BY <1>27 DEF vars
<1> QED
  BY <1>1, <1>2, <1>3, <1>4, <1>5, <1>6, <1>7, <1>8, <1>9, <1>10, <1>11,
     <1>12, <1>13, <1>14, <1>15, <1>16, <1>17, <1>18, <1>19, <1>20, <1>21, <1>22,
     <1>23, <1>24, <1>25, <1>26, <1>27
  DEF Next, ProducerMoves, ConsumerMoves, StopMoves, Goroutines

(* The five parts are preserved together.                                  *)
LEMMA Inductive == IInv /\ [Next]_vars => IInv'
<1> SUFFICES ASSUME IInv, [Next]_vars PROVE IInv'
  OBVIOUS
<1> USE DEF IInv
<1>1. WaitTypes'
  BY TypesStep
<1>2. CurrentWaits'
  BY CurrentStep
<1>3. HooksSet'
  BY HooksStep
<1>4. InterruptSignalled'
  BY InterruptStep
<1>5. ProgressSignalled'
  BY ProgressStep
<1> QED
  BY <1>1, <1>2, <1>3, <1>4, <1>5

(* No goroutine sleeps on something that has happened without a signal     *)
(* being due: the generation read before the look, and the context and     *)
(* generation tested under the mutex before cond.Wait, leave no gap        *)
(* (wait.go:67-92, 95-113, 116-124, 195-205).                              *)
THEOREM WakeupsNotLost == Spec => []NoLostWakeup
<1>1. Init => IInv
  BY InvInit
<1>2. IInv /\ [Next]_vars => IInv'
  BY Inductive
<1>3. IInv => NoLostWakeup
  BY DEF IInv, CurrentWaits, ProgressSignalled, NoLostWakeup
<1> QED
  BY <1>1, <1>2, <1>3, PTL DEF Spec

--------------------------------------------------------------------------------
(* Processors that depend on each other *)

(* A set of natural numbers that is not empty has a least element.         *)
LEMMA Least ==
  ASSUME NEW S \in SUBSET Nat, S # {}
  PROVE  \E x \in S : \A y \in S : x <= y
<1>1. IsWellFoundedOn(OpToRel(<, Nat), Nat)
  BY NatLessThanWellFounded
<1>2. PICK x \in S : \A y \in S : <<y, x>> \notin OpToRel(<, Nat)
  BY <1>1, WFMin
<1>3. ASSUME NEW y \in S PROVE x <= y
  <2>1. x \in Nat /\ y \in Nat
    OBVIOUS
  <2>2. ~ (y < x)
    BY <1>2, <2>1 DEF OpToRel
  <2> QED
    BY <2>1, <2>2
<1> QED
  BY <1>3

(* A processor that may read has a batch that no dependency limits: the    *)
(* minimum Limit chooses exists, since everything it ranges over is ahead  *)
(* of the processor.                                                       *)
LEMMA LimitReached ==
  ASSUME BatchTypes, NEW c \in Consumers, Ready(c)
  PROVE  /\ Limit(c) \in Int
         /\ seq[c] < Limit(c)
         /\ \A d \in Upstream[c] : Limit(c) <= seq[d]
<1> DEFINE Ends == {cursor} \union {seq[d] : d \in Upstream[c]}
           Steps == {e - seq[c] : e \in Ends}
<1>1. Upstream[c] \subseteq Consumers
  BY UpstreamAssumption
<1>2. seq[c] \in Int /\ Ends \subseteq Int /\ \A e \in Ends : seq[c] < e
  BY <1>1 DEF BatchTypes, WaitTypes, Ready
<1>3. Steps \in SUBSET Nat /\ Steps # {}
  <2>1. \A e \in Ends : e \in Int /\ seq[c] < e
    BY <1>2
  <2>2. cursor \in Ends
    OBVIOUS
  <2> HIDE DEF Ends
  <2>3. \A e \in Ends : e - seq[c] \in Nat
    BY <1>2, <2>1
  <2> QED
    BY <2>2, <2>3
<1>4. PICK x \in Steps : \A y \in Steps : x <= y
  BY <1>3, Least
<1>5. PICK s \in Ends : x = s - seq[c]
  OBVIOUS
<1>6. \A e \in Ends : s <= e
  <2>1. ASSUME NEW e \in Ends PROVE s <= e
    <3>1. x <= e - seq[c]
      BY <1>4
    <3>2. e \in Int /\ s \in Int
      BY <1>2
    <3> QED
      BY <3>1, <3>2, <1>2, <1>5
  <2> QED
    BY <2>1
<1>7. s <= cursor /\ \A d \in Upstream[c] : s <= seq[d]
  BY <1>6
<1>8. /\ Limit(c) \in Ends
      /\ \A d \in Upstream[c] : Limit(c) <= seq[d]
  BY <1>7 DEF Limit
<1> QED
  BY <1>2, <1>8

(* A step that moves no sequence and starts no handler.                    *)
Quiet ==
  /\ UNCHANGED <<logVars, batch>>
  /\ \A c \in Consumers :
       stage'[c] \in {"handle", "signal"} => stage'[c] = stage[c]

(* Six steps matter to the order of the processors.                        *)
LEMMA QuietSteps ==
  ASSUME WaitTypes, [Next]_vars
  PROVE  \/ Quiet
         \/ \E p \in Producers : Claim(p) \/ PublishRange(p)
         \/ \E c \in Consumers : LookBarrier(c) \/ StoreSequence(c)
                                 \/ StoreSignal(c) \/ RemoveGating(c)
<1> USE DisjointAssumption
    DEF Quiet, WaitTypes, Goroutines, ProducerStages, ConsumerStages,
        logVars, workVars, stopVars
<1>1. ASSUME NEW p \in Producers, Request(p) PROVE Quiet
  BY <1>1 DEF Request, Moves
<1>2. ASSUME NEW p \in Producers, Cancel(p) PROVE Quiet
  BY <1>2 DEF Cancel, End
<1>3. ASSUME NEW p \in Producers, PollContext(p) PROVE Quiet
  BY <1>3 DEF PollContext, Moves
<1>4. ASSUME NEW p \in Producers, Refused(p) PROVE Quiet
  BY <1>4 DEF Refused, Moves, SetHook
<1>5. ASSUME NEW p \in Producers, CapacityGeneration(p) PROVE Quiet
  BY <1>5 DEF CapacityGeneration, Moves, Return, ReadGeneration
<1>6. ASSUME NEW p \in Producers, LookCapacity(p) PROVE Quiet
  BY <1>6 DEF LookCapacity, Moves, Return
<1>7. ASSUME NEW g \in Goroutines, FallAsleep(g) PROVE Quiet
  BY <1>7 DEF FallAsleep, Moves, MustWait
<1>8. ASSUME NEW p \in Producers, LeaveCapacity(p) PROVE Quiet
  BY <1>8 DEF LeaveCapacity, Moves, Return
<1>9. ASSUME NEW p \in Producers, PublishSignal(p) PROVE Quiet
  BY <1>9 DEF PublishSignal, SignalAll, Woken
<1>10. ASSUME NEW c \in Consumers, PollBarrier(c) PROVE Quiet
  BY <1>10 DEF PollBarrier, Moves
<1>11. ASSUME NEW c \in Consumers, SequenceGeneration(c) PROVE Quiet
  BY <1>11 DEF SequenceGeneration, Moves, ReadGeneration
<1>12. ASSUME NEW c \in Consumers, PollSequence(c) PROVE Quiet
  BY <1>12 DEF PollSequence, Moves, Return
<1>13. ASSUME NEW c \in Consumers, LookSequence(c) PROVE Quiet
  BY <1>13 DEF LookSequence, Moves, Return
<1>14. ASSUME NEW c \in Consumers, LeaveSequence(c) PROVE Quiet
  BY <1>14 DEF LeaveSequence, Moves
<1>15. ASSUME NEW c \in Consumers, RemoveSignal(c) PROVE Quiet
  BY <1>15 DEF RemoveSignal, SignalAll, Woken
<1>16. ASSUME NEW c \in Consumers, StopCancel(c) PROVE Quiet
  BY <1>16 DEF StopCancel, End
<1>17. ASSUME NEW c \in Consumers, StopAlert(c) PROVE Quiet
  BY <1>17 DEF StopAlert
<1>18. ASSUME NEW c \in Consumers, StopSignal(c) PROVE Quiet
  BY <1>18 DEF StopSignal, SignalAll, Woken
<1>19. ASSUME NEW g \in Goroutines, ContextSignal(g) PROVE Quiet
  BY <1>19 DEF ContextSignal, SignalAll, Woken
<1>20. CASE Stop
  BY <1>20 DEF Stop
<1>21. CASE UNCHANGED vars
  BY <1>21 DEF vars
<1> QED
  BY <1>1, <1>2, <1>3, <1>4, <1>5, <1>6, <1>7, <1>8, <1>9, <1>10, <1>11,
     <1>12, <1>13, <1>14, <1>15, <1>16, <1>17, <1>18, <1>19, <1>20, <1>21
  DEF Next, ProducerMoves, ConsumerMoves, StopMoves, Goroutines

(* The cursor and the batches stay integers, and only leaves gate.         *)
LEMMA BatchTypesStep ==
  ASSUME BatchTypes, [Next]_vars
  PROVE  BatchTypes'
<1>1. WaitTypes'
  BY TypesStep DEF BatchTypes
<1> USE DEF BatchTypes, WaitTypes, logVars
<1>2. CASE Quiet
  BY <1>1, <1>2 DEF Quiet
<1>3. ASSUME NEW p \in Producers, Claim(p) PROVE BatchTypes'
  BY <1>1, <1>3 DEF Claim
<1>4. ASSUME NEW p \in Producers, PublishRange(p) PROVE BatchTypes'
  BY <1>1, <1>4 DEF PublishRange
<1>5. ASSUME NEW c \in Consumers, LookBarrier(c) PROVE BatchTypes'
  BY <1>1, <1>5, LimitReached DEF LookBarrier
<1>6. ASSUME NEW c \in Consumers, StoreSequence(c) PROVE BatchTypes'
  BY <1>1, <1>6 DEF StoreSequence, workVars
<1>7. ASSUME NEW c \in Consumers, StoreSignal(c) PROVE BatchTypes'
  BY <1>1, <1>7 DEF StoreSignal, workVars
<1>8. ASSUME NEW c \in Consumers, RemoveGating(c) PROVE BatchTypes'
  BY <1>1, <1>8 DEF RemoveGating, workVars
<1> QED
  BY <1>2, <1>3, <1>4, <1>5, <1>6, <1>7, <1>8, QuietSteps

(* A batch keeps ending within what the dependencies have finished: they   *)
(* only move forward.                                                      *)
LEMMA BatchesStep ==
  ASSUME BatchTypes, BatchesReady, [Next]_vars
  PROVE  BatchesReady'
<1>1. \A c \in Consumers : Upstream[c] \subseteq Consumers
  BY UpstreamAssumption
<1> USE <1>1, DisjointAssumption
    DEF BatchTypes, WaitTypes, BatchesReady, Goroutines, ProducerStages,
        ConsumerStages, logVars, workVars
<1>2. CASE Quiet
  BY <1>2 DEF Quiet
<1>3. ASSUME NEW p \in Producers, Claim(p) PROVE BatchesReady'
  BY <1>3 DEF Claim, Moves
<1>4. ASSUME NEW p \in Producers, PublishRange(p) PROVE BatchesReady'
  BY <1>4 DEF PublishRange, Moves
<1>5. ASSUME NEW c \in Consumers, LookBarrier(c) PROVE BatchesReady'
  <2>1. CASE Ready(c)
    BY <1>5, <2>1, LimitReached DEF LookBarrier, Moves
  <2>2. CASE ~ Ready(c)
    BY <1>5, <2>2 DEF LookBarrier, Moves
  <2> QED
    BY <2>1, <2>2
<1>6. ASSUME NEW c \in Consumers, StoreSequence(c) PROVE BatchesReady'
  BY <1>6 DEF StoreSequence, Moves
<1>7. ASSUME NEW c \in Consumers, StoreSignal(c) PROVE BatchesReady'
  BY <1>7 DEF StoreSignal, SignalAll, Woken
<1>8. ASSUME NEW c \in Consumers, RemoveGating(c) PROVE BatchesReady'
  BY <1>8 DEF RemoveGating, Moves
<1> QED
  BY <1>2, <1>3, <1>4, <1>5, <1>6, <1>7, <1>8, QuietSteps

(* Only StoreSequence moves a processor, and within its batch.             *)
LEMMA OvertakeStep ==
  ASSUME BatchTypes, BatchesReady, NoneOvertakes, [Next]_vars
  PROVE  NoneOvertakes'
<1>1. \A c \in Consumers : Upstream[c] \subseteq Consumers
  BY UpstreamAssumption
<1>2. ASSUME NEW c \in Consumers, StoreSequence(c) PROVE NoneOvertakes'
  BY <1>1, <1>2 DEF StoreSequence, NoneOvertakes, BatchTypes, WaitTypes, BatchesReady
<1>3. CASE UNCHANGED seq
  BY <1>3 DEF NoneOvertakes
<1> QED
  BY <1>2, <1>3, QuietSteps DEF BatchTypes, Quiet, Claim, PublishRange, LookBarrier,
     StoreSignal, RemoveGating, logVars

(* Dependencies without a cycle: a numbering of the processors that grows  *)
(* along them.                                                             *)
Ranking(rank, bound) ==
  /\ bound \in Nat
  /\ rank \in [Consumers -> 0 .. bound]
  /\ \A c \in Consumers : \A d \in Upstream[c] : rank[d] < rank[c]

(* When no leaf is behind a sequence, nobody is: the last in the numbering *)
(* of those behind would be a leaf.                                        *)
LEMMA NobodyBehind ==
  ASSUME NEW rank, NEW bound, Ranking(rank, bound), BatchTypes, NoneOvertakes,
         NEW k \in Int, \A c \in Leaves : k <= seq[c]
  PROVE  \A c \in Consumers : k <= seq[c]
<1> DEFINE behind == {c \in Consumers : seq[c] < k}
           S == {bound - rank[c] : c \in behind}
<1>1. seq \in [Consumers -> Int]
  BY DEF BatchTypes, WaitTypes
<1>2. ASSUME behind # {} PROVE FALSE
  <2>1. S \in SUBSET Nat /\ S # {}
    BY <1>2 DEF Ranking
  <2>2. PICK x \in S : \A y \in S : x <= y
    BY <2>1, Least
  <2>3. PICK c \in behind : x = bound - rank[c]
    OBVIOUS
  <2>4. \A d \in behind : bound - rank[c] <= bound - rank[d]
    BY <2>2, <2>3
  <2>5. \A d \in behind : ~ (rank[c] < rank[d])
    BY <2>4 DEF Ranking
  <2>6. c \notin Leaves
    BY <1>1
  <2>7. PICK d \in Consumers : c \in Upstream[d]
    BY <2>6 DEF Leaves
  <2>8. seq[d] <= seq[c] /\ rank[c] < rank[d]
    BY <2>7 DEF NoneOvertakes, Ranking
  <2>9. d \in behind
    BY <1>1, <2>8
  <2> QED
    BY <2>5, <2>8, <2>9
<1> QED
  BY <1>1, <1>2

(* A claim while the leaves gate leaves every processor its slots.         *)
LEMMA SlotsStep ==
  ASSUME NEW rank, NEW bound, Ranking(rank, bound), BatchTypes, BatchesReady,
         NoneOvertakes, SlotsKept, [Next]_vars
  PROVE  SlotsKept'
<1> USE DEF BatchTypes, WaitTypes, SlotsKept
<1>1. ASSUME NEW p \in Producers, Claim(p), gating' = Leaves PROVE SlotsKept'
  <2>1. \A c \in Leaves : nextSequence + 1 - Size <= seq[c]
    BY <1>1 DEF Claim, HasCapacity
  <2>2. nextSequence + 1 - Size \in Int
    BY SizeAssumption
  <2>3. \A c \in Consumers : nextSequence + 1 - Size <= seq[c]
    BY <2>1, <2>2, NobodyBehind
  <2>4. UNCHANGED seq /\ nextSequence' = nextSequence + 1
    BY <1>1 DEF Claim
  <2>5. \A c \in Consumers : nextSequence' - Size <= seq'[c]
    BY <2>3, <2>4, SizeAssumption
  <2> QED
    BY <2>5
<1>2. ASSUME NEW c \in Consumers, StoreSequence(c) PROVE SlotsKept'
  BY <1>2, SizeAssumption DEF StoreSequence
<1>3. ASSUME NEW c \in Consumers, RemoveGating(c) PROVE SlotsKept'
  BY <1>3 DEF RemoveGating
<1>4. CASE UNCHANGED <<nextSequence, gating, seq>>
  BY <1>4
<1> QED
  BY <1>1, <1>2, <1>3, <1>4, QuietSteps DEF Quiet, Claim, PublishRange,
     LookBarrier, StoreSignal, logVars

(* Each processor handles a sequence after those it depends on, and while  *)
(* the leaves gate nobody has claimed its slot again, if the dependencies  *)
(* have no cycle (barrier.go:120-134, processor.go:214-281).               *)
THEOREM DependenciesRespected ==
  ASSUME NEW rank, NEW bound, Ranking(rank, bound)
  PROVE  Spec => []DependenciesFirst
<1>1. Init => DInv
  <2> SUFFICES ASSUME Init PROVE DInv
    OBVIOUS
  <2>1. WaitTypes
    BY InvInit DEF IInv
  <2>2. BatchTypes
    BY <2>1 DEF BatchTypes, Init
  <2>3. \A c \in Consumers : stage[c] = "poll" /\ seq[c] = -1
    BY DisjointAssumption DEF Init, Goroutines
  <2>4. BatchesReady
    BY <2>3 DEF BatchesReady
  <2>5. NoneOvertakes
    BY <2>3, UpstreamAssumption DEF NoneOvertakes
  <2>6. SlotsKept
    BY <2>3, SizeAssumption DEF SlotsKept, Init
  <2> QED
    BY <2>2, <2>4, <2>5, <2>6 DEF DInv
<1>2. DInv /\ [Next]_vars => DInv'
  BY BatchTypesStep, BatchesStep, OvertakeStep, SlotsStep DEF DInv
<1>3. DInv => DependenciesFirst
  <2> SUFFICES ASSUME DInv, NEW c \in Consumers, stage[c] = "handle"
               PROVE  /\ \A d \in Upstream[c] : seq[c] < seq[d]
                      /\ gating = Leaves => nextSequence - Size <= seq[c]
    BY DEF DependenciesFirst
  <2>1. seq[c] < batch[c] /\ \A d \in Upstream[c] : batch[c] <= seq[d]
    BY DEF DInv, BatchesReady
  <2>2. \A d \in Upstream[c] : seq[d] \in Int
    BY UpstreamAssumption DEF DInv, BatchTypes, WaitTypes
  <2>3. \A d \in Upstream[c] : seq[c] < seq[d]
    BY <2>1, <2>2 DEF DInv, BatchTypes, WaitTypes
  <2> QED
    BY <2>3 DEF DInv, SlotsKept
<1> QED
  BY <1>1, <1>2, <1>3, PTL DEF Spec

================================================================================
