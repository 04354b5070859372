----------------------------- MODULE BlockingWait -----------------------------
(***************************************************************************)
(* How goroutines wait for each other: BlockingStrategy                    *)
(* (src/pkg/wait/wait.go) with the producers, the event processors and the *)
(* Stop call that use it.  Producers wait for capacity and processors for  *)
(* sequences on one condition variable; whoever changes what somebody may  *)
(* wait for signals afterwards, so that between the change and the signal  *)
(* everything can happen.                                                  *)
(*                                                                         *)
(* The sequencer is the ideal log of EventLog here; MultiProducer and      *)
(* SingleProducer show that the code implements it.  A claim, a            *)
(* publication and a look at what is available are one step each: the      *)
(* sequences they read only grow, one by one, so what they see was true at *)
(* some moment between the first read and the last.                        *)
(*                                                                         *)
(* A definition Name_Change is a mistake the code could have made in Name. *)
(***************************************************************************)
EXTENDS Integers, FiniteSets

CONSTANTS
  Producers,  \* goroutines that publish
  Consumers,  \* event processors
  Upstream,   \* the processors each processor's barrier depends on
  Size,       \* number of slots
  MaxSeq      \* bound of the model: the highest sequence ever claimed

ASSUME DisjointAssumption == Producers \intersect Consumers = {}
ASSUME UpstreamAssumption == Upstream \in [Consumers -> SUBSET Consumers]
ASSUME SizeAssumption == Size \in Nat \ {0}
ASSUME MaxSeqAssumption == MaxSeq \in Nat

VARIABLES
  nextSequence,   \* highest claimed sequence
  cursor,         \* highest sequence consumers may read
  gating,         \* processors registered in gatingSequences
  seq,            \* Sequence of each processor
  current,        \* waits whose remembered generation is still the current one
  stage,          \* where each goroutine is
  own,            \* the sequence each producer has claimed
  batch,          \* availableSequence of each processor's batch
  done,           \* whose context has ended
  hook,           \* the context.AfterFunc of each wait: off, set, launched
  alerted,        \* processors whose barrier is alerted
  stop,           \* how far Stop has come with each processor
  stopping        \* Disruptor.Stop was called

logVars == <<nextSequence, cursor, gating, seq>>
workVars == <<own, batch>>
stopVars == <<alerted, stop, stopping>>
vars == <<logVars, current, workVars, stage, done, hook, stopVars>>

Goroutines == Producers \union Consumers

(* The processors nobody depends on hold the producers back.               *)
Leaves == {c \in Consumers : \A d \in Consumers : c \notin Upstream[d]}

Init ==
  /\ nextSequence = -1
  /\ cursor = -1
  /\ gating = Leaves
  /\ seq = [c \in Consumers |-> -1]
  /\ current = {}
  /\ stage = [g \in Goroutines |-> IF g \in Producers THEN "idle" ELSE "poll"]
  /\ own = [p \in Producers |-> -1]
  /\ batch = [c \in Consumers |-> -1]
  /\ done = {}
  /\ hook = [g \in Goroutines |-> "off"]
  /\ alerted = {}
  /\ stop = [c \in Consumers |-> "none"]
  /\ stopping = FALSE

--------------------------------------------------------------------------------
(* The wait strategy *)

(* SignalAll: a new generation, so that no remembered one is current any   *)
(* more, and Broadcast wakes everybody on the condition variable.  The     *)
(* code counts generations and compares them for equality only; the uint64 *)
(* counter is taken not to come round during one wait.                     *)
Woken(g) == stage[g] = "asleep"

SignalAll(next) ==
  /\ current' = {}
  /\ stage' = [g \in Goroutines |-> IF Woken(g) THEN "decide" ELSE next[g]]

Moves(g, s) == stage' = [stage EXCEPT ![g] = s]

(* A wait asks to be signalled when its context ends; a context that has   *)
(* ended already launches the signal at once.                              *)
SetHook_Forgotten(g) == UNCHANGED hook
SetHook(g) ==
  hook' = [hook EXCEPT ![g] = IF g \in done THEN "launched" ELSE "set"]

(* The wait returns; a signal already launched is not held back.           *)
Return(g) ==
  /\ hook' = [hook EXCEPT ![g] = IF @ = "set" THEN "off" ELSE @]
  /\ current' = current \ {g}

(* The generation is read before anything the wait depends on.             *)
ReadGeneration(g) == current' = current \union {g}

(* waitForSignal goes to sleep only while no signal came since and the     *)
(* context has not ended.                                                  *)
MustWait_AnyGeneration(g) == g \notin done
MustWait(g) == g \in current /\ g \notin done

FallAsleep(g) ==
  /\ stage[g] = "decide"
  /\ MustWait(g)
  /\ Moves(g, "asleep")
  /\ UNCHANGED <<logVars, current, workVars, done, hook, stopVars>>

(* The signal launched by the end of a context.                            *)
ContextSignal(g) ==
  /\ hook[g] = "launched"
  /\ hook' = [hook EXCEPT ![g] = "off"]
  /\ SignalAll(stage)
  /\ UNCHANGED <<logVars, workVars, done, stopVars>>

(* A context ends.                                                         *)
End(g) ==
  /\ done' = done \union {g}
  /\ hook' = [hook EXCEPT ![g] = IF @ = "set" THEN "launched" ELSE @]

--------------------------------------------------------------------------------
(* Producers: NextN, WaitForCapacity, publishRange *)

HasCapacity == \A c \in gating : nextSequence + 1 - Size <= seq[c]

Calling(p) ==
  stage[p] \in {"poll", "claim", "generation", "look", "decide", "asleep"}

Request(p) ==
  /\ stage[p] = "idle"
  /\ nextSequence + Cardinality({q \in Producers : Calling(q)}) < MaxSeq  \* bound
  /\ Moves(p, "poll")
  /\ UNCHANGED <<logVars, current, workVars, done, hook, stopVars>>

Cancel(p) ==
  /\ Calling(p)
  /\ p \notin done
  /\ End(p)
  /\ UNCHANGED <<logVars, current, workVars, stage, stopVars>>

(* The top of NextN's loop; a producer whose context has ended stops.      *)
PollContext(p) ==
  /\ stage[p] = "poll"
  /\ Moves(p, IF p \in done THEN "gone" ELSE "claim")
  /\ UNCHANGED <<logVars, current, workVars, done, hook, stopVars>>

Claim(p) ==
  /\ stage[p] = "claim"
  /\ HasCapacity
  /\ nextSequence' = nextSequence + 1
  /\ own' = [own EXCEPT ![p] = nextSequence + 1]
  /\ Moves(p, "write")
  /\ UNCHANGED <<cursor, gating, seq, current, batch, done, hook, stopVars>>

(* No room: NextN calls WaitForCapacity.                                   *)
Refused(p) ==
  /\ stage[p] = "claim"
  /\ ~ HasCapacity
  /\ SetHook(p)
  /\ Moves(p, "generation")
  /\ UNCHANGED <<logVars, current, workVars, done, stopVars>>

(* WaitForCapacity tests its context once, then reads the generation.      *)
CapacityGeneration(p) ==
  /\ stage[p] = "generation"
  /\ IF p \in done
     THEN Moves(p, "gone") /\ Return(p)
     ELSE Moves(p, "look") /\ ReadGeneration(p) /\ UNCHANGED hook
  /\ UNCHANGED <<logVars, workVars, done, stopVars>>

LookCapacity(p) ==
  /\ stage[p] = "look"
  /\ IF HasCapacity
     THEN Moves(p, "poll") /\ Return(p)
     ELSE Moves(p, "decide") /\ UNCHANGED <<hook, current>>
  /\ UNCHANGED <<logVars, workVars, done, stopVars>>

(* One signal ends WaitForCapacity, whether or not it made room.           *)
LeaveCapacity(p) ==
  /\ stage[p] = "decide"
  /\ ~ MustWait(p)
  /\ Moves(p, IF p \in done THEN "gone" ELSE "poll")
  /\ Return(p)
  /\ UNCHANGED <<logVars, workVars, done, stopVars>>

(* The sequences claimed and not published, p's apart.                     *)
OthersPending(p) == {own[q] : q \in {r \in Producers \ {p} : stage[r] = "write"}}

PublishRange(p) ==
  /\ stage[p] = "write"
  /\ cursor' \in cursor .. nextSequence
  /\ OthersPending(p) \intersect cursor + 1 .. cursor' = {}
  /\ cursor' = nextSequence \/ cursor' + 1 \in OthersPending(p)
  /\ own' = [own EXCEPT ![p] = -1]
  /\ Moves(p, "signal")
  /\ UNCHANGED <<nextSequence, gating, seq, current, batch, done, hook, stopVars>>

PublishSignal_Forgotten(p) ==
  /\ stage[p] = "signal"
  /\ Moves(p, "idle")
  /\ UNCHANGED <<logVars, current, workVars, done, hook, stopVars>>
PublishSignal(p) ==
  /\ stage[p] = "signal"
  /\ SignalAll([stage EXCEPT ![p] = "idle"])
  /\ UNCHANGED <<logVars, workVars, done, hook, stopVars>>

--------------------------------------------------------------------------------
(* Event processors: the loop of run, Barrier.WaitFor, WaitFor *)

Interrupted(c) == c \in done \/ c \in alerted

(* What c may read: what is published and its dependencies are through     *)
(* with.                                                                   *)
Ready_Cursor(c) == seq[c] < cursor
Ready(c) == seq[c] < cursor /\ \A d \in Upstream[c] : seq[c] < seq[d]

Limit(c) ==
  CHOOSE s \in {cursor} \union {seq[d] : d \in Upstream[c]} :
    s <= cursor /\ \A d \in Upstream[c] : s <= seq[d]

(* Barrier.WaitFor tests the context and the alert, then what is available.*)
PollBarrier(c) ==
  /\ stage[c] = "poll"
  /\ Moves(c, IF Interrupted(c) THEN "exit" ELSE "look")
  /\ UNCHANGED <<logVars, current, workVars, done, hook, stopVars>>

LookBarrier(c) ==
  /\ stage[c] = "look"
  /\ IF Ready(c)
     THEN Moves(c, "handle") /\ batch' = [batch EXCEPT ![c] = Limit(c)]
          /\ UNCHANGED hook
     ELSE Moves(c, "generation") /\ SetHook(c) /\ UNCHANGED batch
  /\ UNCHANGED <<logVars, current, own, done, stopVars>>

SequenceGeneration(c) ==
  /\ stage[c] = "generation"
  /\ ReadGeneration(c)
  /\ Moves(c, "repoll")
  /\ UNCHANGED <<logVars, workVars, done, hook, stopVars>>

(* WaitFor tests context and alert again, after the generation.            *)
PollSequence_Unchecked(c) ==
  /\ stage[c] = "repoll"
  /\ Moves(c, "relook")
  /\ UNCHANGED <<logVars, current, workVars, done, hook, stopVars>>
PollSequence(c) ==
  /\ stage[c] = "repoll"
  /\ IF Interrupted(c)
     THEN Moves(c, "exit") /\ Return(c)
     ELSE Moves(c, "relook") /\ UNCHANGED <<hook, current>>
  /\ UNCHANGED <<logVars, workVars, done, stopVars>>

(* What WaitFor returns is looked up anew by Barrier.WaitFor.              *)
LookSequence(c) ==
  /\ stage[c] = "relook"
  /\ IF Ready(c)
     THEN Moves(c, "poll") /\ Return(c)
     ELSE Moves(c, "decide") /\ UNCHANGED <<hook, current>>
  /\ UNCHANGED <<logVars, workVars, done, stopVars>>

LeaveSequence(c) ==
  /\ stage[c] = "decide"
  /\ ~ MustWait(c)
  /\ Moves(c, "generation")
  /\ current' = current \ {c}
  /\ UNCHANGED <<logVars, workVars, done, hook, stopVars>>

(* The handler returns and storeSequence publishes the progress ...        *)
StoreSequence(c) ==
  /\ stage[c] = "handle"
  /\ seq' = [seq EXCEPT ![c] = @ + 1]
  /\ Moves(c, "signal")
  /\ UNCHANGED <<nextSequence, cursor, gating, current, workVars, done, hook,
                 stopVars>>

(* ... and signals, event by event.                                        *)
StoreSignal(c) ==
  /\ stage[c] = "signal"
  /\ SignalAll([stage EXCEPT ![c] = IF seq[c] < batch[c] THEN "handle" ELSE "poll"])
  /\ UNCHANGED <<logVars, workVars, done, hook, stopVars>>

(* The run ends: its Sequence leaves the gating set, and if it was there   *)
(* waiting producers are signalled.                                        *)
RemoveGating(c) ==
  /\ stage[c] = "exit"
  /\ gating' = gating \ {c}
  /\ Moves(c, IF c \in gating THEN "removed" ELSE "gone")
  /\ UNCHANGED <<nextSequence, cursor, seq, current, workVars, done, hook,
                 stopVars>>

RemoveSignal_Forgotten(c) ==
  /\ stage[c] = "removed"
  /\ Moves(c, "gone")
  /\ UNCHANGED <<logVars, current, workVars, done, hook, stopVars>>
RemoveSignal(c) ==
  /\ stage[c] = "removed"
  /\ SignalAll([stage EXCEPT ![c] = "gone"])
  /\ UNCHANGED <<logVars, workVars, done, hook, stopVars>>

--------------------------------------------------------------------------------
(* Stop: for one processor after the other, cancel its context, alert its  *)
(* barrier, signal                                                         *)

Stop ==
  /\ ~ stopping
  /\ stopping' = TRUE
  /\ UNCHANGED <<logVars, current, workVars, stage, done, hook, alerted, stop>>

StopCancel(c) ==
  /\ stopping
  /\ stop[c] = "none"
  /\ \A d \in Consumers : stop[d] \in {"none", "stopped"}
  /\ End(c)
  /\ stop' = [stop EXCEPT ![c] = "cancelled"]
  /\ UNCHANGED <<logVars, current, workVars, stage, alerted, stopping>>

StopAlert(c) ==
  /\ stop[c] = "cancelled"
  /\ alerted' = alerted \union {c}
  /\ stop' = [stop EXCEPT ![c] = "alerted"]
  /\ UNCHANGED <<logVars, current, workVars, stage, done, hook, stopping>>

(* Alert signals and Stop signals once more; one signal is enough here.    *)
StopSignal(c) ==
  /\ stop[c] = "alerted"
  /\ stop' = [stop EXCEPT ![c] = "stopped"]
  /\ SignalAll(stage)
  /\ UNCHANGED <<logVars, workVars, done, hook, alerted, stopping>>

--------------------------------------------------------------------------------
(* The steps of a producer, and of a processor, that wait for nobody.      *)
ProducerMoves(p) ==
  \/ PollContext(p) \/ Claim(p) \/ Refused(p)
  \/ CapacityGeneration(p) \/ LookCapacity(p) \/ FallAsleep(p)
  \/ LeaveCapacity(p) \/ PublishRange(p) \/ PublishSignal(p)

ConsumerMoves(c) ==
  \/ PollBarrier(c) \/ LookBarrier(c)
  \/ SequenceGeneration(c) \/ PollSequence(c) \/ LookSequence(c)
  \/ FallAsleep(c) \/ LeaveSequence(c) \/ StoreSignal(c) \/ RemoveGating(c)
  \/ RemoveSignal(c)

StopMoves(c) == StopCancel(c) \/ StopAlert(c) \/ StopSignal(c)

Next ==
  \/ \E p \in Producers : Request(p) \/ Cancel(p) \/ ProducerMoves(p)
  \/ \E c \in Consumers : ConsumerMoves(c) \/ StoreSequence(c) \/ StopMoves(c)
  \/ \E g \in Goroutines : ContextSignal(g)
  \/ Stop

Spec == Init /\ [][Next]_vars

(* A goroutine that can move does.  Nobody has to call, cancel or stop,    *)
(* and a handler may take forever.                                         *)
Fairness ==
  /\ \A p \in Producers : WF_vars(ProducerMoves(p))
  /\ \A c \in Consumers : WF_vars(ConsumerMoves(c)) /\ WF_vars(StopMoves(c))
  /\ \A g \in Goroutines : WF_vars(ContextSignal(g))

FairSpec == Spec /\ Fairness

--------------------------------------------------------------------------------
(* Properties *)

ProducerStages ==
  {"idle", "poll", "claim", "generation", "look", "decide", "asleep",
   "write", "signal", "gone"}
ConsumerStages ==
  {"poll", "look", "generation", "repoll", "relook", "decide",
   "asleep", "handle", "signal", "exit", "removed", "gone"}

(* Somebody is about to signal.                                            *)
SignalDue ==
  \/ \E g \in Goroutines : hook[g] = "launched" \/ stage[g] \in {"signal", "removed"}
  \/ \E c \in Consumers : stop[c] = "alerted"

(* What goroutine g waits for has happened.                                *)
MayProceed(g) ==
  IF g \in Producers THEN g \in done \/ HasCapacity ELSE Interrupted(g) \/ Ready(g)

(* No wakeup is lost: nobody sleeps on something that has happened unless  *)
(* a signal is still to come, whatever happened between its look and its   *)
(* falling asleep (wait.go:75-90, 106-112, 195-205).                       *)
NoLostWakeup ==
  \A g \in Goroutines : stage[g] = "asleep" /\ MayProceed(g) => SignalDue

(* A processor handles a sequence only after everything it depends on has  *)
(* finished with it, and as long as the leaves gate no producer has        *)
(* claimed its slot again (barrier.go:120-134, processor.go:214-281).      *)
DependenciesFirst ==
  \A c \in Consumers : stage[c] = "handle" =>
    /\ \A d \in Upstream[c] : seq[c] < seq[d]
    /\ gating = Leaves => nextSequence - Size <= seq[c]

HandlersReturn == \A c \in Consumers : []<>(stage[c] # "handle")

(* If handlers return, a call to NextN returns: it is granted, or its      *)
(* context has ended.  Stopping the processors does not leave producers    *)
(* behind (base.go:47-77, wait.go:95-113, ring_buffer.go:156-163).         *)
CallsReturn ==
  HandlersReturn =>
    \A p \in Producers : stage[p] = "poll" ~> stage[p] \in {"write", "gone"}

(* A call whose context has ended returns even if handlers are stuck       *)
(* forever (wait.go:97-100, 111-112).                                      *)
CancelReturns == \A p \in Producers : Calling(p) /\ p \in done ~> ~ Calling(p)

(* If handlers return, every published sequence is handled by every        *)
(* processor unless the disruptor is stopped (wait.go:67-92).              *)
Delivered ==
  HandlersReturn =>
    \A c \in Consumers, s \in 0 .. MaxSeq : s <= cursor ~> seq[c] >= s \/ stopping

(* If handlers return, Stop ends every processor, also those asleep or     *)
(* about to fall asleep (processor.go:165-179).                            *)
StopEnds ==
  HandlersReturn => (stopping ~> \A c \in Consumers : stage[c] = "gone")

--------------------------------------------------------------------------------
(* The inductive invariant behind the theorem of BlockingWait_proofs.      *)

WaitTypes ==
  /\ nextSequence \in Int
  /\ seq \in [Consumers -> Int]
  /\ stage \in [Goroutines -> ProducerStages \union ConsumerStages]
  /\ hook \in [Goroutines -> {"off", "set", "launched"}]
  /\ stop \in [Consumers -> {"none", "cancelled", "alerted", "stopped"}]
  /\ done \subseteq Goroutines
  /\ alerted \subseteq Consumers
  /\ gating \subseteq Consumers
  /\ current \subseteq Goroutines

(* Inside WaitForCapacity or WaitFor.                                      *)
InWait(g) ==
  stage[g] \in IF g \in Producers
              THEN {"generation", "look", "decide", "asleep"}
              ELSE {"generation", "repoll", "relook", "decide", "asleep"}

(* Only a wait remembers a generation, and a sleeper's is the current one. *)
CurrentWaits ==
  /\ \A g \in current : InWait(g) /\ stage[g] # "generation"
  /\ \A g \in Goroutines : stage[g] = "asleep" => g \in current

(* The end of a context never escapes a wait.                              *)
HooksSet ==
  \A g \in Goroutines :
    /\ InWait(g) => g \in done \/ hook[g] = "set"
    /\ hook[g] = "launched" => g \in done

(* Whoever tested its context and alert and has a current generation will  *)
(* be signalled about their change since.                                  *)
InterruptSignalled ==
  \A g \in current : stage[g] # "repoll" /\ Interrupted(g) => SignalDue

(* The same for what it looked at.                                         *)
ProgressSignalled ==
  \A g \in current :
    stage[g] \in {"decide", "asleep"} /\ MayProceed(g) => SignalDue

IInv ==
  /\ WaitTypes
  /\ CurrentWaits
  /\ HooksSet
  /\ InterruptSignalled
  /\ ProgressSignalled

--------------------------------------------------------------------------------
(* The inductive invariant behind the order of dependent processors.       *)

BatchTypes ==
  /\ WaitTypes
  /\ cursor \in Int
  /\ batch \in [Consumers -> Int]
  /\ gating \subseteq Leaves

(* The batch under way ends within what every dependency has finished.     *)
BatchesReady ==
  \A c \in Consumers :
    /\ stage[c] \in {"handle", "signal"} => \A d \in Upstream[c] : batch[c] <= seq[d]
    /\ stage[c] = "handle" => seq[c] < batch[c]
    /\ stage[c] = "signal" => seq[c] <= batch[c]

NoneOvertakes == \A c \in Consumers : \A d \in Upstream[c] : seq[c] <= seq[d]

SlotsKept ==
  gating = Leaves => \A c \in Consumers : nextSequence - Size <= seq[c]

DInv == BatchTypes /\ BatchesReady /\ NoneOvertakes /\ SlotsKept
===============================================================================
