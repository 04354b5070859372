----------------------------- MODULE MultiProducer -----------------------------
(***************************************************************************)
(* The sequencer for concurrent producers and the ring of event slots it   *)
(* guards (src/internal/sequencer/base.go, multi_producer.go,              *)
(* src/pkg/ringbuffer/ring_buffer.go), with consumers that gate it.        *)
(* A definition Name_Change, next to Name, is a mistake the code could     *)
(* have made at this point; no specification uses it.  Replacing Name by   *)
(* it shows which property notices.                                        *)
(*                                                                         *)
(* Grain of atomicity.  A step is at most one access to a location other   *)
(* goroutines write without the sequencer's mutex: a gating sequence, an   *)
(* availability flag, the cursor, an event slot.  The critical sections of *)
(* the mutex are therefore several steps long and other goroutines move    *)
(* between them.                                                           *)
(***************************************************************************)
EXTENDS Integers, RingIndex

CONSTANTS
  Producers,  \* goroutines that publish
  Consumers,  \* event processors that may gate the producers
  MaxSeq,     \* bound of the model: the highest sequence ever claimed
  None        \* the mutex is free

ASSUME MaxSeqAssumption == MaxSeq \in Nat
ASSUME NoneAssumption == None \notin Producers

VARIABLES
  nextSequence,  \* highest claimed sequence, guarded by mu
  cursor,        \* highest sequence consumers may read
  availability,  \* per slot, the lap whose event was last published there
  ring,          \* per slot, the sequence whose event it holds
  mu,            \* holder of baseSequencer.mu, or None
  gating,        \* consumers registered in gatingSequences, guarded by mu
  unread,        \* gating sequences the capacity check under way has to read
  minimum,       \* lowest gating sequence it has read
  scan,          \* sequence the cursor advance under way looks at
  pc,            \* where each producer is in its call
  call,          \* its request: how many sequences, and whether it may block
  lo, hi,        \* the range it claimed
  at,            \* the sequence of that range it writes or flags next
  seq,           \* Sequence of each consumer: the last one it has finished
  mode,          \* whether a consumer is outside, waiting, in its handler, gone
  laps           \* history: some claim wrapped onto an unreadable sequence

seqrVars == <<nextSequence, cursor, availability, ring>>
muVars == <<mu, unread, minimum, scan>>
prodVars == <<pc, call, lo, hi, at>>
consVars == <<gating, seq, mode>>
vars == <<seqrVars, muVars, prodVars, consVars, laps>>

(* The slot of s was last published for s, and not for another lap.        *)
Available(s) == availability[Index(s)] = AvailabilityFlag(s)

Calls_Unchecked == [n : 1 .. Size + 1, block : BOOLEAN]
Calls == [n : 1 .. Size, block : BOOLEAN]
NoCall == [n |-> 1, block |-> TRUE]

Init ==
  /\ nextSequence = -1
  /\ cursor = -1
  /\ availability = [i \in Slots |-> -1]
  /\ ring = [i \in Slots |-> -1]
  /\ mu = None
  /\ gating = {}
  /\ unread = {}
  /\ minimum = -1
  /\ scan = 0
  /\ pc = [p \in Producers |-> "idle"]
  /\ call = [p \in Producers |-> NoCall]
  /\ lo = [p \in Producers |-> 0]
  /\ hi = [p \in Producers |-> -1]
  /\ at = [p \in Producers |-> 0]
  /\ seq = [c \in Consumers |-> -1]
  /\ mode = [c \in Consumers |-> "outside"]
  /\ laps = FALSE

--------------------------------------------------------------------------------
(* Claiming: NextN and TryNextN *)

(* A call enters.  n outside 1..Size returns ErrInvalidSequence before     *)
(* anything is touched.                                                    *)
Request(p) ==
  /\ pc[p] = "idle"
  /\ \E r \in Calls : call' = [call EXCEPT ![p] = r]
  /\ pc' = [pc EXCEPT ![p] = "want"]
  /\ UNCHANGED <<seqrVars, muVars, consVars, lo, hi, at, laps>>

(* NextN finds its context done at the top of its loop, or                 *)
(* WaitForCapacity returns the context's error: nothing was claimed.       *)
Cancel(p) ==
  /\ pc[p] = "want"
  /\ call[p].block
  /\ pc' = [pc EXCEPT ![p] = "idle"]
  /\ call' = [call EXCEPT ![p] = NoCall]
  /\ UNCHANGED <<seqrVars, muVars, consVars, lo, hi, at, laps>>

(* The mutex is taken and the capacity check begins.                       *)
LockClaim(p) ==
  /\ pc[p] = "want"
  /\ mu = None
  /\ nextSequence + call[p].n <= MaxSeq   \* bound
  /\ mu' = p
  /\ unread' = gating
  /\ minimum' = MaxSeq
  /\ pc' = [pc EXCEPT ![p] = "check"]
  /\ UNCHANGED <<seqrVars, consVars, call, lo, hi, at, scan, laps>>

(* minimumGatingSequenceLocked reads one consumer's Sequence.              *)
Lower_Last(a, b) == b
Lower(a, b) == IF b < a THEN b ELSE a

ReadGating(p, c) ==
  /\ pc[p] = "check"
  /\ c \in unread
  /\ unread' = unread \ {c}
  /\ minimum' = Lower(minimum, seq[c])
  /\ UNCHANGED <<seqrVars, prodVars, consVars, mu, scan, laps>>

(* hasAvailableCapacityLocked: no gating sequence, or the wrap point does  *)
(* not pass the slowest one.                                               *)
HasCapacity_Before(next) == gating = {} \/ nextSequence - Size <= minimum
HasCapacity_Strict(next) == gating = {} \/ next - Size < minimum
HasCapacity(next) == gating = {} \/ next - Size <= minimum

Grant(p) ==
  LET next == nextSequence + call[p].n
  IN  /\ pc[p] = "check"
      /\ unread = {}
      /\ HasCapacity(next)
      /\ nextSequence' = next
      /\ lo' = [lo EXCEPT ![p] = nextSequence + 1]
      /\ hi' = [hi EXCEPT ![p] = next]
      /\ at' = [at EXCEPT ![p] = nextSequence + 1]
      /\ call' = [call EXCEPT ![p] = NoCall]
      /\ mu' = None
      /\ minimum' = -1
      /\ pc' = [pc EXCEPT ![p] = "write"]
      /\ laps' = (laps \/ next - Size > cursor)
      /\ UNCHANGED <<consVars, cursor, availability, ring, unread, scan>>

(* NextN waits and tries again, TryNextN returns ErrInsufficientCapacity.  *)
Refuse(p) ==
  /\ pc[p] = "check"
  /\ unread = {}
  /\ ~ HasCapacity(nextSequence + call[p].n)
  /\ mu' = None
  /\ minimum' = -1
  /\ IF call[p].block
     THEN pc' = [pc EXCEPT ![p] = "want"] /\ UNCHANGED call
     ELSE pc' = [pc EXCEPT ![p] = "idle"] /\ call' = [call EXCEPT ![p] = NoCall]
  /\ UNCHANGED <<seqrVars, consVars, unread, scan, lo, hi, at, laps>>

--------------------------------------------------------------------------------
(* Publishing: the translator fills the slots, PublishRange flags them and *)
(* advances the cursor.                                                    *)

(* at walks lo..hi; when the walk ends the producer enters its next stage  *)
(* and at goes back to lo.                                                 *)
Walk(p, stage) ==
  IF at[p] < hi[p]
  THEN /\ at' = [at EXCEPT ![p] = @ + 1]
       /\ UNCHANGED pc
  ELSE /\ at' = [at EXCEPT ![p] = lo[p]]
       /\ pc' = [pc EXCEPT ![p] = stage]

WriteEvent(p) ==
  /\ pc[p] = "write"
  /\ ring' = [ring EXCEPT ![Index(at[p])] = at[p]]
  /\ Walk(p, "flag")
  /\ UNCHANGED <<nextSequence, cursor, availability, muVars, consVars, call,
                 lo, hi, laps>>

SetAvailable(p) ==
  /\ pc[p] = "flag"
  /\ availability' = [availability EXCEPT
                        ![Index(at[p])] = AvailabilityFlag(at[p])]
  /\ Walk(p, "flagged")
  /\ UNCHANGED <<nextSequence, cursor, ring, muVars, consVars, call, lo, hi,
                 laps>>

(* PublishRange takes the mutex; the scan starts behind the cursor.        *)
LockPublish(p) ==
  /\ pc[p] = "flagged"
  /\ mu = None
  /\ mu' = p
  /\ scan' = cursor + 1
  /\ pc' = [pc EXCEPT ![p] = "scan"]
  /\ UNCHANGED <<seqrVars, consVars, unread, minimum, call, lo, hi, at, laps>>

(* HighestPublished goes no further than the sequences claimed.            *)
InScan_Unflagged(s) == s <= nextSequence
InScan_Exclusive(s) == s < nextSequence /\ Available(s)
InScan(s) == s <= nextSequence /\ Available(s)

(* ScalarScanner.HighestPublished finds one more sequence available.       *)
ScanAvailable(p) ==
  /\ pc[p] = "scan"
  /\ InScan(scan)
  /\ scan' = scan + 1
  /\ UNCHANGED <<seqrVars, prodVars, consVars, mu, unread, minimum, laps>>

(* The scan ends at a gap or at the last claimed sequence.  Publication of *)
(* lo..hi is complete when the mutex is released.                          *)
AdvanceCursor(p) ==
  /\ pc[p] = "scan"
  /\ ~ InScan(scan)
  /\ cursor' = scan - 1
  /\ mu' = None
  /\ scan' = 0
  /\ pc' = [pc EXCEPT ![p] = "idle"]
  /\ lo' = [lo EXCEPT ![p] = 0]
  /\ hi' = [hi EXCEPT ![p] = -1]
  /\ at' = [at EXCEPT ![p] = 0]
  /\ UNCHANGED <<nextSequence, availability, ring, consVars, unread, minimum,
                 call, laps>>

--------------------------------------------------------------------------------
(* Consumers *)

(* AddGatingSequences with the Sequence of a processor, which starts at -1 *)
(* however far the producers have come.                                    *)
AddGating(c) ==
  /\ mode[c] = "outside"
  /\ mu = None
  /\ gating' = gating \union {c}
  /\ mode' = [mode EXCEPT ![c] = "waiting"]
  /\ UNCHANGED <<seqrVars, muVars, prodVars, seq, laps>>

(* The processor finds the cursor at or past its next sequence and calls   *)
(* the handler with the event in the ring, which the handler uses in place.*)
BeginRead(c) ==
  /\ mode[c] = "waiting"
  /\ seq[c] < cursor
  /\ mode' = [mode EXCEPT ![c] = "reading"]
  /\ UNCHANGED <<seqrVars, muVars, prodVars, gating, seq, laps>>

(* The handler returns and storeSequence publishes the progress.           *)
EndRead(c) ==
  /\ mode[c] = "reading"
  /\ seq' = [seq EXCEPT ![c] = @ + 1]
  /\ mode' = [mode EXCEPT ![c] = "waiting"]
  /\ UNCHANGED <<seqrVars, muVars, prodVars, gating, laps>>

(* The processor's run ends and its Sequence leaves the gating set.        *)
RemoveGating(c) ==
  /\ mode[c] = "waiting"
  /\ mu = None
  /\ gating' = gating \ {c}
  /\ mode' = [mode EXCEPT ![c] = "gone"]
  /\ UNCHANGED <<seqrVars, muVars, prodVars, seq, laps>>

--------------------------------------------------------------------------------
(* The steps a producer takes without waiting for anyone.                  *)
Underway(p) ==
  \/ \E c \in Consumers : ReadGating(p, c)
  \/ Grant(p) \/ Refuse(p)
  \/ WriteEvent(p) \/ SetAvailable(p)
  \/ ScanAvailable(p) \/ AdvanceCursor(p)

Producer(p) ==
  Request(p) \/ Cancel(p) \/ LockClaim(p) \/ LockPublish(p) \/ Underway(p)

Consumer(c) == AddGating(c) \/ BeginRead(c) \/ EndRead(c) \/ RemoveGating(c)

Next ==
  \/ \E p \in Producers : Producer(p)
  \/ \E c \in Consumers : Consumer(c)

Spec == Init /\ [][Next]_vars

(* What the runtime guarantees: a goroutine that can move does, and one    *)
(* that keeps asking for the mutex gets it (sync.Mutex hands the lock to   *)
(* a waiter that starves).  Nobody has to make, cancel, register or end a  *)
(* call.                                                                   *)
Fairness ==
  /\ \A p \in Producers :
       /\ SF_vars(LockClaim(p)) /\ SF_vars(LockPublish(p))
       /\ WF_vars(Underway(p))
  /\ \A c \in Consumers : WF_vars(BeginRead(c) \/ EndRead(c))

FairSpec == Spec /\ Fairness

--------------------------------------------------------------------------------
(* Properties *)

Stages == {"idle", "want", "check", "write", "flag", "flagged", "scan"}
Modes == {"outside", "waiting", "reading", "gone"}

SequencerType ==
  /\ nextSequence \in -1 .. MaxSeq
  /\ cursor \in -1 .. nextSequence
  /\ availability \in [Slots -> Nat \union {-1}]
  /\ ring \in [Slots -> -1 .. MaxSeq]

MutexType ==
  /\ mu \in Producers \union {None}
  /\ \A p \in Producers : mu = p <=> pc[p] \in {"check", "scan"}
  /\ unread \subseteq gating
  /\ unread # {} => \E p \in Producers : pc[p] = "check"
  /\ minimum \in -1 .. MaxSeq
  /\ scan \in 0 .. nextSequence + 1
  /\ \A p \in Producers :
       /\ pc[p] = "check" => nextSequence + call[p].n <= MaxSeq
       /\ pc[p] = "scan" => cursor < scan

ProducerType ==
  /\ pc \in [Producers -> Stages]
  /\ call \in [Producers -> Calls]
  /\ lo \in [Producers -> 0 .. MaxSeq]
  /\ hi \in [Producers -> -1 .. MaxSeq]
  /\ at \in [Producers -> 0 .. MaxSeq]
  /\ \A p \in Producers : hi[p] - lo[p] < Size

ConsumerType ==
  /\ seq \in [Consumers -> -1 .. MaxSeq]
  /\ mode \in [Consumers -> Modes]
  /\ gating = {c \in Consumers : mode[c] \in {"waiting", "reading"}}

(* Every variable stays in its type; in particular a claim spans at most   *)
(* Size sequences, the cursor stays behind the claims and the mutex is     *)
(* held exactly in its critical sections.                                  *)
TypeOK ==
  /\ SequencerType /\ MutexType /\ ProducerType /\ ConsumerType
  /\ laps \in BOOLEAN

(* The sequences producer p has claimed and not flagged yet.               *)
Unflagged(p) ==
  CASE pc[p] = "write" -> lo[p] .. hi[p]
    [] pc[p] = "flag"  -> at[p] .. hi[p]
    [] OTHER           -> {}

(* No producer has claimed past the slot a consumer still needs.           *)
InWindow(c) == nextSequence - Size <= seq[c]

(* The event a handler is using is the one published under its sequence,   *)
(* for as long as it uses it, unless the consumer registered after the     *)
(* ring had wrapped past it, or producers lapped each other while nobody   *)
(* gated them (base.go:136-143, ring_buffer.go:98-100).                    *)
ReadIntact ==
  \A c \in gating :
    mode[c] = "reading" /\ InWindow(c) /\ ~ laps =>
      ring[Index(seq[c] + 1)] = seq[c] + 1

(* Flags are set outside the mutex, so an advance may stop at a gap that   *)
(* is flagged while it scans.  Whoever flags last covers it: when nobody   *)
(* is publishing, nothing published is hidden (multi_producer.go:54-66).   *)
NothingHidden ==
  (\A p \in Producers : pc[p] \in {"idle", "want", "check"}) /\ ~ laps =>
    cursor = nextSequence

(* A consumer that gates the producers and has not been overrun is not     *)
(* overrun by any later claim, although the capacity check reads the       *)
(* gating sequences one by one while they move (base.go:145-155).          *)
WindowKept ==
  [][\A c \in gating : InWindow(c) /\ c \in gating' => InWindow(c)']_vars

(* With a gating consumer, a claim never wraps onto a sequence that is not *)
(* readable yet: producers cannot lap each other (base.go:136-143).        *)
LapsOnlyUngated == [][laps' = laps \/ gating = {}]_vars

(* The sequencer implements the log of EventLog: in particular no claim    *)
(* passes the slowest registered consumer and the cursor never uncovers a  *)
(* claimed but unpublished sequence, in whatever order producers publish   *)
(* (base.go:47-77, multi_producer.go:54-104).                              *)
Pending == UNION {Unflagged(p) : p \in Producers}

Log == INSTANCE EventLog
         WITH claimed <- nextSequence,
              pending <- Pending,
              visible <- cursor,
              subscribed <- gating,
              pos <- seq
LogSpec == Log!Spec

(* Every claimed sequence is eventually finished with by every consumer    *)
(* that stays registered, whatever the order in which the producers        *)
(* publish, unless they lapped each other while nobody gated them.         *)
Delivered ==
  \A s \in 0 .. MaxSeq, c \in Consumers :
    s <= nextSequence /\ c \in gating
      ~> seq[c] >= s \/ c \notin gating \/ laps

(* A claim that fits the model's bound is granted or given up, however     *)
(* often it is refused first: the consumers make room (base.go:47-77).     *)
CallsReturn ==
  \A p \in Producers :
    pc[p] \in {"want", "check"}
      ~> \/ pc[p] \notin {"want", "check"}
         \/ nextSequence + call[p].n > MaxSeq
         \/ laps
--------------------------------------------------------------------------------
(* The inductive invariant behind the theorems of MultiProducer_proofs.    *)

(* Consumers stay behind the cursor.                                       *)
ConsumersBehind ==
  \A c \in Consumers :
    /\ seq[c] <= cursor
    /\ mode[c] = "reading" => seq[c] < cursor

(* What a capacity check has read is still a lower bound.                  *)
CheckSound ==
  \A p \in Producers : pc[p] = "check" =>
    \A c \in gating \ unread : minimum <= seq[c]

Publishing == {"write", "flag", "flagged", "scan"}

(* A producer walks the range it claimed.                                  *)
RangesClaimed ==
  \A p \in Producers : pc[p] \in Publishing =>
    lo[p] <= at[p] /\ at[p] <= hi[p] /\ hi[p] <= nextSequence

(* Two producers never hold the same sequence.                             *)
RangesDisjoint ==
  \A p, q \in Producers :
    p # q => Unflagged(p) \intersect Unflagged(q) = {}

(* The flag of a sequence is not set before its owner sets it.             *)
FlagsTrue ==
  /\ \A s \in 0 .. MaxSeq : Available(s) => s <= nextSequence
  /\ \A p \in Producers : \A s \in Unflagged(p) : ~ Available(s)

(* Neither the cursor nor the scan under way has passed a gap.             *)
NoGapPassed ==
  \A p \in Producers : \A s \in Unflagged(p) :
    /\ cursor < s
    /\ \A q \in Producers : pc[q] = "scan" => scan <= s

(* The sequences producer p has claimed and not written yet.               *)
Unwritten(p) == IF pc[p] = "write" THEN at[p] .. hi[p] ELSE {}

(* Without a lap, all that is claimed fits in the ring beyond the cursor.  *)
NoLap == ~ laps => nextSequence - Size <= cursor

(* Without a lap, a slot holds the last sequence written there.            *)
RingHolds ==
  ~ laps =>
    \A s \in 0 .. MaxSeq :
      /\ nextSequence - Size < s /\ s <= nextSequence
      /\ \A p \in Producers : s \notin Unwritten(p)
      => ring[Index(s)] = s

(* Without a lap, a flag once set stays until its slot is claimed again.   *)
FlagsStay ==
  ~ laps =>
    \A s \in 0 .. MaxSeq :
      /\ nextSequence - Size < s /\ s <= nextSequence
      /\ \A p \in Producers : s \notin Unflagged(p)
      => Available(s)

(* Implied by nothing less, preserved by every step.                       *)
IInv ==
  /\ TypeOK
  /\ ConsumersBehind
  /\ CheckSound
  /\ RangesClaimed
  /\ RangesDisjoint
  /\ FlagsTrue
  /\ NoGapPassed
  /\ NoLap
  /\ RingHolds
  /\ FlagsStay
  /\ NothingHidden
================================================================================
