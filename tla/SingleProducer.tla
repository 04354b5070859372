---------------------------- MODULE SingleProducer ----------------------------
(***************************************************************************)
(* The sequencer for one producer goroutine                                *)
(* (src/internal/sequencer/single_producer.go).  It takes no lock to claim *)
(* and remembers the slowest gating sequence it has seen, so that most     *)
(* claims read no consumer at all.  Registering and removing a gating      *)
(* sequence locks gatingMu and resets what it remembers.                   *)
(*                                                                         *)
(* A step is at most one access to a location another goroutine writes     *)
(* without gatingMu: gatingCount, cachedGatingSequence, a gating sequence, *)
(* the cursor, a slot.  A definition Name_Change is a mistake the code     *)
(* could have made in Name; no specification uses it.                      *)
(***************************************************************************)
EXTENDS Integers, FiniteSets, RingIndex

CONSTANTS
  Consumers,             \* event processors that may gate the producer
  MaxSeq,                \* bound of the model: the highest sequence claimed
  RegisterWhileClaiming  \* AddGatingSequences may overlap a claim

ASSUME MaxSeqAssumption == MaxSeq \in Nat
ASSUME RegisterAssumption == RegisterWhileClaiming \in BOOLEAN

VARIABLES
  nextSequence,  \* highest claimed sequence, touched by the producer only
  cursor,        \* highest published sequence
  gatingCount,   \* atomic length of the gating set, read without the lock
  gating,        \* gatingSequences, guarded by gatingMu
  cached,        \* cachedGatingSequence
  gatingMu,      \* "free", "read" by the producer, "write" by a registration
  unread,        \* gating sequences the minimum under way has to read
  minimum,       \* lowest it has read
  ring,          \* per slot, the sequence whose event it holds
  pc,            \* where the producer is in its call
  call,          \* its request: how many sequences, and whether it may block
  at,            \* the sequence it writes next
  seq,           \* Sequence of each consumer: the last one it has finished
  mode,          \* where each consumer is in its life
  known,         \* history: consumers registered before the call began
  inTime         \* history: consumers registered before the ring overran them

gateVars == <<gatingCount, gating, cached, gatingMu>>
checkVars == <<unread, minimum>>
callVars == <<pc, call, known>>
consVars == <<seq, mode, inTime>>
vars == <<nextSequence, cursor, ring, at, gateVars, checkVars, callVars, consVars>>

Calls == [n : 1 .. Size, block : BOOLEAN]
NoCall == [n |-> 1, block |-> TRUE]

Init ==
  /\ nextSequence = -1
  /\ cursor = -1
  /\ gatingCount = 0
  /\ gating = {}
  /\ cached = -1
  /\ gatingMu = "free"
  /\ unread = {}
  /\ minimum = -1
  /\ ring = [i \in Slots |-> -1]
  /\ pc = "idle"
  /\ call = NoCall
  /\ at = 0
  /\ seq = [c \in Consumers |-> -1]
  /\ mode = [c \in Consumers |-> "outside"]
  /\ known = {}
  /\ inTime = {}

--------------------------------------------------------------------------------
(* Claiming: NextN and TryNextN *)

WrapPoint == nextSequence + call.n - Size

(* The claim succeeds; the caller fills its slots next.                    *)
Claim ==
  /\ nextSequence' = nextSequence + call.n
  /\ at' = nextSequence + 1
  /\ pc' = "write"
  /\ call' = NoCall
  /\ known' = {}

(* The claim fails: NextN waits and tries again, TryNextN returns          *)
(* ErrInsufficientCapacity.                                                *)
Fail ==
  /\ IF call.block
     THEN pc' = "want" /\ UNCHANGED <<call, known>>
     ELSE pc' = "idle" /\ call' = NoCall /\ known' = {}
  /\ UNCHANGED <<nextSequence, at>>

Request ==
  /\ pc = "idle"
  /\ RegisterWhileClaiming \/ \A c \in Consumers : mode[c] # "joining"
  /\ nextSequence < MaxSeq              \* bound
  /\ call' \in Calls
  /\ nextSequence + call'.n <= MaxSeq   \* bound
  /\ known' = gating
  /\ pc' = "want"
  /\ UNCHANGED <<nextSequence, cursor, ring, at, gateVars, checkVars, consVars>>

(* NextN finds its context done at the top of its loop, or                 *)
(* WaitForCapacity returns the context's error.                            *)
Cancel ==
  /\ pc = "want"
  /\ call.block
  /\ pc' = "idle"
  /\ call' = NoCall
  /\ known' = {}
  /\ UNCHANGED <<nextSequence, cursor, ring, at, gateVars, checkVars, consVars>>

(* hasAvailableCapacity, first test: nobody gates the producer.            *)
CheckCount ==
  /\ pc = "want"
  /\ IF gatingCount = 0
     THEN Claim
     ELSE pc' = "cache" /\ UNCHANGED <<nextSequence, at, call, known>>
  /\ UNCHANGED <<cursor, ring, gateVars, checkVars, consVars>>

(* Second test: the remembered minimum is enough.                          *)
CheckCache_NoRefresh ==
  /\ pc = "cache"
  /\ IF WrapPoint <= cached THEN Claim ELSE Fail
  /\ UNCHANGED <<cursor, ring, gateVars, checkVars, consVars>>
CheckCache ==
  /\ pc = "cache"
  /\ IF WrapPoint <= cached
     THEN Claim
     ELSE pc' = "lock" /\ UNCHANGED <<nextSequence, at, call, known>>
  /\ UNCHANGED <<cursor, ring, gateVars, checkVars, consVars>>

(* Third: minimumGatingSequence takes the read lock.  The set may have     *)
(* become empty, then nextSequence stands for the minimum.                 *)
RLock ==
  /\ pc = "lock"
  /\ gatingMu = "free"
  /\ gatingMu' = "read"
  /\ unread' = gating
  /\ minimum' = IF gating = {} THEN nextSequence ELSE MaxSeq
  /\ pc' = "read"
  /\ UNCHANGED <<nextSequence, cursor, ring, at, gatingCount, gating, cached,
                 call, known, consVars>>

Lower_Last(a, b) == b
Lower(a, b) == IF b < a THEN b ELSE a

ReadGating(c) ==
  /\ pc = "read"
  /\ c \in unread
  /\ unread' = unread \ {c}
  /\ minimum' = Lower(minimum, seq[c])
  /\ UNCHANGED <<nextSequence, cursor, ring, at, gateVars, callVars, consVars>>

RUnlock ==
  /\ pc = "read"
  /\ unread = {}
  /\ gatingMu' = "free"
  /\ pc' = "store"
  /\ UNCHANGED <<nextSequence, cursor, ring, at, gatingCount, gating, cached,
                 checkVars, call, known, consVars>>

(* The minimum is remembered after the lock was released.                  *)
Enough == WrapPoint <= minimum

StoreCache ==
  /\ pc = "store"
  /\ cached' = minimum
  /\ IF Enough THEN Claim ELSE Fail
  /\ minimum' = -1
  /\ UNCHANGED <<cursor, ring, gatingCount, gating, gatingMu, unread, consVars>>

--------------------------------------------------------------------------------
(* Publishing *)

WriteEvent ==
  /\ pc = "write"
  /\ ring' = [ring EXCEPT ![Index(at)] = at]
  /\ at' = at + 1
  /\ pc' = IF at = nextSequence THEN "publish" ELSE "write"
  /\ UNCHANGED <<nextSequence, cursor, gateVars, checkVars, call, known,
                 consVars>>

(* PublishRange stores the upper end of the claimed range.                 *)
PublishRange_Short ==
  /\ pc = "publish"
  /\ cursor' = nextSequence - 1
  /\ pc' = "idle"
  /\ UNCHANGED <<nextSequence, ring, at, gateVars, checkVars, call, known,
                 consVars>>
PublishRange ==
  /\ pc = "publish"
  /\ cursor' = nextSequence
  /\ pc' = "idle"
  /\ UNCHANGED <<nextSequence, ring, at, gateVars, checkVars, call, known,
                 consVars>>

--------------------------------------------------------------------------------
(* Consumers *)

(* The slot of the next event consumer c reads has not been claimed again. *)
InWindow(c) == nextSequence - Size <= seq[c]

(* AddGatingSequences: the count is raised before the sequence is in the   *)
(* slice, the remembered minimum reset last.                               *)
AddBegin(c) ==
  /\ mode[c] = "outside"
  /\ RegisterWhileClaiming \/ pc \in {"idle", "write", "publish"}
  /\ gatingMu = "free"
  /\ gatingMu' = "write"
  /\ gatingCount' = Cardinality(gating) + 1
  /\ mode' = [mode EXCEPT ![c] = "joining"]
  /\ UNCHANGED <<nextSequence, cursor, ring, at, gating, cached, checkVars,
                 callVars, seq, inTime>>

ResetCache_Forgotten == UNCHANGED cached
ResetCache == cached' = -1

AddEnd(c) ==
  /\ mode[c] = "joining"
  /\ gating' = gating \union {c}
  /\ ResetCache
  /\ gatingMu' = "free"
  /\ inTime' = IF InWindow(c) THEN inTime \union {c} ELSE inTime
  /\ mode' = [mode EXCEPT ![c] = "waiting"]
  /\ UNCHANGED <<nextSequence, cursor, ring, at, gatingCount, checkVars,
                 callVars, seq>>

BeginRead(c) ==
  /\ mode[c] = "waiting"
  /\ seq[c] < cursor
  /\ mode' = [mode EXCEPT ![c] = "reading"]
  /\ UNCHANGED <<nextSequence, cursor, ring, at, gateVars, checkVars, callVars,
                 seq, inTime>>

EndRead(c) ==
  /\ mode[c] = "reading"
  /\ seq' = [seq EXCEPT ![c] = @ + 1]
  /\ mode' = [mode EXCEPT ![c] = "waiting"]
  /\ UNCHANGED <<nextSequence, cursor, ring, at, gateVars, checkVars, callVars,
                 inTime>>

(* RemoveGatingSequence when the processor's run ends.                     *)
RemoveBegin(c) ==
  /\ mode[c] = "waiting"
  /\ gatingMu = "free"
  /\ gatingMu' = "write"
  /\ gating' = gating \ {c}
  /\ gatingCount' = Cardinality(gating) - 1
  /\ mode' = [mode EXCEPT ![c] = "leaving"]
  /\ UNCHANGED <<nextSequence, cursor, ring, at, cached, checkVars, callVars,
                 seq, inTime>>

RemoveEnd(c) ==
  /\ mode[c] = "leaving"
  /\ cached' = -1
  /\ gatingMu' = "free"
  /\ mode' = [mode EXCEPT ![c] = "gone"]
  /\ UNCHANGED <<nextSequence, cursor, ring, at, gatingCount, gating, checkVars,
                 callVars, seq, inTime>>

--------------------------------------------------------------------------------
Underway ==
  \/ CheckCount \/ CheckCache \/ RUnlock \/ StoreCache
  \/ \E c \in Consumers : ReadGating(c)
  \/ WriteEvent \/ PublishRange

Producer == Request \/ Cancel \/ RLock \/ Underway

Consumer(c) ==
  \/ AddBegin(c) \/ AddEnd(c) \/ BeginRead(c) \/ EndRead(c)
  \/ RemoveBegin(c) \/ RemoveEnd(c)

Next == Producer \/ \E c \in Consumers : Consumer(c)

Spec == Init /\ [][Next]_vars

(* Goroutines that can move do; the producer gets gatingMu because         *)
(* registrations release it.                                               *)
Fairness ==
  /\ WF_vars(Underway) /\ SF_vars(RLock)
  /\ \A c \in Consumers :
       WF_vars(AddEnd(c) \/ BeginRead(c) \/ EndRead(c) \/ RemoveEnd(c))

FairSpec == Spec /\ Fairness

--------------------------------------------------------------------------------
(* Properties *)

(* Every variable stays in its type, and gatingMu is held exactly inside   *)
(* the critical sections of single_producer.go.                            *)
TypeOK ==
  /\ nextSequence \in -1 .. MaxSeq
  /\ cursor \in -1 .. nextSequence
  /\ gating = {c \in Consumers : mode[c] \in {"waiting", "reading"}}
  /\ cached \in -1 .. MaxSeq
  /\ gatingMu = "write" <=> \E c \in Consumers : mode[c] \in {"joining", "leaving"}
  /\ gatingMu = "read" <=> pc = "read"
  /\ unread \subseteq gating
  /\ minimum \in -1 .. MaxSeq
  /\ ring \in [Slots -> -1 .. MaxSeq]
  /\ pc \in {"idle", "want", "cache", "lock", "read", "store", "write", "publish"}
  /\ call \in Calls
  /\ at \in 0 .. MaxSeq + 1
  /\ seq \in [Consumers -> -1 .. MaxSeq]
  /\ mode \in [Consumers -> {"outside", "joining", "waiting", "reading",
                             "leaving", "gone"}]
  /\ known \subseteq Consumers
  /\ inTime \subseteq Consumers

(* The event a handler is using is the one published under its sequence    *)
(* for as long as it uses it and however long it takes, if the consumer    *)
(* registered before the ring had wrapped past its start                   *)
(* (single_producer.go:186-203).                                           *)
ReadIntact ==
  \A c \in gating \intersect inTime :
    mode[c] = "reading" => ring[Index(seq[c] + 1)] = seq[c] + 1

(* What the producer remembers is never ahead of a consumer it should wait *)
(* for, although it stores it after releasing the lock and registrations   *)
(* and removals reset it (single_producer.go:120-165, 199-200).            *)
CacheConservative == \A c \in gating : cached <= seq[c]

(* A call to NextN or TryNextN never claims a slot that a consumer         *)
(* registered before the call began has not finished with.                 *)
ClaimBehindGating ==
  [][nextSequence' # nextSequence =>
       \A c \in known \intersect gating : nextSequence' - Size <= seq[c]]_vars

(* The sequencer implements the log of EventLog; a sequence counts as      *)
(* published once its slot is written, and readable when the cursor says   *)
(* so.                                                                     *)
Log == INSTANCE EventLog
         WITH claimed <- nextSequence,
              pending <- IF pc = "write" THEN at .. nextSequence ELSE {},
              visible <- cursor,
              subscribed <- gating,
              pos <- seq
LogSpec == Log!Spec

(* Every claimed sequence is eventually finished with by every consumer    *)
(* that stays registered.                                                  *)
Delivered ==
  \A s \in 0 .. MaxSeq, c \in Consumers :
    s <= nextSequence /\ c \in gating ~> seq[c] >= s \/ c \notin gating

(* A claim is granted or given up, however often it is refused first.      *)
CallsReturn == pc = "want" ~> pc \in {"idle", "write"}

--------------------------------------------------------------------------------
(* The inductive invariant behind the theorems of SingleProducer_proofs,   *)
(* for registrations that do not overlap a claim.                          *)

Joining == \E c \in Consumers : mode[c] = "joining"

(* One registration or removal at a time, and a count that runs ahead of   *)
(* the set only while somebody joins.                                      *)
CountTrue ==
  /\ \A c, d \in Consumers :
       mode[c] \in {"joining", "leaving"} /\ mode[d] \in {"joining", "leaving"} => c = d
  /\ IsFiniteSet(gating)
  /\ gatingCount = Cardinality(gating) + IF Joining THEN 1 ELSE 0

(* How far the call under way has come.                                    *)
CallTrue ==
  /\ pc \in {"want", "cache", "lock", "read", "store"} =>
       nextSequence + call.n <= MaxSeq /\ ~ Joining
  /\ pc # "read" => unread = {}
  /\ pc = "write" => cursor < at /\ at <= nextSequence
  /\ pc = "publish" => cursor < nextSequence

MinimumTrue ==
  pc \in {"read", "store"} => \A c \in gating \ unread : minimum <= seq[c]

ReadersBehind == \A c \in Consumers : mode[c] = "reading" => seq[c] < cursor

(* The slots of the last lap hold what was written there.                  *)
Written == IF pc = "write" THEN at - 1 ELSE nextSequence
RingTrue ==
  \A s \in Nat :
    nextSequence - Size < s /\ s <= Written => ring[Index(s)] = s

WindowKept ==
  /\ \A c \in gating \intersect inTime : InWindow(c)
  /\ \A c \in inTime : mode[c] \notin {"outside", "joining"}

IInv ==
  /\ TypeOK /\ CountTrue /\ CallTrue /\ MinimumTrue /\ CacheConservative
  /\ ReadersBehind /\ RingTrue /\ WindowKept
===============================================================================
