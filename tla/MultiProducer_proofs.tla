-------------------------- MODULE MultiProducer_proofs --------------------------
(***************************************************************************)
(* What holds of the multi-producer sequencer for every set of producers   *)
(* and consumers, every size of the ring and every bound.                  *)
(***************************************************************************)
EXTENDS MultiProducer, TLAPS

--------------------------------------------------------------------------------
(* Slots and laps *)

(* A sequence is its lap times the size plus its slot.                     *)
LEMMA SlotAndLap ==
  \A s \in Nat :
    /\ s = Size * (s \div Size) + (s % Size)
    /\ s \div Size \in Nat
    /\ s % Size \in Slots
BY SizeAssumption, SMTT(20) DEF Slots

(* Slots and laps are in their types.                                      *)
LEMMA IndexType ==
  \A s \in Nat : Index(s) \in Slots /\ AvailabilityFlag(s) \in Nat
BY SlotAndLap DEF Index, AvailabilityFlag

(* The slot and the lap determine the sequence: a flag is never mistaken   *)
(* for that of another sequence.                                           *)
LEMMA SequenceOfSlotAndLap ==
  ASSUME NEW s \in Nat, NEW t \in Nat,
         Index(s) = Index(t), AvailabilityFlag(s) = AvailabilityFlag(t)
  PROVE  s = t
BY SlotAndLap, SizeAssumption DEF Index, AvailabilityFlag

(* A product below its positive factor has no positive cofactor.           *)
LEMMA SmallMultiple ==
  ASSUME NEW n \in Nat \ {0}, NEW k \in Int, n * k < n
  PROVE  k <= 0
<1> SUFFICES ASSUME k >= 1 PROVE FALSE
  OBVIOUS
<1>1. PICK j \in Nat : k = j + 1
  OBVIOUS
<1>2. n * k = n * j + n
  BY <1>1
<1>3. n * j >= 0
  OBVIOUS
<1> QED
  BY <1>2, <1>3

(* Two sequences less than a lap apart do not share a slot.                *)
LEMMA WindowIsInjective ==
  ASSUME NEW s \in Nat, NEW t \in Nat,
         Index(s) = Index(t), s - t < Size, t - s < Size
  PROVE  s = t
<1> DEFINE k == (s \div Size) - (t \div Size)
<1>1. k \in Int /\ -k \in Int
  BY SlotAndLap
<1>2. Size * k = s - t /\ Size * (-k) = t - s
  BY SlotAndLap, SizeAssumption, <1>1 DEF Index
<1> HIDE DEF k
<1>3. k <= 0 /\ -k <= 0
  BY <1>1, <1>2, SmallMultiple, SizeAssumption
<1>4. s - t = 0
  BY <1>1, <1>2, <1>3, SizeAssumption
<1> QED
  BY <1>4

--------------------------------------------------------------------------------
(* Types *)

(* Types, with the two facts they rest on: consumers stay behind the       *)
(* cursor, producers inside the range they claimed.                        *)
Typed == TypeOK /\ ConsumersBehind /\ RangesClaimed

(* The initial state has the types.                                        *)
LEMMA TypedInit == Init => Typed
<1> SUFFICES ASSUME Init PROVE Typed
  OBVIOUS
<1> USE DEF Init
<1>1. SequencerType
  BY SizeAssumption, MaxSeqAssumption DEF SequencerType, Slots
<1>2. MutexType
  <2>1. \A p \in Producers : pc[p] = "idle" /\ mu # p
    BY NoneAssumption
  <2>2. minimum \in -1 .. MaxSeq
    BY MaxSeqAssumption
  <2>3. scan \in 0 .. nextSequence + 1
    OBVIOUS
  <2> QED
    BY <2>1, <2>2, <2>3 DEF MutexType
<1>3. ProducerType
  BY SizeAssumption, MaxSeqAssumption DEF ProducerType, Stages, Calls, NoCall
<1>4. ConsumerType
  BY MaxSeqAssumption DEF ConsumerType, Modes
<1>5. ConsumersBehind /\ RangesClaimed
  BY DEF ConsumersBehind, RangesClaimed, Publishing
<1>6. laps \in BOOLEAN
  OBVIOUS
<1> QED
  BY <1>1, <1>2, <1>3, <1>4, <1>5, <1>6 DEF Typed, TypeOK

(* A claim: the step of NextN or TryNextN that changes nextSequence.       *)
LEMMA TypedGrant ==
  ASSUME Typed, NEW p \in Producers, Grant(p)
  PROVE  Typed'
<1> USE SizeAssumption, MaxSeqAssumption, NoneAssumption
    DEF Typed, TypeOK, Grant, consVars
<1>1. call[p].n \in 1 .. Size /\ nextSequence + call[p].n <= MaxSeq /\ mu = p
  BY DEF ProducerType, Calls, MutexType
<1>1a. mu' \notin Producers
  OBVIOUS
<1>2. SequencerType'
  <2>1. nextSequence' \in -1 .. MaxSeq /\ nextSequence < nextSequence'
    BY <1>1 DEF SequencerType
  <2>2. UNCHANGED <<cursor, availability, ring>>
    OBVIOUS
  <2> QED
    BY <2>1, <2>2 DEF SequencerType
<1>3. MutexType'
  <2>1. \A q \in Producers : mu' # q /\ pc'[q] \notin {"check", "scan"}
    BY <1>1 DEF MutexType, ProducerType
  <2>2. scan' \in 0 .. nextSequence' + 1
    BY <1>1 DEF MutexType, SequencerType
  <2>3. minimum' \in -1 .. MaxSeq
    OBVIOUS
  <2> QED
    BY <2>1, <2>2, <2>3 DEF MutexType
<1>4. ProducerType'
  BY <1>1 DEF ProducerType, SequencerType, Stages, Calls, NoCall
<1>5. ConsumerType'
  BY DEF ConsumerType
<1>6. ConsumersBehind'
  BY DEF ConsumersBehind
<1>7. RangesClaimed'
  BY <1>1 DEF RangesClaimed, Publishing, ProducerType, SequencerType
<1>8. laps' \in BOOLEAN
  BY Zenon
<1> QED
  BY <1>2, <1>3, <1>4, <1>5, <1>6, <1>7, <1>8
(* Request keeps the types. *)
LEMMA TypedRequest ==
  ASSUME Typed, NEW p \in Producers, Request(p)
  PROVE  Typed'
<1> USE SizeAssumption, MaxSeqAssumption, NoneAssumption
    DEF Typed, TypeOK, Request, seqrVars, consVars, muVars, prodVars
<1>1. SequencerType'
  BY DEF SequencerType
<1>2. MutexType'
  BY DEF MutexType, ProducerType, Stages, SequencerType, ConsumerType
<1>3. ProducerType'
  BY DEF ProducerType, Stages, Calls, NoCall
<1>4. ConsumerType'
  BY DEF ConsumerType, Modes
<1>5. ConsumersBehind'
  BY DEF ConsumersBehind, ConsumerType, SequencerType
<1>6. RangesClaimed'
  BY DEF RangesClaimed, Publishing, ProducerType, Stages
<1>7. laps' \in BOOLEAN
  BY Zenon
<1> QED
  BY <1>1, <1>2, <1>3, <1>4, <1>5, <1>6, <1>7


(* Cancel keeps the types. *)
LEMMA TypedCancel ==
  ASSUME Typed, NEW p \in Producers, Cancel(p)
  PROVE  Typed'
<1> USE SizeAssumption, MaxSeqAssumption, NoneAssumption
    DEF Typed, TypeOK, Cancel, seqrVars, consVars, muVars, prodVars
<1>1. SequencerType'
  BY DEF SequencerType
<1>2. MutexType'
  BY DEF MutexType, ProducerType, Stages, SequencerType, ConsumerType
<1>3. ProducerType'
  BY DEF ProducerType, Stages, Calls, NoCall
<1>4. ConsumerType'
  BY DEF ConsumerType, Modes
<1>5. ConsumersBehind'
  BY DEF ConsumersBehind, ConsumerType, SequencerType
<1>6. RangesClaimed'
  BY DEF RangesClaimed, Publishing, ProducerType, Stages
<1>7. laps' \in BOOLEAN
  BY Zenon
<1> QED
  BY <1>1, <1>2, <1>3, <1>4, <1>5, <1>6, <1>7


(* LockClaim keeps the types. *)
LEMMA TypedLockClaim ==
  ASSUME Typed, NEW p \in Producers, LockClaim(p)
  PROVE  Typed'
<1> USE SizeAssumption, MaxSeqAssumption, NoneAssumption
    DEF Typed, TypeOK, LockClaim, seqrVars, consVars, muVars, prodVars
<1>1. SequencerType'
  BY DEF SequencerType
<1>2. MutexType'
  BY DEF MutexType, ProducerType, Stages, SequencerType, ConsumerType
<1>3. ProducerType'
  BY DEF ProducerType, Stages, Calls, NoCall
<1>4. ConsumerType'
  BY DEF ConsumerType, Modes
<1>5. ConsumersBehind'
  BY DEF ConsumersBehind, ConsumerType, SequencerType
<1>6. RangesClaimed'
  BY DEF RangesClaimed, Publishing, ProducerType, Stages
<1>7. laps' \in BOOLEAN
  BY Zenon
<1> QED
  BY <1>1, <1>2, <1>3, <1>4, <1>5, <1>6, <1>7


(* ReadGating keeps the types. *)
LEMMA TypedReadGating ==
  ASSUME Typed, NEW p \in Producers, NEW c \in Consumers, ReadGating(p, c)
  PROVE  Typed'
<1> USE SizeAssumption, MaxSeqAssumption, NoneAssumption
    DEF Typed, TypeOK, ReadGating, Lower, seqrVars, consVars, muVars, prodVars
<1>1. SequencerType'
  BY DEF SequencerType
<1>2. MutexType'
  BY DEF MutexType, ProducerType, Stages, SequencerType, ConsumerType
<1>3. ProducerType'
  BY DEF ProducerType, Stages, Calls, NoCall
<1>4. ConsumerType'
  BY DEF ConsumerType, Modes
<1>5. ConsumersBehind'
  BY DEF ConsumersBehind, ConsumerType, SequencerType
<1>6. RangesClaimed'
  BY DEF RangesClaimed, Publishing, ProducerType, Stages
<1>7. laps' \in BOOLEAN
  BY Zenon
<1> QED
  BY <1>1, <1>2, <1>3, <1>4, <1>5, <1>6, <1>7


(* Refuse keeps the types. *)
LEMMA TypedRefuse ==
  ASSUME Typed, NEW p \in Producers, Refuse(p)
  PROVE  Typed'
<1> USE SizeAssumption, MaxSeqAssumption, NoneAssumption
    DEF Typed, TypeOK, Refuse, seqrVars, consVars, muVars, prodVars
<1>1. SequencerType'
  BY DEF SequencerType
<1>2. MutexType'
  BY DEF MutexType, ProducerType, Stages, SequencerType, ConsumerType
<1>3. ProducerType'
  <2>1. CASE call[p].block
    BY <2>1 DEF ProducerType, Stages
  <2>2. CASE ~ call[p].block
    <3>1. /\ pc' = [pc EXCEPT ![p] = "idle"]
          /\ call' = [call EXCEPT ![p] = NoCall]
          /\ UNCHANGED <<lo, hi, at>>
      BY <2>2
    <3>2. NoCall \in Calls
      BY DEF NoCall, Calls
    <3> QED
      BY <3>1, <3>2 DEF ProducerType, Stages
  <2> QED
    BY <2>1, <2>2
<1>4. ConsumerType'
  BY DEF ConsumerType, Modes
<1>5. ConsumersBehind'
  BY DEF ConsumersBehind, ConsumerType, SequencerType
<1>6. RangesClaimed'
  BY DEF RangesClaimed, Publishing, ProducerType, Stages
<1>7. laps' \in BOOLEAN
  BY Zenon
<1> QED
  BY <1>1, <1>2, <1>3, <1>4, <1>5, <1>6, <1>7


(* WriteEvent keeps the types. *)
LEMMA TypedWriteEvent ==
  ASSUME Typed, NEW p \in Producers, WriteEvent(p)
  PROVE  Typed'
<1> USE SizeAssumption, MaxSeqAssumption, NoneAssumption
    DEF Typed, TypeOK, WriteEvent, Walk, seqrVars, consVars, muVars, prodVars
<1>1. SequencerType'
  BY IndexType DEF SequencerType, ProducerType
<1>2. MutexType'
  BY DEF MutexType, ProducerType, Stages, SequencerType, ConsumerType
<1>3. ProducerType'
  <2>1. CASE at[p] < hi[p]
    BY <2>1 DEF ProducerType, Stages
  <2>2. CASE ~ (at[p] < hi[p])
    BY <2>2 DEF ProducerType, Stages
  <2> QED
    BY <2>1, <2>2
<1>4. ConsumerType'
  BY DEF ConsumerType, Modes
<1>5. ConsumersBehind'
  BY DEF ConsumersBehind, ConsumerType, SequencerType
<1>6. RangesClaimed'
  BY DEF RangesClaimed, Publishing, ProducerType, Stages
<1>7. laps' \in BOOLEAN
  BY Zenon
<1> QED
  BY <1>1, <1>2, <1>3, <1>4, <1>5, <1>6, <1>7


(* SetAvailable keeps the types. *)
LEMMA TypedSetAvailable ==
  ASSUME Typed, NEW p \in Producers, SetAvailable(p)
  PROVE  Typed'
<1> USE SizeAssumption, MaxSeqAssumption, NoneAssumption
    DEF Typed, TypeOK, SetAvailable, Walk, seqrVars, consVars, muVars, prodVars
<1>1. SequencerType'
  BY IndexType DEF SequencerType, ProducerType
<1>2. MutexType'
  BY DEF MutexType, ProducerType, Stages, SequencerType, ConsumerType
<1>3. ProducerType'
  <2>1. CASE at[p] < hi[p]
    BY <2>1 DEF ProducerType, Stages
  <2>2. CASE ~ (at[p] < hi[p])
    BY <2>2 DEF ProducerType, Stages
  <2> QED
    BY <2>1, <2>2
<1>4. ConsumerType'
  BY DEF ConsumerType, Modes
<1>5. ConsumersBehind'
  BY DEF ConsumersBehind, ConsumerType, SequencerType
<1>6. RangesClaimed'
  BY DEF RangesClaimed, Publishing, ProducerType, Stages
<1>7. laps' \in BOOLEAN
  BY Zenon
<1> QED
  BY <1>1, <1>2, <1>3, <1>4, <1>5, <1>6, <1>7


(* LockPublish keeps the types. *)
LEMMA TypedLockPublish ==
  ASSUME Typed, NEW p \in Producers, LockPublish(p)
  PROVE  Typed'
<1> USE SizeAssumption, MaxSeqAssumption, NoneAssumption
    DEF Typed, TypeOK, LockPublish, seqrVars, consVars, muVars, prodVars
<1>1. SequencerType'
  BY DEF SequencerType
<1>2. MutexType'
  BY DEF MutexType, ProducerType, Stages, SequencerType, ConsumerType
<1>3. ProducerType'
  BY DEF ProducerType, Stages, Calls, NoCall
<1>4. ConsumerType'
  BY DEF ConsumerType, Modes
<1>5. ConsumersBehind'
  BY DEF ConsumersBehind, ConsumerType, SequencerType
<1>6. RangesClaimed'
  BY DEF RangesClaimed, Publishing, ProducerType, Stages
<1>7. laps' \in BOOLEAN
  BY Zenon
<1> QED
  BY <1>1, <1>2, <1>3, <1>4, <1>5, <1>6, <1>7


(* ScanAvailable keeps the types. *)
LEMMA TypedScanAvailable ==
  ASSUME Typed, NEW p \in Producers, ScanAvailable(p)
  PROVE  Typed'
<1> USE SizeAssumption, MaxSeqAssumption, NoneAssumption
    DEF Typed, TypeOK, ScanAvailable, InScan, seqrVars, consVars, muVars, prodVars
<1>1. SequencerType'
  BY DEF SequencerType
<1>2. MutexType'
  BY DEF MutexType, ProducerType, Stages, SequencerType, ConsumerType
<1>3. ProducerType'
  BY DEF ProducerType, Stages, Calls, NoCall
<1>4. ConsumerType'
  BY DEF ConsumerType, Modes
<1>5. ConsumersBehind'
  BY DEF ConsumersBehind, ConsumerType, SequencerType
<1>6. RangesClaimed'
  BY DEF RangesClaimed, Publishing, ProducerType, Stages
<1>7. laps' \in BOOLEAN
  BY Zenon
<1> QED
  BY <1>1, <1>2, <1>3, <1>4, <1>5, <1>6, <1>7


(* AdvanceCursor keeps the types. *)
LEMMA TypedAdvanceCursor ==
  ASSUME Typed, NEW p \in Producers, AdvanceCursor(p)
  PROVE  Typed'
<1> USE SizeAssumption, MaxSeqAssumption, NoneAssumption
    DEF Typed, TypeOK, AdvanceCursor, seqrVars, consVars, muVars, prodVars
<1>1. SequencerType'
  BY DEF SequencerType, MutexType
<1>2. MutexType'
  BY DEF MutexType, ProducerType, Stages, SequencerType, ConsumerType
<1>3. ProducerType'
  BY DEF ProducerType, Stages, Calls, NoCall
<1>4. ConsumerType'
  BY DEF ConsumerType, Modes
<1>5. ConsumersBehind'
  BY DEF ConsumersBehind, ConsumerType, SequencerType, MutexType
<1>6. RangesClaimed'
  BY DEF RangesClaimed, Publishing, ProducerType, Stages
<1>7. laps' \in BOOLEAN
  BY Zenon
<1> QED
  BY <1>1, <1>2, <1>3, <1>4, <1>5, <1>6, <1>7


(* AddGating keeps the types. *)
LEMMA TypedAddGating ==
  ASSUME Typed, NEW c \in Consumers, AddGating(c)
  PROVE  Typed'
<1> USE SizeAssumption, MaxSeqAssumption, NoneAssumption
    DEF Typed, TypeOK, AddGating, seqrVars, consVars, muVars, prodVars
<1>1. SequencerType'
  BY DEF SequencerType
<1>2. MutexType'
  BY DEF MutexType, ProducerType, Stages
<1>3. ProducerType'
  BY DEF ProducerType, Stages, Calls, NoCall
<1>4. ConsumerType'
  BY DEF ConsumerType, Modes
<1>5. ConsumersBehind'
  BY DEF ConsumersBehind, ConsumerType, SequencerType
<1>6. RangesClaimed'
  BY DEF RangesClaimed, Publishing, ProducerType, Stages
<1>7. laps' \in BOOLEAN
  BY Zenon
<1> QED
  BY <1>1, <1>2, <1>3, <1>4, <1>5, <1>6, <1>7


(* BeginRead keeps the types. *)
LEMMA TypedBeginRead ==
  ASSUME Typed, NEW c \in Consumers, BeginRead(c)
  PROVE  Typed'
<1> USE SizeAssumption, MaxSeqAssumption, NoneAssumption
    DEF Typed, TypeOK, BeginRead, seqrVars, consVars, muVars, prodVars
<1>1. SequencerType'
  BY DEF SequencerType
<1>2. MutexType'
  BY DEF MutexType, ProducerType, Stages
<1>3. ProducerType'
  BY DEF ProducerType, Stages, Calls, NoCall
<1>4. ConsumerType'
  BY DEF ConsumerType, Modes
<1>5. ConsumersBehind'
  BY DEF ConsumersBehind, ConsumerType, SequencerType
<1>6. RangesClaimed'
  BY DEF RangesClaimed, Publishing, ProducerType, Stages
<1>7. laps' \in BOOLEAN
  BY Zenon
<1> QED
  BY <1>1, <1>2, <1>3, <1>4, <1>5, <1>6, <1>7


(* EndRead keeps the types. *)
LEMMA TypedEndRead ==
  ASSUME Typed, NEW c \in Consumers, EndRead(c)
  PROVE  Typed'
<1> USE SizeAssumption, MaxSeqAssumption, NoneAssumption
    DEF Typed, TypeOK, EndRead, seqrVars, consVars, muVars, prodVars
<1>1. SequencerType'
  BY DEF SequencerType
<1>2. MutexType'
  BY DEF MutexType, ProducerType, Stages
<1>3. ProducerType'
  BY DEF ProducerType, Stages, Calls, NoCall
<1>4. ConsumerType'
  BY DEF ConsumerType, Modes, ConsumersBehind, SequencerType
<1>5. ConsumersBehind'
  BY DEF ConsumersBehind, ConsumerType, SequencerType
<1>6. RangesClaimed'
  BY DEF RangesClaimed, Publishing, ProducerType, Stages
<1>7. laps' \in BOOLEAN
  BY Zenon
<1> QED
  BY <1>1, <1>2, <1>3, <1>4, <1>5, <1>6, <1>7


(* RemoveGating keeps the types. *)
LEMMA TypedRemoveGating ==
  ASSUME Typed, NEW c \in Consumers, RemoveGating(c)
  PROVE  Typed'
<1> USE SizeAssumption, MaxSeqAssumption, NoneAssumption
    DEF Typed, TypeOK, RemoveGating, seqrVars, consVars, muVars, prodVars
<1>1. SequencerType'
  BY DEF SequencerType
<1>2. MutexType'
  BY DEF MutexType, ProducerType, Stages, SequencerType, ConsumerType
<1>3. ProducerType'
  BY DEF ProducerType, Stages, Calls, NoCall
<1>4. ConsumerType'
  BY DEF ConsumerType, Modes
<1>5. ConsumersBehind'
  BY DEF ConsumersBehind, ConsumerType, SequencerType
<1>6. RangesClaimed'
  BY DEF RangesClaimed, Publishing, ProducerType, Stages
<1>7. laps' \in BOOLEAN
  BY Zenon
<1> QED
  BY <1>1, <1>2, <1>3, <1>4, <1>5, <1>6, <1>7

(* Every step keeps the types.                                             *)
LEMMA TypedNext == Typed /\ [Next]_vars => Typed'
<1> SUFFICES ASSUME Typed, [Next]_vars PROVE Typed'
  OBVIOUS
<1>1. ASSUME NEW p \in Producers, Producer(p) PROVE Typed'
  BY <1>1, TypedRequest, TypedCancel, TypedLockClaim, TypedReadGating,
     TypedGrant, TypedRefuse, TypedWriteEvent, TypedSetAvailable,
     TypedLockPublish, TypedScanAvailable, TypedAdvanceCursor
     DEF Producer, Underway
<1>2. ASSUME NEW c \in Consumers, Consumer(c) PROVE Typed'
  BY <1>2, TypedAddGating, TypedBeginRead, TypedEndRead, TypedRemoveGating
     DEF Consumer
<1>3. ASSUME UNCHANGED vars PROVE Typed'
  <2> USE <1>3
      DEF vars, seqrVars, muVars, prodVars, consVars, Typed, TypeOK
  <2>1. SequencerType' /\ MutexType'
    BY DEF SequencerType, MutexType
  <2>2. ProducerType' /\ ConsumerType'
    BY DEF ProducerType, ConsumerType
  <2>3. ConsumersBehind' /\ RangesClaimed' /\ laps' \in BOOLEAN
    BY DEF ConsumersBehind, RangesClaimed
  <2> QED
    BY <2>1, <2>2, <2>3
<1> QED
  BY <1>1, <1>2, <1>3 DEF Next

(* The types hold in every run.                                            *)
LEMMA TypedAlways == Spec => []Typed
BY TypedInit, TypedNext, PTL DEF Spec

(* In every run, a claim spans at most Size sequences, the cursor stays    *)
(* behind the claims, and each critical section is alone under the mutex.  *)
THEOREM TypeCorrect == Spec => []TypeOK
BY TypedAlways, PTL DEF Typed

--------------------------------------------------------------------------------
(* Which sequences are claimed, written and flagged.                       *)

(* Steps that neither claim, write, flag nor move the scan or the cursor.  *)
Quiet ==
  /\ UNCHANGED <<nextSequence, cursor, availability, ring, scan, laps>>
  /\ \A q \in Producers :
       /\ Unflagged(q)' = Unflagged(q)
       /\ Unwritten(q)' = Unwritten(q)
       /\ pc'[q] = "scan" => pc[q] = "scan"

(* The steps of a producer that only ask, refuse or read are quiet.        *)
LEMMA QuietProducer ==
  ASSUME Typed, NEW p \in Producers,
         \/ Request(p) \/ Cancel(p) \/ LockClaim(p) \/ Refuse(p)
         \/ \E c \in Consumers : ReadGating(p, c)
  PROVE  Quiet
<1>1. /\ UNCHANGED <<nextSequence, cursor, availability, ring, scan, laps>>
      /\ UNCHANGED <<lo, hi, at>>
  BY DEF Request, Cancel, LockClaim, Refuse, ReadGating, seqrVars, muVars,
         prodVars
<1>2. \A q \in Producers :
        \/ pc'[q] = pc[q]
        \/ {pc[q], pc'[q]} \subseteq {"idle", "want", "check"}
  BY DEF Request, Cancel, LockClaim, Refuse, ReadGating, prodVars,
         Typed, TypeOK, ProducerType
<1> QED
  BY <1>1, <1>2 DEF Quiet, Unflagged, Unwritten

(* Consumers leave everything the producers share among themselves alone.  *)
LEMMA QuietConsumer ==
  ASSUME NEW c \in Consumers, Consumer(c)
  PROVE  Quiet
<1>1. UNCHANGED <<nextSequence, cursor, availability, ring, scan, laps>>
  BY DEF Consumer, AddGating, BeginRead, EndRead, RemoveGating, seqrVars, muVars
<1>2. UNCHANGED <<pc, lo, hi, at>>
  BY DEF Consumer, AddGating, BeginRead, EndRead, RemoveGating, prodVars
<1> QED
  BY <1>1, <1>2 DEF Quiet, Unflagged, Unwritten

(* What a claim adds.                                                      *)
LEMMA GrantClaims ==
  ASSUME Typed, NEW p \in Producers, Grant(p)
  PROVE  /\ Unflagged(p) = {} /\ Unwritten(p) = {}
         /\ Unflagged(p)' = nextSequence + 1 .. nextSequence'
         /\ Unwritten(p)' = nextSequence + 1 .. nextSequence'
         /\ nextSequence < nextSequence'
         /\ \A q \in Producers \ {p} :
              Unflagged(q)' = Unflagged(q) /\ Unwritten(q)' = Unwritten(q)
         /\ \A q \in Producers : pc'[q] # "scan"
         /\ UNCHANGED <<cursor, availability, ring>>
<1> USE DEF Typed, TypeOK, Grant, ProducerType
<1>1. pc[p] = "check" /\ pc'[p] = "write"
  OBVIOUS
<1>2. /\ lo'[p] = nextSequence + 1 /\ at'[p] = nextSequence + 1
      /\ hi'[p] = nextSequence'
  OBVIOUS
<1>3. \A q \in Producers \ {p} :
        pc'[q] = pc[q] /\ lo'[q] = lo[q] /\ hi'[q] = hi[q] /\ at'[q] = at[q]
  OBVIOUS
<1>4. \A q \in Producers : pc'[q] # "scan"
  BY <1>1, <1>3, NoneAssumption DEF MutexType
<1>5. nextSequence < nextSequence'
  BY DEF Calls, SequencerType
<1>6. UNCHANGED <<cursor, availability, ring>>
  OBVIOUS
<1>7. /\ Unflagged(p) = {} /\ Unwritten(p) = {}
      /\ Unflagged(p)' = nextSequence + 1 .. nextSequence'
      /\ Unwritten(p)' = nextSequence + 1 .. nextSequence'
  BY <1>1, <1>2 DEF Unflagged, Unwritten
<1>8. \A q \in Producers \ {p} :
        Unflagged(q)' = Unflagged(q) /\ Unwritten(q)' = Unwritten(q)
  BY <1>3 DEF Unflagged, Unwritten
<1> QED
  BY <1>4, <1>5, <1>6, <1>7, <1>8

(* What writing an event changes.                                          *)
LEMMA WriteChanges ==
  ASSUME Typed, NEW p \in Producers, WriteEvent(p)
  PROVE  /\ \A q \in Producers : Unflagged(q)' = Unflagged(q)
         /\ \A q \in Producers \ {p} : Unwritten(q)' = Unwritten(q)
         /\ at[p] \in Unwritten(p)
         /\ Unwritten(p)' = Unwritten(p) \ {at[p]}
         /\ \A q \in Producers : pc'[q] = "scan" => pc[q] = "scan"
<1> USE DEF Typed, TypeOK, WriteEvent, Walk, ProducerType, RangesClaimed,
            Publishing
<1>1. /\ pc[p] = "write" /\ lo'[p] = lo[p] /\ hi'[p] = hi[p]
      /\ at[p] <= hi[p]
  OBVIOUS
<1>2. \A q \in Producers \ {p} :
        pc'[q] = pc[q] /\ lo'[q] = lo[q] /\ hi'[q] = hi[q] /\ at'[q] = at[q]
  OBVIOUS
<1>3. CASE at[p] < hi[p]
  <2>1. pc'[p] = "write" /\ at'[p] = at[p] + 1
    BY <1>3
  <2>2. at[p] + 1 .. hi[p] = (at[p] .. hi[p]) \ {at[p]}
    <3>1. at[p] \in Int /\ hi[p] \in Int
      OBVIOUS
    <3> QED
      BY <3>1
  <2>3. /\ Unflagged(p)' = Unflagged(p)
        /\ Unwritten(p)' = Unwritten(p) \ {at[p]}
        /\ at[p] \in Unwritten(p)
    BY <1>1, <2>1, <2>2 DEF Unflagged, Unwritten
  <2> QED
    BY <1>1, <1>2, <2>1, <2>3 DEF Unflagged, Unwritten
<1>4. CASE ~ (at[p] < hi[p])
  <2>1. pc'[p] = "flag" /\ at'[p] = lo[p] /\ at[p] = hi[p]
    BY <1>1, <1>4
  <2> QED
    BY <1>1, <1>2, <2>1 DEF Unflagged, Unwritten
<1> QED
  BY <1>3, <1>4

(* What flagging a sequence changes.                                       *)
LEMMA FlagChanges ==
  ASSUME Typed, NEW p \in Producers, SetAvailable(p)
  PROVE  /\ at[p] \in Unflagged(p)
         /\ Unflagged(p)' = Unflagged(p) \ {at[p]}
         /\ \A q \in Producers \ {p} : Unflagged(q)' = Unflagged(q)
         /\ \A q \in Producers : Unwritten(q)' = Unwritten(q)
         /\ \A q \in Producers : pc'[q] = "scan" => pc[q] = "scan"
<1> USE DEF Typed, TypeOK, SetAvailable, Walk, ProducerType, RangesClaimed,
            Publishing
<1>1. /\ pc[p] = "flag" /\ lo'[p] = lo[p] /\ hi'[p] = hi[p]
      /\ at[p] <= hi[p]
  OBVIOUS
<1>2. \A q \in Producers \ {p} :
        pc'[q] = pc[q] /\ lo'[q] = lo[q] /\ hi'[q] = hi[q] /\ at'[q] = at[q]
  OBVIOUS
<1>3. CASE at[p] < hi[p]
  <2>1. pc'[p] = "flag" /\ at'[p] = at[p] + 1
    BY <1>1, <1>3
  <2>2. at[p] + 1 .. hi[p] = (at[p] .. hi[p]) \ {at[p]}
    <3>1. at[p] \in Int /\ hi[p] \in Int
      OBVIOUS
    <3> QED
      BY <3>1
  <2>3. /\ Unflagged(p)' = Unflagged(p) \ {at[p]}
        /\ Unwritten(p)' = Unwritten(p)
        /\ at[p] \in Unflagged(p)
    BY <1>1, <2>1, <2>2 DEF Unflagged, Unwritten
  <2> QED
    BY <1>1, <1>2, <2>1, <2>3 DEF Unflagged, Unwritten
<1>4. CASE ~ (at[p] < hi[p])
  <2>1. pc'[p] = "flagged" /\ at[p] = hi[p]
    BY <1>1, <1>4
  <2> QED
    BY <1>1, <1>2, <2>1 DEF Unflagged, Unwritten
<1> QED
  BY <1>3, <1>4

(* Advancing the cursor concerns no unflagged sequence.                    *)
LEMMA AdvanceKeeps ==
  ASSUME Typed, NEW p \in Producers,
         LockPublish(p) \/ ScanAvailable(p) \/ AdvanceCursor(p)
  PROVE  /\ \A q \in Producers :
              Unflagged(q)' = Unflagged(q) /\ Unwritten(q)' = Unwritten(q)
         /\ UNCHANGED <<nextSequence, availability, ring, laps>>
<1>1. \A q \in Producers \ {p} :
        pc'[q] = pc[q] /\ lo'[q] = lo[q] /\ hi'[q] = hi[q] /\ at'[q] = at[q]
  BY DEF Typed, TypeOK, ProducerType, LockPublish, ScanAvailable,
         AdvanceCursor, prodVars
<1>2. pc[p] \in {"flagged", "scan"} /\ pc'[p] \in {"scan", "idle"}
  BY DEF Typed, TypeOK, ProducerType, LockPublish, ScanAvailable,
         AdvanceCursor, prodVars
<1>3. UNCHANGED <<nextSequence, availability, ring, laps>>
  BY DEF LockPublish, ScanAvailable, AdvanceCursor, seqrVars
<1> QED
  BY <1>1, <1>2, <1>3 DEF Unflagged, Unwritten

--------------------------------------------------------------------------------
(* The cursor never passes a claimed but unpublished sequence.             *)

Claimed ==
  \A p \in Producers : \A s \in Unflagged(p) :
    s \in 0 .. MaxSeq /\ s <= nextSequence

Ordered == RangesDisjoint /\ FlagsTrue /\ NoGapPassed

(* Nobody is about to flag a sequence that was not claimed.                *)
LEMMA UnflaggedClaimed == Typed => Claimed
<1> SUFFICES ASSUME Typed, NEW p \in Producers, NEW s \in Unflagged(p)
             PROVE  s \in 0 .. MaxSeq /\ s <= nextSequence
  BY DEF Claimed
<1>1. /\ lo[p] \in Nat /\ at[p] \in Nat /\ hi[p] \in -1 .. MaxSeq
      /\ nextSequence \in Int
  BY DEF Typed, TypeOK, ProducerType, SequencerType
<1>2. /\ pc[p] \in {"write", "flag"}
      /\ s \in lo[p] .. hi[p] \/ s \in at[p] .. hi[p]
  BY DEF Unflagged
<1>3. hi[p] <= nextSequence
  BY <1>2 DEF Typed, RangesClaimed, Publishing
<1> QED
  BY <1>1, <1>2, <1>3, MaxSeqAssumption

(* Nothing is claimed or flagged at first.                                 *)
LEMMA OrderedInit == Init => Ordered
<1> SUFFICES ASSUME Init PROVE Ordered
  OBVIOUS
<1>1. \A p \in Producers : Unflagged(p) = {}
  BY DEF Init, Unflagged
<1>2. \A s \in 0 .. MaxSeq : ~ Available(s)
  BY IndexType DEF Init, Available
<1> QED
  BY <1>1, <1>2 DEF Ordered, RangesDisjoint, FlagsTrue, NoGapPassed

(* Quiet steps keep the order of claims, flags and cursor.                 *)
LEMMA OrderedQuiet ==
  ASSUME Ordered, Quiet
  PROVE  Ordered'
<1>1. RangesDisjoint'
  BY DEF Ordered, Quiet, RangesDisjoint
<1>2. FlagsTrue'
  BY DEF Ordered, Quiet, FlagsTrue, Available
<1>3. NoGapPassed'
  BY DEF Ordered, Quiet, NoGapPassed
<1> QED
  BY <1>1, <1>2, <1>3 DEF Ordered

(* A new claim lies beyond every earlier one, so it is held by one         *)
(* producer only and its slots still carry older laps.                     *)
LEMMA OrderedGrant ==
  ASSUME Typed, Ordered, NEW p \in Producers, Grant(p)
  PROVE  Ordered'
<1> USE GrantClaims
<1>1. nextSequence \in Int /\ nextSequence' \in Int /\ cursor <= nextSequence
      /\ -1 <= nextSequence /\ cursor \in Int /\ nextSequence' <= MaxSeq
      /\ MaxSeq \in Nat
  BY MaxSeqAssumption, TypedGrant DEF Typed, TypeOK, SequencerType
<1>2. \A s \in Unflagged(p)' :
        s \in 0 .. MaxSeq /\ nextSequence < s /\ s <= nextSequence'
  BY <1>1
<1>3. RangesDisjoint'
  BY <1>2, UnflaggedClaimed, <1>1 DEF Ordered, RangesDisjoint, Claimed
<1>4. \A s \in 0 .. MaxSeq : Available(s)' = Available(s)
  BY DEF Available
<1>5. FlagsTrue'
  <2>1. \A s \in 0 .. MaxSeq : Available(s)' => s <= nextSequence'
    BY <1>1, <1>4 DEF Ordered, FlagsTrue
  <2>2. \A q \in Producers : \A s \in Unflagged(q)' : ~ Available(s)'
    <3>1. \A s \in Unflagged(p)' : ~ Available(s)'
      BY <1>1, <1>2, <1>4 DEF Ordered, FlagsTrue
    <3>2. \A q \in Producers \ {p} : \A s \in Unflagged(q)' : ~ Available(s)'
      BY <1>4, UnflaggedClaimed DEF Ordered, FlagsTrue, Claimed
    <3> QED
      BY <3>1, <3>2
  <2> QED
    BY <2>1, <2>2 DEF FlagsTrue
<1>6. NoGapPassed'
  BY <1>1, <1>2 DEF Ordered, NoGapPassed
<1> QED
  BY <1>3, <1>5, <1>6 DEF Ordered

(* Writing an event moves no sequence out of the unflagged ones.           *)
LEMMA OrderedWrite ==
  ASSUME Typed, Ordered, NEW p \in Producers, WriteEvent(p)
  PROVE  Ordered'
<1> USE WriteChanges
<1>1. UNCHANGED <<nextSequence, cursor, availability, scan>>
  BY DEF WriteEvent, muVars
<1> QED
  BY <1>1 DEF Ordered, RangesDisjoint, FlagsTrue, Available, NoGapPassed

(* Setting a flag makes exactly one sequence available.                    *)
LEMMA OrderedFlag ==
  ASSUME Typed, Ordered, NEW p \in Producers, SetAvailable(p)
  PROVE  Ordered'
<1> USE FlagChanges
<1>1. UNCHANGED <<nextSequence, cursor, scan>>
  BY DEF SetAvailable, muVars
<1>2. at[p] \in Nat /\ at[p] <= nextSequence
  BY UnflaggedClaimed DEF Claimed
<1>3. \A s \in 0 .. MaxSeq : Available(s)' => s = at[p] \/ Available(s)
  <2> SUFFICES ASSUME NEW s \in 0 .. MaxSeq, Available(s)', ~ Available(s)
               PROVE  s = at[p]
    OBVIOUS
  <2>1. availability' = [availability EXCEPT
                           ![Index(at[p])] = AvailabilityFlag(at[p])]
    BY DEF SetAvailable
  <2>2. Index(s) = Index(at[p])
    BY <2>1 DEF Available
  <2>3. AvailabilityFlag(s) = AvailabilityFlag(at[p])
    BY <2>1, <2>2, IndexType DEF Available, Typed, TypeOK, SequencerType
  <2> QED
    BY <1>2, <2>2, <2>3, SequenceOfSlotAndLap
<1>4. RangesDisjoint'
  BY DEF Ordered, RangesDisjoint
<1>5. \A q \in Producers : at[p] \notin Unflagged(q)'
  BY DEF Ordered, RangesDisjoint
<1>6. FlagsTrue'
  BY <1>1, <1>2, <1>3, <1>5, UnflaggedClaimed
     DEF Ordered, FlagsTrue, Claimed
<1>7. NoGapPassed'
  BY <1>1 DEF Ordered, NoGapPassed
<1> QED
  BY <1>4, <1>6, <1>7 DEF Ordered

(* The scan stops at the first sequence that is not available.             *)
LEMMA OrderedAdvance ==
  ASSUME Typed, Ordered, NEW p \in Producers,
         LockPublish(p) \/ ScanAvailable(p) \/ AdvanceCursor(p)
  PROVE  Ordered'
<1> USE AdvanceKeeps
<1>1. RangesDisjoint' /\ FlagsTrue'
  BY DEF Ordered, RangesDisjoint, FlagsTrue, Available
<1>2. NoGapPassed'
  <2> SUFFICES ASSUME NEW r \in Producers, NEW s \in Unflagged(r)
               PROVE  /\ cursor' < s
                      /\ \A q \in Producers : pc'[q] = "scan" => scan' <= s
    BY DEF NoGapPassed
  <2>1. s \in Nat /\ s <= nextSequence /\ ~ Available(s) /\ cursor < s
        /\ \A q \in Producers : pc[q] = "scan" => scan <= s
    BY UnflaggedClaimed DEF Claimed, Ordered, FlagsTrue, NoGapPassed
  <2>2. cursor \in Int /\ scan \in Int
    BY DEF Typed, TypeOK, SequencerType, MutexType
  <2>3. CASE LockPublish(p)
    BY <2>1, <2>2, <2>3 DEF LockPublish, seqrVars
  <2>4. CASE ScanAvailable(p)
    <3>1. scan # s /\ scan <= s
      BY <2>1, <2>4 DEF ScanAvailable, InScan
    <3> QED
      BY <2>1, <2>2, <2>4, <3>1 DEF ScanAvailable, seqrVars
  <2>5. CASE AdvanceCursor(p)
    <3>1. scan <= s /\ cursor' = scan - 1
      BY <2>1, <2>5 DEF AdvanceCursor
    <3>2. \A q \in Producers : pc'[q] # "scan"
      BY <2>5, TypedAdvanceCursor, NoneAssumption
         DEF AdvanceCursor, Typed, TypeOK, MutexType
    <3> QED
      BY <2>1, <2>2, <3>1, <3>2
  <2> QED
    BY <2>3, <2>4, <2>5
<1> QED
  BY <1>1, <1>2 DEF Ordered

(* Every step keeps the order of claims, flags and cursor.                 *)
LEMMA OrderedNext == Typed /\ Ordered /\ [Next]_vars => Ordered'
<1> SUFFICES ASSUME Typed, Ordered, [Next]_vars PROVE Ordered'
  OBVIOUS
<1>1. ASSUME NEW p \in Producers, Producer(p) PROVE Ordered'
  BY <1>1, QuietProducer, OrderedQuiet, OrderedGrant, OrderedWrite,
     OrderedFlag, OrderedAdvance DEF Producer, Underway
<1>2. ASSUME NEW c \in Consumers, Consumer(c) PROVE Ordered'
  BY <1>2, QuietConsumer, OrderedQuiet
<1>3. CASE UNCHANGED vars
  <2>1. Quiet
    BY <1>3 DEF Quiet, vars, seqrVars, muVars, prodVars, Unflagged, Unwritten
  <2> QED
    BY <2>1, OrderedQuiet
<1> QED
  BY <1>1, <1>2, <1>3 DEF Next

(* The order of claims, flags and cursor holds in every run.               *)
LEMMA OrderedAlways == Spec => [](Typed /\ Ordered)
<1>1. Init => Typed /\ Ordered
  BY TypedInit, OrderedInit
<1>2. (Typed /\ Ordered) /\ [Next]_vars => (Typed /\ Ordered)'
  BY TypedNext, OrderedNext
<1> QED
  BY <1>1, <1>2, PTL DEF Spec

--------------------------------------------------------------------------------
(* Capacity: the check reads gating sequences that only grow.              *)

(* Gating sequences only grow and the set does not change while the check  *)
(* holds the mutex, so each value read stays a lower bound.                *)
LEMMA CheckSoundNext ==
  Typed /\ CheckSound /\ [Next]_vars => CheckSound'
<1> SUFFICES ASSUME Typed, CheckSound, [Next]_vars,
                    NEW p \in Producers, pc'[p] = "check",
                    NEW c \in gating' \ unread'
             PROVE  minimum' <= seq'[c]
  BY DEF CheckSound
<1> USE DEF Typed, TypeOK
<1>1. c \in Consumers /\ seq[c] \in Int /\ minimum \in Int
  BY TypedNext DEF ConsumerType, MutexType
<1>2. ASSUME NEW q \in Producers, Producer(q) PROVE minimum' <= seq'[c]
  <2>1. gating' = gating /\ seq' = seq
    BY <1>2 DEF Producer, Underway, Request, Cancel, LockClaim, ReadGating,
                Grant, Refuse, WriteEvent, SetAvailable, LockPublish,
                ScanAvailable, AdvanceCursor, consVars
  <2>2. CASE LockClaim(q)
    BY <2>1, <2>2 DEF LockClaim
  <2>3. ASSUME NEW d \in Consumers, ReadGating(q, d)
        PROVE  minimum' <= seq'[c]
    <3>1. /\ pc[p] = "check" /\ unread' = unread \ {d}
          /\ minimum' = IF seq[d] < minimum THEN seq[d] ELSE minimum
      BY <2>3 DEF ReadGating, Lower, prodVars
    <3>2. seq[d] \in Int
      BY DEF ConsumerType
    <3>3. CASE c = d
      BY <1>1, <2>1, <3>1, <3>2, <3>3
    <3>4. CASE c # d
      <4>1. minimum <= seq[c]
        BY <2>1, <3>1, <3>4 DEF CheckSound
      <4> QED
        BY <1>1, <2>1, <3>1, <3>2, <4>1
    <3> QED
      BY <3>3, <3>4
  <2>4. CASE Grant(q) \/ Refuse(q) \/ AdvanceCursor(q)
    <3>1. pc'[p] # "check"
      <4>1. mu = q /\ mu' = None
        BY <2>4 DEF Grant, Refuse, AdvanceCursor, MutexType
      <4> QED
        BY <4>1, <1>2, TypedNext, NoneAssumption DEF Next, MutexType
    <3> QED
      BY <3>1
  <2>5. CASE \/ Request(q) \/ Cancel(q) \/ WriteEvent(q)
             \/ SetAvailable(q) \/ LockPublish(q) \/ ScanAvailable(q)
    <3>1. pc[p] = "check"
      BY <2>5 DEF Request, Cancel, WriteEvent, SetAvailable, Walk, LockPublish,
                  ScanAvailable, prodVars, ProducerType
    <3>2. unread' = unread /\ minimum' = minimum
      BY <2>5 DEF Request, Cancel, WriteEvent, SetAvailable, LockPublish,
                  ScanAvailable, muVars
    <3> QED
      BY <2>1, <3>1, <3>2 DEF CheckSound
  <2> QED
    BY <1>2, <2>2, <2>3, <2>4, <2>5 DEF Producer, Underway
<1>3. ASSUME NEW d \in Consumers, Consumer(d) PROVE minimum' <= seq'[c]
  <2>1. /\ pc[p] = "check" /\ unread' = unread /\ minimum' = minimum
        /\ mu \in Producers
    BY <1>3, NoneAssumption
       DEF Consumer, AddGating, BeginRead, EndRead, RemoveGating, prodVars,
           muVars, MutexType
  <2>2. BeginRead(d) \/ EndRead(d)
    BY <1>3, <2>1, NoneAssumption DEF Consumer, AddGating, RemoveGating
  <2>3. gating' = gating /\ seq[c] <= seq'[c] /\ seq'[c] \in Int
    BY <1>1, <2>2 DEF BeginRead, EndRead, ConsumerType
  <2>4. minimum <= seq[c]
    BY <2>1, <2>3 DEF CheckSound
  <2> QED
    BY <1>1, <2>1, <2>3, <2>4
<1>4. CASE UNCHANGED vars
  BY <1>4 DEF vars, muVars, prodVars, consVars, CheckSound
<1> QED
  BY <1>2, <1>3, <1>4 DEF Next

(* A granted claim leaves room in front of every gating consumer.          *)
LEMMA GrantWithinWindow ==
  ASSUME Typed, CheckSound, NEW p \in Producers, Grant(p)
  PROVE  \A c \in gating : nextSequence' - Size <= seq[c]
<1> SUFFICES ASSUME NEW c \in gating PROVE nextSequence' - Size <= seq[c]
  OBVIOUS
<1>1. minimum <= seq[c]
  BY DEF CheckSound, Grant
<1>2. nextSequence' - Size <= minimum
  BY DEF Grant, HasCapacity
<1>3. /\ nextSequence' \in Int /\ minimum \in Int /\ seq[c] \in Int
      /\ Size \in Int
  BY TypedGrant, SizeAssumption
     DEF Typed, TypeOK, SequencerType, MutexType, ConsumerType
<1>4. \A i, j, k \in Int : i <= j /\ j <= k => i <= k
  OBVIOUS
<1>5. nextSequence' - Size \in Int
  BY <1>3
<1> QED
  BY <1>1, <1>2, <1>3, <1>4, <1>5

Checked == Typed /\ CheckSound

(* In every run what a capacity check has read is a lower bound.           *)
LEMMA CheckedAlways == Spec => []Checked
<1>1. Init => Checked
  BY TypedInit DEF Init, CheckSound, Checked
<1>2. Checked /\ [Next]_vars => Checked'
  BY TypedNext, CheckSoundNext DEF Checked
<1> QED
  BY <1>1, <1>2, PTL DEF Spec

(* A registered consumer that has not been overrun never is, in any run.   *)
THEOREM WindowIsKept == Spec => WindowKept
<1> DEFINE Kept == \A c \in gating :
                     InWindow(c) /\ c \in gating' => InWindow(c)'
<1>1. Checked /\ [Next]_vars => Kept
  <2> SUFFICES ASSUME Checked, [Next]_vars, NEW c \in gating, InWindow(c)
               PROVE  InWindow(c)'
    OBVIOUS
  <2> USE DEF Checked, Typed, TypeOK
  <2>1. /\ nextSequence \in Int /\ seq[c] \in Int /\ Size \in Int
        /\ c \in Consumers
    BY SizeAssumption DEF SequencerType, ConsumerType
  <2>2. ASSUME NEW p \in Producers, Producer(p) PROVE InWindow(c)'
    <3>1. seq' = seq
      BY <2>2 DEF Producer, Underway, Request, Cancel, LockClaim, ReadGating,
                  Grant, Refuse, WriteEvent, SetAvailable, LockPublish,
                  ScanAvailable, AdvanceCursor, consVars
    <3>2. CASE Grant(p)
      BY <3>1, <3>2, GrantWithinWindow DEF InWindow
    <3>3. CASE ~ Grant(p)
      <4>1. nextSequence' = nextSequence
        BY <2>2, <3>3 DEF Producer, Underway, Request, Cancel, LockClaim,
           ReadGating, Refuse, WriteEvent, SetAvailable, LockPublish,
           ScanAvailable, AdvanceCursor, seqrVars
      <4> QED
        BY <3>1, <4>1 DEF InWindow
    <3> QED
      BY <3>2, <3>3
  <2>3. ASSUME NEW d \in Consumers, Consumer(d) PROVE InWindow(c)'
    <3>1. nextSequence' = nextSequence
      BY <2>3, QuietConsumer DEF Quiet
    <3>2. seq[c] <= seq'[c] /\ seq'[c] \in Int
      BY <2>1, <2>3 DEF Consumer, AddGating, BeginRead, EndRead, RemoveGating,
                        ConsumerType
    <3> QED
      BY <2>1, <3>1, <3>2 DEF InWindow
  <2>4. CASE UNCHANGED vars
    BY <2>4 DEF vars, seqrVars, consVars, InWindow
  <2> QED
    BY <2>2, <2>3, <2>4 DEF Next
<1>2. Kept => [Kept]_vars
  OBVIOUS
<1> QED
  BY <1>1, CheckedAlways, PTL DEF Spec, WindowKept

(* Producers lap each other only while nobody gates them.                  *)
THEOREM NoLapWhileGated == Spec => LapsOnlyUngated
<1> DEFINE Gated == laps' = laps \/ gating = {}
<1>1. Checked /\ [Next]_vars => Gated
  <2> SUFFICES ASSUME Checked, [Next]_vars, gating # {} PROVE laps' = laps
    OBVIOUS
  <2>1. ASSUME NEW p \in Producers, Grant(p) PROVE laps' = laps
    <3>1. PICK c \in gating : nextSequence' - Size <= seq[c]
      BY <2>1, GrantWithinWindow DEF Checked
    <3>2. seq[c] <= cursor
      BY DEF Checked, Typed, TypeOK, ConsumersBehind, ConsumerType
    <3>3. /\ nextSequence' - Size \in Int /\ seq[c] \in Int
          /\ cursor \in Int
      BY <2>1, TypedGrant, SizeAssumption
         DEF Checked, Typed, TypeOK, SequencerType, ConsumerType
    <3>4. ~ (nextSequence' - Size > cursor)
      BY <3>1, <3>2, <3>3
    <3>5. laps' = (laps \/ nextSequence' - Size > cursor)
      BY <2>1, Zenon DEF Grant
    <3> QED
      BY <3>4, <3>5, Zenon DEF Checked, Typed, TypeOK
  <2>2. ASSUME NEW p \in Producers, Producer(p), ~ Grant(p)
        PROVE  laps' = laps
    BY <2>2 DEF Producer, Underway, Request, Cancel, LockClaim, ReadGating,
       Refuse, WriteEvent, SetAvailable, LockPublish, ScanAvailable,
       AdvanceCursor
  <2>3. ASSUME NEW d \in Consumers, Consumer(d) PROVE laps' = laps
    BY <2>3, QuietConsumer DEF Quiet
  <2>4. CASE UNCHANGED vars
    BY <2>4 DEF vars
  <2> QED
    BY <2>1, <2>2, <2>3, <2>4 DEF Next
<1>2. Gated => [Gated]_vars
  OBVIOUS
<1> QED
  BY <1>1, CheckedAlways, PTL DEF Spec, LapsOnlyUngated

--------------------------------------------------------------------------------
(* What the slots hold.                                                    *)

RingInv == Checked /\ Ordered /\ NoLap /\ RingHolds

(* Outside Grant, the history variable stands still and the claims too.    *)
LEMMA OnlyGrantClaims ==
  ASSUME Typed, [Next]_vars, \A p \in Producers : ~ Grant(p)
  PROVE  nextSequence' = nextSequence /\ laps' = laps /\ cursor <= cursor'
<1>1. cursor \in Int /\ scan \in Int
  BY DEF Typed, TypeOK, SequencerType, MutexType
<1>2. ASSUME NEW p \in Producers, Producer(p)
      PROVE  nextSequence' = nextSequence /\ laps' = laps /\ cursor <= cursor'
  <2>1. CASE AdvanceCursor(p)
    BY <1>1, <2>1 DEF AdvanceCursor, Typed, TypeOK, MutexType
  <2>2. CASE ~ AdvanceCursor(p)
    BY <1>1, <1>2, <2>2 DEF Producer, Underway, Request, Cancel, LockClaim,
       ReadGating, Refuse, WriteEvent, SetAvailable, LockPublish,
       ScanAvailable, seqrVars
  <2> QED
    BY <2>1, <2>2
<1>3. ASSUME NEW c \in Consumers, Consumer(c)
      PROVE  nextSequence' = nextSequence /\ laps' = laps /\ cursor <= cursor'
  BY <1>1, <1>3, QuietConsumer DEF Quiet
<1>4. CASE UNCHANGED vars
  BY <1>1, <1>4 DEF vars, seqrVars
<1> QED
  BY <1>2, <1>3, <1>4 DEF Next

(* A claim past the cursor by more than the ring raises laps, and nothing  *)
(* else moves the claims; the cursor never goes back.                      *)
LEMMA NoLapNext == Typed /\ NoLap /\ [Next]_vars => NoLap'
<1> SUFFICES ASSUME Typed, NoLap, [Next]_vars, ~ laps'
             PROVE  nextSequence' - Size <= cursor'
  BY DEF NoLap
<1>0. /\ \A i, j \in Int : ~ (i > j) => i <= j
      /\ \A i, j, k \in Int : i <= j /\ j <= k => i <= k
  OBVIOUS
<1>1. /\ nextSequence \in Int /\ cursor \in Int /\ Size \in Int
      /\ nextSequence' \in Int /\ cursor' \in Int
      /\ nextSequence - Size \in Int /\ nextSequence' - Size \in Int
  BY TypedNext, SizeAssumption DEF Typed, TypeOK, SequencerType
<1>2. ASSUME NEW p \in Producers, Grant(p)
      PROVE  nextSequence' - Size <= cursor'
  <2>1. laps' = (laps \/ nextSequence' - Size > cursor) /\ cursor' = cursor
    BY <1>2, Zenon DEF Grant
  <2>2. ~ (nextSequence' - Size > cursor)
    BY <2>1, Zenon
  <2>3. nextSequence' - Size <= cursor
    BY <1>0, <1>1, <2>2
  <2> QED
    BY <2>1, <2>3
<1>3. CASE \A p \in Producers : ~ Grant(p)
  <2>1. nextSequence - Size <= cursor
    BY <1>3, OnlyGrantClaims DEF NoLap
  <2>2. nextSequence' - Size = nextSequence - Size /\ cursor <= cursor'
    BY <1>3, OnlyGrantClaims
  <2> QED
    BY <1>0, <1>1, <2>1, <2>2
<1> QED
  BY <1>2, <1>3

(* A claimed sequence is unwritten only beyond the cursor.                 *)
LEMMA UnwrittenAhead ==
  ASSUME Typed, Ordered, NEW p \in Producers, NEW s \in Unwritten(p)
  PROVE  s \in Nat /\ cursor < s /\ s <= nextSequence
<1>1. s \in Unflagged(p)
  <2>1. pc[p] = "write" /\ s \in at[p] .. hi[p]
    BY DEF Unwritten
  <2>2. lo[p] <= at[p] /\ lo[p] \in Int /\ at[p] \in Int /\ hi[p] \in Int
    BY <2>1 DEF Typed, TypeOK, RangesClaimed, Publishing, ProducerType
  <2>3. s \in lo[p] .. hi[p]
    BY <2>1, <2>2
  <2> QED
    BY <2>1, <2>3 DEF Unflagged
<1> QED
  BY <1>1, UnflaggedClaimed DEF Claimed, Ordered, NoGapPassed

(* A slot keeps the last event written to it: a claim takes its sequences  *)
(* out of the window, a write puts its own in, and no two producers write  *)
(* to one slot of the window.                                              *)
LEMMA RingHoldsNext == RingInv /\ [Next]_vars => RingHolds'
<1> SUFFICES ASSUME RingInv, [Next]_vars, ~ laps',
                    NEW s \in 0 .. MaxSeq, nextSequence' - Size < s,
                    s <= nextSequence',
                    \A p \in Producers : s \notin Unwritten(p)'
             PROVE  ring'[Index(s)] = s
  BY DEF RingHolds
<1> USE DEF RingInv, Checked
<1>1. /\ nextSequence \in Int /\ cursor \in Int /\ Size \in Int
      /\ nextSequence' \in Int
      /\ nextSequence - Size \in Int /\ nextSequence' - Size \in Int
  BY TypedNext, SizeAssumption DEF Typed, TypeOK, SequencerType
<1>2. ASSUME NEW p \in Producers, Grant(p) PROVE ring'[Index(s)] = s
  <2>1. /\ ring' = ring /\ nextSequence < nextSequence'
        /\ Unwritten(p) = {}
        /\ s \notin nextSequence + 1 .. nextSequence'
        /\ \A q \in Producers \ {p} : Unwritten(q)' = Unwritten(q)
    BY <1>2, GrantClaims
  <2>2. ~ laps
    <3>1. laps' = (laps \/ nextSequence' - Size > cursor)
      BY <1>2, Zenon DEF Grant
    <3> QED
      BY <3>1, Zenon
  <2>3. s <= nextSequence /\ nextSequence - Size < s
    <3>1. \A i, j, k \in Int : i < j /\ j - k < s => i - k < s
      OBVIOUS
    <3>2. s <= nextSequence
      BY <1>1, <2>1
    <3> QED
      BY <1>1, <2>1, <3>1, <3>2
  <2>4. \A q \in Producers : s \notin Unwritten(q)
    BY <2>1
  <2> QED
    BY <2>1, <2>2, <2>3, <2>4 DEF RingHolds
<1>3. ASSUME NEW p \in Producers, WriteEvent(p) PROVE ring'[Index(s)] = s
  <2>1. /\ ring' = [ring EXCEPT ![Index(at[p])] = at[p]]
        /\ nextSequence' = nextSequence /\ laps' = laps
    BY <1>3 DEF WriteEvent
  <2>2. at[p] \in Nat /\ cursor < at[p] /\ at[p] <= nextSequence
    BY <1>3, WriteChanges, UnwrittenAhead
  <2>3. CASE Index(s) = Index(at[p])
    <3>1. nextSequence - Size <= cursor
      BY <2>1 DEF NoLap
    <3>2. s - at[p] < Size /\ at[p] - s < Size
      BY <1>1, <2>1, <2>2, <3>1
    <3>3. s = at[p]
      BY <2>2, <2>3, <3>2, WindowIsInjective
    <3> QED
      BY <2>1, <3>3, IndexType DEF Typed, TypeOK, SequencerType
  <2>4. CASE Index(s) # Index(at[p])
    <3>1. \A q \in Producers : s \notin Unwritten(q)
      BY <1>3, <2>4, WriteChanges
    <3>2. ring[Index(s)] = s
      BY <2>1, <3>1 DEF RingHolds
    <3> QED
      BY <2>1, <2>4, <3>2
  <2> QED
    BY <2>3, <2>4
<1>4. CASE \A p \in Producers : ~ Grant(p) /\ ~ WriteEvent(p)
  <2>1. nextSequence' = nextSequence /\ laps' = laps
    BY <1>4, OnlyGrantClaims
  <2>2. ring' = ring /\ \A q \in Producers : Unwritten(q)' = Unwritten(q)
    <3>1. CASE Quiet
      BY <3>1 DEF Quiet
    <3>2. ASSUME NEW p \in Producers, Producer(p), ~ Quiet
          PROVE  /\ ring' = ring
                 /\ \A q \in Producers : Unwritten(q)' = Unwritten(q)
      <4>1. \/ SetAvailable(p) \/ LockPublish(p) \/ ScanAvailable(p)
            \/ AdvanceCursor(p)
        BY <1>4, <3>2, QuietProducer DEF Producer, Underway
      <4>2. CASE SetAvailable(p)
        BY <4>2, FlagChanges DEF SetAvailable
      <4>3. CASE LockPublish(p) \/ ScanAvailable(p) \/ AdvanceCursor(p)
        BY <4>3, AdvanceKeeps
      <4> QED
        BY <4>1, <4>2, <4>3
    <3>3. CASE UNCHANGED vars
      BY <3>3 DEF vars, seqrVars, prodVars, Unwritten
    <3> QED
      BY <3>1, <3>2, <3>3, QuietConsumer DEF Next
  <2> QED
    BY <2>1, <2>2 DEF RingHolds
<1> QED
  BY <1>2, <1>3, <1>4

(* In every run without a lap the ring holds what was written.             *)
LEMMA RingAlways == Spec => []RingInv
<1>1. Init => RingInv
  <2> SUFFICES ASSUME Init PROVE RingInv
    OBVIOUS
  <2>1. NoLap
    BY SizeAssumption DEF Init, NoLap
  <2>2. \A s \in 0 .. MaxSeq : ~ (s <= nextSequence)
    BY DEF Init
  <2>3. Checked
    BY TypedInit DEF Init, CheckSound, Checked
  <2> QED
    BY <2>1, <2>2, <2>3, OrderedInit DEF RingInv, RingHolds
<1>2. RingInv /\ [Next]_vars => RingInv'
  BY TypedNext, CheckSoundNext, OrderedNext, NoLapNext, RingHoldsNext
     DEF RingInv, Checked
<1> QED
  BY <1>1, <1>2, PTL DEF Spec

(* The event a handler uses is the one published under its sequence, for   *)
(* as long as the handler runs.                                            *)
THEOREM NoOverwriteWhileRead == Spec => []ReadIntact
<1>1. RingInv => ReadIntact
  <2> SUFFICES ASSUME RingInv, NEW c \in gating, mode[c] = "reading",
                      InWindow(c), ~ laps
               PROVE  ring[Index(seq[c] + 1)] = seq[c] + 1
    BY DEF ReadIntact
  <2> USE DEF RingInv, Checked
  <2>1. /\ c \in Consumers /\ seq[c] \in Int /\ -1 <= seq[c]
        /\ seq[c] < cursor /\ cursor \in Int /\ cursor <= nextSequence
        /\ nextSequence \in Int /\ Size \in Int
    BY SizeAssumption
       DEF Typed, TypeOK, ConsumerType, SequencerType, ConsumersBehind
  <2>2. seq[c] + 1 \in 0 .. MaxSeq
    BY <2>1, MaxSeqAssumption DEF Typed, TypeOK, SequencerType
  <2>3. nextSequence - Size < seq[c] + 1 /\ seq[c] + 1 <= nextSequence
    BY <2>1 DEF InWindow
  <2>4. \A p \in Producers : seq[c] + 1 \notin Unwritten(p)
    BY <2>1, UnwrittenAhead
  <2> QED
    BY <2>2, <2>3, <2>4 DEF RingHolds
<1> QED
  BY <1>1, RingAlways, PTL

--------------------------------------------------------------------------------
(* Nothing published stays hidden.                                         *)

(* A flag set in the window is not overwritten by another sequence of the  *)
(* same slot.                                                              *)
LEMMA FlagsStayNext ==
  RingInv /\ FlagsStay /\ [Next]_vars => FlagsStay'
<1> SUFFICES ASSUME RingInv, FlagsStay, [Next]_vars, ~ laps',
                    NEW s \in 0 .. MaxSeq, nextSequence' - Size < s,
                    s <= nextSequence',
                    \A p \in Producers : s \notin Unflagged(p)'
             PROVE  Available(s)'
  BY DEF FlagsStay
<1> USE DEF RingInv, Checked
<1>1. /\ nextSequence \in Int /\ cursor \in Int /\ Size \in Int
      /\ nextSequence' \in Int
      /\ nextSequence - Size \in Int /\ nextSequence' - Size \in Int
  BY TypedNext, SizeAssumption DEF Typed, TypeOK, SequencerType
<1>2. ASSUME NEW p \in Producers, Grant(p) PROVE Available(s)'
  <2>1. /\ availability' = availability /\ nextSequence < nextSequence'
        /\ Unflagged(p) = {}
        /\ s \notin nextSequence + 1 .. nextSequence'
        /\ \A q \in Producers \ {p} : Unflagged(q)' = Unflagged(q)
    BY <1>2, GrantClaims
  <2>2. ~ laps
    <3>1. laps' = (laps \/ nextSequence' - Size > cursor)
      BY <1>2, Zenon DEF Grant
    <3> QED
      BY <3>1, Zenon
  <2>3. s <= nextSequence /\ nextSequence - Size < s
    <3>1. \A i, j, k \in Int : i < j /\ j - k < s => i - k < s
      OBVIOUS
    <3>2. s <= nextSequence
      BY <1>1, <2>1
    <3> QED
      BY <1>1, <2>1, <3>1, <3>2
  <2>4. \A q \in Producers : s \notin Unflagged(q)
    BY <2>1
  <2> QED
    BY <2>1, <2>2, <2>3, <2>4 DEF FlagsStay, Available
<1>3. ASSUME NEW p \in Producers, SetAvailable(p) PROVE Available(s)'
  <2>1. /\ availability' = [availability EXCEPT
                              ![Index(at[p])] = AvailabilityFlag(at[p])]
        /\ nextSequence' = nextSequence /\ laps' = laps
    BY <1>3 DEF SetAvailable
  <2>2. /\ at[p] \in Unflagged(p) /\ at[p] \in Nat
        /\ at[p] <= nextSequence /\ cursor < at[p]
    BY <1>3, FlagChanges, UnflaggedClaimed DEF Claimed, Ordered, NoGapPassed
  <2>3. CASE Index(s) = Index(at[p])
    <3>1. nextSequence - Size <= cursor
      BY <2>1 DEF NoLap
    <3>2. s - at[p] < Size /\ at[p] - s < Size
      BY <1>1, <2>1, <2>2, <3>1
    <3>3. s = at[p]
      BY <2>2, <2>3, <3>2, WindowIsInjective
    <3> QED
      BY <2>1, <3>3, IndexType DEF Available, Typed, TypeOK, SequencerType
  <2>4. CASE Index(s) # Index(at[p])
    <3>1. \A q \in Producers : s \notin Unflagged(q)
      BY <1>3, <2>4, FlagChanges
    <3>2. Available(s)
      BY <2>1, <3>1 DEF FlagsStay
    <3> QED
      BY <2>1, <2>4, <3>2 DEF Available
  <2> QED
    BY <2>3, <2>4
<1>4. CASE \A p \in Producers : ~ Grant(p) /\ ~ SetAvailable(p)
  <2>1. nextSequence' = nextSequence /\ laps' = laps
    BY <1>4, OnlyGrantClaims
  <2>2. /\ availability' = availability
        /\ \A q \in Producers : Unflagged(q)' = Unflagged(q)
    <3>1. CASE Quiet
      BY <3>1 DEF Quiet
    <3>2. ASSUME NEW p \in Producers, Producer(p), ~ Quiet
          PROVE  /\ availability' = availability
                 /\ \A q \in Producers : Unflagged(q)' = Unflagged(q)
      <4>1. \/ WriteEvent(p) \/ LockPublish(p) \/ ScanAvailable(p)
            \/ AdvanceCursor(p)
        BY <1>4, <3>2, QuietProducer DEF Producer, Underway
      <4>2. CASE WriteEvent(p)
        BY <4>2, WriteChanges DEF WriteEvent
      <4>3. CASE LockPublish(p) \/ ScanAvailable(p) \/ AdvanceCursor(p)
        BY <4>3, AdvanceKeeps
      <4> QED
        BY <4>1, <4>2, <4>3
    <3>3. CASE UNCHANGED vars
      BY <3>3 DEF vars, seqrVars, prodVars, Unflagged
    <3> QED
      BY <3>1, <3>2, <3>3, QuietConsumer DEF Next
  <2> QED
    BY <2>1, <2>2 DEF FlagsStay, Available
<1> QED
  BY <1>2, <1>3, <1>4

Busy == \E p \in Producers : pc[p] \in Publishing

(* The cursor lags behind the claims only while somebody is publishing.    *)
LEMMA BusyUnlessCaughtUp == Typed /\ NothingHidden => (~ laps =>
                              cursor = nextSequence \/ Busy)
BY DEF Typed, TypeOK, ProducerType, Stages, NothingHidden, Busy, Publishing

(* The last producer to leave finds no gap, or a gap that is still owned.  *)
LEMMA NothingHiddenNext ==
  RingInv /\ FlagsStay /\ NothingHidden /\ [Next]_vars => NothingHidden'
<1> SUFFICES ASSUME RingInv, FlagsStay, NothingHidden, [Next]_vars,
                    \A p \in Producers : pc'[p] \in {"idle", "want", "check"},
                    ~ laps'
             PROVE  cursor' = nextSequence'
  BY DEF NothingHidden
<1> USE DEF RingInv, Checked
<1>1. ASSUME NEW p \in Producers, AdvanceCursor(p)
      PROVE  cursor' = nextSequence'
  <2>1. /\ cursor' = scan - 1 /\ nextSequence' = nextSequence /\ laps' = laps
        /\ pc[p] = "scan" /\ ~ InScan(scan)
    BY <1>1 DEF AdvanceCursor
  <2>2. /\ nextSequence \in Int /\ cursor \in Int /\ scan \in Nat
        /\ scan <= nextSequence + 1 /\ cursor < scan
        /\ nextSequence - Size \in Int
    BY <2>1, SizeAssumption DEF Typed, TypeOK, SequencerType, MutexType
  <2>3. \A q \in Producers : Unflagged(q) = {}
    <3>1. \A q \in Producers : Unflagged(q)' = {}
      BY DEF Unflagged
    <3> QED
      BY <1>1, <3>1, AdvanceKeeps
  <2>4. ASSUME scan <= nextSequence PROVE FALSE
    <3>0. scan \in 0 .. MaxSeq
      BY <2>2, <2>4, MaxSeqAssumption DEF Typed, TypeOK, SequencerType
    <3>1. nextSequence - Size < scan
      <4>1. nextSequence - Size <= cursor
        BY <2>1 DEF NoLap
      <4>2. \A i, j, k \in Int : i <= j /\ j < k => i < k
        OBVIOUS
      <4> QED
        BY <2>2, <4>1, <4>2
    <3>2. Available(scan)
      BY <2>1, <2>2, <2>3, <2>4, <3>0, <3>1 DEF FlagsStay
    <3> QED
      BY <2>1, <2>4, <3>2 DEF InScan
  <2> QED
    BY <2>1, <2>2, <2>4
<1>2. ASSUME NEW p \in Producers, Grant(p) PROVE FALSE
  BY <1>2 DEF Grant, Typed, TypeOK, ProducerType
<1>3. CASE \A p \in Producers : ~ AdvanceCursor(p)
  <2>1. nextSequence' = nextSequence /\ laps' = laps
    BY <1>2, OnlyGrantClaims
  <2>2. cursor' = cursor /\ \A q \in Producers :
          pc[q] \in Publishing => pc'[q] \in Publishing
    <3>1. ASSUME NEW p \in Producers, Producer(p)
          PROVE  /\ cursor' = cursor
                 /\ \A q \in Producers :
                      pc[q] \in Publishing => pc'[q] \in Publishing
      BY <1>3, <3>1 DEF Producer, Underway, Request, Cancel, LockClaim,
         ReadGating, Grant, Refuse, WriteEvent, SetAvailable, Walk,
         LockPublish, ScanAvailable, seqrVars, prodVars, Publishing, Typed,
         TypeOK, ProducerType
    <3>2. ASSUME NEW c \in Consumers, Consumer(c)
          PROVE  cursor' = cursor /\ pc' = pc
      BY <3>2 DEF Consumer, AddGating, BeginRead, EndRead, RemoveGating,
                  seqrVars, prodVars
    <3>3. CASE UNCHANGED vars
      BY <3>3 DEF vars, seqrVars, prodVars
    <3> QED
      BY <3>1, <3>2, <3>3 DEF Next
  <2>3. ~ Busy
    BY <2>2 DEF Busy, Publishing
  <2> QED
    BY <2>1, <2>2, <2>3, BusyUnlessCaughtUp
<1> QED
  BY <1>1, <1>3

(* When nobody is publishing, every claimed sequence is readable.          *)
THEOREM NothingStaysHidden == Spec => []NothingHidden
<1> DEFINE J == RingInv /\ FlagsStay /\ NothingHidden
<1>1. Init => FlagsStay /\ NothingHidden
  <2> SUFFICES ASSUME Init PROVE FlagsStay /\ NothingHidden
    OBVIOUS
  <2>1. \A s \in 0 .. MaxSeq : ~ (s <= nextSequence)
    BY DEF Init
  <2> QED
    BY <2>1 DEF Init, FlagsStay, NothingHidden
<1>2. FlagsStay /\ NothingHidden /\ RingInv /\ [Next]_vars
        => FlagsStay' /\ NothingHidden'
  BY FlagsStayNext, NothingHiddenNext
<1> QED
  BY <1>1, <1>2, RingAlways, PTL DEF Spec

--------------------------------------------------------------------------------
(* Refinement of EventLog.                                                 *)

(* The initial state is one of the log.                                    *)
LEMMA RefinesInit == Init => Log!Init
<1> SUFFICES ASSUME Init PROVE Log!Init
  OBVIOUS
<1>1. Pending = {}
  BY DEF Init, Pending, Unflagged
<1> QED
  BY <1>1 DEF Init, Log!Init

(* Steps that keep the claims and the flags keep the pending set.          *)
LEMMA PendingKept ==
  ASSUME \A p \in Producers : Unflagged(p)' = Unflagged(p)
  PROVE  Pending' = Pending
BY DEF Pending

(* Grant claims in the log what it claims.                                 *)
LEMMA GrantIsClaim ==
  ASSUME Typed, CheckSound, NEW p \in Producers, Grant(p)
  PROVE  \E n \in 1 .. Size : Log!Claim(n)
<1>1. call[p].n \in 1 .. Size /\ nextSequence' = nextSequence + call[p].n
  BY DEF Typed, TypeOK, ProducerType, Calls, Grant
<1>2. \A c \in gating : nextSequence + call[p].n - Size <= seq[c]
  <2>1. nextSequence' - Size = nextSequence + call[p].n - Size
    BY <1>1, SizeAssumption DEF Typed, TypeOK, SequencerType
  <2> QED
    BY <2>1, GrantWithinWindow
<1>3. Pending' = Pending \union
                 (nextSequence + 1 .. nextSequence + call[p].n)
  BY <1>1, GrantClaims DEF Pending
<1>4. UNCHANGED <<cursor, gating, seq>>
  BY DEF Grant, consVars
<1>5. Log!Claim(call[p].n)
  BY <1>1, <1>2, <1>3, <1>4 DEF Log!Claim
<1> QED
  BY <1>1, <1>5

(* Setting a flag publishes that sequence in the log.                      *)
LEMMA FlagIsPublish ==
  ASSUME Typed, Ordered, NEW p \in Producers, SetAvailable(p)
  PROVE  \E s \in Pending : Log!Publish(s)
<1>1. at[p] \in Pending /\ Pending' = Pending \ {at[p]}
  BY FlagChanges DEF Pending, Ordered, RangesDisjoint
<1>2. UNCHANGED <<nextSequence, cursor, gating, seq>>
  BY DEF SetAvailable, consVars
<1> QED
  BY <1>1, <1>2 DEF Log!Publish

(* Advancing the cursor reveals a prefix without gaps, or nothing.         *)
LEMMA AdvanceIsReveal ==
  ASSUME Typed, Ordered, NEW p \in Producers, AdvanceCursor(p)
  PROVE  (\E k \in cursor + 1 .. nextSequence : Log!Reveal(k))
         \/ UNCHANGED Log!vars
<1>1. Pending' = Pending
  BY AdvanceKeeps, PendingKept
<1>2. /\ cursor' = scan - 1 /\ cursor < scan /\ scan <= nextSequence + 1
      /\ cursor \in Int /\ scan \in Int /\ nextSequence \in Int
      /\ pc[p] = "scan"
  BY DEF AdvanceCursor, Typed, TypeOK, MutexType, SequencerType
<1>3. UNCHANGED <<nextSequence, gating, seq>>
  BY DEF AdvanceCursor, consVars
<1>4. CASE cursor' = cursor
  BY <1>1, <1>3, <1>4 DEF Log!vars
<1>5. CASE cursor' # cursor
  <2>1. scan - 1 \in cursor + 1 .. nextSequence
    BY <1>2, <1>5
  <2>2. Pending \intersect (cursor + 1 .. scan - 1) = {}
    <3> SUFFICES ASSUME NEW q \in Producers, NEW s \in Unflagged(q),
                        s \in cursor + 1 .. scan - 1
                 PROVE  FALSE
      BY DEF Pending
    <3> QED
      BY <1>2 DEF Ordered, NoGapPassed
  <2> QED
    BY <1>1, <1>2, <1>3, <2>1, <2>2 DEF Log!Reveal
<1> QED
  BY <1>4, <1>5

(* Consumer steps are subscriptions, reads and unsubscriptions of the log. *)
LEMMA ConsumerIsLog ==
  ASSUME Typed, NEW c \in Consumers, Consumer(c)
  PROVE  \/ Log!Subscribe(c) \/ Log!Unsubscribe(c) \/ Log!Consume(c)
         \/ UNCHANGED Log!vars
<1>1. Pending' = Pending /\ UNCHANGED <<nextSequence, cursor>>
  BY QuietConsumer, PendingKept DEF Quiet
<1>2. CASE AddGating(c)
  BY <1>1, <1>2 DEF AddGating, Log!Subscribe
<1>3. CASE RemoveGating(c)
  BY <1>1, <1>3 DEF RemoveGating, Log!Unsubscribe
<1>4. CASE BeginRead(c)
  BY <1>1, <1>4 DEF BeginRead, Log!vars
<1>5. CASE EndRead(c)
  <2>1. seq[c] < cursor
    BY <1>5 DEF EndRead, Typed, ConsumersBehind
  <2> QED
    BY <1>1, <1>5, <2>1 DEF EndRead, Log!Consume
<1> QED
  BY <1>2, <1>3, <1>4, <1>5 DEF Consumer

(* Every step is a step of the log or leaves it alone.                     *)
LEMMA RefinesNext ==
  Checked /\ Ordered /\ [Next]_vars => [Log!Next]_(Log!vars)
<1> SUFFICES ASSUME Checked, Ordered, [Next]_vars
             PROVE  [Log!Next]_(Log!vars)
  OBVIOUS
<1> USE DEF Checked
<1>1. ASSUME NEW p \in Producers, Producer(p) PROVE [Log!Next]_(Log!vars)
  <2>1. CASE Grant(p)
    BY <2>1, GrantIsClaim DEF Log!Next
  <2>2. CASE SetAvailable(p)
    BY <2>2, FlagIsPublish DEF Log!Next
  <2>3. CASE AdvanceCursor(p)
    BY <2>3, AdvanceIsReveal DEF Log!Next
  <2>4. CASE ~ Grant(p) /\ ~ SetAvailable(p) /\ ~ AdvanceCursor(p)
    <3>1. UNCHANGED <<gating, seq>>
      BY <1>1, <2>4 DEF Producer, Underway, Request, Cancel, LockClaim,
         ReadGating, Refuse, WriteEvent, LockPublish, ScanAvailable, consVars
    <3>2. UNCHANGED <<nextSequence, cursor>>
      BY <1>1, <2>4 DEF Producer, Underway, Request, Cancel, LockClaim,
         ReadGating, Refuse, WriteEvent, LockPublish, ScanAvailable, seqrVars
    <3>3. Pending' = Pending
      BY <1>1, <2>4, QuietProducer, WriteChanges, AdvanceKeeps, PendingKept
         DEF Producer, Underway, Quiet
    <3> QED
      BY <3>1, <3>2, <3>3 DEF Log!vars
  <2> QED
    BY <2>1, <2>2, <2>3, <2>4
<1>2. ASSUME NEW c \in Consumers, Consumer(c) PROVE [Log!Next]_(Log!vars)
  BY <1>2, ConsumerIsLog DEF Log!Next
<1>3. CASE UNCHANGED vars
  BY <1>3 DEF vars, seqrVars, prodVars, consVars, Log!vars, Pending, Unflagged
<1> QED
  BY <1>1, <1>2, <1>3 DEF Next

(* The multi-producer sequencer implements the log, for every number of    *)
(* producers and consumers and every size.                                 *)
THEOREM ImplementsLog == Spec => LogSpec
<1>1. Spec => [](Checked /\ Ordered)
  BY RingAlways, PTL DEF RingInv
<1> QED
  BY <1>1, RefinesInit, RefinesNext, PTL DEF Spec, LogSpec, Log!Spec
=================================================================================
