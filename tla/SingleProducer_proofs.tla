------------------------- MODULE SingleProducer_proofs -------------------------
(***************************************************************************)
(* The single-producer sequencer implements the log and no event is        *)
(* overwritten under its reader, for every set of consumers, every size    *)
(* and every bound, if nobody registers during a claim.                    *)
(***************************************************************************)
EXTENDS SingleProducer, FiniteSetTheorems, TLAPS

--------------------------------------------------------------------------------
(* Slots and laps *)

(* A sequence is its lap times the size plus its slot.                     *)
LEMMA SlotAndLap ==
  \A s \in Nat :
    /\ s = Size * (s \div Size) + (s % Size)
    /\ s \div Size \in Nat
    /\ s % Size \in Slots
BY SizeAssumption, SMTT(20) DEF Slots

(* The slot of a sequence is a slot.                                       *)
LEMMA IndexType == \A s \in Nat : Index(s) \in Slots
BY SlotAndLap DEF Index

(* A product below its positive factor has no positive cofactor.           *)
LEMMA SmallMultiple ==
  ASSUME NEW n \in Nat \ {0}, NEW k \in Int, n * k < n
  PROVE  k <= 0
<1> SUFFICES ASSUME k >= 1 PROVE FALSE
  OBVIOUS
<1>1. PICK j \in Nat : k = j + 1
  OBVIOUS
<1>2. n * k = n * j + n
  BY <1>1
<1>3. n * j >= 0
  OBVIOUS
<1> QED
  BY <1>2, <1>3

(* Two sequences less than a lap apart do not share a slot.                *)
LEMMA WindowIsInjective ==
  ASSUME NEW s \in Nat, NEW t \in Nat,
         Index(s) = Index(t), s - t < Size, t - s < Size
  PROVE  s = t
<1> DEFINE k == (s \div Size) - (t \div Size)
<1>1. k \in Int /\ -k \in Int
  BY SlotAndLap
<1>2. Size * k = s - t /\ Size * (-k) = t - s
  BY SlotAndLap, SizeAssumption, <1>1 DEF Index
<1> HIDE DEF k
<1>3. k <= 0 /\ -k <= 0
  BY <1>1, <1>2, SmallMultiple, SizeAssumption
<1>4. s - t = 0
  BY <1>1, <1>2, <1>3, SizeAssumption
<1> QED
  BY <1>4

--------------------------------------------------------------------------------
(* Inductive invariant *)

(* At first nobody is registered and nothing is claimed.                   *)
LEMMA InvInit == Init => IInv
<1> SUFFICES ASSUME Init PROVE IInv
  OBVIOUS
<1> USE DEF Init
<1>1. TypeOK
  BY SizeAssumption, MaxSeqAssumption DEF TypeOK, NoCall, Calls
<1>2. CountTrue
  BY FS_EmptySet DEF CountTrue, Joining
<1>3. CallTrue /\ MinimumTrue /\ CacheConservative /\ ReadersBehind
  BY DEF CallTrue, MinimumTrue, CacheConservative, ReadersBehind
<1>4. RingTrue /\ WindowKept
  BY DEF RingTrue, Written, WindowKept
<1> QED
  BY <1>1, <1>2, <1>3, <1>4 DEF IInv

(* A granted claim takes the sequences the call asked for.                 *)
LEMMA ClaimType ==
  ASSUME TypeOK, CallTrue, pc \in {"want", "cache", "store"}, Claim
  PROVE  /\ nextSequence' = nextSequence + call.n
         /\ call.n \in 1 .. Size
         /\ nextSequence' \in -1 .. MaxSeq
         /\ at' = nextSequence + 1
         /\ at' \in 0 .. MaxSeq + 1
         /\ call' \in Calls
         /\ cursor <= nextSequence
BY SizeAssumption, MaxSeqAssumption DEF TypeOK, CallTrue, Claim, Calls, NoCall

(* Every step keeps the types, and the lock held inside its sections.       *)
LEMMA TypesStep ==
  ASSUME TypeOK, CountTrue, CallTrue, ReadersBehind,
         ~ RegisterWhileClaiming, [Next]_vars
  PROVE  TypeOK'
<1> USE SizeAssumption, MaxSeqAssumption
    DEF TypeOK, CountTrue, CallTrue, ReadersBehind, Joining, Calls, NoCall,
        gateVars, checkVars, callVars, consVars
<1>1. CASE Request
  BY <1>1 DEF Request
<1>2. CASE Cancel
  BY <1>2 DEF Cancel
<1>3. CASE CheckCount
  BY <1>3, ClaimType DEF CheckCount, Claim
<1>4. CASE CheckCache
  BY <1>4, ClaimType DEF CheckCache, Claim
<1>5. CASE RLock
  BY <1>5 DEF RLock
<1>6. ASSUME NEW c \in Consumers, ReadGating(c) PROVE TypeOK'
  BY <1>6 DEF ReadGating, Lower
<1>7. CASE RUnlock
  BY <1>7 DEF RUnlock
<1>8. CASE StoreCache
  <2>1. /\ pc = "store" /\ pc' \in {"write", "want", "idle"}
        /\ UNCHANGED <<cursor, ring, gatingCount, gating, gatingMu, unread, seq, mode, inTime>>
        /\ cached' = minimum /\ minimum' = -1
    BY <1>8 DEF StoreCache, Claim, Fail
  <2>2. /\ nextSequence' \in -1 .. MaxSeq /\ cursor' <= nextSequence'
        /\ call' \in Calls /\ at' \in 0 .. MaxSeq + 1 /\ known' \subseteq Consumers
    <3>1. CASE Enough
      BY <1>8, <3>1, ClaimType DEF StoreCache, Claim
    <3>2. CASE ~ Enough
      <4>1. UNCHANGED <<nextSequence, cursor, at>>
        BY <1>8, <3>2 DEF StoreCache, Fail
      <4>2. /\ call' = call \/ call' = NoCall
            /\ known' = known \/ known' = {}
        BY <1>8, <3>2 DEF StoreCache, Fail
      <4>3. NoCall \in Calls
        OBVIOUS
      <4>4. call \in Calls /\ known \subseteq Consumers
        BY DEF TypeOK
      <4>5. call' \in Calls /\ known' \subseteq Consumers
        BY <4>2, <4>3, <4>4, Zenon
      <4>6. nextSequence \in -1 .. MaxSeq /\ cursor <= nextSequence /\ at \in 0 .. MaxSeq + 1
        BY DEF TypeOK
      <4> QED
        BY <4>1, <4>5, <4>6
    <3> QED
      BY <3>1, <3>2
  <2> QED
    BY <2>1, <2>2
<1>9. CASE WriteEvent
  <2>1. at \in Nat /\ at <= nextSequence
    BY <1>9 DEF WriteEvent
  <2>2. Index(at) \in Slots
    BY <2>1, IndexType
  <2>3. ring' \in [Slots -> -1 .. MaxSeq]
    BY <1>9, <2>1, <2>2 DEF WriteEvent
  <2> QED
    BY <1>9, <2>1, <2>3 DEF WriteEvent
<1>10. CASE PublishRange
  BY <1>10 DEF PublishRange
<1>11. ASSUME NEW c \in Consumers, AddBegin(c) PROVE TypeOK'
  BY <1>11 DEF AddBegin
<1>12. ASSUME NEW c \in Consumers, AddEnd(c) PROVE TypeOK'
  BY <1>12 DEF AddEnd, ResetCache
<1>13. ASSUME NEW c \in Consumers, BeginRead(c) PROVE TypeOK'
  BY <1>13 DEF BeginRead
<1>14. ASSUME NEW c \in Consumers, EndRead(c) PROVE TypeOK'
  BY <1>14 DEF EndRead
<1>15. ASSUME NEW c \in Consumers, RemoveBegin(c) PROVE TypeOK'
  BY <1>15 DEF RemoveBegin
<1>16. ASSUME NEW c \in Consumers, RemoveEnd(c) PROVE TypeOK'
  BY <1>16 DEF RemoveEnd
<1>17. CASE UNCHANGED vars
  BY <1>17 DEF vars
<1> QED
  BY <1>1, <1>2, <1>3, <1>4, <1>5, <1>6, <1>7, <1>8, <1>9, <1>10,
     <1>11, <1>12, <1>13, <1>14, <1>15, <1>16, <1>17
  DEF Next, Producer, Underway, Consumer

(* Every step keeps the count true.                                         *)
LEMMA CountStep ==
  ASSUME TypeOK, CountTrue,
         ~ RegisterWhileClaiming, [Next]_vars
  PROVE  CountTrue'
<1> USE DEF TypeOK, CountTrue, Joining, gateVars, checkVars, callVars, consVars
<1>1. CASE Request
  BY <1>1 DEF Request
<1>2. CASE Cancel
  BY <1>2 DEF Cancel
<1>3. CASE CheckCount
  BY <1>3 DEF CheckCount, Claim
<1>4. CASE CheckCache
  BY <1>4 DEF CheckCache, Claim
<1>5. CASE RLock
  BY <1>5 DEF RLock
<1>6. ASSUME NEW c \in Consumers, ReadGating(c) PROVE CountTrue'
  BY <1>6 DEF ReadGating, Lower
<1>7. CASE RUnlock
  BY <1>7 DEF RUnlock
<1>8. CASE StoreCache
  BY <1>8 DEF StoreCache, Claim, Fail
<1>9. CASE WriteEvent
  BY <1>9 DEF WriteEvent
<1>10. CASE PublishRange
  BY <1>10 DEF PublishRange
<1>11. ASSUME NEW c \in Consumers, AddBegin(c) PROVE CountTrue'
  BY <1>11 DEF AddBegin
<1>12. ASSUME NEW c \in Consumers, AddEnd(c) PROVE CountTrue'
  <2>1. c \notin gating /\ Joining
    BY <1>12 DEF AddEnd
  <2>2. \A d \in Consumers : mode'[d] \notin {"joining", "leaving"}
    BY <1>12 DEF AddEnd
  <2>3. IsFiniteSet(gating') /\ Cardinality(gating') = Cardinality(gating) + 1
    BY <1>12, <2>1, FS_AddElement DEF AddEnd
  <2>4. Cardinality(gating) \in Nat
    BY FS_CardinalityType
  <2>5. gatingCount' = Cardinality(gating')
    BY <1>12, <2>1, <2>3, <2>4 DEF AddEnd
  <2> QED
    BY <2>2, <2>3, <2>4, <2>5
<1>13. ASSUME NEW c \in Consumers, BeginRead(c) PROVE CountTrue'
  BY <1>13 DEF BeginRead
<1>14. ASSUME NEW c \in Consumers, EndRead(c) PROVE CountTrue'
  BY <1>14 DEF EndRead
<1>15. ASSUME NEW c \in Consumers, RemoveBegin(c) PROVE CountTrue'
  <2>1. c \in gating /\ gatingMu # "write"
    BY <1>15 DEF RemoveBegin
  <2>2. \A d \in Consumers : d # c => mode'[d] \notin {"joining", "leaving"}
    BY <1>15 DEF RemoveBegin
  <2>3. mode'[c] = "leaving"
    BY <1>15 DEF RemoveBegin
  <2>4. IsFiniteSet(gating') /\ Cardinality(gating') = Cardinality(gating) - 1
    BY <1>15, <2>1, FS_RemoveElement DEF RemoveBegin
  <2>5. Cardinality(gating) \in Nat
    BY FS_CardinalityType
  <2>6. gatingCount' = Cardinality(gating')
    BY <1>15, <2>4 DEF RemoveBegin
  <2> QED
    BY <2>2, <2>3, <2>4, <2>5, <2>6
<1>16. ASSUME NEW c \in Consumers, RemoveEnd(c) PROVE CountTrue'
  BY <1>16 DEF RemoveEnd
<1>17. CASE UNCHANGED vars
  BY <1>17 DEF vars
<1> QED
  BY <1>1, <1>2, <1>3, <1>4, <1>5, <1>6, <1>7, <1>8, <1>9, <1>10,
     <1>11, <1>12, <1>13, <1>14, <1>15, <1>16, <1>17
  DEF Next, Producer, Underway, Consumer

(* Every step keeps what is known of the call under way; nobody joins       *)
(* during one.                                                             *)
LEMMA CallStep ==
  ASSUME TypeOK, CountTrue, CallTrue,
         ~ RegisterWhileClaiming, [Next]_vars
  PROVE  CallTrue'
<1> USE SizeAssumption, MaxSeqAssumption
    DEF TypeOK, CountTrue, CallTrue, Joining, Calls, NoCall, gateVars, checkVars, callVars, consVars
<1>1. CASE Request
  BY <1>1 DEF Request
<1>2. CASE Cancel
  BY <1>2 DEF Cancel
<1>3. CASE CheckCount
  BY <1>3 DEF CheckCount, Claim
<1>4. CASE CheckCache
  BY <1>4 DEF CheckCache, Claim
<1>5. CASE RLock
  BY <1>5 DEF RLock
<1>6. ASSUME NEW c \in Consumers, ReadGating(c) PROVE CallTrue'
  BY <1>6 DEF ReadGating, Lower
<1>7. CASE RUnlock
  BY <1>7 DEF RUnlock
<1>8. CASE StoreCache
  BY <1>8 DEF StoreCache, Claim, Fail
<1>9. CASE WriteEvent
  BY <1>9 DEF WriteEvent
<1>10. CASE PublishRange
  BY <1>10 DEF PublishRange
<1>11. ASSUME NEW c \in Consumers, AddBegin(c) PROVE CallTrue'
  BY <1>11 DEF AddBegin
<1>12. ASSUME NEW c \in Consumers, AddEnd(c) PROVE CallTrue'
  BY <1>12 DEF AddEnd, ResetCache
<1>13. ASSUME NEW c \in Consumers, BeginRead(c) PROVE CallTrue'
  BY <1>13 DEF BeginRead
<1>14. ASSUME NEW c \in Consumers, EndRead(c) PROVE CallTrue'
  BY <1>14 DEF EndRead
<1>15. ASSUME NEW c \in Consumers, RemoveBegin(c) PROVE CallTrue'
  BY <1>15 DEF RemoveBegin
<1>16. ASSUME NEW c \in Consumers, RemoveEnd(c) PROVE CallTrue'
  BY <1>16 DEF RemoveEnd
<1>17. CASE UNCHANGED vars
  BY <1>17 DEF vars
<1> QED
  BY <1>1, <1>2, <1>3, <1>4, <1>5, <1>6, <1>7, <1>8, <1>9, <1>10,
     <1>11, <1>12, <1>13, <1>14, <1>15, <1>16, <1>17
  DEF Next, Producer, Underway, Consumer

(* The minimum stays below the sequences it has seen: they only grow.       *)
LEMMA MinimumStep ==
  ASSUME TypeOK, CountTrue, CallTrue, MinimumTrue,
         ~ RegisterWhileClaiming, [Next]_vars
  PROVE  MinimumTrue'
<1> USE DEF TypeOK, CountTrue, CallTrue, Joining, MinimumTrue,
        gateVars, checkVars, callVars, consVars
<1>1. CASE Request
  BY <1>1 DEF Request
<1>2. CASE Cancel
  BY <1>2 DEF Cancel
<1>3. CASE CheckCount
  BY <1>3 DEF CheckCount, Claim
<1>4. CASE CheckCache
  BY <1>4 DEF CheckCache, Claim
<1>5. CASE RLock
  BY <1>5 DEF RLock
<1>6. ASSUME NEW c \in Consumers, ReadGating(c) PROVE MinimumTrue'
  BY <1>6 DEF ReadGating, Lower
<1>7. CASE RUnlock
  BY <1>7 DEF RUnlock
<1>8. CASE StoreCache
  BY <1>8 DEF StoreCache, Claim, Fail
<1>9. CASE WriteEvent
  BY <1>9 DEF WriteEvent
<1>10. CASE PublishRange
  BY <1>10 DEF PublishRange
<1>11. ASSUME NEW c \in Consumers, AddBegin(c) PROVE MinimumTrue'
  BY <1>11 DEF AddBegin
<1>12. ASSUME NEW c \in Consumers, AddEnd(c) PROVE MinimumTrue'
  BY <1>12 DEF AddEnd, ResetCache
<1>13. ASSUME NEW c \in Consumers, BeginRead(c) PROVE MinimumTrue'
  BY <1>13 DEF BeginRead
<1>14. ASSUME NEW c \in Consumers, EndRead(c) PROVE MinimumTrue'
  BY <1>14 DEF EndRead
<1>15. ASSUME NEW c \in Consumers, RemoveBegin(c) PROVE MinimumTrue'
  BY <1>15 DEF RemoveBegin
<1>16. ASSUME NEW c \in Consumers, RemoveEnd(c) PROVE MinimumTrue'
  BY <1>16 DEF RemoveEnd
<1>17. CASE UNCHANGED vars
  BY <1>17 DEF vars
<1> QED
  BY <1>1, <1>2, <1>3, <1>4, <1>5, <1>6, <1>7, <1>8, <1>9, <1>10,
     <1>11, <1>12, <1>13, <1>14, <1>15, <1>16, <1>17
  DEF Next, Producer, Underway, Consumer

(* What is remembered is such a minimum, or -1.                             *)
LEMMA CacheStep ==
  ASSUME TypeOK, CountTrue, CallTrue, MinimumTrue, CacheConservative,
         ~ RegisterWhileClaiming, [Next]_vars
  PROVE  CacheConservative'
<1> USE DEF TypeOK, CountTrue, CallTrue, Joining, MinimumTrue, CacheConservative,
        gateVars, checkVars, callVars, consVars
<1>1. CASE Request
  BY <1>1 DEF Request
<1>2. CASE Cancel
  BY <1>2 DEF Cancel
<1>3. CASE CheckCount
  BY <1>3 DEF CheckCount, Claim
<1>4. CASE CheckCache
  BY <1>4 DEF CheckCache, Claim
<1>5. CASE RLock
  BY <1>5 DEF RLock
<1>6. ASSUME NEW c \in Consumers, ReadGating(c) PROVE CacheConservative'
  BY <1>6 DEF ReadGating, Lower
<1>7. CASE RUnlock
  BY <1>7 DEF RUnlock
<1>8. CASE StoreCache
  BY <1>8 DEF StoreCache, Claim, Fail
<1>9. CASE WriteEvent
  BY <1>9 DEF WriteEvent
<1>10. CASE PublishRange
  BY <1>10 DEF PublishRange
<1>11. ASSUME NEW c \in Consumers, AddBegin(c) PROVE CacheConservative'
  BY <1>11 DEF AddBegin
<1>12. ASSUME NEW c \in Consumers, AddEnd(c) PROVE CacheConservative'
  BY <1>12 DEF AddEnd, ResetCache
<1>13. ASSUME NEW c \in Consumers, BeginRead(c) PROVE CacheConservative'
  BY <1>13 DEF BeginRead
<1>14. ASSUME NEW c \in Consumers, EndRead(c) PROVE CacheConservative'
  BY <1>14 DEF EndRead
<1>15. ASSUME NEW c \in Consumers, RemoveBegin(c) PROVE CacheConservative'
  BY <1>15 DEF RemoveBegin
<1>16. ASSUME NEW c \in Consumers, RemoveEnd(c) PROVE CacheConservative'
  BY <1>16 DEF RemoveEnd
<1>17. CASE UNCHANGED vars
  BY <1>17 DEF vars
<1> QED
  BY <1>1, <1>2, <1>3, <1>4, <1>5, <1>6, <1>7, <1>8, <1>9, <1>10,
     <1>11, <1>12, <1>13, <1>14, <1>15, <1>16, <1>17
  DEF Next, Producer, Underway, Consumer

(* Consumers read published sequences only.                                 *)
LEMMA ReadersStep ==
  ASSUME TypeOK, CallTrue, ReadersBehind,
         ~ RegisterWhileClaiming, [Next]_vars
  PROVE  ReadersBehind'
<1> USE DEF TypeOK, CallTrue, ReadersBehind, gateVars, checkVars, callVars, consVars
<1>1. CASE Request
  BY <1>1 DEF Request
<1>2. CASE Cancel
  BY <1>2 DEF Cancel
<1>3. CASE CheckCount
  BY <1>3 DEF CheckCount, Claim
<1>4. CASE CheckCache
  BY <1>4 DEF CheckCache, Claim
<1>5. CASE RLock
  BY <1>5 DEF RLock
<1>6. ASSUME NEW c \in Consumers, ReadGating(c) PROVE ReadersBehind'
  BY <1>6 DEF ReadGating, Lower
<1>7. CASE RUnlock
  BY <1>7 DEF RUnlock
<1>8. CASE StoreCache
  BY <1>8 DEF StoreCache, Claim, Fail
<1>9. CASE WriteEvent
  BY <1>9 DEF WriteEvent
<1>10. CASE PublishRange
  BY <1>10 DEF PublishRange
<1>11. ASSUME NEW c \in Consumers, AddBegin(c) PROVE ReadersBehind'
  BY <1>11 DEF AddBegin
<1>12. ASSUME NEW c \in Consumers, AddEnd(c) PROVE ReadersBehind'
  BY <1>12 DEF AddEnd, ResetCache
<1>13. ASSUME NEW c \in Consumers, BeginRead(c) PROVE ReadersBehind'
  BY <1>13 DEF BeginRead
<1>14. ASSUME NEW c \in Consumers, EndRead(c) PROVE ReadersBehind'
  BY <1>14 DEF EndRead
<1>15. ASSUME NEW c \in Consumers, RemoveBegin(c) PROVE ReadersBehind'
  BY <1>15 DEF RemoveBegin
<1>16. ASSUME NEW c \in Consumers, RemoveEnd(c) PROVE ReadersBehind'
  BY <1>16 DEF RemoveEnd
<1>17. CASE UNCHANGED vars
  BY <1>17 DEF vars
<1> QED
  BY <1>1, <1>2, <1>3, <1>4, <1>5, <1>6, <1>7, <1>8, <1>9, <1>10,
     <1>11, <1>12, <1>13, <1>14, <1>15, <1>16, <1>17
  DEF Next, Producer, Underway, Consumer

(* A claim is granted only as far as every gating consumer lets it: the    *)
(* count, the remembered minimum and the fresh one each show it.           *)
LEMMA ClaimsBehind ==
  ASSUME IInv, CheckCount \/ CheckCache \/ StoreCache, nextSequence' # nextSequence
  PROVE  /\ Claim
         /\ \A c \in gating : nextSequence' - Size <= seq[c]
<1> USE DEF IInv
<1>1. CASE CheckCount
  <2>1. gatingCount = 0 /\ Claim /\ pc = "want"
    BY <1>1 DEF CheckCount
  <2>2. gating = {}
    BY <2>1, FS_EmptySet, FS_CardinalityType DEF CountTrue, CallTrue
  <2> QED
    BY <2>1, <2>2
<1>2. CASE CheckCache
  <2>1. WrapPoint <= cached /\ Claim /\ pc = "cache"
    BY <1>2 DEF CheckCache
  <2>2. nextSequence' - Size = WrapPoint /\ WrapPoint \in Int
    BY <2>1, SizeAssumption DEF Claim, WrapPoint, TypeOK, Calls
  <2> QED
    BY <2>1, <2>2 DEF CacheConservative, TypeOK
<1>3. CASE StoreCache
  <2>1. WrapPoint <= minimum /\ Claim /\ pc = "store"
    BY <1>3 DEF StoreCache, Enough, Fail
  <2>2. nextSequence' - Size = WrapPoint /\ WrapPoint \in Int
    BY <2>1, SizeAssumption DEF Claim, WrapPoint, TypeOK, Calls
  <2>3. \A c \in gating : minimum <= seq[c]
    BY <2>1 DEF MinimumTrue, CallTrue
  <2> QED
    BY <2>1, <2>2, <2>3 DEF TypeOK
<1> QED
  BY <1>1, <1>2, <1>3

(* Only these steps claim.                                                 *)
LEMMA ClaimingSteps ==
  ASSUME [Next]_vars, ~ (CheckCount \/ CheckCache \/ StoreCache)
  PROVE  UNCHANGED nextSequence
BY DEF Next, Producer, Underway, Consumer, Request, Cancel, RLock, RUnlock,
       ReadGating, WriteEvent, PublishRange, AddBegin, AddEnd, BeginRead,
       EndRead, RemoveBegin, RemoveEnd, vars

(* A step changes the slots and the claims in one of three ways only.      *)
LEMMA SlotSteps ==
  ASSUME IInv, [Next]_vars
  PROVE  \/ /\ CheckCount \/ CheckCache \/ StoreCache
            /\ nextSequence' # nextSequence
         \/ WriteEvent
         \/ /\ UNCHANGED <<nextSequence, at, ring>>
            /\ pc = "write" <=> pc' = "write"
<1> USE DEF IInv, TypeOK, Calls, gateVars, checkVars, callVars, consVars
<1>1. CASE CheckCount
  BY <1>1 DEF CheckCount, Claim
<1>2. CASE CheckCache
  BY <1>2 DEF CheckCache, Claim
<1>3. CASE StoreCache
  BY <1>3 DEF StoreCache, Claim, Fail
<1>4. CASE WriteEvent
  BY <1>4
<1>5. CASE Request \/ Cancel \/ RLock \/ RUnlock \/ PublishRange
  BY <1>5 DEF Request, Cancel, RLock, RUnlock, PublishRange
<1>6. ASSUME NEW c \in Consumers, ReadGating(c) \/ Consumer(c)
      PROVE  UNCHANGED <<nextSequence, at, ring, pc>>
  BY <1>6 DEF ReadGating, Consumer, AddBegin, AddEnd, BeginRead, EndRead,
              RemoveBegin, RemoveEnd
<1>7. CASE UNCHANGED vars
  BY <1>7 DEF vars
<1> QED
  BY <1>1, <1>2, <1>3, <1>4, <1>5, <1>6, <1>7 DEF Next, Producer, Underway

(* The slots of the last lap keep their events: a claim gives up the ones  *)
(* behind, a write touches one that nobody else of the lap has.            *)
LEMMA RingStep == IInv /\ [Next]_vars => RingTrue'
<1> SUFFICES ASSUME IInv, [Next]_vars, NEW s \in Nat,
                    nextSequence' - Size < s, s <= Written'
             PROVE  ring'[Index(s)] = s
  BY DEF RingTrue
<1>0. nextSequence' - Size < s
  OBVIOUS
<1>1. nextSequence \in Int /\ at \in Int /\ Size \in Nat \ {0}
  BY SizeAssumption DEF IInv, TypeOK
<1>2. CASE (CheckCount \/ CheckCache \/ StoreCache) /\ nextSequence' # nextSequence
  <2>1. Claim /\ pc \in {"want", "cache", "store"} /\ UNCHANGED ring
    BY <1>2, ClaimsBehind DEF CheckCount, CheckCache, StoreCache
  <2>2. Written = nextSequence /\ Written' = nextSequence
    BY <1>1, <2>1 DEF Written, Claim
  <2>3. nextSequence' \in Int /\ nextSequence <= nextSequence'
    BY <2>1, ClaimType DEF IInv, TypeOK
  <2>4. s <= Written
    BY <2>2
  <2>5. nextSequence - Size < s
    <3>1. \A n, m \in Int : n <= m /\ m - Size < s => n - Size < s
      BY <1>1
    <3> QED
      BY <1>0, <1>1, <2>3, <3>1
  <2> QED
    BY <2>1, <2>4, <2>5 DEF IInv, RingTrue
<1>3. CASE WriteEvent
  <2>1. /\ at \in Nat /\ at <= nextSequence
        /\ pc = "write" /\ UNCHANGED nextSequence
        /\ Written = at - 1 /\ Written' = at
    BY <1>1, <1>3 DEF WriteEvent, Written, IInv, TypeOK, CallTrue
  <2>2. ring' = [ring EXCEPT ![Index(at)] = at] /\ DOMAIN ring = Slots
    BY <1>3 DEF WriteEvent, IInv, TypeOK
  <2>3. Index(at) \in Slots /\ Index(s) \in Slots
    BY <2>1, IndexType
  <2>4. CASE s = at
    BY <2>2, <2>3, <2>4
  <2>5. CASE s # at
    <3>1. s <= Written /\ at - s < Size /\ s - at < Size
      BY <1>1, <2>1, <2>5
    <3>2. Index(s) # Index(at)
      BY <2>1, <2>5, <3>1, WindowIsInjective
    <3>3. ring[Index(s)] = s
      BY <2>1, <3>1 DEF IInv, RingTrue
    <3> QED
      BY <2>2, <2>3, <3>2, <3>3
  <2> QED
    BY <2>4, <2>5
<1>4. CASE UNCHANGED <<nextSequence, at, ring>> /\ (pc = "write" <=> pc' = "write")
  <2>1. Written' = Written
    BY <1>4 DEF Written
  <2> QED
    BY <1>4, <2>1 DEF IInv, RingTrue
<1> QED
  BY <1>2, <1>3, <1>4, SlotSteps

(* A consumer that registered in time stays in the window: claims stop     *)
(* behind it.                                                              *)
LEMMA WindowStep == IInv /\ [Next]_vars => WindowKept'
<1> SUFFICES ASSUME IInv, [Next]_vars PROVE WindowKept'
  OBVIOUS
<1> USE DEF IInv, TypeOK, WindowKept, InWindow, gateVars, checkVars, callVars, consVars
<1>1. CASE CheckCount \/ CheckCache \/ StoreCache
  <2>1. UNCHANGED <<gating, consVars>>
    BY <1>1 DEF CheckCount, CheckCache, StoreCache
  <2>2. CASE nextSequence' = nextSequence
    BY <2>1, <2>2
  <2>3. CASE nextSequence' # nextSequence
    BY <1>1, <2>1, <2>3, ClaimsBehind
  <2> QED
    BY <2>2, <2>3
<1>2. CASE ~ (CheckCount \/ CheckCache \/ StoreCache)
  <2>1. UNCHANGED nextSequence
    BY <1>2, ClaimingSteps
  <2>2. ASSUME NEW c \in Consumers, AddBegin(c) PROVE WindowKept'
    BY <2>1, <2>2 DEF AddBegin
  <2>3. ASSUME NEW c \in Consumers, AddEnd(c) PROVE WindowKept'
    BY <2>1, <2>3 DEF AddEnd
  <2>4. ASSUME NEW c \in Consumers, BeginRead(c) PROVE WindowKept'
    BY <2>1, <2>4 DEF BeginRead
  <2>5. ASSUME NEW c \in Consumers, EndRead(c) PROVE WindowKept'
    BY <2>1, <2>5, SizeAssumption DEF EndRead
  <2>6. ASSUME NEW c \in Consumers, RemoveBegin(c) PROVE WindowKept'
    BY <2>1, <2>6 DEF RemoveBegin
  <2>7. ASSUME NEW c \in Consumers, RemoveEnd(c) PROVE WindowKept'
    BY <2>1, <2>7 DEF RemoveEnd
  <2>8. CASE UNCHANGED <<gating, seq, mode, inTime>>
    BY <2>1, <2>8
  <2> QED
    BY <1>2, <2>2, <2>3, <2>4, <2>5, <2>6, <2>7, <2>8
    DEF Next, Producer, Underway, Consumer, Request, Cancel, RLock, RUnlock,
        ReadGating, WriteEvent, PublishRange, vars
<1> QED
  BY <1>1, <1>2

(* The parts are preserved together.                                       *)
LEMMA Inductive == ~ RegisterWhileClaiming /\ IInv /\ [Next]_vars => IInv'
<1> SUFFICES ASSUME ~ RegisterWhileClaiming, IInv, [Next]_vars PROVE IInv'
  OBVIOUS
<1>1. TypeOK' /\ CountTrue' /\ CallTrue' /\ MinimumTrue' /\ CacheConservative' /\ ReadersBehind'
  BY TypesStep, CountStep, CallStep, MinimumStep, CacheStep, ReadersStep DEF IInv
<1>2. RingTrue' /\ WindowKept'
  BY RingStep, WindowStep
<1> QED
  BY <1>1, <1>2 DEF IInv

(* It holds throughout.                                                    *)
LEMMA Invariance ==
  ASSUME ~ RegisterWhileClaiming
  PROVE  Spec => []IInv
<1>1. IInv /\ [Next]_vars => IInv'
  BY Inductive
<1> QED
  BY <1>1, InvInit, PTL DEF Spec

(* The variables stay in their types and gatingMu is held exactly in its   *)
(* critical sections, as long as nobody registers during a claim.          *)
THEOREM TypeCorrect ==
  ASSUME ~ RegisterWhileClaiming
  PROVE  Spec => []TypeOK
<1>1. IInv => TypeOK
  BY DEF IInv
<1> QED
  BY <1>1, Invariance, PTL

(* The remembered minimum is never ahead of a gating consumer, though it   *)
(* is stored after the lock was released (single_producer.go:120-165).     *)
THEOREM CacheNeverAhead ==
  ASSUME ~ RegisterWhileClaiming
  PROVE  Spec => []CacheConservative
<1>1. IInv => CacheConservative
  BY DEF IInv
<1> QED
  BY <1>1, Invariance, PTL

(* No event is overwritten under a handler that registered before the ring *)
(* had wrapped past its start (single_producer.go:61-118, 167-203).        *)
THEOREM ReadsIntact ==
  ASSUME ~ RegisterWhileClaiming
  PROVE  Spec => []ReadIntact
<1>1. IInv => ReadIntact
  <2> SUFFICES ASSUME IInv, NEW c \in gating \intersect inTime, mode[c] = "reading"
               PROVE  ring[Index(seq[c] + 1)] = seq[c] + 1
    BY DEF ReadIntact
  <2> USE SizeAssumption DEF IInv, TypeOK
  <2>1. c \in Consumers /\ seq[c] \in Int /\ seq[c] >= -1 /\ seq[c] < cursor
    BY DEF ReadersBehind
  <2>2. nextSequence - Size <= seq[c]
    BY DEF WindowKept, InWindow
  <2>3. cursor <= Written
    BY DEF Written, CallTrue
  <2>4. Written \in Int
    BY DEF Written
  <2>5. /\ seq[c] + 1 \in Nat
        /\ nextSequence - Size < seq[c] + 1
        /\ seq[c] + 1 <= Written
    BY <2>1, <2>2, <2>3, <2>4
  <2> QED
    BY <2>5 DEF RingTrue
<1> QED
  BY <1>1, Invariance, PTL

(* A claim never takes a slot that a consumer registered before the call   *)
(* has not finished with, which is not so when registrations overlap       *)
(* claims (single_producer.go:120-135, 186-203).                           *)
THEOREM ClaimsBehindGating ==
  ASSUME ~ RegisterWhileClaiming
  PROVE  Spec => ClaimBehindGating
<1>1. IInv /\ [Next]_vars =>
        (nextSequence' # nextSequence =>
           \A c \in known \intersect gating : nextSequence' - Size <= seq[c])
  BY ClaimsBehind, ClaimingSteps
<1>2. IInv /\ [Next]_vars =>
        [nextSequence' # nextSequence =>
           \A c \in known \intersect gating : nextSequence' - Size <= seq[c]]_vars
  BY <1>1
<1> QED
  BY <1>2, Invariance, PTL DEF Spec, ClaimBehindGating

--------------------------------------------------------------------------------
(* The refinement *)

(* Every step is a step of the log, or none.                               *)
LEMMA StepRefines == IInv /\ [Next]_vars => [Log!Next]_(Log!vars)
<1> SUFFICES ASSUME IInv, [Next]_vars PROVE [Log!Next]_(Log!vars)
  OBVIOUS
<1> USE DEF IInv, Log!vars, gateVars, checkVars, callVars, consVars
<1>1. CASE CheckCount \/ CheckCache \/ StoreCache
  <2>1. /\ UNCHANGED <<cursor, gating, seq>>
        /\ pc \in {"want", "cache", "store"}
    BY <1>1 DEF CheckCount, CheckCache, StoreCache
  <2>2. CASE nextSequence' # nextSequence
    <3>1. Claim /\ \A c \in gating : nextSequence' - Size <= seq[c]
      BY <1>1, <2>2, ClaimsBehind
    <3>2. /\ nextSequence' = nextSequence + call.n
          /\ call.n \in 1 .. Size
          /\ at' = nextSequence + 1 /\ pc' = "write"
      BY <2>1, <3>1, ClaimType DEF Claim
    <3>3. \A c \in gating : nextSequence + call.n - Size <= seq[c]
      <4>1. nextSequence' - Size = nextSequence + call.n - Size
        BY <3>2, SizeAssumption DEF TypeOK
      <4> QED
        BY <3>1, <4>1
    <3>4. at' .. nextSequence' = nextSequence + 1 .. nextSequence + call.n
      BY <3>2
    <3>5. (IF pc' = "write" THEN at' .. nextSequence' ELSE {})
          = (IF pc = "write" THEN at .. nextSequence ELSE {})
            \union (nextSequence + 1 .. nextSequence + call.n)
      BY <2>1, <3>2, <3>4
    <3>6. Log!Claim(call.n)
      BY <2>1, <3>2, <3>3, <3>5 DEF Log!Claim
    <3> QED
      BY <3>2, <3>6 DEF Log!Next
  <2>3. CASE nextSequence' = nextSequence
    <3>1. pc' # "write"
      BY <1>1, <2>1, <2>3, SlotSteps DEF WriteEvent
    <3> QED
      BY <2>1, <2>3, <3>1
  <2> QED
    BY <2>2, <2>3
<1>2. CASE WriteEvent
  <2>1. at \in Int /\ nextSequence \in Int /\ at <= nextSequence /\ pc = "write"
    BY <1>2 DEF WriteEvent, TypeOK, CallTrue
  <2>2. Log!Publish(at)
    <3>1. (IF pc' = "write" THEN at' .. nextSequence' ELSE {}) = (at .. nextSequence) \ {at}
      BY <1>2, <2>1 DEF WriteEvent
    <3> QED
      BY <1>2, <2>1, <3>1 DEF WriteEvent, Log!Publish
  <2> QED
    BY <2>1, <2>2 DEF Log!Next
<1>3. CASE PublishRange
  <2>1. Log!Reveal(nextSequence)
    BY <1>3 DEF PublishRange, Log!Reveal
  <2>2. nextSequence \in cursor + 1 .. nextSequence
    BY <1>3 DEF PublishRange, TypeOK, CallTrue
  <2> QED
    BY <2>1, <2>2 DEF Log!Next
<1>4. ASSUME NEW c \in Consumers, AddEnd(c) PROVE Log!Next
  BY <1>4 DEF AddEnd, Log!Next, Log!Subscribe
<1>5. ASSUME NEW c \in Consumers, RemoveBegin(c) PROVE Log!Next
  BY <1>5 DEF RemoveBegin, Log!Next, Log!Unsubscribe
<1>6. ASSUME NEW c \in Consumers, EndRead(c) PROVE Log!Next
  <2>1. Log!Consume(c)
    BY <1>6 DEF EndRead, Log!Consume, ReadersBehind
  <2> QED
    BY <2>1 DEF Log!Next
<1>7. ASSUME NEW c \in Consumers, AddBegin(c) \/ BeginRead(c) \/ RemoveEnd(c) \/ ReadGating(c)
      PROVE  UNCHANGED Log!vars
  BY <1>7 DEF AddBegin, BeginRead, RemoveEnd, ReadGating
<1>8. CASE Request \/ Cancel \/ RLock \/ RUnlock
  BY <1>8 DEF Request, Cancel, RLock, RUnlock
<1>9. CASE UNCHANGED vars
  BY <1>9 DEF vars
<1> QED
  BY <1>1, <1>2, <1>3, <1>4, <1>5, <1>6, <1>7, <1>8, <1>9
  DEF Next, Producer, Underway, Consumer

(* The sequencer keeps the contract of the Sequencer interface: no claim   *)
(* passes a gating consumer by more than the ring, consumers see published *)
(* sequences only (sequencer.go:20-32, single_producer.go).                *)
THEOREM ImplementsLog ==
  ASSUME ~ RegisterWhileClaiming
  PROVE  Spec => LogSpec
<1>1. Init => Log!Init
  BY DEF Init, Log!Init
<1> QED
  BY <1>1, Invariance, StepRefines, PTL DEF Spec, LogSpec, Log!Spec
================================================================================
