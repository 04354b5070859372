------------------------------- MODULE EventLog -------------------------------
(***************************************************************************)
(* What a sequencer promises its producers and consumers, whatever data    *)
(* structure implements it: a multicast log in which producers claim       *)
(* sequence numbers in increasing order, publish what they claimed in any  *)
(* order, and subscribers read, each at its own pace, a prefix that never  *)
(* contains a claimed but unpublished sequence.  No claim goes further     *)
(* than Size beyond the slowest subscriber.                                *)
(*                                                                         *)
(* It is the contract of the Sequencer interface                           *)
(* (src/internal/sequencer/sequencer.go:20-32) that the multi-producer and the  *)
(* single-producer sequencers are shown to implement.                      *)
(***************************************************************************)
EXTENDS Integers

CONSTANTS Consumers, Size

VARIABLES
  claimed,     \* the highest sequence handed to a producer, -1 at first
  pending,     \* the sequences claimed and not yet published
  visible,     \* the highest sequence consumers may read
  subscribed,  \* the consumers that hold producers back
  pos          \* the last sequence each consumer has finished with

vars == <<claimed, pending, visible, subscribed, pos>>

Init ==
  /\ claimed = -1
  /\ pending = {}
  /\ visible = -1
  /\ subscribed = {}
  /\ pos = [c \in Consumers |-> -1]

(* A producer obtains the next n sequences.  A claim never reuses the slot *)
(* of a sequence some subscriber has not finished with.                    *)
Claim(n) ==
  /\ \A c \in subscribed : claimed + n - Size <= pos[c]
  /\ claimed' = claimed + n
  /\ pending' = pending \union (claimed + 1 .. claimed + n)
  /\ UNCHANGED <<visible, subscribed, pos>>

Publish(s) ==
  /\ s \in pending
  /\ pending' = pending \ {s}
  /\ UNCHANGED <<claimed, visible, subscribed, pos>>

(* The readable prefix grows, over published sequences only.               *)
Reveal(k) ==
  /\ pending \intersect (visible + 1 .. k) = {}
  /\ visible' = k
  /\ UNCHANGED <<claimed, pending, subscribed, pos>>

Subscribe(c) ==
  /\ subscribed' = subscribed \union {c}
  /\ UNCHANGED <<claimed, pending, visible, pos>>

Unsubscribe(c) ==
  /\ subscribed' = subscribed \ {c}
  /\ UNCHANGED <<claimed, pending, visible, pos>>

(* Consumers take every sequence, one at a time and in order.              *)
Consume(c) ==
  /\ pos[c] < visible
  /\ pos' = [pos EXCEPT ![c] = @ + 1]
  /\ UNCHANGED <<claimed, pending, visible, subscribed>>

Next ==
  \/ \E n \in 1 .. Size : Claim(n)
  \/ \E s \in pending : Publish(s)
  \/ \E k \in visible + 1 .. claimed : Reveal(k)
  \/ \E c \in Consumers : Subscribe(c) \/ Unsubscribe(c) \/ Consume(c)

Spec == Init /\ [][Next]_vars
===============================================================================
