------------------------------- MODULE RingIndex -------------------------------
(***************************************************************************)
(* How a sequence number addresses the ring.  Sequences only grow; the     *)
(* slot of a sequence is its remainder by the number of slots, and the lap *)
(* around the ring its quotient.  The code computes both with a mask and a *)
(* shift, which agree with remainder and quotient because the size is a    *)
(* power of two (ring_buffer.go:45-47).                                    *)
(***************************************************************************)
EXTENDS Integers

CONSTANT Size  \* number of slots

ASSUME SizeAssumption == Size \in Nat \ {0}

Slots == 0 .. Size - 1

(* sequence & indexMask                                                    *)
Index(s) == s % Size

(* sequence >> indexShift, with indexShift = bits.Len64(size - 1).  A flag *)
(* without the lap would be AvailabilityFlag_NoLap.                        *)
AvailabilityFlag_NoLap(s) == 1
AvailabilityFlag(s) == s \div Size
================================================================================
