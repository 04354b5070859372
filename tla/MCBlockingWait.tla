---------------------------- MODULE MCBlockingWait ----------------------------
(***************************************************************************)
(* Blocking waits on small instances: a chain of processors in which c2    *)
(* waits for c1 and c2 gates the producers.                                *)
(***************************************************************************)
EXTENDS BlockingWait, TLC

CONSTANTS p1, p2, c1, c2

Chain == c1 :> {} @@ c2 :> {c1}
Alone == c1 :> {}

(* Producers are interchangeable; the processors of a chain are not.       *)
Symmetry == Permutations(Producers)
===============================================================================
