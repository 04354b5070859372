------------------------------ MODULE MCGraphPlan ------------------------------
(***************************************************************************)
(* Graphs over four names with any edges between two of them, where 2 and  *)
(* 4 can be entries and 1 and 3 exits: the order of a plan is rarely that  *)
(* of the names.                                                           *)
(***************************************************************************)
EXTENDS GraphPlan

AnyBetween ==
  {e \in Names \X Names : e[1] # e[2]} \union {Start} \X {2, 4} \union {1, 3} \X {End}
===============================================================================
