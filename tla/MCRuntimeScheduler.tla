--------------------------- MODULE MCRuntimeScheduler ---------------------------
(***************************************************************************)
(* Every graph of at most three nodes, built in every order.               *)
(***************************************************************************)
EXTENDS RuntimeScheduler

AllEdges == (Names \union {Start}) \X (Names \union {End})

Mixed == <<"none", "retry", "custom">>
NoHandlers == [n \in Names |-> "none"]
===============================================================================
