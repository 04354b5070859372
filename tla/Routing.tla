-------------------------------- MODULE Routing --------------------------------
(***************************************************************************)
(* The active join (src/docs/superpowers/specs, the v1.2 runtime graph     *)
(* design): for every event each node runs at most once, after all its     *)
(* inbound edges have been decided and one of them was selected; it is     *)
(* skipped when none was; the event ends when nothing can happen any more. *)
(* An executor may refuse a node: what lies behind it then stays open.     *)
(***************************************************************************)
EXTENDS Integers

CONSTANT Nodes, Start

VARIABLES
  edges,     \* of the graph, once it is built
  phase,     \* "idle", "busy" with an event, or "halted"
  live,      \* edges selected for the event
  dead,      \* edges not selected
  running,   \* nodes whose handler has been given the event
  complete,  \* nodes that are through
  refused    \* nodes the executor did not take

vars == <<edges, phase, live, dead, running, complete, refused>>

Inbound(n) == {e \in edges : e[2] = n}
Decided(n) == Inbound(n) \subseteq live \union dead
Skipped(n) == Inbound(n) \subseteq dead
Active(n) == Decided(n) /\ ~ Skipped(n)

Init ==
  /\ edges = {}
  /\ phase = "idle"
  /\ live = {} /\ dead = {}
  /\ running = {} /\ complete = {} /\ refused = {}

Used == running \union complete \union refused

Build ==
  /\ phase = "idle" /\ live = {} /\ dead = {} /\ Used = {}
  /\ edges' # edges
  /\ UNCHANGED <<phase, live, dead, running, complete, refused>>

Begin ==
  /\ phase = "idle"
  /\ phase' = "busy"
  /\ live' = {} /\ dead' = {}
  /\ running' = {} /\ complete' = {} /\ refused' = {}
  /\ UNCHANGED edges

Decide(e) ==
  /\ phase = "busy"
  /\ e \notin live \union dead
  /\ \/ e[1] = Start \/ e[1] \in complete
     \/ e[1] \in Nodes /\ Skipped(e[1])
  /\ \/ live' = live \union {e} /\ ~ (e[1] \in Nodes /\ Skipped(e[1])) /\ UNCHANGED dead
     \/ dead' = dead \union {e} /\ UNCHANGED live
  /\ UNCHANGED <<edges, phase, running, complete, refused>>

Run(n) ==
  /\ phase = "busy"
  /\ Active(n)
  /\ n \notin Used
  /\ running' = running \union {n}
  /\ UNCHANGED <<edges, phase, live, dead, complete, refused>>

Complete(n) ==
  /\ phase = "busy"
  /\ n \in running
  /\ running' = running \ {n}
  /\ complete' = complete \union {n}
  /\ UNCHANGED <<edges, phase, live, dead, refused>>

Refuse(n) ==
  /\ phase = "busy"
  /\ n \in running \/ (Active(n) /\ n \notin Used)
  /\ running' = running \ {n}
  /\ refused' = refused \union {n}
  /\ UNCHANGED <<edges, phase, live, dead, complete>>

(* A node that has neither run nor been skipped waits for an open edge     *)
(* behind a refused node, or behind another node that waits.               *)
Waits(n) == n \notin Used /\ ~ Skipped(n)

Finish ==
  /\ phase = "busy"
  /\ running = {}
  /\ \A n \in complete : \A e \in edges : e[1] = n => e \in live \union dead
  /\ \A n \in {e[2] : e \in edges} \intersect Nodes : Waits(n) =>
       /\ ~ Decided(n)
       /\ \A e \in Inbound(n) \ (live \union dead) : e[1] \in refused \/ Waits(e[1])
  /\ phase' = "idle"
  /\ UNCHANGED <<edges, live, dead, running, complete, refused>>

(* A failure ends the event anywhere, but no handler is left running.      *)
Halt ==
  /\ phase \in {"idle", "busy"}
  /\ phase' = "halted"
  /\ running' = {}
  /\ UNCHANGED <<edges, live, dead, complete, refused>>

Next ==
  \/ Build \/ Begin \/ Finish \/ Halt
  \/ \E e \in edges : Decide(e)
  \/ \E n \in Nodes : Run(n) \/ Complete(n) \/ Refuse(n)

Spec == Init /\ [][Next]_vars
===============================================================================
