------------------------------- MODULE MCOutput --------------------------------
(* What leaves the device, in two set-ups of which one is at work and the      *)
(* other at rest.                                                              *)
(*   line     two universes, one of fixtures and one of a pixel matrix, both   *)
(*            routed to the one DMX port, which carries whichever came last    *)
(*   network  two universes on three nodes, of which the table holds two: one  *)
(*            node may carry both, one may claim more ports than are allowed   *)
EXTENDS DmxOutput, ArtNet

CONSTANTS a, b, c

MCWire == <<1, 2>>
MCCarries == [n \in Node |-> IF n = a THEN {1, 2} ELSE {2}]
MCAdverts == [n \in Node |->
  CASE n = a -> {{1, 2}, {2}} [] n = b -> {{2}} [] n = c -> {{2}, {1, 2, 3}}]

\* An open show without a fallback, a fixed universe beside an open
\* one, and the broadcast ArtSync.
MCConfs == {
  [show |-> <<NoIp, NoIp>>, fallback |-> NoIp, broadcast |-> FALSE],
  [show |-> <<a, NoIp>>, fallback |-> Gateway, broadcast |-> FALSE],
  [show |-> <<a, b>>, fallback |-> NoIp, broadcast |-> TRUE]}

VARIABLE setup

outputVars == <<vars, artVars, setup>>

\* The part at rest stays in one of its initial states.
OutputInit ==
  /\ setup \in {"line", "network"}
  /\ Init /\ ArtInit
  /\ setup = "line" => conf.broadcast

OutputNext ==
  \/ setup = "line" /\ Next /\ UNCHANGED <<artVars, setup>>
  \/ setup = "network" /\ ArtNext /\ UNCHANGED <<vars, setup>>

\* The tasks of the part at work are scheduled for ever.
OutputSpec ==
  /\ OutputInit /\ [][OutputNext]_outputVars
  /\ WF_vars(setup = "line" /\ RenderTask)
  /\ WF_vars(setup = "line" /\ TxTask)
  /\ WF_vars(setup = "line" /\ LineDone)
  /\ WF_artVars(setup = "network" /\ RenderStep)
  /\ WF_artVars(setup = "network" /\ DiscoveryStep)
================================================================================
