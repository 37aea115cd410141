-------------------------- MODULE MCWeighbridgeOutbox --------------------------
(* A small instance of WeighbridgeOutbox for TLC. *)
EXTENDS WeighbridgeOutbox

BothSites == {"truck", "wagon"}

\* Under the arch a stop is two weighings: two stops are as many as three trucks.
TwoWagons == site = "wagon" => under <= 2
=============================================================================
