------------------------- MODULE MCTelemetryClient -------------------------
(* An instance of TelemetryClient for TLC: two terminals of one developer. *)
EXTENDS TelemetryClient, TLC

CONSTANTS here, there
Terminals == Permutations({here, there})
=============================================================================
