------------------------- MODULE MCTelemetryRollups -------------------------
(* Instances of TelemetryRollups for TLC: one component, one onboarding step,
   days of two units. *)
EXTENDS TelemetryRollups

CONSTANTS install, first_step
=============================================================================
