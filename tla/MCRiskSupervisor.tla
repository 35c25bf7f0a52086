---------------------------- MODULE MCRiskSupervisor ----------------------------
(***************************************************************************)
(* Entries of one instrument after each other, the stops and closes of     *)
(* what they hold, and a supervisor that looks after the targets.          *)
(***************************************************************************)
EXTENDS RiskSupervisor

=============================================================================
