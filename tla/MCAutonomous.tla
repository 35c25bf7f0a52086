----------------------------- MODULE MCAutonomous -----------------------------
(***************************************************************************)
(* The daemon in a small world: two events, one kind of observation, one   *)
(* wake.                                                                   *)
(***************************************************************************)
EXTENDS Autonomous

PositionReports == {<<>>, <<"position">>}

=============================================================================
