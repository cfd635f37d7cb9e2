--------------------------- MODULE MCMonitorRing ----------------------------
(***************************************************************************)
(* Instances of MonitorRing for TLC.                                       *)
(***************************************************************************)
EXTENDS MonitorRing

\* The two subformulas monitor.cpp's main() uses.
OneOperator == {<<"and">>, <<"or">>}

\* One subformula, for the runs whose subject is the schedule.
AndOnly == {<<"and">>}

=============================================================================
