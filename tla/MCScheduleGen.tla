---------------------------- MODULE MCScheduleGen ----------------------------
(* generate_schedules over two nodes, for TLC.                             *)
EXTENDS ScheduleGen

MCNodes == {1, 2}
=============================================================================
