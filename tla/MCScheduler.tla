----------------------------- MODULE MCScheduler -----------------------------
(***************************************************************************)
(* Small runs of Scheduler.  Time units are arbitrary except in the        *)
(* backstop run, where one unit is five seconds.                           *)
(***************************************************************************)
EXTENDS Scheduler

\* The test with the serial marker is not the first one of the input.
SerialNone == {}
SerialOne == {2}
=============================================================================
