--------------------------- MODULE MCStateMachine ---------------------------
(***************************************************************************)
(* Finite instances of StateMachine.  The snapshots are the ones a safety  *)
(* monitor posts: all healthy, drives or bus not ready, the E-stop input,  *)
(* the protective input, both, and a latched global fault.                 *)
(***************************************************************************)
EXTENDS StateMachine

Snapshot(estop, protective, fault, ready) ==
    [estopActive |-> estop, protectiveStopActive |-> protective,
     globalFaultActive |-> fault, ready |-> ready]

MCSafetySnapshots ==
    { Snapshot(FALSE, FALSE, FALSE, TRUE),
      Snapshot(FALSE, FALSE, FALSE, FALSE),
      Snapshot(TRUE, FALSE, FALSE, TRUE),
      Snapshot(FALSE, TRUE, FALSE, TRUE),
      Snapshot(TRUE, TRUE, FALSE, TRUE),
      Snapshot(FALSE, FALSE, TRUE, TRUE) }

\* The severities the modules under States/ and the monitors report.
ReportedSeverities == {"NONE", "RECOVERABLE"}
=============================================================================
