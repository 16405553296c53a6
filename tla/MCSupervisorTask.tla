-------------------------- MODULE MCSupervisorTask --------------------------
(***************************************************************************)
(* Finite instances of SupervisorTask.                                     *)
(*                                                                         *)
(* A round of the publisher is at most six messages here (a snapshot, an   *)
(* event per stop input, two control messages) and seven in the code,      *)
(* where the queue holds 32 and a cycle takes 16.  QueueLength and         *)
(* MaxMessagesPerCycle are set as tight as a round and the turns of HMI    *)
(* allow, 3 + |InjectedInputs| + HmiTurns or little more.                  *)
(***************************************************************************)
EXTENDS SupervisorTask

\* The geometry and the Preview, and what may stop or end it.
PreviewCommands == {"SELECT", "VALIDATE_PREVIEW"}

RecoveryCommands == {"RESET", "HOME"}

SafeCommands == PreviewCommands \cup RecoveryCommands

ProductionCommands == PreviewCommands \cup {"START_REPLAY", "PAUSE", "RESUME", "RESET"}
=============================================================================
