----------------------------- MODULE WeldProgram -----------------------------
(***************************************************************************)
(* What the Supervisor promises about the taught program, whatever the     *)
(* robot does in between: only a program that was validated since its last *)
(* edit is ever executed, and only a program whose Preview ran to its end  *)
(* since then is ever welded.                                              *)
(***************************************************************************)

VARIABLES
    status,     \* how far the current program has been cleared for use
    running     \* the execution in progress, if any

vars == <<status, running>>

Statuses == {"ABSENT", "DRAFT", "VALIDATED", "ACCEPTED"}

Init == status = "ABSENT" /\ running = "NONE"

\* Opening the editor withdraws what was granted to an earlier version.
Edit ==
    /\ running = "NONE"
    /\ status' = IF status = "ABSENT" THEN "ABSENT" ELSE "DRAFT"
    /\ UNCHANGED running

Submit ==
    /\ running = "NONE"
    /\ status' = "DRAFT"
    /\ UNCHANGED running

Validate ==
    /\ running = "NONE"
    /\ status = "DRAFT"
    /\ status' = "VALIDATED"
    /\ UNCHANGED running

StartPreview ==
    /\ running = "NONE"
    /\ status \in {"VALIDATED", "ACCEPTED"}
    /\ running' = "PREVIEW"
    /\ status' = "VALIDATED"

AcceptPreview ==
    /\ running = "PREVIEW"
    /\ running' = "NONE"
    /\ status' = "ACCEPTED"

StartProduction ==
    /\ running = "NONE"
    /\ status = "ACCEPTED"
    /\ running' = "PRODUCTION"
    /\ UNCHANGED status

\* A finished production run, or an execution of either kind cut short.
Stop ==
    /\ running # "NONE"
    /\ running' = "NONE"
    /\ UNCHANGED status

Discard ==
    /\ running' = "NONE"
    /\ status' = "ABSENT"

Next ==
    \/ Edit
    \/ Submit
    \/ Validate
    \/ StartPreview
    \/ AcceptPreview
    \/ StartProduction
    \/ Stop
    \/ Discard

Spec == Init /\ [][Next]_vars
=============================================================================
