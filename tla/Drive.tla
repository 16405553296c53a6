-------------------------------- MODULE Drive --------------------------------
(***************************************************************************)
(* ServoDrive/CiA402/cia402.c: the states of a servo drive as they are     *)
(* decoded from its statusword and commanded by its controlword.           *)
(*                                                                         *)
(* A statusword is the set of the numbers of its bits that are set, so     *)
(* that a mask is an intersection.                                         *)
(***************************************************************************)

\* CIA402_STATUSWORD_MASK_4F and CIA402_STATUSWORD_MASK_6F.
Mask4F == {0, 1, 2, 3, 6}
Mask6F == {0, 1, 2, 3, 5, 6}

\* The states whose bit 5 is not significant, and the others.
ShortStates ==
    {"NOT_READY_TO_SWITCH_ON", "SWITCH_ON_DISABLED",
     "FAULT_REACTION_ACTIVE", "FAULT"}
LongStates ==
    {"READY_TO_SWITCH_ON", "SWITCHED_ON", "OPERATION_ENABLED",
     "QUICK_STOP_ACTIVE"}
CiaStates == ShortStates \cup LongStates

\* The CIA402_STATE_ constants: the bits a drive reports in each state.
Pattern ==
    [NOT_READY_TO_SWITCH_ON |-> {},
     SWITCH_ON_DISABLED     |-> {6},
     READY_TO_SWITCH_ON     |-> {0, 5},
     SWITCHED_ON            |-> {0, 1, 5},
     OPERATION_ENABLED      |-> {0, 1, 2, 5},
     QUICK_STOP_ACTIVE      |-> {0, 1, 2},
     FAULT_REACTION_ACTIVE  |-> {0, 1, 2, 3},
     FAULT                  |-> {3}]

\* Every state whose pattern the statusword matches under its mask.
Matches(statusword) ==
    {s \in ShortStates : statusword \cap Mask4F = Pattern[s]}
        \cup {s \in LongStates : statusword \cap Mask6F = Pattern[s]}

\* cia402_get_state().  No statusword matches two patterns (GetStateUnambiguous
\* in StartupProofs), so the order of the comparisons does not matter.
GetState(statusword) ==
    IF Matches(statusword) = {} THEN "UNKNOWN"
    ELSE CHOOSE s \in CiaStates : s \in Matches(statusword)

-----------------------------------------------------------------------------
\* The controlwords the program writes: none that stops quickly, and none that
\* resets a fault.
Controlwords == {"DISABLE_VOLTAGE", "SHUTDOWN", "SWITCH_ON", "ENABLE_OPERATION"}

\* cia402_get_enable_controlword(): the states it answers, and its answers.
EnableWord ==
    [NOT_READY_TO_SWITCH_ON |-> "DISABLE_VOLTAGE",
     SWITCH_ON_DISABLED     |-> "SHUTDOWN",
     READY_TO_SWITCH_ON     |-> "SWITCH_ON",
     SWITCHED_ON            |-> "ENABLE_OPERATION",
     OPERATION_ENABLED      |-> "ENABLE_OPERATION"]

Enableable == DOMAIN EnableWord

\* What a drive in state s does on one of them, as CiA 402 lays down.
Response(s, word) ==
    IF s \in {"FAULT_REACTION_ACTIVE", "FAULT"} THEN "FAULT"
    ELSE IF s = "NOT_READY_TO_SWITCH_ON" \/ word = "DISABLE_VOLTAGE"
    THEN "SWITCH_ON_DISABLED"
    ELSE IF word = "SHUTDOWN" /\ s \in {"SWITCH_ON_DISABLED", "SWITCHED_ON"}
    THEN "READY_TO_SWITCH_ON"
    ELSE IF word = "SWITCH_ON" /\ s \in {"READY_TO_SWITCH_ON", "OPERATION_ENABLED"}
    THEN "SWITCHED_ON"
    ELSE IF word = "ENABLE_OPERATION" /\ s = "SWITCHED_ON" THEN "OPERATION_ENABLED"
    ELSE s
=============================================================================
