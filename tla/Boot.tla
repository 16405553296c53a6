--------------------------------- MODULE Boot ---------------------------------
(***************************************************************************)
(* StateMachine/States/state_boot.c: from a closed bus to drives that are  *)
(* enabled and hold still.                                                 *)
(*                                                                         *)
(* A step of state_boot_step() handles one phase: it stays, advances, or   *)
(* fails.  The error code only feeds a report and is left out.             *)
(***************************************************************************)
EXTENDS Bus

CONSTANTS
    RecoveryAttempts,   \* BOOT_ETHERCAT_RECOVERY_MAX_ATTEMPTS
    EnableCycles        \* BOOT_DRIVE_ENABLE_TIMEOUT_CYCLES

ASSUME BootAssumption ==
    /\ RecoveryAttempts \in Nat
    /\ EnableCycles \in Nat \ {0}

VARIABLES
    bootPhase, stableCycles, recoveryAttempts

bootVars == <<bootPhase, stableCycles, recoveryAttempts>>

BootPhases ==
    {"INIT", "OPEN_BUS", "DISCOVER_SLAVES", "VERIFY_SLAVE_IDENTITIES",
     "MAP_PDOS", "CONFIGURE_DRIVES", "CONFIGURE_DC", "SAFE_OP",
     "INITIAL_PDO_EXCHANGE", "OPERATIONAL", "VERIFY_WKC",
     "VERIFY_CYCLIC_COMMUNICATION", "ENABLE_DRIVES", "VERIFY_CSP_MODE",
     "VERIFY_POSITION_FEEDBACK", "VERIFY_SAFETY", "COMPLETE", "FAILED"}

\* state_boot_enter().
EnterBoot ==
    /\ bootPhase = "INIT"
    /\ stableCycles = 0
    /\ recoveryAttempts = 0

\* boot_advance().
AdvanceBoot(next) ==
    /\ bootPhase' = next
    /\ stableCycles' = 0
    /\ recoveryAttempts' = 0

\* boot_fail().  BOOT is not entered again and its counters are not read again:
\* they are dropped.
FailBoot == AdvanceBoot("FAILED")

\* A phase that only asks the master for something: done, or failed.
AdvanceOrFail(next) == AdvanceBoot(next) \/ FailBoot

\* Mutant: a healthy cycle gives the attempts back.
BugAttemptRecovery(states, stable) ==
    IF recoveryAttempts >= RecoveryAttempts
    THEN FailBoot /\ al' = states
    ELSE /\ recoveryAttempts' = IF stableCycles > 0 THEN 0 ELSE recoveryAttempts + 1
         /\ stableCycles' = stable
         /\ RecoverSlaves(states)
         /\ UNCHANGED bootPhase

\* boot_attempt_ethercat_recovery(), and the failure of the phase when it is
\* refused.  `states' is what the step has read of the slaves, `stable' what it
\* has made of stableCycles.
AttemptRecovery(states, stable) ==
    IF recoveryAttempts >= RecoveryAttempts
    THEN FailBoot /\ al' = states
    ELSE /\ recoveryAttempts' = recoveryAttempts + 1
         /\ stableCycles' = stable
         /\ RecoverSlaves(states)
         /\ UNCHANGED bootPhase

-----------------------------------------------------------------------------
(* Configuration.                                                          *)

\* INIT, OPEN_BUS: the master is configured and the interface opened.
OpenBus ==
    /\ \/ bootPhase = "INIT" /\ AdvanceOrFail("OPEN_BUS")
       \/ bootPhase = "OPEN_BUS" /\ AdvanceOrFail("DISCOVER_SLAVES")
    /\ UNCHANGED busVars

\* ethercat_master_scan() must find the expected number of slaves.
DiscoverSlaves ==
    /\ bootPhase = "DISCOVER_SLAVES"
    /\ \E slaveCount \in ScanResults :
           IF slaveCount <= 0 \/ slaveCount # Cardinality(Axes) THEN FailBoot
           ELSE AdvanceBoot("VERIFY_SLAVE_IDENTITIES")
    /\ UNCHANGED busVars

\* Every slave must be readable, of the vendor, and of the product.
VerifySlaveIdentities ==
    /\ bootPhase = "VERIFY_SLAVE_IDENTITIES"
    /\ \E identified \in Identified :
           IF identified = Axes THEN AdvanceBoot("MAP_PDOS") ELSE FailBoot
    /\ UNCHANGED busVars

\* MAP_PDOS: outputs and inputs of the group must have been mapped.
MapPdos ==
    /\ bootPhase = "MAP_PDOS"
    /\ \/ /\ AdvanceBoot("CONFIGURE_DRIVES")
          /\ MapInputs
       \/ FailBoot /\ UNCHANGED withInputs
    /\ UNCHANGED <<hardwareVars, imageVars, expectedWkc, healthyCycles, disturbed>>

\* CONFIGURE_DRIVES: the mode of every drive is set, and read back.
ConfigureDrives ==
    /\ bootPhase = "CONFIGURE_DRIVES"
    /\ \E configured \in SUBSET Axes :
           IF configured = Axes
           THEN /\ AdvanceBoot("CONFIGURE_DC")
                /\ SetCspMode
           ELSE /\ FailBoot
                /\ UNCHANGED mode
    /\ UNCHANGED <<al, drive, position, imageVars, counterVars>>

\* CONFIGURE_DC asks for distributed clocks.
ConfigureDc ==
    /\ bootPhase = "CONFIGURE_DC"
    /\ AdvanceOrFail("SAFE_OP")
    /\ UNCHANGED busVars

\* SAFE_OP: every slave must have got there.
ReachSafeOp ==
    /\ bootPhase = "SAFE_OP"
    /\ \E reached \in SUBSET Axes :
           /\ WaitForSafeOp(reached)
           /\ IF reached = Axes THEN AdvanceBoot("INITIAL_PDO_EXCHANGE")
              ELSE FailBoot
    /\ UNCHANGED <<drive, mode, position, imageVars, counterVars>>

\* The result of the first exchange is not looked at.
InitialExchange ==
    /\ bootPhase = "INITIAL_PDO_EXCHANGE"
    /\ \E returned \in BOOLEAN : Exchange(outputs, returned)
    /\ AdvanceBoot("OPERATIONAL")
    /\ UNCHANGED <<al, healthyCycles>>

\* OPERATIONAL: likewise.  The exchanges meanwhile carry outputs that are still
\* clear, and what they bring VERIFY_WKC brings again.
ReachOperational ==
    /\ bootPhase = "OPERATIONAL"
    /\ \E reached \in SUBSET Axes :
           /\ RequestOperational(reached)
           /\ IF reached = Axes THEN AdvanceBoot("VERIFY_WKC") ELSE FailBoot
    /\ UNCHANGED <<drive, mode, position, imageVars, withInputs, healthyCycles,
                   disturbed>>

-----------------------------------------------------------------------------
(* Verification of the bus.                                                *)

\* VERIFY_WKC: one exchange that reaches every slave.
VerifyWkc ==
    /\ bootPhase = "VERIFY_WKC"
    /\ \E returned \in BOOLEAN, states \in StatesAfter :
           /\ Exchange(outputs, returned)
           /\ CountHealthy(returned)
           /\ IF Wkc(returned) < expectedWkc \/ ~AllOperational(states)
              THEN AttemptRecovery(states, stableCycles)
              ELSE AdvanceBoot("VERIFY_CYCLIC_COMMUNICATION") /\ al' = states

\* Mutant: a failure does not start the run again.
BugVerifyCyclic ==
    /\ bootPhase = "VERIFY_CYCLIC_COMMUNICATION"
    /\ \E returned \in BOOLEAN, states \in StatesAfter :
           /\ Exchange(outputs, returned)
           /\ CountHealthy(returned)
           /\ IF Wkc(returned) < expectedWkc \/ ~AllOperational(states)
              THEN AttemptRecovery(states, stableCycles)
              ELSE /\ al' = states
                   /\ IF stableCycles + 1 >= StabilityCycles
                      THEN AdvanceBoot("ENABLE_DRIVES")
                      ELSE /\ stableCycles' = stableCycles + 1
                           /\ UNCHANGED <<bootPhase, recoveryAttempts>>

\* VERIFY_CYCLIC_COMMUNICATION: a run of them, without one failure in between.
VerifyCyclicCommunication ==
    /\ bootPhase = "VERIFY_CYCLIC_COMMUNICATION"
    /\ \E returned \in BOOLEAN, states \in StatesAfter :
           /\ Exchange(outputs, returned)
           /\ CountHealthy(returned)
           /\ IF Wkc(returned) < expectedWkc \/ ~AllOperational(states)
              THEN AttemptRecovery(states, 0)
              ELSE /\ al' = states
                   /\ IF stableCycles + 1 >= StabilityCycles
                      THEN AdvanceBoot("ENABLE_DRIVES")
                      ELSE /\ stableCycles' = stableCycles + 1
                           /\ UNCHANGED <<bootPhase, recoveryAttempts>>

-----------------------------------------------------------------------------
(* ENABLE_DRIVES.                                                          *)

\* The first slave whose state does not belong to the enabling sequence; the
\* outputs of those before it have been written by then.
Refused(feedback) == {a \in Axes : Status(feedback[a]) \notin Enableable}

Before(slaves) == {a \in Axes : \A b \in slaves : a < b}

\* The next controlword of the sequence, and the measured position as target.
EnableCommand(feedback) ==
    [controlword |-> EnableWord[Status(feedback)], target |-> feedback.position]

\* Mutant: the target is not set while a drive is being enabled.
BugEnableOutputs(feedback) ==
    [a \in Axes |-> IF a \in Before(Refused(feedback))
                    THEN [controlword |-> EnableWord[Status(feedback[a])],
                          target |-> outputs[a].target]
                    ELSE outputs[a]]

EnableOutputs(feedback) ==
    [a \in Axes |-> IF a \in Before(Refused(feedback))
                    THEN EnableCommand(feedback[a]) ELSE outputs[a]]

\* After the exchange.  All drives count as enabled when they were before it.
EnableResult(feedback, returned) ==
    IF Wkc(returned) < expectedWkc
    THEN AttemptRecovery(al, stableCycles)
    ELSE /\ UNCHANGED al
         /\ \/ /\ \A a \in Axes : Status(feedback[a]) = "OPERATION_ENABLED"
               /\ AdvanceBoot("VERIFY_CSP_MODE")
            \/ /\ \E a \in Axes : Status(feedback[a]) # "OPERATION_ENABLED"
               /\ IF stableCycles + 1 >= EnableCycles THEN FailBoot
                  ELSE /\ stableCycles' = stableCycles + 1
                       /\ UNCHANGED <<bootPhase, recoveryAttempts>>

\* One cycle: the slaves are looked at, the drives read and commanded one after
\* the other, and the outputs of all of them exchanged.
EnableDrives ==
    /\ bootPhase = "ENABLE_DRIVES"
    /\ \/ /\ ~AllOperational(al)
          /\ AttemptRecovery(al, stableCycles)
          /\ UNCHANGED <<drive, mode, position, imageVars, counterVars>>
       \/ /\ AllOperational(al)
          /\ \E feedback \in FeedbackRead :
                 \/ /\ Refused(feedback) # {}
                    /\ outputs' = EnableOutputs(feedback)
                    /\ FailBoot
                    /\ UNCHANGED <<hardwareVars, inputs, counterVars>>
                 \/ /\ Refused(feedback) = {}
                    /\ \E returned \in BOOLEAN :
                           /\ Exchange(EnableOutputs(feedback), returned)
                           /\ UNCHANGED healthyCycles
                           /\ EnableResult(feedback, returned)

-----------------------------------------------------------------------------
(* Verification of the drives.  No exchange takes place any more.          *)

\* VERIFY_CSP_MODE reads object 0x6061, the mode a drive is really in.
VerifyCspMode ==
    /\ bootPhase = "VERIFY_CSP_MODE"
    /\ \E readable \in SUBSET Axes :
           IF readable = Axes /\ \A a \in Axes : DisplaysCsp(a)
           THEN AdvanceBoot("VERIFY_POSITION_FEEDBACK") ELSE FailBoot
    /\ UNCHANGED busVars

\* Every slave must have inputs.
VerifyPositionFeedback ==
    /\ bootPhase = "VERIFY_POSITION_FEEDBACK"
    /\ IF withInputs = Axes THEN AdvanceBoot("VERIFY_SAFETY") ELSE FailBoot
    /\ UNCHANGED busVars

\* VERIFY_SAFETY stands for an interface that does not exist yet.
VerifySafety ==
    /\ bootPhase = "VERIFY_SAFETY"
    /\ AdvanceBoot("COMPLETE")
    /\ UNCHANGED busVars

\* state_boot_step() as long as it reports RUNNING or the failure of a phase.
BootStep ==
    \/ OpenBus \/ DiscoverSlaves \/ VerifySlaveIdentities \/ MapPdos
    \/ ConfigureDrives \/ ConfigureDc \/ ReachSafeOp \/ InitialExchange
    \/ ReachOperational \/ VerifyWkc \/ VerifyCyclicCommunication
    \/ EnableDrives \/ VerifyCspMode \/ VerifyPositionFeedback \/ VerifySafety
=============================================================================
