--------------------------------- MODULE Bus ---------------------------------
(***************************************************************************)
(* EtherCATComm: the master and its SOEM backend, the slaves and drives    *)
(* behind them, and the process data of ServoDrive/A6EC.                   *)
(*                                                                         *)
(* A process-data exchange sends the outputs and brings the inputs.  The   *)
(* state machines of the drives, and what a slave does when it is asked to *)
(* recover, are outside the program: they answer, or not yet.              *)
(***************************************************************************)
EXTENDS Drive, Integers, FiniteSets, FiniteSetsExt

CONSTANTS
    NumAxes,        \* expectedSlaveCount, ROBOT_DOF
    Home,           \* the home position of every axis
    Positions,      \* where an axis can be
    StabilityCycles,\* BOOT_STABILITY_REQUIRED_CYCLES
    Disturbances    \* slaves that drop and drives that trip, at most

ASSUME BusAssumption ==
    /\ NumAxes \in Nat \ {0}
    /\ Home \in Positions
    /\ Positions \subseteq Int
    /\ StabilityCycles \in Nat \ {0}
    /\ Disturbances \in Nat

VARIABLES
    al,             \* application-layer state of every slave
    drive,          \* CiA 402 state of every drive
    mode,           \* its mode of operation, as object 0x6061 displays it
    position,       \* where it is
    outputs, inputs,\* the process images: what was written, what was read last
    withInputs,     \* the slaves that PDO mapping gave inputs
    expectedWkc,
    healthyCycles,  \* history: complete exchanges in a row while BOOT verifies
                    \* the bus, no more are counted than StabilityCycles
    disturbed       \* history: the disturbances so far

Axes == 1 .. NumAxes

hardwareVars == <<al, drive, mode, position>>
imageVars == <<outputs, inputs>>
counterVars == <<withInputs, expectedWkc, healthyCycles, disturbed>>
busVars == <<hardwareVars, imageVars, counterVars>>

-----------------------------------------------------------------------------
\* EC_STATE_ of a slave; LOST is EC_STATE_NONE, PRE_OP also stands for INIT.
AlStates == {"PRE_OP", "SAFE_OP", "SAFE_OP_ERROR", "OPERATIONAL", "LOST"}

Commands == [controlword : Controlwords, target : Int]

\* A statusword of every state, and one of none.
Statuswords == {Pattern[s] : s \in CiaStates} \cup {{0}}
Feedbacks == [statusword : Statuswords, position : Int]

\* The IOmap is cleared by soem_backend_open().
NoCommand == [controlword |-> "DISABLE_VOLTAGE", target |-> 0]
NoFeedback == [statusword |-> {}, position |-> 0]

BusInit ==
    /\ al = [a \in Axes |-> "PRE_OP"]
    /\ drive = [a \in Axes |-> "SWITCH_ON_DISABLED"]
    /\ mode = [a \in Axes |-> "OTHER"]
    /\ position \in [Axes -> Positions]
    /\ outputs = [a \in Axes |-> NoCommand]
    /\ inputs = [a \in Axes |-> NoFeedback]
    /\ withInputs = {}
    /\ expectedWkc = 0
    /\ healthyCycles = 0
    /\ disturbed = 0

-----------------------------------------------------------------------------
(* Exchange.                                                               *)

\* outputsWKC * 2 + inputsWKC of the group.
ConfiguredWkc(mapped) == 2 * Cardinality(Axes) + Cardinality(mapped)

\* A slave takes outputs in OPERATIONAL only, and gives inputs in SAFE_OP too.
TakesOutputs(a) == al[a] = "OPERATIONAL"
GivesInputs(a) ==
    a \in withInputs /\ al[a] \in {"SAFE_OP", "SAFE_OP_ERROR", "OPERATIONAL"}

\* The working counter of a frame; a frame that does not return counts nothing.
Wkc(returned) ==
    IF returned
    THEN 2 * Cardinality({a \in Axes : TakesOutputs(a)})
             + Cardinality({a \in Axes : GivesInputs(a)})
    ELSE 0

\* Where an axis goes: only an enabled drive in cyclic synchronous position mode
\* follows its target.
Followed(a, out) ==
    IF drive[a] = "OPERATION_ENABLED" /\ mode[a] = "CSP" THEN out[a].target
    ELSE position[a]

\* ethercat_master_exchange() with the outputs out: the drives of `moved' act
\* upon what reached them, the others will later.
Exchange(out, returned) ==
    \E moved \in SUBSET {a \in Axes : TakesOutputs(a)} :
        /\ outputs' = out
        /\ drive' = [a \in Axes |-> IF a \in moved
                                    THEN Response(drive[a], out[a].controlword)
                                    ELSE drive[a]]
        /\ position' = [a \in Axes |-> IF a \in moved
                                       THEN Followed(a, out) ELSE position[a]]
        /\ inputs' = [a \in Axes |->
                          IF returned /\ GivesInputs(a)
                          THEN [statusword |-> Pattern[drive'[a]],
                                position |-> position'[a]]
                          ELSE inputs[a]]
        /\ UNCHANGED <<mode, withInputs, expectedWkc, disturbed>>

\* A complete exchange reaches every slave, in both directions.
CountHealthy(returned) ==
    healthyCycles' = IF Wkc(returned) < ConfiguredWkc(withInputs) THEN 0
                     ELSE Min({healthyCycles + 1, StabilityCycles})

\* Whatever was in a variable that nothing was read into: representatives of an
\* unknown state, a drive on its way and an enabled one, none of them in place.
Garbage ==
    [statusword : {{0}, Pattern["SWITCHED_ON"], Pattern["OPERATION_ENABLED"]},
     position : {0}]

\* What a6ec_read_feedback() may leave in its result: the inputs, or, for a
\* slave without any, whatever was there.
FeedbackRead ==
    {[a \in Axes |-> IF a \in withInputs THEN inputs[a] ELSE garbage[a]] :
         garbage \in [Axes \ withInputs -> Garbage]}

Status(feedback) == GetState(feedback.statusword)
IsEnabled(a) == Status(inputs[a]) = "OPERATION_ENABLED"

-----------------------------------------------------------------------------
(* Configuration: the calls of the master while BOOT brings up the bus.    *)

\* ethercat_master_scan(): the number of slaves found; a wrong one is reported
\* as it is.
ScanResults == {0, Cardinality(Axes), Cardinality(Axes) + 1}

\* ethercat_master_slave_identity(), slave by slave: readable, of the vendor,
\* and of the product.
Identified == SUBSET Axes

\* ethercat_master_map_pdos() asks for some mapped bytes of the group, not of
\* every slave: the first may be without inputs.
MapInputs == \E unmapped \in SUBSET {1} : withInputs' = Axes \ unmapped

\* a6ec_set_csp_mode() writes object 0x6060 and reads the same object back.
\* Which mode a drive is then in is another object, 0x6061.
SetCspMode ==
    \E other \in SUBSET Axes :
        mode' = [a \in Axes |-> IF a \in other THEN "OTHER" ELSE "CSP"]

\* a6ec_read_mode_display().
DisplaysCsp(a) == mode[a] = "CSP"

\* ethercat_master_wait_for_safe_op(): the slaves that got there.
WaitForSafeOp(reached) ==
    al' = [a \in Axes |-> IF a \in reached THEN "SAFE_OP" ELSE al[a]]

\* ethercat_master_request_operational(): up to fifty exchanges, and then every
\* slave must be there.  The expected working counter is set either way.
RequestOperational(reached) ==
    /\ al' = [a \in Axes |-> IF a \in reached THEN "OPERATIONAL" ELSE al[a]]
    /\ expectedWkc' = ConfiguredWkc(withInputs)

-----------------------------------------------------------------------------
(* State of the slaves.                                                    *)

AllOperational(states) == \A a \in Axes : states[a] = "OPERATIONAL"

\* What the recovery of a slave can bring it to, by its state.
Recovered(state) ==
    CASE state = "SAFE_OP_ERROR" -> "SAFE_OP"       \* acknowledged
      [] state = "SAFE_OP" -> "OPERATIONAL"         \* requested
      [] state = "LOST" -> "PRE_OP"                 \* found again
      [] state = "PRE_OP" -> "SAFE_OP"              \* reconfigured
      [] OTHER -> state

\* ethercat_master_recovery_step() for every slave; the replies are not used.
RecoverSlaves(states) ==
    \E answered \in SUBSET Axes :
        al' = [a \in Axes |-> IF a \in answered THEN Recovered(states[a])
                              ELSE states[a]]

\* The slaves between an exchange and the read of their states: at most one
\* leaves OPERATIONAL just then.
StatesAfter ==
    {al} \cup {[al EXCEPT ![a] = "SAFE_OP_ERROR"] :
                   a \in {b \in Axes : al[b] = "OPERATIONAL"}}

-----------------------------------------------------------------------------
(* The environment.                                                        *)

Disturb ==
    /\ disturbed < Disturbances
    /\ disturbed' = disturbed + 1
    /\ UNCHANGED <<mode, position, imageVars, withInputs, expectedWkc, healthyCycles>>

\* A slave reports an error or is lost.
SlaveDrops ==
    /\ \E a \in Axes, state \in {"SAFE_OP_ERROR", "LOST"} :
           al[a] = "OPERATIONAL" /\ al' = [al EXCEPT ![a] = state]
    /\ Disturb
    /\ UNCHANGED drive

\* A drive trips, is stopped quickly by its own input, or loses its power.
DriveTrips ==
    /\ \E a \in Axes, state \in {"FAULT_REACTION_ACTIVE", "QUICK_STOP_ACTIVE",
                                 "SWITCH_ON_DISABLED"} :
           /\ drive[a] \in {"SWITCHED_ON", "OPERATION_ENABLED"}
           /\ drive' = [drive EXCEPT ![a] = state]
    /\ Disturb
    /\ UNCHANGED al
=============================================================================
