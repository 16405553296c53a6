---------------------------- MODULE StartupProofs ----------------------------
(***************************************************************************)
(* Proofs about Startup: the robot stands still while BOOT enables its     *)
(* drives, while IDLE holds it and in FAULT, the drives are only enabled   *)
(* over a bus that is stable, and HOMING ends at home, for every number of *)
(* axes and disturbances and every limit.                                  *)
(***************************************************************************)
EXTENDS Startup, FiniteSetTheorems, TLAPS

-----------------------------------------------------------------------------
(* Drives.                                                                 *)

\* The patterns under the two masks exclude each other, so that the order in
\* which cia402_get_state() compares them does not matter.
LEMMA GetStateUnambiguous ==
    \A statusword : \A s, t \in Matches(statusword) : s = t
<1> SUFFICES ASSUME NEW statusword, NEW s \in Matches(statusword),
                    NEW t \in Matches(statusword)
             PROVE  s = t
  OBVIOUS
<1> DEFINE bit(n) == n \in statusword
<1>1. ASSUME NEW u \in Matches(statusword)
      PROVE  /\ u \in CiaStates
             /\ u \in ShortStates => \A n \in Mask4F : bit(n) <=> n \in Pattern[u]
             /\ u \in LongStates => \A n \in Mask6F : bit(n) <=> n \in Pattern[u]
  BY <1>1 DEF Matches, CiaStates, Mask4F, Mask6F, ShortStates, LongStates
<1>2. ASSUME NEW u \in Matches(statusword)
      PROVE  /\ u \in CiaStates
             /\ \A n \in {0, 1, 2, 3, 6} : bit(n) <=> n \in Pattern[u]
             /\ u \in LongStates => (bit(5) <=> 5 \in Pattern[u])
  BY <1>1 DEF CiaStates, Mask4F, Mask6F, ShortStates, LongStates
<1> QED
  BY <1>2 DEF CiaStates, ShortStates, LongStates, Pattern

\* A drive that reports its state is decoded as being in it.
LEMMA PatternDecoded ==
    ASSUME NEW s \in CiaStates
    PROVE  GetState(Pattern[s]) = s
<1>1. s \in Matches(Pattern[s])
  BY DEF Matches, CiaStates, ShortStates, LongStates, Pattern, Mask4F, Mask6F
<1>2. \A t \in Matches(Pattern[s]) : t = s
  BY <1>1, GetStateUnambiguous
<1> QED
  BY <1>1, <1>2 DEF GetState

\* What was never read is no state of a drive that is on its way.
LEMMA NothingDecoded == GetState({}) = "NOT_READY_TO_SWITCH_ON"
<1>1. Pattern["NOT_READY_TO_SWITCH_ON"] = {}
  BY DEF Pattern
<1> QED
  BY <1>1, PatternDecoded DEF CiaStates, ShortStates

\* A drive answers every controlword with a state.
LEMMA ResponseIsState ==
    ASSUME NEW s \in CiaStates, NEW word
    PROVE  Response(s, word) \in CiaStates
BY DEF Response, CiaStates, ShortStates, LongStates

-----------------------------------------------------------------------------
(* Exchange.                                                               *)

\* The axes are finitely many, and there is a first one.
LEMMA AxesKnown == IsFiniteSet(Axes) /\ 1 \in Axes /\ Axes \subseteq Int
BY BusAssumption, FS_Interval DEF BusAssumption, Axes

CommandWords == [controlword : Controlwords, target : Int]

BusTypeOK ==
    /\ drive \in [Axes -> CiaStates]
    /\ position \in [Axes -> Int]
    /\ outputs \in [Axes -> CommandWords]
    /\ inputs \in [Axes -> [statusword : Statuswords, position : Int]]
    /\ withInputs \subseteq Axes

\* An exchange keeps the types.
LEMMA ExchangeTypes ==
    ASSUME BusTypeOK, NEW out \in [Axes -> CommandWords], NEW returned,
           Exchange(out, returned)
    PROVE  BusTypeOK'
<1>1. PICK moved \in SUBSET {a \in Axes : TakesOutputs(a)} :
          /\ outputs' = out
          /\ drive' = [a \in Axes |-> IF a \in moved
                                      THEN Response(drive[a], out[a].controlword)
                                      ELSE drive[a]]
          /\ position' = [a \in Axes |-> IF a \in moved
                                         THEN Followed(a, out) ELSE position[a]]
          /\ inputs' = [a \in Axes |->
                            IF returned /\ GivesInputs(a)
                            THEN [statusword |-> Pattern[drive'[a]],
                                  position |-> position'[a]]
                            ELSE inputs[a]]
          /\ withInputs' = withInputs
  BY DEF Exchange
<1>2. drive' \in [Axes -> CiaStates]
  BY <1>1, ResponseIsState DEF BusTypeOK
<1>3. position' \in [Axes -> Int]
  BY <1>1 DEF BusTypeOK, Followed, CommandWords
<1>4. ASSUME NEW a \in Axes
      PROVE  [statusword |-> Pattern[drive'[a]], position |-> position'[a]]
                 \in [statusword : Statuswords, position : Int]
  BY <1>2, <1>3 DEF Statuswords
<1>5. inputs' \in [Axes -> [statusword : Statuswords, position : Int]]
  BY <1>1, <1>4 DEF BusTypeOK
<1> QED
  BY <1>1, <1>2, <1>3, <1>5 DEF BusTypeOK

\* What an exchange may bring: nothing, or where an axis is.
Brought(a) ==
    \/ inputs'[a] = inputs[a]
    \/ /\ inputs'[a].position = position'[a]
       /\ inputs'[a].statusword = Pattern[drive'[a]]

\* An exchange whose targets are where the enabled drives are moves nothing.
LEMMA ExchangeStill ==
    ASSUME BusTypeOK, NEW out, NEW returned, Exchange(out, returned),
           \A a \in Axes : drive[a] = "OPERATION_ENABLED" => out[a].target = position[a]
    PROVE  /\ position' = position
           /\ \A a \in Axes : Brought(a)
BY DEF Exchange, Followed, Brought, BusTypeOK

\* Neither does it as long as no drive was ever told to switch on.
Untouched ==
    \A a \in Axes : /\ drive[a] = "SWITCH_ON_DISABLED"
                    /\ outputs[a].controlword = "DISABLE_VOLTAGE"
                    /\ inputs[a].statusword \in {{}, Pattern["SWITCH_ON_DISABLED"]}

\* Such an exchange leaves the drives untouched and the robot where it is.
LEMMA ExchangeUntouched ==
    ASSUME BusTypeOK, Untouched, NEW returned, Exchange(outputs, returned)
    PROVE  /\ BusTypeOK' /\ Untouched' /\ position' = position
           /\ \A a \in Axes : Brought(a)
<1>1. BusTypeOK'
  BY ExchangeTypes DEF BusTypeOK
<1>2. position' = position /\ \A a \in Axes : Brought(a)
  <2>1. \A a \in Axes : drive[a] # "OPERATION_ENABLED"
    BY DEF Untouched
  <2> QED
    BY <2>1, ExchangeStill
<1>3. outputs' = outputs
  BY DEF Exchange
<1>4. \A a \in Axes : drive'[a] = "SWITCH_ON_DISABLED"
  BY DEF Exchange, Untouched, Response
<1>5. Untouched'
  BY <1>2, <1>3, <1>4 DEF Untouched, Brought
<1> QED
  BY <1>1, <1>2, <1>5

\* A counter that is complete has read every axis with inputs.
Configured == expectedWkc = ConfiguredWkc(withInputs)

\* No slave was left out of a frame whose counter is complete.
LEMMA CompleteReadsAll ==
    ASSUME BusTypeOK, Configured, NEW returned \in BOOLEAN,
           ~(Wkc(returned) < expectedWkc)
    PROVE  returned /\ \A a \in withInputs : GivesInputs(a)
<1> DEFINE T == {a \in Axes : TakesOutputs(a)}
           G == {a \in Axes : GivesInputs(a)}
<1>1. /\ IsFiniteSet(withInputs) /\ Cardinality(withInputs) \in Nat
      /\ Cardinality(Axes) \in Nat \ {0}
  <2>1. withInputs \in SUBSET Axes
    BY DEF BusTypeOK
  <2>2. IsFiniteSet(withInputs)
    BY <2>1, AxesKnown, FS_Subset
  <2>3. Cardinality(Axes) \in Nat /\ Cardinality(Axes) # 0
    BY AxesKnown, FS_CardinalityType, FS_EmptySet
  <2> QED
    BY <2>2, <2>3, FS_CardinalityType
<1>2. T \in SUBSET Axes /\ G \in SUBSET withInputs
  BY DEF GivesInputs
<1>3. /\ Cardinality(T) \in Nat /\ Cardinality(T) <= Cardinality(Axes)
      /\ Cardinality(G) \in Nat /\ Cardinality(G) <= Cardinality(withInputs)
      /\ Cardinality(withInputs) = Cardinality(G) => withInputs = G
  BY <1>1, <1>2, AxesKnown, FS_Subset, FS_CardinalityType
<1>4. ~(Wkc(returned) < 2 * Cardinality(Axes) + Cardinality(withInputs))
  BY DEF Configured, ConfiguredWkc
<1> HIDE DEF T, G
<1>5. CASE returned
  <2>1. Wkc(returned) = 2 * Cardinality(T) + Cardinality(G)
    BY <1>5 DEF Wkc, T, G
  <2>2. Cardinality(withInputs) = Cardinality(G)
    BY <1>1, <1>3, <1>4, <2>1
  <2>3. withInputs = G
    BY <1>3, <2>2
  <2> QED
    BY <1>5, <2>3 DEF G
<1>6. CASE ~returned
  BY <1>1, <1>4, <1>6 DEF Wkc
<1> QED
  BY <1>5, <1>6

\* After it, the inputs of all axes show where they are.
Seen == \A a \in Axes : inputs[a].position = position[a]

\* If every axis has inputs, such an exchange shows where the robot is.
LEMMA CompleteExchangeSees ==
    ASSUME BusTypeOK, Configured, withInputs = Axes, NEW out,
           NEW returned \in BOOLEAN, ~(Wkc(returned) < expectedWkc),
           Exchange(out, returned)
    PROVE  Seen'
<1>1. returned /\ \A a \in Axes : GivesInputs(a)
  BY CompleteReadsAll
<1> QED
  BY <1>1 DEF Exchange, Seen

-----------------------------------------------------------------------------
(* The inductive invariant.                                                *)

EarlyPhases ==
    {"INIT", "OPEN_BUS", "DISCOVER_SLAVES", "VERIFY_SLAVE_IDENTITIES", "MAP_PDOS",
     "CONFIGURE_DRIVES", "CONFIGURE_DC", "SAFE_OP", "INITIAL_PDO_EXCHANGE",
     "OPERATIONAL"}
VerifyPhases == {"VERIFY_WKC", "VERIFY_CYCLIC_COMMUNICATION"}
EnablePhases ==
    {"ENABLE_DRIVES", "VERIFY_CSP_MODE", "VERIFY_POSITION_FEEDBACK",
     "VERIFY_SAFETY", "COMPLETE"}

\* The inputs are clear or up to date.
Fresh(a) == inputs[a].position = position[a] \/ inputs[a] = NoFeedback

\* What BOOT may rely on.  The expected counter is set before any drive is
\* touched, and a drive whose inputs are still clear has not been switched on.
BootInv ==
    /\ bootPhase \in EarlyPhases \cup VerifyPhases \cup EnablePhases \cup {"FAILED"}
    /\ bootPhase \notin {"COMPLETE", "FAILED"} => activeState = "BOOT"
    /\ activeState = "BOOT" => bootPhase # "FAILED"
    /\ bootPhase \in EarlyPhases \cup VerifyPhases =>
           Untouched /\ \A a \in Axes : Fresh(a)
    /\ bootPhase \in VerifyPhases \cup EnablePhases => Configured
    /\ activeState = "BOOT" /\ bootPhase \in EnablePhases /\ withInputs = Axes =>
           \A a \in Axes : Fresh(a) /\ (\/ inputs[a].position = position[a]
                                       \/ drive[a] = "SWITCH_ON_DISABLED")
    /\ Configured \/ (Untouched /\ activeState \in {"BOOT", "FAULT"})

\* The run of complete exchanges that BOOT counts did take place.
HealthInv ==
    /\ healthyCycles \in 0 .. StabilityCycles
    /\ stableCycles \in Nat
    /\ bootPhase = "VERIFY_CYCLIC_COMMUNICATION" => stableCycles <= healthyCycles

\* From the last sample of the homing on, and while the robot is held, the
\* inputs show where it is.
MotionInv ==
    /\ qStart \in [Axes -> Int] /\ nextSample \in Nat
    /\ holdPosition \in [Axes -> Int]
    /\ homingPhase \in HomingPhases /\ idlePhase \in IdlePhases
    /\ homingPhase # "FAILED" => activeState = "HOMING"
    /\ idlePhase # "FAILED" => activeState = "IDLE"
    /\ homingPhase \in {"PREPARE_TRAJECTORY", "EXECUTE_TRAJECTORY", "VERIFY_HOME",
                        "COMPLETE"} => withInputs = Axes
    /\ homingPhase \in {"VERIFY_HOME", "COMPLETE"} => Seen
    /\ homingPhase = "COMPLETE" => \A a \in Axes : position[a] = Home
    /\ activeState \in {"IDLE", "AWAY"} => Seen
    /\ idlePhase = "HOLDING" => holdPosition = position

StartupInv == BusTypeOK /\ BootInv /\ HealthInv /\ MotionInv

\* A closed bus satisfies the invariant.
LEMMA StartupInit == Init => StartupInv
<1> SUFFICES ASSUME Init
             PROVE  StartupInv
  OBVIOUS
<1> USE DEF Init, BusInit, EnterBoot, HomingInit, IdleInit
<1>1. Pattern["NOT_READY_TO_SWITCH_ON"] = {}
  BY DEF Pattern
<1>2. {} \in Statuswords
  BY <1>1 DEF Statuswords, CiaStates, ShortStates
<1>3. BusTypeOK
  <2>1. "SWITCH_ON_DISABLED" \in CiaStates
    BY DEF CiaStates, ShortStates
  <2>2. drive \in [Axes -> CiaStates] /\ withInputs \subseteq Axes
    BY <2>1
  <2>3. position \in [Axes -> Int]
    BY BusAssumption DEF BusAssumption
  <2>4. NoCommand \in CommandWords
    BY DEF NoCommand, CommandWords, Controlwords
  <2>5. outputs \in [Axes -> CommandWords]
    BY <2>4
  <2>6. NoFeedback \in [statusword : Statuswords, position : Int]
    BY <1>2 DEF NoFeedback
  <2>7. inputs \in [Axes -> [statusword : Statuswords, position : Int]]
    BY <2>6
  <2> QED
    BY <2>2, <2>3, <2>5, <2>7 DEF BusTypeOK
<1>4. BootInv
  BY DEF BootInv, EarlyPhases, VerifyPhases, EnablePhases, Untouched, Fresh,
         NoCommand, NoFeedback
<1>5. HealthInv
  BY BusAssumption DEF HealthInv, BusAssumption
<1>6. MotionInv
  BY BusAssumption DEF MotionInv, BusAssumption, HomingPhases, IdlePhases
<1> QED
  BY <1>3, <1>4, <1>5, <1>6 DEF StartupInv

-----------------------------------------------------------------------------
(* BOOT.                                                                   *)

\* The states that are not active are left as they are.
LEMMA OthersKept ==
    ASSUME StartupInv, activeState = "BOOT", UNCHANGED <<homingVars, idleVars>>,
           activeState' \in {"BOOT", "FAULT"}
    PROVE  MotionInv'
BY DEF StartupInv, MotionInv, homingVars, idleVars

\* The phases before the first exchange.
LEMMA BeforeExchange ==
    ASSUME StartupInv, StepOfBoot,
           \/ OpenBus \/ DiscoverSlaves \/ VerifySlaveIdentities \/ MapPdos
           \/ ConfigureDrives \/ ConfigureDc \/ ReachSafeOp
    PROVE  StartupInv'
<1> USE DEF AdvanceOrFail, AdvanceBoot, FailBoot
<1>1. /\ UNCHANGED <<drive, position, outputs, inputs, expectedWkc, healthyCycles>>
      /\ bootPhase \in EarlyPhases /\ bootPhase' \in EarlyPhases \cup {"FAILED"}
      /\ stableCycles' = 0
      /\ withInputs' \subseteq Axes
  BY DEF OpenBus, DiscoverSlaves, VerifySlaveIdentities, MapPdos, ConfigureDrives,
         ConfigureDc, ReachSafeOp, busVars, hardwareVars, imageVars, counterVars,
         EarlyPhases, MapInputs, StartupInv, BusTypeOK
<1>2. activeState' = IF bootPhase' = "FAILED" THEN "FAULT" ELSE "BOOT"
  BY DEF StepOfBoot
<1>3. BusTypeOK'
  BY <1>1 DEF StartupInv, BusTypeOK
<1>4. BootInv'
  BY <1>1, <1>2
  DEF StartupInv, BootInv, EarlyPhases, VerifyPhases, EnablePhases, Untouched, Fresh
<1>5. HealthInv'
  BY <1>1 DEF StartupInv, HealthInv, EarlyPhases
<1>6. MotionInv'
  BY <1>2, OthersKept DEF StepOfBoot
<1> QED
  BY <1>3, <1>4, <1>5, <1>6 DEF StartupInv

\* An exchange of the outputs that are there, before any drive is enabled.
LEMMA StillUntouched ==
    ASSUME StartupInv, Untouched, \A a \in Axes : Fresh(a),
           NEW returned, Exchange(outputs, returned)
    PROVE  /\ BusTypeOK' /\ Untouched' /\ \A a \in Axes : Fresh(a)'
           /\ UNCHANGED <<position, withInputs, expectedWkc>>
<1>1. /\ BusTypeOK' /\ Untouched' /\ position' = position
      /\ \A a \in Axes : Brought(a)
  BY ExchangeUntouched DEF StartupInv
<1>2. UNCHANGED <<withInputs, expectedWkc>>
  BY DEF Exchange
<1>3. \A a \in Axes : Fresh(a)'
  <2> SUFFICES ASSUME NEW a \in Axes
               PROVE  Fresh(a)'
    OBVIOUS
  <2>1. CASE inputs'[a] = inputs[a]
    BY <1>1, <2>1 DEF Fresh
  <2>2. CASE inputs'[a].position = position'[a]
    BY <2>2 DEF Fresh
  <2> QED
    BY <1>1, <2>1, <2>2 DEF Brought
<1> QED
  BY <1>1, <1>2, <1>3

\* The first exchange sends clear outputs.
LEMMA FirstExchange ==
    ASSUME StartupInv, StepOfBoot, InitialExchange
    PROVE  StartupInv'
<1> USE DEF AdvanceBoot
<1>1. PICK returned \in BOOLEAN : Exchange(outputs, returned)
  BY DEF InitialExchange
<1>2. /\ bootPhase = "INITIAL_PDO_EXCHANGE" /\ bootPhase' = "OPERATIONAL"
      /\ stableCycles' = 0 /\ healthyCycles' = healthyCycles
      /\ activeState = "BOOT" /\ activeState' = "BOOT"
  BY DEF InitialExchange, StepOfBoot
<1>3. Untouched /\ \A a \in Axes : Fresh(a)
  BY <1>2 DEF StartupInv, BootInv, EarlyPhases
<1>4. /\ BusTypeOK' /\ Untouched' /\ \A a \in Axes : Fresh(a)'
      /\ UNCHANGED <<position, withInputs, expectedWkc>>
  BY <1>1, <1>3, StillUntouched
<1>5. BootInv'
  BY <1>2, <1>4 DEF BootInv, EarlyPhases, VerifyPhases, EnablePhases
<1>6. HealthInv'
  BY <1>2 DEF StartupInv, HealthInv
<1>7. MotionInv'
  BY <1>2, OthersKept DEF StepOfBoot
<1> QED
  BY <1>4, <1>5, <1>6, <1>7 DEF StartupInv

\* The slaves reach OPERATIONAL, and the counter is known that they must give.
LEMMA Operational ==
    ASSUME StartupInv, StepOfBoot, ReachOperational
    PROVE  StartupInv'
<1> USE DEF AdvanceBoot, FailBoot
<1>1. /\ UNCHANGED <<drive, position, outputs, inputs, withInputs, healthyCycles>>
      /\ expectedWkc' = ConfiguredWkc(withInputs)
      /\ bootPhase = "OPERATIONAL" /\ bootPhase' \in {"VERIFY_WKC", "FAILED"}
      /\ stableCycles' = 0 /\ activeState = "BOOT"
      /\ activeState' = IF bootPhase' = "FAILED" THEN "FAULT" ELSE "BOOT"
  BY DEF ReachOperational, RequestOperational, StepOfBoot, imageVars
<1>2. Configured'
  BY <1>1 DEF Configured, ConfiguredWkc
<1>3. Untouched' /\ \A a \in Axes : Fresh(a)'
  BY <1>1 DEF StartupInv, BootInv, EarlyPhases, Untouched, Fresh
<1>4. BusTypeOK'
  BY <1>1 DEF StartupInv, BusTypeOK
<1>5. BootInv'
  BY <1>1, <1>2, <1>3 DEF BootInv, EarlyPhases, VerifyPhases, EnablePhases
<1>6. HealthInv'
  BY <1>1 DEF StartupInv, HealthInv
<1>7. MotionInv'
  BY <1>1, OthersKept DEF StepOfBoot
<1> QED
  BY <1>4, <1>5, <1>6, <1>7 DEF StartupInv

\* Both verifications of the bus: the slaves may be recovered, the drives are
\* not touched, and a counter that is complete is counted.
LEMMA BusVerified ==
    ASSUME StartupInv, StepOfBoot, VerifyWkc \/ VerifyCyclicCommunication
    PROVE  /\ StartupInv'
           /\ bootPhase' = "ENABLE_DRIVES" => healthyCycles' = StabilityCycles
<1> USE DEF AdvanceBoot, FailBoot
<1>1. PICK returned \in BOOLEAN, states \in StatesAfter :
          /\ Exchange(outputs, returned)
          /\ CountHealthy(returned)
          /\ \/ /\ ~(Wkc(returned) < expectedWkc)
                /\ \/ /\ bootPhase = "VERIFY_WKC"
                      /\ AdvanceBoot("VERIFY_CYCLIC_COMMUNICATION")
                   \/ /\ bootPhase = "VERIFY_CYCLIC_COMMUNICATION"
                      /\ stableCycles + 1 >= StabilityCycles
                      /\ AdvanceBoot("ENABLE_DRIVES")
                   \/ /\ bootPhase = "VERIFY_CYCLIC_COMMUNICATION"
                      /\ ~(stableCycles + 1 >= StabilityCycles)
                      /\ stableCycles' = stableCycles + 1
                      /\ bootPhase' = bootPhase
             \/ /\ bootPhase = "VERIFY_WKC"
                /\ AttemptRecovery(states, stableCycles)
             \/ /\ bootPhase = "VERIFY_CYCLIC_COMMUNICATION"
                /\ AttemptRecovery(states, 0)
  BY DEF VerifyWkc, VerifyCyclicCommunication
<1>2. /\ bootPhase \in VerifyPhases /\ activeState = "BOOT"
      /\ activeState' = IF bootPhase' = "FAILED" THEN "FAULT" ELSE "BOOT"
  BY <1>1 DEF StepOfBoot, VerifyPhases
<1>3. /\ Untouched /\ Configured
      /\ \A a \in Axes : Fresh(a)
      /\ healthyCycles \in 0 .. StabilityCycles /\ stableCycles \in Nat
      /\ bootPhase = "VERIFY_CYCLIC_COMMUNICATION" => stableCycles <= healthyCycles
  BY <1>2 DEF StartupInv, BootInv, HealthInv
<1>4. /\ BusTypeOK' /\ Untouched' /\ \A a \in Axes : Fresh(a)'
      /\ UNCHANGED <<position, withInputs, expectedWkc>>
  BY <1>1, <1>3, StillUntouched
<1>5. Configured'
  BY <1>3, <1>4 DEF Configured, ConfiguredWkc
<1>6. /\ Wkc(returned) < expectedWkc => healthyCycles' = 0
      /\ ~(Wkc(returned) < expectedWkc) =>
             healthyCycles' = IF healthyCycles + 1 <= StabilityCycles
                              THEN healthyCycles + 1 ELSE StabilityCycles
  <2>1. Min({healthyCycles + 1, StabilityCycles})
            = IF healthyCycles + 1 <= StabilityCycles THEN healthyCycles + 1
              ELSE StabilityCycles
    BY <1>3, BusAssumption DEF Min, BusAssumption
  <2> QED
    BY <1>1, <1>3, <2>1 DEF CountHealthy, Configured
<1>7. /\ healthyCycles' \in 0 .. StabilityCycles /\ stableCycles' \in Nat
      /\ bootPhase' \in VerifyPhases \cup {"ENABLE_DRIVES", "FAILED"}
      /\ bootPhase' = "VERIFY_CYCLIC_COMMUNICATION" => stableCycles' <= healthyCycles'
      /\ bootPhase' = "ENABLE_DRIVES" => healthyCycles' = StabilityCycles
  <2>1. healthyCycles' \in 0 .. StabilityCycles
    BY <1>3, <1>6, BusAssumption DEF BusAssumption
  <2>2. CASE ~(Wkc(returned) < expectedWkc)
    BY <1>1, <1>2, <1>3, <1>6, <2>1, <2>2, BusAssumption
    DEF BusAssumption, AttemptRecovery, VerifyPhases
  <2>3. CASE Wkc(returned) < expectedWkc
    BY <1>1, <1>2, <1>3, <1>6, <2>1, <2>3, BusAssumption
    DEF BusAssumption, AttemptRecovery, VerifyPhases
  <2> QED
    BY <2>2, <2>3
<1>8. BootInv'
  <2>1. \A a \in Axes : Fresh(a)' /\ (drive[a] = "SWITCH_ON_DISABLED")'
    BY <1>4 DEF Untouched
  <2> QED
    BY <1>2, <1>4, <1>5, <1>7, <2>1
    DEF BootInv, EarlyPhases, VerifyPhases, EnablePhases
<1>9. MotionInv'
  BY <1>2, OthersKept DEF StepOfBoot
<1> QED
  BY <1>4, <1>7, <1>8, <1>9 DEF StartupInv, HealthInv

-----------------------------------------------------------------------------
(* The drives are enabled.                                                 *)

\* What is read of the slaves has its type, and is the inputs where there are any.
LEMMA FeedbackTypes ==
    ASSUME BusTypeOK, NEW feedback \in FeedbackRead, NEW a \in Axes
    PROVE  /\ feedback[a] \in [statusword : Statuswords, position : Int]
           /\ a \in withInputs => feedback[a] = inputs[a]
<1>1. PICK garbage \in [Axes \ withInputs -> Garbage] :
          feedback = [b \in Axes |-> IF b \in withInputs THEN inputs[b] ELSE garbage[b]]
  BY DEF FeedbackRead
<1>2. Garbage \subseteq [statusword : Statuswords, position : Int]
  BY DEF Garbage, Statuswords, CiaStates, LongStates
<1>3. CASE a \in withInputs
  BY <1>1, <1>3 DEF BusTypeOK
<1>4. CASE a \notin withInputs
  <2>1. feedback[a] \in Garbage
    BY <1>1, <1>4
  <2> QED
    BY <1>2, <1>4, <2>1
<1> QED
  BY <1>3, <1>4

\* Whatever is read, the outputs are commands.
LEMMA EnableOutputsTypes ==
    ASSUME BusTypeOK, NEW feedback \in FeedbackRead
    PROVE  EnableOutputs(feedback) \in [Axes -> CommandWords]
<1>1. ASSUME NEW a \in Axes, a \in Before(Refused(feedback))
      PROVE  EnableCommand(feedback[a]) \in CommandWords
  <2>1. feedback[a].position \in Int
    BY FeedbackTypes
  <2>2. a \notin Refused(feedback)
    BY <1>1, AxesKnown DEF Before
  <2>3. Status(feedback[a]) \in Enableable
    BY <2>2 DEF Refused
  <2>4. EnableWord[Status(feedback[a])] \in Controlwords
    BY <2>3 DEF Enableable, EnableWord, Controlwords
  <2> QED
    BY <2>1, <2>4 DEF EnableCommand, CommandWords
<1>2. \A a \in Axes : outputs[a] \in CommandWords
  BY DEF BusTypeOK
<1> QED
  BY <1>1, <1>2 DEF EnableOutputs

\* With inputs for every axis, BOOT knows where its drives are: a drive that it
\* has enabled shows its position, and one that shows nothing is left alone.
EnableKnows ==
    \A a \in Axes : Fresh(a) /\ (\/ inputs[a].position = position[a]
                                 \/ drive[a] = "SWITCH_ON_DISABLED")

\* A cycle of the enabling commands each drive to where it is, and knows more of
\* it afterwards.
LEMMA EnableStill ==
    ASSUME BusTypeOK, withInputs = Axes, EnableKnows,
           NEW feedback \in FeedbackRead, Refused(feedback) = {},
           NEW returned, Exchange(EnableOutputs(feedback), returned)
    PROVE  position' = position /\ EnableKnows'
<1> DEFINE out == EnableOutputs(feedback)
<1>1. \A a \in Axes : /\ out[a].controlword = EnableWord[Status(inputs[a])]
                      /\ out[a].target = inputs[a].position
  BY FeedbackTypes DEF EnableOutputs, EnableCommand, Before
<1> HIDE DEF out
<1>2. \A a \in Axes : drive[a] = "OPERATION_ENABLED" => out[a].target = position[a]
  BY <1>1 DEF EnableKnows
<1>3. position' = position /\ \A a \in Axes : Brought(a)
  BY <1>2, ExchangeStill DEF out
<1>4. ASSUME NEW a \in Axes
      PROVE  Fresh(a)' /\ (\/ inputs'[a].position = position'[a]
                           \/ drive'[a] = "SWITCH_ON_DISABLED")
  <2>1. CASE inputs'[a].position = position'[a]
    BY <2>1 DEF Fresh
  <2>2. CASE inputs'[a] = inputs[a] /\ inputs[a].position = position[a]
    BY <1>3, <2>2 DEF Fresh
  <2>3. CASE /\ inputs'[a] = inputs[a] /\ inputs[a] = NoFeedback
             /\ drive[a] = "SWITCH_ON_DISABLED"
    <3>1. Status(inputs[a]) = "NOT_READY_TO_SWITCH_ON"
      BY <2>3, NothingDecoded DEF Status, NoFeedback
    <3>2. out[a].controlword = "DISABLE_VOLTAGE"
      BY <1>1, <3>1 DEF EnableWord
    <3>3. drive'[a] = "SWITCH_ON_DISABLED"
      BY <2>3, <3>2 DEF Exchange, Response, out
    <3> QED
      BY <2>3, <3>3 DEF Fresh
  <2> QED
    BY <1>3, <2>1, <2>2, <2>3 DEF EnableKnows, Fresh, Brought
<1> QED
  BY <1>3, <1>4 DEF EnableKnows

\* A cycle of ENABLE_DRIVES.
LEMMA DrivesEnabled ==
    ASSUME StartupInv, StepOfBoot, EnableDrives
    PROVE  /\ StartupInv'
           /\ withInputs = Axes => position' = position
<1> USE DEF AdvanceBoot, FailBoot
<1>1. /\ bootPhase = "ENABLE_DRIVES" /\ activeState = "BOOT"
      /\ activeState' = IF bootPhase' = "FAILED" THEN "FAULT" ELSE "BOOT"
      /\ BusTypeOK /\ Configured
      /\ withInputs = Axes => EnableKnows
  BY DEF EnableDrives, StepOfBoot, StartupInv, BootInv, EnablePhases, EnableKnows
<1>2. stableCycles \in Nat /\ healthyCycles \in 0 .. StabilityCycles
  BY DEF StartupInv, HealthInv
<1>3. UNCHANGED <<withInputs, expectedWkc, healthyCycles>>
  BY DEF EnableDrives, counterVars, Exchange
<1>4. /\ bootPhase' \in {"ENABLE_DRIVES", "VERIFY_CSP_MODE", "FAILED"}
      /\ stableCycles' \in Nat
  BY <1>1, <1>2 DEF EnableDrives, EnableResult, AttemptRecovery
<1>5. /\ BusTypeOK'
      /\ withInputs = Axes =>
             /\ position' = position
             /\ bootPhase' # "FAILED" => EnableKnows'
  <2>1. CASE UNCHANGED <<drive, position, outputs, inputs>>
    BY <1>1, <1>3, <2>1 DEF BusTypeOK, EnableKnows, Fresh
  <2>2. ASSUME NEW feedback \in FeedbackRead, outputs' = EnableOutputs(feedback),
               UNCHANGED <<drive, position, inputs>>, bootPhase' = "FAILED"
        PROVE  <1>5!1 /\ <1>5!2
    <3>1. outputs' \in [Axes -> CommandWords]
      BY <1>1, <2>2, EnableOutputsTypes
    <3> QED
      BY <1>1, <1>3, <2>2, <3>1 DEF BusTypeOK
  <2>3. ASSUME NEW feedback \in FeedbackRead, Refused(feedback) = {},
               NEW returned \in BOOLEAN, Exchange(EnableOutputs(feedback), returned)
        PROVE  <1>5!1 /\ <1>5!2
    <3>1. BusTypeOK'
      BY <1>1, <2>3, EnableOutputsTypes, ExchangeTypes
    <3> QED
      BY <1>1, <2>3, <3>1, EnableStill
  <2> QED
    BY <2>1, <2>2, <2>3 DEF EnableDrives, imageVars, hardwareVars
<1>6. Configured'
  BY <1>1, <1>3 DEF Configured, ConfiguredWkc
<1>7. BootInv'
  BY <1>1, <1>3, <1>4, <1>5, <1>6
  DEF BootInv, EarlyPhases, VerifyPhases, EnablePhases, EnableKnows
<1>8. HealthInv'
  BY <1>2, <1>3, <1>4 DEF HealthInv
<1>9. MotionInv'
  BY <1>1, OthersKept DEF StepOfBoot
<1> QED
  BY <1>5, <1>7, <1>8, <1>9 DEF StartupInv

\* The verifications that only look at the drives.
LEMMA DrivesVerified ==
    ASSUME StartupInv, StepOfBoot,
           VerifyCspMode \/ VerifyPositionFeedback \/ VerifySafety
    PROVE  StartupInv'
<1> USE DEF AdvanceBoot, FailBoot
<1>1. /\ UNCHANGED <<drive, position, outputs, inputs, withInputs, expectedWkc,
                     healthyCycles>>
      /\ bootPhase \in EnablePhases
      /\ bootPhase' \in {"VERIFY_POSITION_FEEDBACK", "VERIFY_SAFETY", "COMPLETE",
                         "FAILED"}
      /\ stableCycles' = 0
      /\ activeState = "BOOT"
      /\ activeState' = IF bootPhase' = "FAILED" THEN "FAULT" ELSE "BOOT"
  BY DEF VerifyCspMode, VerifyPositionFeedback, VerifySafety, StepOfBoot, busVars,
         hardwareVars, imageVars, counterVars, EnablePhases
<1>2. BusTypeOK'
  BY <1>1 DEF StartupInv, BusTypeOK
<1>3. Configured'
  BY <1>1 DEF StartupInv, BootInv, Configured, ConfiguredWkc
<1>4. BootInv'
  BY <1>1, <1>3
  DEF StartupInv, BootInv, EarlyPhases, VerifyPhases, EnablePhases, Fresh
<1>5. HealthInv'
  BY <1>1 DEF StartupInv, HealthInv
<1>6. MotionInv'
  BY <1>1, OthersKept DEF StepOfBoot
<1> QED
  BY <1>2, <1>4, <1>5, <1>6 DEF StartupInv

\* Every step of BOOT: nothing moves, and the run of exchanges is complete when
\* the drives are enabled.
LEMMA BootSteps ==
    ASSUME StartupInv, StepOfBoot
    PROVE  /\ StartupInv'
           /\ withInputs = Axes => position' = position
           /\ bootPhase # "ENABLE_DRIVES" /\ bootPhase' = "ENABLE_DRIVES" =>
                  healthyCycles' = StabilityCycles
<1> USE DEF AdvanceOrFail, AdvanceBoot, FailBoot
<1>1. CASE \/ OpenBus \/ DiscoverSlaves \/ VerifySlaveIdentities \/ MapPdos
           \/ ConfigureDrives \/ ConfigureDc \/ ReachSafeOp
  <2>1. StartupInv'
    BY <1>1, BeforeExchange
  <2>2. position' = position /\ bootPhase' # "ENABLE_DRIVES"
    BY <1>1 DEF OpenBus, DiscoverSlaves, VerifySlaveIdentities, MapPdos,
                ConfigureDrives, ConfigureDc, ReachSafeOp, busVars, hardwareVars
  <2> QED
    BY <2>1, <2>2
<1>2. CASE InitialExchange
  <2>1. bootPhase = "INITIAL_PDO_EXCHANGE" /\ bootPhase' = "OPERATIONAL"
    BY <1>2 DEF InitialExchange
  <2>2. Untouched /\ \A a \in Axes : Fresh(a)
    BY <2>1 DEF StartupInv, BootInv, EarlyPhases
  <2>3. position' = position
    BY <1>2, <2>2, StillUntouched DEF InitialExchange
  <2> QED
    BY <1>2, <2>1, <2>3, FirstExchange
<1>3. CASE ReachOperational
  BY <1>3, Operational DEF ReachOperational
<1>4. CASE VerifyWkc \/ VerifyCyclicCommunication
  <2>1. bootPhase \in VerifyPhases
    BY <1>4 DEF VerifyWkc, VerifyCyclicCommunication, VerifyPhases
  <2>2. Untouched /\ \A a \in Axes : Fresh(a)
    BY <2>1 DEF StartupInv, BootInv
  <2>3. position' = position
    BY <1>4, <2>2, StillUntouched DEF VerifyWkc, VerifyCyclicCommunication
  <2> QED
    BY <1>4, <2>3, BusVerified
<1>5. CASE EnableDrives
  BY <1>5, DrivesEnabled DEF EnableDrives
<1>6. CASE VerifyCspMode \/ VerifyPositionFeedback \/ VerifySafety
  <2>1. position' = position /\ bootPhase' # "ENABLE_DRIVES"
    BY <1>6 DEF VerifyCspMode, VerifyPositionFeedback, VerifySafety, busVars,
                hardwareVars
  <2> QED
    BY <1>6, <2>1, DrivesVerified
<1> QED
  BY <1>1, <1>2, <1>3, <1>4, <1>5, <1>6 DEF StepOfBoot, BootStep

-----------------------------------------------------------------------------
(* HOMING.                                                                 *)

\* Once BOOT is over without a failure, nothing changes what it has set up.
LEMMA BootLeft ==
    ASSUME StartupInv, activeState \in {"HOMING", "IDLE", "AWAY"},
           activeState' # "BOOT",
           UNCHANGED <<bootVars, withInputs, expectedWkc, healthyCycles>>
    PROVE  BootInv' /\ HealthInv' /\ Configured
<1>1. Configured /\ bootPhase \in {"COMPLETE", "FAILED"}
  BY DEF StartupInv, BootInv
<1>2. Configured'
  BY <1>1 DEF Configured, ConfiguredWkc
<1> QED
  BY <1>1, <1>2
  DEF StartupInv, BootInv, HealthInv, bootVars, EarlyPhases, VerifyPhases, EnablePhases

\* Commands to any targets are commands.
LEMMA WriteTargetsTypes ==
    ASSUME BusTypeOK, NEW target \in [Axes -> Int]
    PROVE  WriteTargets(target) \in [Axes -> CommandWords]
<1>1. \A a \in Axes : Command(target[a]) \in CommandWords /\ outputs[a] \in CommandWords
  BY DEF Command, CommandWords, Controlwords, BusTypeOK
<1> QED
  BY <1>1 DEF WriteTargets

\* The samples of a trajectory of integers are integers.
LEMMA SampleTypes ==
    ASSUME qStart \in [Axes -> Int], nextSample \in Nat
    PROVE  [a \in Axes |-> Sample(nextSample, a)] \in [Axes -> Int]
<1>1. ASSUME NEW a \in Axes
      PROVE  Sample(nextSample, a) \in Int
  <2>1. Home \in Int /\ qStart[a] \in Int /\ HomingSamples \in Nat \ {0}
    BY BusAssumption, HomingAssumption DEF BusAssumption, HomingAssumption
  <2> DEFINE way == (Home - qStart[a]) * nextSample
  <2>2. way \in Int
    BY <2>1
  <2> HIDE DEF way
  <2>3. way \div HomingSamples \in Int
    BY <2>1, <2>2
  <2> QED
    BY <2>1, <2>3 DEF Sample, way
<1> QED
  BY <1>1

\* The steps of HOMING before its motion: the bus is left as it is.
LEMMA BeforeMotion ==
    ASSUME StartupInv, StepOfHoming, CheckHoming \/ ReadPosition \/ PrepareTrajectory
    PROVE  StartupInv'
<1> USE DEF AdvanceHoming, FailHoming
<1>1. /\ UNCHANGED <<drive, position, outputs, inputs, withInputs, expectedWkc,
                     healthyCycles, bootVars, idleVars>>
      /\ homingPhase' \in {"READ_POSITION", "PREPARE_TRAJECTORY",
                           "EXECUTE_TRAJECTORY", "FAILED"}
      /\ activeState = "HOMING"
      /\ activeState' = IF homingPhase' = "FAILED" THEN "FAULT" ELSE "HOMING"
  BY DEF CheckHoming, ReadPosition, PrepareTrajectory, StepOfHoming, busVars,
         hardwareVars, imageVars, counterVars
<1>2. BusTypeOK'
  BY <1>1 DEF StartupInv, BusTypeOK
<1>3. BootInv' /\ HealthInv'
  BY <1>1, BootLeft
<1>4. \A a \in Axes : inputs[a].position \in Int
  BY DEF StartupInv, BusTypeOK
<1>5. Home \in Int
  BY BusAssumption DEF BusAssumption
<1>6. qStart' \in [Axes -> Int] /\ nextSample' \in Nat
  BY <1>4, <1>5
  DEF CheckHoming, ReadPosition, PrepareTrajectory, StartupInv, MotionInv
<1>7. homingPhase' \in {"PREPARE_TRAJECTORY", "EXECUTE_TRAJECTORY"} => withInputs = Axes
  <2>1. CASE CheckHoming
    BY <2>1 DEF CheckHoming
  <2>2. CASE ReadPosition /\ homingPhase' = "PREPARE_TRAJECTORY"
    <3>1. \A a \in Axes : a \in withInputs
      BY <2>2 DEF ReadPosition
    <3> QED
      BY <3>1 DEF StartupInv, BusTypeOK
  <2>3. CASE ReadPosition /\ homingPhase' # "PREPARE_TRAJECTORY"
    BY <2>3 DEF ReadPosition
  <2>4. CASE PrepareTrajectory
    BY <2>4 DEF PrepareTrajectory, StartupInv, MotionInv
  <2> QED
    BY <2>1, <2>2, <2>3, <2>4
<1>8. MotionInv'
  BY <1>1, <1>6, <1>7 DEF StartupInv, MotionInv, idleVars, HomingPhases, IdlePhases
<1> QED
  BY <1>2, <1>3, <1>8 DEF StartupInv

\* What a cycle of a motion leaves behind, by its outcome.
LEMMA Moving ==
    ASSUME StartupInv, StepOfHoming, NEW target \in [Axes -> Int],
           withInputs = Axes, homingPhase' \in HomingPhases,
           qStart' \in [Axes -> Int], nextSample' \in Nat,
           homingPhase' \notin {"INIT", "READ_POSITION"},
           UNCHANGED <<withInputs, expectedWkc, healthyCycles>>,
           \/ homingPhase' = "FAILED" /\ outputs' = WriteTargets(target)
                 /\ UNCHANGED <<drive, position, inputs>>
           \/ \E returned \in BOOLEAN :
                 /\ Exchange(WriteTargets(target), returned)
                 /\ Wkc(returned) < expectedWkc => homingPhase' = "FAILED",
           homingPhase' = "COMPLETE" => \A a \in Axes : position'[a] = Home
    PROVE  StartupInv'
<1>1. /\ activeState = "HOMING" /\ UNCHANGED <<bootVars, idleVars>>
      /\ activeState' = IF homingPhase' = "FAILED" THEN "FAULT" ELSE "HOMING"
  BY DEF StepOfHoming
<1>2. BootInv' /\ HealthInv' /\ Configured
  BY <1>1, BootLeft
<1>3. WriteTargets(target) \in [Axes -> CommandWords]
  BY WriteTargetsTypes DEF StartupInv
<1>4. BusTypeOK' /\ (homingPhase' # "FAILED" => Seen')
  <2>1. CASE homingPhase' = "FAILED" /\ outputs' = WriteTargets(target)
                 /\ UNCHANGED <<drive, position, inputs>>
    BY <1>3, <2>1 DEF StartupInv, BusTypeOK
  <2>2. ASSUME NEW returned \in BOOLEAN, Exchange(WriteTargets(target), returned),
               Wkc(returned) < expectedWkc => homingPhase' = "FAILED"
        PROVE  BusTypeOK' /\ (homingPhase' # "FAILED" => Seen')
    <3>1. BusTypeOK'
      BY <1>3, <2>2, ExchangeTypes DEF StartupInv
    <3>2. homingPhase' # "FAILED" => Seen'
      BY <1>2, <2>2, CompleteExchangeSees DEF StartupInv
    <3> QED
      BY <3>1, <3>2
  <2> QED
    BY <2>1, <2>2
<1>5. MotionInv'
  BY <1>1, <1>4 DEF StartupInv, MotionInv, idleVars
<1> QED
  BY <1>2, <1>4, <1>5 DEF StartupInv

\* A cycle of the trajectory: after its last sample every axis has been read.
LEMMA TrajectoryStep ==
    ASSUME StartupInv, StepOfHoming, ExecuteTrajectory
    PROVE  StartupInv'
<1> USE DEF AdvanceHoming, FailHoming
<1> DEFINE target == [a \in Axes |-> Sample(nextSample, a)]
<1>1. /\ homingPhase = "EXECUTE_TRAJECTORY" /\ withInputs = Axes
      /\ qStart \in [Axes -> Int] /\ nextSample \in Nat
  BY DEF ExecuteTrajectory, StartupInv, MotionInv
<1>2. target \in [Axes -> Int]
  BY <1>1, SampleTypes
<1> HIDE DEF target
<1>3. /\ homingPhase' \in {"EXECUTE_TRAJECTORY", "VERIFY_HOME", "FAILED"}
      /\ qStart' \in [Axes -> Int] /\ nextSample' \in Nat
  <2>1. Home \in Int
    BY BusAssumption DEF BusAssumption
  <2> QED
    BY <1>1, <2>1 DEF ExecuteTrajectory, DriveTo
<1>4. UNCHANGED <<withInputs, expectedWkc, healthyCycles>>
  BY DEF ExecuteTrajectory, DriveTo, counterVars, Exchange
<1>5. \/ homingPhase' = "FAILED" /\ outputs' = WriteTargets(target)
            /\ UNCHANGED <<drive, position, inputs>>
      \/ \E returned \in BOOLEAN :
            /\ Exchange(WriteTargets(target), returned)
            /\ Wkc(returned) < expectedWkc => homingPhase' = "FAILED"
  BY DEF ExecuteTrajectory, DriveTo, hardwareVars, target
<1> QED
  BY <1>1, <1>2, <1>3, <1>4, <1>5, Moving DEF HomingPhases

\* The verification ends well only in a cycle that has read every axis at home,
\* and commands each of them to stay there.
LEMMA VerificationStep ==
    ASSUME StartupInv, StepOfHoming, VerifyHome
    PROVE  StartupInv'
<1> USE DEF AdvanceHoming, FailHoming
<1> DEFINE target == [a \in Axes |-> Home]
<1>1. /\ homingPhase = "VERIFY_HOME" /\ withInputs = Axes /\ Seen
      /\ qStart \in [Axes -> Int] /\ nextSample \in Nat
  BY DEF VerifyHome, StartupInv, MotionInv
<1>2. Home \in Int /\ RequiredStable \in Nat \ {0}
  BY BusAssumption, HomingAssumption DEF BusAssumption, HomingAssumption
<1>3. target \in [Axes -> Int]
  BY <1>2
<1> HIDE DEF target
<1>4. UNCHANGED <<withInputs, expectedWkc, healthyCycles>>
  BY DEF VerifyHome, DriveTo, counterVars, Exchange
<1>5. \/ homingPhase' = "FAILED" /\ outputs' = WriteTargets(target)
            /\ UNCHANGED <<drive, position, inputs>>
            /\ qStart' = [a \in Axes |-> Home] /\ nextSample' = 0
      \/ \E returned \in BOOLEAN :
            /\ NotEnabled = {}
            /\ Exchange(WriteTargets(target), returned)
            /\ \/ /\ homingPhase' = "FAILED"
                  /\ qStart' = [a \in Axes |-> Home] /\ nextSample' = 0
               \/ /\ ~(Wkc(returned) < expectedWkc)
                  /\ UNCHANGED <<qStart, nextSample>>
                  /\ \/ homingPhase' = "VERIFY_HOME"
                     \/ homingPhase' = "COMPLETE" /\ AtHome
  BY <1>1, <1>2 DEF VerifyHome, DriveTo, hardwareVars, target
<1>6. /\ homingPhase' \in {"VERIFY_HOME", "COMPLETE", "FAILED"}
      /\ qStart' \in [Axes -> Int] /\ nextSample' \in Nat
  BY <1>1, <1>2, <1>5
<1>7. homingPhase' = "COMPLETE" => \A a \in Axes : position'[a] = Home
  <2> SUFFICES ASSUME homingPhase' = "COMPLETE", NEW a \in Axes
               PROVE  position'[a] = Home
    OBVIOUS
  <2>1. PICK returned \in BOOLEAN :
            NotEnabled = {} /\ Exchange(WriteTargets(target), returned) /\ AtHome
    BY <1>5
  <2>2. position[a] = Home
    BY <1>1, <2>1 DEF Seen, AtHome
  <2>3. WriteTargets(target)[a].target = Home
    BY <2>1 DEF WriteTargets, Command, target
  <2> QED
    BY <2>1, <2>2, <2>3 DEF Exchange, Followed
<1> QED
  BY <1>1, <1>3, <1>4, <1>5, <1>6, <1>7, Moving DEF HomingPhases

\* Every step of HOMING.
LEMMA HomingSteps == StartupInv /\ StepOfHoming => StartupInv'
BY BeforeMotion, TrajectoryStep, VerificationStep DEF StepOfHoming, HomingStep

-----------------------------------------------------------------------------
(* IDLE.                                                                   *)

\* A cycle of IDLE moves nothing: it takes the positions that are shown, which
\* are those of the robot, and commands them.
LEMMA IdleSteps ==
    ASSUME StartupInv, NEW returned \in BOOLEAN, StepOfIdle(returned)
    PROVE  StartupInv' /\ position' = position
<1> USE DEF FailIdle
<1>1. /\ activeState = "IDLE" /\ UNCHANGED <<bootVars, homingVars>>
      /\ activeState' = IF idlePhase' = "FAILED" THEN "FAULT" ELSE "IDLE"
      /\ UNCHANGED <<withInputs, expectedWkc, healthyCycles>>
  BY DEF StepOfIdle, IdleStep, CaptureHold, Hold, busVars, counterVars, Exchange
<1>2. BootInv' /\ HealthInv'
  BY <1>1, BootLeft
<1>3. BusTypeOK /\ Seen /\ holdPosition \in [Axes -> Int]
  BY <1>1 DEF StartupInv, MotionInv
<1>4. \A a \in Axes : inputs[a].position \in Int
  BY <1>3 DEF BusTypeOK
<1>5. HoldOutputs \in [Axes -> CommandWords]
  <2>1. \A a \in Axes :
            /\ [controlword |-> "ENABLE_OPERATION", target |-> holdPosition[a]]
                   \in CommandWords
            /\ outputs[a] \in CommandWords
    BY <1>3 DEF CommandWords, Controlwords, BusTypeOK
  <2> QED
    BY <2>1 DEF HoldOutputs
<1>6. /\ BusTypeOK' /\ position' = position
      /\ holdPosition' \in [Axes -> Int] /\ idlePhase' \in IdlePhases
      /\ idlePhase' # "FAILED" => Seen'
      /\ idlePhase' = "HOLDING" => holdPosition' = position
  <2>1. CASE CaptureHold
    <3>1. UNCHANGED <<drive, position, outputs, inputs>>
      BY <2>1 DEF CaptureHold, busVars, hardwareVars, imageVars
    <3>2. BusTypeOK' /\ Seen'
      BY <1>1, <1>3, <3>1 DEF BusTypeOK, Seen
    <3>3. holdPosition' \in [Axes -> Int]
      BY <1>3, <1>4, <2>1 DEF CaptureHold
    <3>4. ASSUME idlePhase' = "HOLDING"
          PROVE  holdPosition' = position
      <4>1. Unfit = {}
        BY <2>1, <3>4 DEF CaptureHold
      <4>2. holdPosition' = [a \in Axes |-> inputs[a].position]
        BY <2>1, <4>1 DEF CaptureHold
      <4> QED
        BY <1>3, <4>2 DEF Seen, BusTypeOK
    <3> QED
      BY <2>1, <3>1, <3>2, <3>3, <3>4 DEF CaptureHold, IdlePhases
  <2>2. CASE Hold(returned) /\ Unfit # {}
    <3>1. /\ outputs' = HoldOutputs /\ UNCHANGED <<drive, position, inputs>>
          /\ idlePhase' = "FAILED" /\ holdPosition' = [a \in Axes |-> 0]
      BY <2>2 DEF Hold, hardwareVars
    <3> QED
      BY <1>1, <1>3, <1>5, <3>1 DEF BusTypeOK, IdlePhases
  <2>3. CASE Hold(returned) /\ Unfit = {}
    <3>1. /\ Exchange(HoldOutputs, returned) /\ idlePhase = "HOLDING"
          /\ \/ idlePhase' = "FAILED" /\ holdPosition' = [a \in Axes |-> 0]
             \/ UNCHANGED <<idlePhase, holdPosition>>
      BY <2>3 DEF Hold, idleVars
    <3>2. holdPosition = position
      BY <3>1 DEF StartupInv, MotionInv
    <3>3. \A a \in Axes : HoldOutputs[a].target = position[a]
      BY <2>3, <3>2 DEF HoldOutputs
    <3>4. position' = position /\ \A a \in Axes : Brought(a)
      BY <1>3, <3>1, <3>3, ExchangeStill
    <3>5. Seen'
      BY <1>3, <3>4 DEF Seen, Brought
    <3>6. BusTypeOK'
      BY <1>3, <1>5, <3>1, ExchangeTypes
    <3> QED
      BY <1>3, <3>1, <3>2, <3>4, <3>5, <3>6 DEF IdlePhases
  <2> QED
    BY <2>1, <2>2, <2>3 DEF StepOfIdle, IdleStep
<1>7. MotionInv'
  BY <1>1, <1>6 DEF StartupInv, MotionInv, homingVars, HomingPhases
<1> QED
  BY <1>2, <1>6, <1>7 DEF StartupInv

-----------------------------------------------------------------------------
(* Completions, stops, and the rest.                                       *)

\* The end of BOOT and that of HOMING, with the entry of the next state.
LEMMA Completions ==
    ASSUME StartupInv, BootCompletes \/ HomingCompletes
    PROVE  StartupInv'
<1>1. Home \in Int
  BY BusAssumption DEF BusAssumption
<1>2. CASE BootCompletes
  <2> USE DEF BootCompletes, EnterHoming, busVars, hardwareVars, imageVars,
              counterVars, bootVars, idleVars
  <2>1. BusTypeOK'
    BY <1>2 DEF StartupInv, BusTypeOK
  <2>2. Configured'
    BY <1>2 DEF StartupInv, BootInv, EnablePhases, Configured, ConfiguredWkc
  <2>3. BootInv' /\ HealthInv'
    BY <1>2, <2>2 DEF StartupInv, BootInv, HealthInv, EarlyPhases, VerifyPhases,
                      EnablePhases
  <2>4. MotionInv'
    BY <1>1, <1>2 DEF StartupInv, MotionInv, HomingPhases, IdlePhases
  <2> QED
    BY <2>1, <2>3, <2>4 DEF StartupInv
<1>3. CASE HomingCompletes
  <2> USE DEF HomingCompletes, EnterIdle, FailHoming, busVars, hardwareVars,
              imageVars, counterVars
  <2>1. BusTypeOK'
    BY <1>3 DEF StartupInv, BusTypeOK
  <2>2. BootInv' /\ HealthInv'
    BY <1>3, BootLeft
  <2>3. Seen'
    BY <1>3 DEF StartupInv, MotionInv, Seen
  <2>4. MotionInv'
    BY <1>1, <1>3, <2>3 DEF StartupInv, MotionInv, HomingPhases, IdlePhases
  <2> QED
    BY <2>1, <2>2, <2>4 DEF StartupInv
<1> QED
  BY <1>2, <1>3

\* Holding the robot where it was read changes targets and nothing else.
LEMMA HeldOutputs ==
    ASSUME BusTypeOK, HoldWhereRead
    PROVE  /\ outputs' \in [Axes -> CommandWords]
           /\ \A a \in Axes : outputs'[a].controlword = outputs[a].controlword
<1>1. ASSUME NEW a \in Axes
      PROVE  /\ [outputs[a] EXCEPT !.target = inputs[a].position] \in CommandWords
             /\ [outputs[a] EXCEPT !.target = inputs[a].position].controlword
                    = outputs[a].controlword
  <2>1. outputs[a] \in CommandWords /\ inputs[a].position \in Int
    BY DEF BusTypeOK
  <2> QED
    BY <2>1 DEF CommandWords
<1> QED
  BY <1>1 DEF HoldWhereRead

\* A stop drops the context of what it interrupts and changes targets only.
LEMMA Stops ==
    ASSUME StartupInv, Stop \/ FaultStep
    PROVE  StartupInv'
<1> USE DEF FailBoot, AdvanceBoot, FailHoming, FailIdle, bootVars, homingVars, idleVars
<1>1. /\ UNCHANGED <<drive, position, inputs, withInputs, expectedWkc, healthyCycles>>
      /\ HoldWhereRead /\ activeState' = "FAULT"
  BY DEF Stop, FaultStep, hardwareVars, counterVars
<1>2. /\ outputs' \in [Axes -> CommandWords]
      /\ \A a \in Axes : outputs'[a].controlword = outputs[a].controlword
  BY <1>1, HeldOutputs DEF StartupInv
<1>3. BusTypeOK'
  BY <1>1, <1>2 DEF StartupInv, BusTypeOK
<1>4. Configured' \/ Untouched'
  BY <1>1, <1>2 DEF StartupInv, BootInv, Configured, ConfiguredWkc, Untouched
<1>5. bootPhase' \in {"COMPLETE", "FAILED"} /\ (bootPhase' = "COMPLETE" => Configured')
  <2>1. CASE activeState = "BOOT"
    BY <2>1 DEF Stop, FaultStep
  <2>2. CASE activeState # "BOOT"
    <3>1. bootPhase' = bootPhase /\ bootPhase \in {"COMPLETE", "FAILED"}
      BY <2>2 DEF Stop, FaultStep, StartupInv, BootInv
    <3> QED
      BY <1>1, <3>1
      DEF StartupInv, BootInv, EnablePhases, Configured, ConfiguredWkc
  <2> QED
    BY <2>1, <2>2
<1>6. BootInv'
  BY <1>1, <1>4, <1>5 DEF BootInv, EarlyPhases, VerifyPhases, EnablePhases
<1>7. HealthInv'
  BY <1>1, <1>5 DEF Stop, FaultStep, StartupInv, HealthInv
<1>8. Home \in Int
  BY BusAssumption DEF BusAssumption
<1>9. homingPhase' = "FAILED" /\ idlePhase' = "FAILED"
  BY DEF Stop, FaultStep, StartupInv, MotionInv
<1>10. /\ qStart' \in [Axes -> Int] /\ nextSample' \in Nat
       /\ holdPosition' \in [Axes -> Int]
  BY <1>8 DEF Stop, FaultStep, StartupInv, MotionInv
<1>11. MotionInv'
  BY <1>1, <1>9, <1>10 DEF MotionInv, HomingPhases, IdlePhases
<1> QED
  BY <1>3, <1>6, <1>7, <1>11 DEF StartupInv

\* RESET finds enabled drives: BOOT had come as far as to enable them.
LEMMA Resets ==
    ASSUME StartupInv, Reset
    PROVE  StartupInv'
<1> USE DEF EnterHoming, busVars, hardwareVars, imageVars, counterVars, bootVars,
            idleVars
<1>1. BusTypeOK'
  BY DEF Reset, StartupInv, BusTypeOK
<1>2. Configured
  <2>1. IsEnabled(1) /\ 1 \in Axes
    BY AxesKnown DEF Reset, DrivesReady
  <2>2. GetState(Pattern["SWITCH_ON_DISABLED"]) = "SWITCH_ON_DISABLED"
    BY PatternDecoded DEF CiaStates, ShortStates
  <2>3. ~Untouched
    BY <2>1, <2>2, NothingDecoded DEF Untouched, IsEnabled, Status
  <2> QED
    BY <2>3 DEF StartupInv, BootInv
<1>3. Configured'
  BY <1>2 DEF Reset, Configured, ConfiguredWkc
<1>4. BootInv' /\ HealthInv'
  <2>1. activeState = "FAULT" /\ activeState' = "HOMING"
    BY DEF Reset
  <2>2. UNCHANGED <<bootPhase, stableCycles, healthyCycles>>
    BY DEF Reset
  <2> QED
    BY <1>3, <2>1, <2>2
    DEF StartupInv, BootInv, HealthInv, EarlyPhases, VerifyPhases, EnablePhases
<1>5. Home \in Int
  BY BusAssumption DEF BusAssumption
<1>6. MotionInv'
  BY <1>5 DEF Reset, StartupInv, MotionInv, HomingPhases, IdlePhases
<1> QED
  BY <1>1, <1>4, <1>6 DEF StartupInv

\* A program takes place between two visits of IDLE and shows where it ends.
LEMMA Programs ==
    ASSUME StartupInv, LeaveIdle \/ MoveAway \/ ProgramEnds
    PROVE  StartupInv'
<1>1. /\ activeState \in {"IDLE", "AWAY"} /\ activeState' \in {"AWAY", "IDLE", "HOMING"}
      /\ UNCHANGED <<bootVars, drive, withInputs, expectedWkc, healthyCycles>>
  BY DEF LeaveIdle, MoveAway, ProgramEnds, busVars, hardwareVars, counterVars
<1>2. BootInv' /\ HealthInv'
  BY <1>1, BootLeft
<1>3. BusTypeOK /\ Seen
  BY <1>1 DEF StartupInv, MotionInv
<1>4. BusTypeOK' /\ Seen'
  <2>1. CASE MoveAway
    <3>1. PICK m \in Axes, p \in Positions :
              /\ position' = [position EXCEPT ![m] = p]
              /\ outputs' = [outputs EXCEPT ![m].target = p]
              /\ inputs' = [inputs EXCEPT ![m].position = p]
      BY <2>1 DEF MoveAway
    <3>2. p \in Int
      BY BusAssumption DEF BusAssumption
    <3>3. position' \in [Axes -> Int]
      BY <1>3, <3>1, <3>2 DEF BusTypeOK
    <3>4. outputs' \in [Axes -> CommandWords]
      BY <1>3, <3>1, <3>2 DEF BusTypeOK, CommandWords
    <3>5. inputs' \in [Axes -> [statusword : Statuswords, position : Int]]
      BY <1>3, <3>1, <3>2 DEF BusTypeOK
    <3>6. Seen'
      BY <1>3, <3>1 DEF BusTypeOK, Seen
    <3> QED
      BY <1>1, <1>3, <3>3, <3>4, <3>5, <3>6 DEF BusTypeOK
  <2>2. CASE LeaveIdle \/ ProgramEnds
    <3>1. UNCHANGED <<drive, position, outputs, inputs, withInputs>>
      BY <2>2 DEF LeaveIdle, ProgramEnds, busVars, hardwareVars, imageVars, counterVars
    <3> QED
      BY <1>3, <3>1 DEF BusTypeOK, Seen
  <2> QED
    BY <2>1, <2>2 DEF MoveAway, LeaveIdle, ProgramEnds
<1>5. Home \in Int
  BY BusAssumption DEF BusAssumption
<1>6. MotionInv'
  <2>1. CASE LeaveIdle
    BY <1>4, <1>5, <2>1
    DEF LeaveIdle, FailIdle, homingVars, StartupInv, MotionInv, IdlePhases
  <2>2. CASE MoveAway
    BY <1>4, <1>5, <2>2 DEF MoveAway, homingVars, idleVars, StartupInv, MotionInv
  <2>3. CASE ProgramEnds
    BY <1>4, <1>5, <2>3
    DEF ProgramEnds, EnterIdle, EnterHoming, homingVars, idleVars, StartupInv,
        MotionInv, HomingPhases, IdlePhases
  <2> QED
    BY <2>1, <2>2, <2>3
<1> QED
  BY <1>2, <1>4, <1>6 DEF StartupInv

\* Slaves that drop and drives that trip: no drive trips before it is on its way.
LEMMA Disturbed ==
    ASSUME StartupInv, Environment
    PROVE  StartupInv'
<1>1. /\ UNCHANGED <<activeState, position, outputs, inputs, withInputs, expectedWkc,
                     healthyCycles, bootVars, homingVars, idleVars>>
      /\ SlaveDrops \/ DriveTrips
  BY DEF Environment, SlaveDrops, DriveTrips, Disturb, imageVars
<1>2. drive' \in [Axes -> CiaStates]
  BY <1>1 DEF SlaveDrops, DriveTrips, StartupInv, BusTypeOK, CiaStates, ShortStates,
              LongStates
<1>3. BusTypeOK'
  BY <1>1, <1>2 DEF StartupInv, BusTypeOK
<1>4. \A a \in Axes : drive[a] = "SWITCH_ON_DISABLED" => drive'[a] = drive[a]
  BY <1>1 DEF SlaveDrops, DriveTrips, StartupInv, BusTypeOK
<1>5. Untouched => Untouched'
  BY <1>1, <1>4 DEF Untouched
<1>6. Configured => Configured'
  BY <1>1 DEF Configured, ConfiguredWkc
<1>7. BootInv' /\ HealthInv'
  BY <1>1, <1>4, <1>5, <1>6 DEF StartupInv, BootInv, HealthInv, bootVars, Fresh
<1>8. MotionInv'
  BY <1>1 DEF StartupInv, MotionInv, homingVars, idleVars, Seen
<1> QED
  BY <1>3, <1>7, <1>8 DEF StartupInv

\* The invariant is inductive.
LEMMA StartupNext == StartupInv /\ [Next]_startupVars => StartupInv'
<1> SUFFICES ASSUME StartupInv, [Next]_startupVars
             PROVE  StartupInv'
  OBVIOUS
<1>1. CASE Cycle
  BY <1>1, BootSteps, HomingSteps, IdleSteps, Completions DEF Cycle
<1>2. CASE Stop \/ FaultStep
  BY <1>2, Stops
<1>3. CASE Reset
  BY <1>3, Resets
<1>4. CASE LeaveIdle \/ MoveAway \/ ProgramEnds
  BY <1>4, Programs
<1>5. CASE Environment
  BY <1>5, Disturbed
<1>6. CASE UNCHANGED startupVars
  BY <1>6
  DEF startupVars, busVars, hardwareVars, imageVars, counterVars, bootVars, homingVars,
      idleVars, StartupInv, BusTypeOK, BootInv, HealthInv, MotionInv, Configured,
      ConfiguredWkc, Untouched, Fresh, Seen
<1> QED
  BY <1>1, <1>2, <1>3, <1>4, <1>5, <1>6 DEF Next

\* It holds in every behaviour.
THEOREM StartupSafe == Spec => []StartupInv
BY StartupInit, StartupNext, PTL DEF Spec

-----------------------------------------------------------------------------
(* Theorems.                                                               *)

\* What the invariant does not need: the states of the slaves, the modes of the
\* drives, and the attempts of recovery.
RestTypeOK ==
    /\ activeState \in {"BOOT", "HOMING", "IDLE", "AWAY", "FAULT"}
    /\ al \in [Axes -> AlStates]
    /\ mode \in [Axes -> {"CSP", "OTHER"}]
    /\ recoveryAttempts \in 0 .. RecoveryAttempts

\* An attempt of recovery is counted, and leaves every slave in a state.
LEMMA AttemptTypes ==
    ASSUME RestTypeOK, NEW states \in [Axes -> AlStates], NEW stable,
           AttemptRecovery(states, stable)
    PROVE  al' \in [Axes -> AlStates] /\ recoveryAttempts' \in 0 .. RecoveryAttempts
<1>1. \A a \in Axes : Recovered(states[a]) \in AlStates
  BY DEF Recovered, AlStates
<1>2. al' \in [Axes -> AlStates]
  BY <1>1 DEF AttemptRecovery, RecoverSlaves
<1>3. recoveryAttempts' \in 0 .. RecoveryAttempts
  BY BootAssumption
  DEF AttemptRecovery, FailBoot, AdvanceBoot, RestTypeOK, BootAssumption
<1> QED
  BY <1>2, <1>3

\* Whatever a slave does while it is asked, it is in a state.
LEMMA StatesAfterTypes ==
    ASSUME RestTypeOK
    PROVE  StatesAfter \subseteq [Axes -> AlStates]
BY DEF StatesAfter, RestTypeOK, AlStates

\* BOOT keeps these types, phase by phase.
LEMMA BootRestTypes ==
    ASSUME RestTypeOK, BootStep
    PROVE  /\ al' \in [Axes -> AlStates]
           /\ mode' \in [Axes -> {"CSP", "OTHER"}]
           /\ recoveryAttempts' \in 0 .. RecoveryAttempts
<1> USE BootAssumption DEF BootAssumption, AdvanceOrFail, AdvanceBoot, FailBoot
<1>1. CASE OpenBus \/ DiscoverSlaves \/ VerifySlaveIdentities \/ ConfigureDc
  BY <1>1 DEF OpenBus, DiscoverSlaves, VerifySlaveIdentities, ConfigureDc, busVars,
              hardwareVars, RestTypeOK
<1>2. CASE MapPdos \/ VerifyCspMode \/ VerifyPositionFeedback \/ VerifySafety
  BY <1>2 DEF MapPdos, VerifyCspMode, VerifyPositionFeedback, VerifySafety, busVars,
              hardwareVars, RestTypeOK
<1>3. CASE ConfigureDrives
  BY <1>3 DEF ConfigureDrives, SetCspMode, RestTypeOK
<1>4. CASE ReachSafeOp \/ ReachOperational
  BY <1>4 DEF ReachSafeOp, WaitForSafeOp, ReachOperational, RequestOperational,
              RestTypeOK, AlStates
<1>5. CASE InitialExchange
  BY <1>5 DEF InitialExchange, Exchange, RestTypeOK
<1>6. CASE VerifyWkc \/ VerifyCyclicCommunication
  <2>1. PICK states \in StatesAfter :
            \/ \E stable : AttemptRecovery(states, stable)
            \/ al' = states /\ recoveryAttempts' \in {0, recoveryAttempts}
    BY <1>6 DEF VerifyWkc, VerifyCyclicCommunication
  <2>2. mode' = mode
    BY <1>6 DEF VerifyWkc, VerifyCyclicCommunication, Exchange
  <2>3. states \in [Axes -> AlStates]
    BY StatesAfterTypes
  <2>4. al' \in [Axes -> AlStates] /\ recoveryAttempts' \in 0 .. RecoveryAttempts
    BY <2>1, <2>3, AttemptTypes DEF RestTypeOK
  <2> QED
    BY <2>2, <2>4 DEF RestTypeOK
<1>7. CASE EnableDrives
  <2>1. /\ mode' = mode
        /\ \/ AttemptRecovery(al, stableCycles)
           \/ al' = al /\ recoveryAttempts' \in {0, recoveryAttempts}
    BY <1>7 DEF EnableDrives, EnableResult, Exchange, hardwareVars
  <2>2. al' \in [Axes -> AlStates] /\ recoveryAttempts' \in 0 .. RecoveryAttempts
    BY <2>1, AttemptTypes DEF RestTypeOK
  <2> QED
    BY <2>1, <2>2 DEF RestTypeOK
<1> QED
  BY <1>1, <1>2, <1>3, <1>4, <1>5, <1>6, <1>7 DEF BootStep

\* And so does every step.
LEMMA RestTypesNext == RestTypeOK /\ [Next]_startupVars => RestTypeOK'
<1> SUFFICES ASSUME RestTypeOK, [Next]_startupVars
             PROVE  RestTypeOK'
  OBVIOUS
<1>1. CASE StepOfBoot
  BY <1>1, BootRestTypes DEF StepOfBoot, RestTypeOK
<1>2. CASE StepOfHoming
  <2>1. UNCHANGED <<al, mode>>
    BY <1>2 DEF StepOfHoming, HomingStep, CheckHoming, ReadPosition,
                PrepareTrajectory, ExecuteTrajectory, VerifyHome, DriveTo, Exchange,
                busVars, hardwareVars
  <2> QED
    BY <1>2, <2>1 DEF StepOfHoming, bootVars, RestTypeOK
<1>3. CASE \E returned \in BOOLEAN : StepOfIdle(returned)
  BY <1>3 DEF StepOfIdle, IdleStep, CaptureHold, Hold, Exchange, bootVars, busVars,
              hardwareVars, RestTypeOK
<1>4. CASE BootCompletes \/ HomingCompletes \/ Reset \/ LeaveIdle \/ ProgramEnds
  BY <1>4 DEF BootCompletes, HomingCompletes, Reset, LeaveIdle, ProgramEnds, bootVars,
              busVars, hardwareVars, RestTypeOK
<1>5. CASE Stop \/ FaultStep \/ MoveAway
  BY <1>5, BootAssumption
  DEF Stop, FaultStep, MoveAway, FailBoot, AdvanceBoot, bootVars, hardwareVars,
      BootAssumption, RestTypeOK
<1>6. CASE Environment
  BY <1>6 DEF Environment, SlaveDrops, DriveTrips, Disturb, bootVars, RestTypeOK,
              AlStates
<1>7. CASE UNCHANGED startupVars
  BY <1>7 DEF startupVars, busVars, hardwareVars, bootVars, RestTypeOK
<1> QED
  BY <1>1, <1>2, <1>3, <1>4, <1>5, <1>6, <1>7 DEF Next, Cycle

\* With them, every variable has its type.
THEOREM StartupTypes == Spec => []StartupTypeOK
<1>1. Init => RestTypeOK
  BY BootAssumption
  DEF Init, BusInit, EnterBoot, RestTypeOK, AlStates, BootAssumption
<1>2. StartupInv /\ RestTypeOK => StartupTypeOK
  BY DEF StartupInv, BusTypeOK, BootInv, HealthInv, MotionInv, RestTypeOK,
         StartupTypeOK, BootPhases, EarlyPhases, VerifyPhases, EnablePhases, Commands,
         CommandWords, Feedbacks
<1> QED
  BY <1>1, <1>2, RestTypesNext, StartupSafe, PTL DEF Spec

\* state_boot.c:1146, state_idle.c:181: BOOT never moves a robot whose slaves all
\* have inputs, whatever was lost, stale or recovered before; IDLE and FAULT never
\* move it, from wherever they were entered.
THEOREM MovesInMotionOnly == Spec => MovesOnlyInMotion
<1>1. ASSUME StartupInv, [Next]_startupVars
      PROVE  [/\ activeState \in {"BOOT", "IDLE", "FAULT"}
              /\ activeState = "BOOT" => withInputs = Axes
              => position' = position]_startupVars
  <2> SUFFICES ASSUME Next, activeState \in {"BOOT", "IDLE", "FAULT"},
                      activeState = "BOOT" => withInputs = Axes
               PROVE  position' = position
    BY <1>1, Zenon
  <2>1. CASE StepOfBoot
    <3>1. activeState = "BOOT"
      BY <2>1 DEF StepOfBoot
    <3> QED
      BY <1>1, <2>1, <3>1, BootSteps
  <2>2. CASE \E returned \in BOOLEAN : StepOfIdle(returned)
    BY <1>1, <2>2, IdleSteps
  <2>3. CASE BootCompletes \/ Stop \/ FaultStep \/ Reset \/ LeaveIdle
    BY <2>3 DEF BootCompletes, Stop, FaultStep, Reset, LeaveIdle, busVars, hardwareVars
  <2>4. CASE Environment
    BY <2>4 DEF Environment, SlaveDrops, DriveTrips, Disturb
  <2> QED
    BY <2>1, <2>2, <2>3, <2>4
    DEF Next, Cycle, StepOfHoming, HomingCompletes, MoveAway, ProgramEnds
<1> QED
  BY <1>1, StartupSafe, PTL DEF Spec, MovesOnlyInMotion

\* state_boot.c:20: the drives are enabled only over a bus that has just been
\* complete for as many exchanges in a row as the code asks for.
THEOREM StableBeforeEnabled == Spec => EnabledOverStableBus
<1>1. ASSUME StartupInv, [Next]_startupVars
      PROVE  [bootPhase # "ENABLE_DRIVES" /\ bootPhase' = "ENABLE_DRIVES" =>
                  healthyCycles' = StabilityCycles]_startupVars
  <2> SUFFICES ASSUME Next, bootPhase # "ENABLE_DRIVES", bootPhase' = "ENABLE_DRIVES"
               PROVE  healthyCycles' = StabilityCycles
    BY <1>1, Zenon
  <2>1. CASE StepOfBoot
    BY <1>1, <2>1, BootSteps
  <2>2. CASE ~StepOfBoot
    <3>1. bootPhase' = bootPhase \/ bootPhase' = "FAILED"
      BY <2>2
      DEF Next, Cycle, BootCompletes, StepOfHoming, HomingCompletes, StepOfIdle, Stop,
          FaultStep, Reset, LeaveIdle, MoveAway, ProgramEnds, Environment, bootVars,
          FailBoot, AdvanceBoot
    <3> QED
      BY <3>1
  <2> QED
    BY <2>1, <2>2
<1> QED
  BY <1>1, StartupSafe, PTL DEF Spec, EnabledOverStableBus

\* state_homing.c: HOMING reports its end only with every axis at home.
THEOREM HomedAtHome == Spec => HomingEndsAtHome
<1>1. ASSUME StartupInv, [Next]_startupVars
      PROVE  [activeState = "HOMING" /\ activeState' = "IDLE" =>
                  \A a \in Axes : position[a] = Home]_startupVars
  <2> SUFFICES ASSUME Next, activeState = "HOMING", activeState' = "IDLE"
               PROVE  \A a \in Axes : position[a] = Home
    BY <1>1, Zenon
  <2>1. HomingCompletes
    BY DEF Next, Cycle, StepOfBoot, BootCompletes, StepOfHoming, StepOfIdle, Stop,
           FaultStep, Reset, LeaveIdle, MoveAway, ProgramEnds, Environment
  <2> QED
    BY <1>1, <2>1 DEF HomingCompletes, StartupInv, MotionInv
<1> QED
  BY <1>1, StartupSafe, PTL DEF Spec, HomingEndsAtHome
=============================================================================
