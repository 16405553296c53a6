---------------------------- MODULE ApproachProofs ----------------------------
(***************************************************************************)
(* Proofs about ApproachRun, for every number and length of the legs,      *)
(* every budget of a validation step and every verification limit.         *)
(*                                                                         *)
(* The properties speak of what was checked and sent so far; RouteInv says *)
(* how far that is: both histories are an initial part of the route, up to *)
(* the indices of the state.  The first section is about such parts.       *)
(***************************************************************************)
EXTENDS ApproachRun, TLAPS

Places == Legs \X (0 .. MaxLegSamples - 1)
Lengths == [Legs -> LegSamples \cup {0}]

\* The samples of a route, and those before a place on it, for any route.
RouteOf(total, lengths) ==
    {place \in Places : place[1] < total /\ place[2] < lengths[place[1]]}
PartOf(total, lengths, last, index) ==
    {place \in RouteOf(total, lengths) :
        place[1] < last \/ (place[1] = last /\ place[2] < index)}

-----------------------------------------------------------------------------
(* Initial parts of a route.                                               *)

\* The samples of the route and those before an index, as functions of the legs.
LEMMA RouteIsRouteOf ==
    /\ RouteSamples = RouteOf(totalLegs, legSamples)
    /\ \A last, index : Before(last, index) = PartOf(totalLegs, legSamples, last, index)
BY DEF RouteSamples, RouteOf, Before, PartOf, Places

\* Before the first sample nothing is checked.
LEMMA EmptyPart ==
    ASSUME NEW total, NEW lengths
    PROVE  PartOf(total, lengths, 0, 0) = {}
BY ApproachAssumption DEF PartOf, RouteOf, Places, Legs

\* Once all legs are behind it, everything is checked.
LEMMA WholePart ==
    ASSUME NEW total \in 0 .. MaxLegs, NEW lengths \in Lengths, NEW index \in Nat
    PROVE  PartOf(total, lengths, total, 0) = RouteOf(total, lengths)
BY ApproachAssumption DEF PartOf, RouteOf, Places, Legs, Lengths

\* One more sample of the leg in work.
LEMMA NextPlace ==
    ASSUME NEW total \in 0 .. MaxLegs, NEW lengths \in Lengths,
           NEW leg \in Legs, leg < total,
           NEW index \in Nat, index < lengths[leg]
    PROVE  /\ <<leg, index>> \in RouteOf(total, lengths)
           /\ PartOf(total, lengths, leg, index) \cup {<<leg, index>>} =
                  PartOf(total, lengths, leg, index + 1)
<1>1. lengths[leg] \in 0 .. MaxLegSamples
  BY ApproachAssumption DEF Lengths, LegSamples
<1>2. <<leg, index>> \in Places
  BY <1>1, ApproachAssumption DEF Places
<1>3. <<leg, index>> \in RouteOf(total, lengths)
  BY <1>2 DEF RouteOf
<1>4. ASSUME NEW place \in RouteOf(total, lengths)
      PROVE  /\ place = <<place[1], place[2]>>
             /\ place[1] \in Nat /\ place[2] \in Nat
  BY ApproachAssumption DEF RouteOf, Places, Legs
<1>5. PartOf(total, lengths, leg, index) \cup {<<leg, index>>} \subseteq
          PartOf(total, lengths, leg, index + 1)
  BY <1>3, <1>4, ApproachAssumption DEF PartOf, Legs
<1>6. PartOf(total, lengths, leg, index + 1) \subseteq
          PartOf(total, lengths, leg, index) \cup {<<leg, index>>}
  BY <1>4, ApproachAssumption DEF PartOf, Legs
<1> QED
  BY <1>3, <1>5, <1>6

\* The end of a leg is the beginning of the next.
LEMMA NextLeg ==
    ASSUME NEW total \in 0 .. MaxLegs, NEW lengths \in Lengths,
           NEW leg \in Legs, leg < total,
           NEW index \in Nat, index >= lengths[leg]
    PROVE  PartOf(total, lengths, leg, index) = PartOf(total, lengths, leg + 1, 0)
<1>1. lengths[leg] \in Nat
  BY ApproachAssumption DEF Lengths, LegSamples
<1>2. ASSUME NEW place \in RouteOf(total, lengths)
      PROVE  /\ place[1] \in Nat /\ place[2] \in Nat
             /\ place[1] = leg => place[2] < lengths[leg]
  BY ApproachAssumption DEF RouteOf, Places, Legs
<1> QED
  BY <1>1, <1>2, ApproachAssumption DEF PartOf, Legs

\* What one step of the validation adds.
CheckedPlaces(lengths, leg, index, budget) ==
    {leg} \X {i \in 0 .. MaxLegSamples - 1 :
                 /\ index <= i
                 /\ i < index + budget
                 /\ i < lengths[leg]}

\* The samples of one budget extend the part that is checked.
LEMMA CheckedPart ==
    ASSUME NEW total \in 0 .. MaxLegs, NEW lengths \in Lengths,
           NEW leg \in Legs, leg < total, NEW index \in Nat, NEW budget \in Nat
    PROVE  PartOf(total, lengths, leg, index) \cup CheckedPlaces(lengths, leg, index, budget) =
               PartOf(total, lengths, leg, index + budget)
<1> DEFINE checks == CheckedPlaces(lengths, leg, index, budget)
<1>1. lengths[leg] \in 0 .. MaxLegSamples
  BY ApproachAssumption DEF Lengths, LegSamples
<1>2. ASSUME NEW place \in RouteOf(total, lengths)
      PROVE  /\ place = <<place[1], place[2]>>
             /\ place[1] \in Nat /\ place[2] \in 0 .. MaxLegSamples - 1
             /\ place[1] = leg => place[2] < lengths[leg]
  BY ApproachAssumption DEF RouteOf, Places, Legs
<1>3. ASSUME NEW place \in checks
      PROVE  /\ place \in RouteOf(total, lengths)
             /\ place[1] = leg
             /\ index <= place[2] /\ place[2] < index + budget
  BY <1>3, <1>1, ApproachAssumption DEF RouteOf, Places, CheckedPlaces
<1>4. PartOf(total, lengths, leg, index) \cup checks \subseteq
          PartOf(total, lengths, leg, index + budget)
  BY <1>2, <1>3, ApproachAssumption DEF PartOf, Legs
<1>5. ASSUME NEW place \in PartOf(total, lengths, leg, index + budget),
             place \notin PartOf(total, lengths, leg, index)
      PROVE  place \in checks
  <2>1. place \in RouteOf(total, lengths) /\ place[1] = leg /\ index <= place[2]
            /\ place[2] < index + budget
    BY <1>2, <1>5, ApproachAssumption DEF PartOf, Legs
  <2> QED
    BY <2>1, <1>2 DEF CheckedPlaces
<1> QED
  BY <1>4, <1>5

-----------------------------------------------------------------------------
(* The parts of the invariant after a step.                                *)

USE DEF outcomeVars, routeVars, verificationVars, historyVars,
        PlanningPhases, MotionPhases

\* While the state is running, the three properties follow from the others.
LEMMA RunningProperties ==
    ASSUME RunTypeOK', PhaseInv', (result = "RUNNING")'
    PROVE  RouteCheckedBeforeMotion' /\ RouteWithoutGaps' /\ CompletionAtTarget'
<1>1. /\ totalLegs' \in 0 .. MaxLegs
      /\ legSamples' \in Lengths
      /\ activeLeg' \in Nat /\ sampleIndex' \in Nat
  BY ApproachAssumption DEF RunTypeOK, Lengths
<1>2. phase' \in Phases \ {"IDLE", "COMPLETE", "ABORTED", "FAILED"}
  BY DEF RunTypeOK, PhaseInv, PhaseRuns, Phases
<1>3. RouteCheckedBeforeMotion'
  BY <1>2
  DEF PhaseInv, NothingDoneBeforePlan, RequestAccepted, ValidationReach,
      RouteIsChecked, RouteCheckedBeforeMotion, Phases
<1>4. CompletionAtTarget'
  BY <1>2 DEF PhaseInv, VerifyingReach, CompletionAtTarget, Verifying
<1>5. RouteWithoutGaps'
  <2> SUFFICES ASSUME NEW place \in sent', NEW before \in RouteSamples',
                      \/ before[1] < place[1]
                      \/ before[1] = place[1] /\ before[2] < place[2]
               PROVE  before \in sent'
    BY Zenon DEF RouteWithoutGaps
  <2>1. sent' \in {{}, RouteSamples', Before(activeLeg, sampleIndex)'}
    BY <1>2
    DEF PhaseInv, NothingDoneBeforePlan, ValidationReach,
        NothingSentBeforePermission, FollowingReach, VerifyingReach, Phases,
        Following, Verifying
  <2>2. CASE sent' = Before(activeLeg, sampleIndex)'
    <3>1. sent' = PartOf(totalLegs', legSamples', activeLeg', sampleIndex')
      BY <2>2 DEF Before, PartOf, RouteOf, RouteSamples, Places
    <3>2. before \in RouteOf(totalLegs', legSamples')
      BY DEF RouteOf, RouteSamples, Places
    <3>3. place \in PartOf(totalLegs', legSamples', activeLeg', sampleIndex')
      BY <3>1
    <3>4. before \in PartOf(totalLegs', legSamples', activeLeg', sampleIndex')
      <4>1. /\ place[1] \in Nat /\ place[2] \in Nat
            /\ before[1] \in Nat /\ before[2] \in Nat
        BY <3>2, <3>3, ApproachAssumption DEF PartOf, RouteOf, Places, Legs
      <4> QED
        BY <1>1, <3>2, <3>3, <4>1 DEF PartOf
    <3> QED
      BY <3>1, <3>4
  <2> QED
    BY <2>1, <2>2
<1> QED
  BY <1>3, <1>4, <1>5

\* A step that fails or aborts leaves the route and its histories alone.
LEMMA EndPreserves ==
    ASSUME RouteInv, result = "RUNNING",
           Fail \/ \E reason \in Errors : Abort(reason),
           target' \in Targets,
           dispatched' \in Dispatches, UNCHANGED granted
    PROVE  RouteInv'
<1>1. /\ UNCHANGED <<request, routeVars, activeLeg, sampleIndex, validationIndex,
                     verificationVars, pausedDuringVerification, historyVars>>
      /\ phase' \in {"ABORTED", "FAILED"}
      /\ result' \in {"ABORTED", "FAILED"}
      /\ error' \in Errors
  BY DEF Fail, Abort, Errors
<1>2. RunTypeOK'
  BY <1>1 DEF RouteInv, RunTypeOK, Phases, Results
<1>3. RouteSamples' = RouteSamples
  BY <1>1 DEF RouteSamples
<1>4. RouteCheckedBeforeMotion' /\ RouteWithoutGaps' /\ CompletionAtTarget'
  BY <1>1, <1>3
  DEF RouteInv, RouteCheckedBeforeMotion, RouteWithoutGaps, CompletionAtTarget
<1>5. PhaseInv'
  BY <1>1
  DEF RouteInv, PhaseInv, PhaseRuns, CountsWithinLimits, NothingDoneBeforePlan,
      RequestAccepted, RouteHasLegs, LegsPlanned, ValidationReach, RouteIsChecked,
      NothingSentBeforePermission, FollowingReach, VerifyingReach,
      AtRestBeforeRoute, Following, Verifying
<1> QED
  BY <1>2, <1>4, <1>5 DEF RouteInv

-----------------------------------------------------------------------------
(* Planning and validating the route.                                      *)

\* The request is accepted, the target loaded and the start read.
LEMMA LoadingPreserves ==
    ASSUME RouteInv, result = "RUNNING", UNCHANGED <<dispatched, granted>>,
           CheckRequest \/ LoadTarget \/ ReadStart
    PROVE  RouteInv'
<1>1. RunTypeOK'
  BY ApproachAssumption
  DEF RouteInv, RunTypeOK, CheckRequest, LoadTarget, ReadStart, Phases
<1>2. /\ phase \in PlanningPhases /\ phase' \in PlanningPhases
      /\ UNCHANGED <<result, request, checked, sent, target, verificationVars>>
      /\ phase' \in {"READ_START", "PREPARE_LEG"} => request.valid
      /\ phase' = "PREPARE_LEG" => totalLegs' > 0 /\ activeLeg' = 0
  BY DEF RouteInv, RunTypeOK, PhaseInv, RequestAccepted, CheckRequest, LoadTarget,
         ReadStart
<1>3. PhaseInv'
  <2>1. PhaseRuns' /\ CountsWithinLimits' /\ NothingDoneBeforePlan'
            /\ RequestAccepted' /\ RouteHasLegs' /\ AtRestBeforeRoute'
    BY <1>2
    DEF RouteInv, PhaseInv, PhaseRuns, CountsWithinLimits, NothingDoneBeforePlan,
        RequestAccepted, RouteHasLegs, AtRestBeforeRoute
  <2>2. LegsPlanned'
    BY <1>2, ApproachAssumption DEF LegsPlanned, PlannedTo, Legs
  <2>3. ValidationReach' /\ RouteIsChecked' /\ NothingSentBeforePermission'
            /\ FollowingReach' /\ VerifyingReach'
    BY <1>2
    DEF ValidationReach, RouteIsChecked, NothingSentBeforePermission,
        FollowingReach, VerifyingReach, Following, Verifying
  <2> QED
    BY <2>1, <2>2, <2>3 DEF PhaseInv
<1> QED
  BY <1>1, <1>2, <1>3, RunningProperties DEF RouteInv

\* A leg that is planned, or whose plan fails.
LEMMA PrepareLegPreserves ==
    ASSUME RouteInv, result = "RUNNING", UNCHANGED <<dispatched, granted>>, PrepareLeg
    PROVE  RouteInv'
<1>1. /\ totalLegs \in 1 .. MaxLegs /\ activeLeg \in 0 .. totalLegs
      /\ legSamples \in Lengths
      /\ PlannedTo(activeLeg) /\ request.valid
      /\ checked = {} /\ sent = {} /\ target \in {"STANDING", "HELD"}
      /\ stableCycles < RequiredStableCycles
      /\ verificationCycles < MaximumVerificationCycles
      /\ phase = "PREPARE_LEG"
      /\ UNCHANGED <<result, error, request, totalLegs, sampleIndex,
                     verificationVars, pausedDuringVerification, target,
                     checked, sent>>
  BY DEF RouteInv, RunTypeOK, PhaseInv, NothingDoneBeforePlan, RequestAccepted,
         RouteHasLegs, LegsPlanned, CountsWithinLimits, AtRestBeforeRoute, Lengths,
         PrepareLeg
<1>2. CASE activeLeg < totalLegs
  <2>1. PICK samples \in LegSamples :
            legSamples' = [legSamples EXCEPT ![activeLeg] = samples]
    BY <1>1, <1>2 DEF PrepareLeg
  <2>2. activeLeg' = activeLeg + 1 /\ phase' = phase /\ validationIndex' = validationIndex
    BY <1>1, <1>2 DEF PrepareLeg
  <2>3. legSamples' \in Lengths
    BY <1>1, <2>1, ApproachAssumption DEF Lengths, Legs
  <2>4. RunTypeOK'
    BY <1>1, <1>2, <2>2, <2>3 DEF RouteInv, RunTypeOK, Lengths
  <2>5. LegsPlanned'
    BY <1>1, <2>1, <2>2, ApproachAssumption DEF LegsPlanned, PlannedTo, Lengths, Legs
  <2>6. PhaseInv'
    BY <1>1, <2>2, <2>5
    DEF PhaseInv, PhaseRuns, CountsWithinLimits, NothingDoneBeforePlan,
        RequestAccepted, RouteHasLegs, ValidationReach, RouteIsChecked,
        NothingSentBeforePermission, FollowingReach, VerifyingReach,
        AtRestBeforeRoute, Following, Verifying
  <2> QED
    BY <1>1, <2>4, <2>6, RunningProperties DEF RouteInv
<1>3. CASE activeLeg >= totalLegs
  <2>1. activeLeg = totalLegs
    BY <1>1, <1>3
  <2>2. /\ activeLeg' = 0 /\ validationIndex' = 0 /\ phase' = "VALIDATE_LEG"
        /\ legSamples' = legSamples
    BY <1>1, <1>3 DEF PrepareLeg
  <2>3. RunTypeOK'
    BY <1>1, <2>2, ApproachAssumption DEF RouteInv, RunTypeOK, Phases
  <2>4. LegsPlanned'
    BY <1>1, <2>1, <2>2 DEF LegsPlanned, PlannedTo
  <2>5. checked' = Before(activeLeg, validationIndex)'
    <3>1. Before(0, 0)' = {}
      BY ApproachAssumption DEF Before, RouteSamples, Legs
    <3> QED
      BY <1>1, <2>2, <3>1
  <2>6. ValidationReach'
    <3>1. legSamples[0] \in LegSamples
      BY <1>1, <2>1, ApproachAssumption DEF PlannedTo, Legs
    <3> QED
      BY <1>1, <2>2, <2>5, <3>1 DEF ValidationReach, LegSamples
  <2>7. PhaseInv'
    BY <1>1, <2>2, <2>4, <2>6
    DEF PhaseInv, PhaseRuns, CountsWithinLimits, NothingDoneBeforePlan,
        RequestAccepted, RouteHasLegs, RouteIsChecked,
        NothingSentBeforePermission, FollowingReach, VerifyingReach,
        AtRestBeforeRoute, Following, Verifying
  <2> QED
    BY <1>1, <2>3, <2>7, RunningProperties DEF RouteInv
<1> QED
  BY <1>1, <1>2, <1>3

\* A budget of samples of the leg that is checked.
LEMMA ValidateLegPreserves ==
    ASSUME RouteInv, result = "RUNNING", UNCHANGED <<dispatched, granted>>, ValidateLeg
    PROVE  RouteInv'
<1>1. /\ totalLegs \in 0 .. MaxLegs /\ activeLeg \in 0 .. totalLegs
      /\ legSamples \in Lengths /\ validationIndex \in 0 .. MaxLegSamples
      /\ activeLeg < totalLegs
      /\ PlannedTo(totalLegs) /\ request.valid
      /\ sent = {} /\ target \in {"STANDING", "HELD"}
      /\ checked = Before(activeLeg, validationIndex)
      /\ stableCycles < RequiredStableCycles
      /\ verificationCycles < MaximumVerificationCycles
      /\ phase = "VALIDATE_LEG"
      /\ UNCHANGED <<phase, result, error, request, routeVars, sampleIndex,
                     verificationVars, pausedDuringVerification, target, sent>>
  BY DEF RouteInv, RunTypeOK, PhaseInv, RequestAccepted, LegsPlanned, ValidationReach,
         CountsWithinLimits, AtRestBeforeRoute, Lengths, ValidateLeg
<1>2. /\ activeLeg \in Legs
      /\ legSamples[activeLeg] \in 2 .. MaxLegSamples
  BY <1>1, ApproachAssumption DEF Legs, PlannedTo, LegSamples
<1>3. checked' = PartOf(totalLegs, legSamples, activeLeg,
                        validationIndex + ValidationSamplesPerStep)
  <2>1. checked = PartOf(totalLegs, legSamples, activeLeg, validationIndex)
    BY <1>1, RouteIsRouteOf
  <2>2. checked' = checked \cup ChecksOfStep
    BY DEF ValidateLeg
  <2>3. PartOf(totalLegs, legSamples, activeLeg, validationIndex) \cup ChecksOfStep
            = PartOf(totalLegs, legSamples, activeLeg,
                     validationIndex + ValidationSamplesPerStep)
    <3>1. validationIndex \in Nat /\ ValidationSamplesPerStep \in Nat
      BY <1>1, ApproachAssumption
    <3>2. ChecksOfStep = CheckedPlaces(legSamples, activeLeg, validationIndex,
                                       ValidationSamplesPerStep)
      BY DEF ChecksOfStep, CheckedPlaces
    <3> QED
      BY <1>1, <1>2, <3>1, <3>2, CheckedPart
  <2> QED
    BY <2>1, <2>2, <2>3
<1>4. PartOf(totalLegs, legSamples, activeLeg', validationIndex')
          = Before(activeLeg, validationIndex)'
  BY <1>1 DEF Before, PartOf, RouteOf, RouteSamples, Places
<1>5. /\ activeLeg' \in 0 .. totalLegs /\ validationIndex' \in 0 .. MaxLegSamples
      /\ checked' = Before(activeLeg, validationIndex)'
      /\ activeLeg' < totalLegs => validationIndex' <= legSamples[activeLeg']
      /\ activeLeg' = totalLegs => validationIndex' = 0
  <2>1. CASE validationIndex + ValidationSamplesPerStep > legSamples[activeLeg]
    <3>1. activeLeg' = activeLeg + 1 /\ validationIndex' = 0
      BY <2>1 DEF ValidateLeg
    <3>2. checked' = PartOf(totalLegs, legSamples, activeLeg + 1, 0)
      BY <1>1, <1>2, <1>3, <2>1, NextLeg, ApproachAssumption
    <3>3. activeLeg + 1 < totalLegs => legSamples[activeLeg + 1] \in LegSamples
      BY <1>1, ApproachAssumption DEF PlannedTo, Legs
    <3> QED
      BY <1>1, <1>4, <3>1, <3>2, <3>3, ApproachAssumption DEF LegSamples
  <2>2. CASE validationIndex + ValidationSamplesPerStep <= legSamples[activeLeg]
    <3>1. /\ activeLeg' = activeLeg
          /\ validationIndex' = validationIndex + ValidationSamplesPerStep
      BY <1>1, <1>2, <2>2, ApproachAssumption DEF ValidateLeg
    <3> QED
      BY <1>1, <1>2, <1>3, <1>4, <2>2, <3>1, ApproachAssumption
  <2> QED
    BY <1>1, <1>2, <2>1, <2>2, ApproachAssumption
<1>6. RunTypeOK'
  <2>1. checked' \in SUBSET (Legs \X (0 .. MaxLegSamples - 1))
    BY <1>3 DEF PartOf, RouteOf, Places
  <2> QED
    BY <1>1, <1>5, <2>1 DEF RouteInv, RunTypeOK
<1>7. PhaseInv'
  <2>1. ValidationReach'
    BY <1>1, <1>5 DEF ValidationReach
  <2>2. LegsPlanned'
    BY <1>1 DEF LegsPlanned, PlannedTo
  <2> QED
    BY <1>1, <2>1, <2>2
    DEF RouteInv, PhaseInv, PhaseRuns, CountsWithinLimits, NothingDoneBeforePlan,
        RequestAccepted, RouteHasLegs, RouteIsChecked,
        NothingSentBeforePermission, FollowingReach, VerifyingReach,
        AtRestBeforeRoute, Following, Verifying
<1> QED
  BY <1>1, <1>6, <1>7, RunningProperties DEF RouteInv

\* The last leg is checked.
LEMMA RouteValidatedPreserves ==
    ASSUME RouteInv, result = "RUNNING", UNCHANGED <<dispatched, granted>>,
           RouteValidated
    PROVE  RouteInv'
<1>1. /\ totalLegs \in 1 .. MaxLegs /\ legSamples \in Lengths
      /\ activeLeg = totalLegs /\ validationIndex = 0
      /\ PlannedTo(totalLegs) /\ request.valid
      /\ sent = {} /\ target \in {"STANDING", "HELD"}
      /\ checked = Before(totalLegs, 0)
      /\ stableCycles < RequiredStableCycles
      /\ verificationCycles < MaximumVerificationCycles
      /\ phase' = "WAIT_PERMISSION" /\ activeLeg' = 0 /\ sampleIndex' = 0
      /\ UNCHANGED <<result, error, request, routeVars, validationIndex,
                     verificationVars, pausedDuringVerification, target,
                     checked, sent>>
  BY DEF RouteInv, RunTypeOK, PhaseInv, RequestAccepted, LegsPlanned, ValidationReach,
         CountsWithinLimits, AtRestBeforeRoute, RouteHasLegs, Lengths, RouteValidated
<1>2. checked' = RouteSamples'
  <2>1. checked = RouteSamples
    BY <1>1, WholePart, RouteIsRouteOf
  <2> QED
    BY <1>1, <2>1 DEF RouteSamples
<1>3. RunTypeOK'
  BY <1>1, ApproachAssumption DEF RouteInv, RunTypeOK, Phases
<1>4. LegsPlanned'
  BY <1>1 DEF LegsPlanned, PlannedTo
<1>5. PhaseInv'
  BY <1>1, <1>2, <1>4
  DEF PhaseInv, PhaseRuns, CountsWithinLimits, NothingDoneBeforePlan,
      RequestAccepted, RouteHasLegs, ValidationReach, RouteIsChecked,
      NothingSentBeforePermission, FollowingReach, VerifyingReach,
      AtRestBeforeRoute, Following, Verifying
<1> QED
  BY <1>1, <1>3, <1>5, RunningProperties DEF RouteInv

-----------------------------------------------------------------------------
(* Following the route.                                                    *)

\* The operator's permission, or one more cycle without it.
LEMMA WaitPermissionPreserves ==
    ASSUME RouteInv, result = "RUNNING", UNCHANGED <<dispatched, granted>>,
           NEW in \in Inputs, WaitPermission(in)
    PROVE  RouteInv'
<1>1. /\ totalLegs > 0 /\ PlannedTo(totalLegs) /\ request.valid
      /\ totalLegs \in 1 .. MaxLegs
      /\ sent = {} /\ activeLeg = 0 /\ sampleIndex = 0
      /\ checked = RouteSamples
      /\ stableCycles < RequiredStableCycles
      /\ verificationCycles < MaximumVerificationCycles
      /\ target' \in {"STANDING", "HELD"}
      /\ phase' \in {"WAIT_PERMISSION", "EXECUTE_LEG"}
      /\ UNCHANGED <<result, error, request, routeVars, activeLeg, sampleIndex,
                     validationIndex, verificationVars, pausedDuringVerification,
                     checked, sent>>
  BY DEF RouteInv, RunTypeOK, PhaseInv, RequestAccepted, LegsPlanned, RouteIsChecked,
         NothingSentBeforePermission, CountsWithinLimits, AtRestBeforeRoute,
         RouteHasLegs, WaitPermission
<1>2. RunTypeOK'
  BY <1>1 DEF RouteInv, RunTypeOK, Phases, Targets
<1>3. checked' = RouteSamples'
  BY <1>1 DEF RouteSamples
<1>4. LegsPlanned'
  BY <1>1 DEF LegsPlanned, PlannedTo
<1>5. FollowingReach'
  <2>1. Before(activeLeg, sampleIndex)' = {}
    BY <1>1, ApproachAssumption DEF Before, RouteSamples, Legs
  <2>2. legSamples[0] \in LegSamples
    BY <1>1, ApproachAssumption DEF PlannedTo, Legs
  <2> QED
    BY <1>1, <2>1, <2>2 DEF FollowingReach, LegSamples
<1>6. PhaseInv'
  BY <1>1, <1>3, <1>4, <1>5
  DEF PhaseInv, PhaseRuns, CountsWithinLimits, NothingDoneBeforePlan,
      RequestAccepted, RouteHasLegs, ValidationReach, RouteIsChecked,
      NothingSentBeforePermission, VerifyingReach, AtRestBeforeRoute, Verifying
<1> QED
  BY <1>1, <1>2, <1>6, RunningProperties DEF RouteInv

\* A step that keeps the robot where it is, or commands the end of the route
\* again, does not change how far the route was followed.
LEMMA HoldingPreserves ==
    ASSUME RouteInv, result = "RUNNING", UNCHANGED <<dispatched, granted>>,
           NEW in \in Inputs,
           \/ HoldMotion(in)
           \/ StayPaused(in)
           \/ ResumeVerification(in)
           \/ \E within \in BOOLEAN : VerifyTarget(in, within)
    PROVE  RouteInv'
<1>1. /\ phase \in {"EXECUTE_LEG", "PAUSED", "VERIFY_TARGET"}
      /\ phase' \in {"PAUSED", "VERIFY_TARGET"}
      /\ Following' => Following
      /\ Verifying' => Verifying
      /\ target' = "HELD" \/ (Verifying /\ target' = "FINAL")
      /\ UNCHANGED <<result, error, request, routeVars, activeLeg, sampleIndex,
                     validationIndex, checked, sent>>
      /\ pausedDuringVerification' \in BOOLEAN
  <2>1. CASE HoldMotion(in)
    BY <2>1 DEF HoldMotion, Following, Verifying
  <2>2. CASE StayPaused(in)
    <3>1. UNCHANGED <<phase, pausedDuringVerification>>
      BY <2>2 DEF StayPaused
    <3> QED
      BY <2>2, <3>1 DEF RouteInv, RunTypeOK, StayPaused, Following, Verifying
  <2>3. CASE ResumeVerification(in)
    BY <2>3 DEF ResumeVerification, Following, Verifying
  <2>4. CASE \E within \in BOOLEAN : VerifyTarget(in, within)
    BY <2>4 DEF RouteInv, RunTypeOK, VerifyTarget, Following, Verifying
  <2> QED
    BY <2>1, <2>2, <2>3, <2>4
<1>2. /\ stableCycles' \in Nat /\ stableCycles' < RequiredStableCycles
      /\ verificationCycles' \in Nat
      /\ verificationCycles' < MaximumVerificationCycles
  <2>1. /\ stableCycles \in Nat /\ verificationCycles \in Nat
        /\ stableCycles < RequiredStableCycles
        /\ verificationCycles < MaximumVerificationCycles
    BY <1>1 DEF RouteInv, RunTypeOK, PhaseInv, CountsWithinLimits
  <2>2. CASE HoldMotion(in) \/ StayPaused(in) \/ ResumeVerification(in)
    BY <2>1, <2>2 DEF HoldMotion, StayPaused, ResumeVerification
  <2>3. CASE \E within \in BOOLEAN : VerifyTarget(in, within)
    BY <2>1, <2>3 DEF VerifyTarget
  <2> QED
    BY <2>2, <2>3
<1>3. RunTypeOK'
  BY <1>1, <1>2, ApproachAssumption DEF RouteInv, RunTypeOK, Phases, Targets
<1>4. RouteSamples' = RouteSamples
          /\ Before(activeLeg, sampleIndex)' = Before(activeLeg, sampleIndex)
  BY <1>1 DEF RouteSamples, Before
<1>5. LegsPlanned'
  BY <1>1 DEF RouteInv, PhaseInv, LegsPlanned, PlannedTo
<1>6. FollowingReach' /\ VerifyingReach' /\ AtRestBeforeRoute'
  BY <1>1, <1>4
  DEF RouteInv, PhaseInv, FollowingReach, VerifyingReach, AtRestBeforeRoute
<1>7. PhaseInv'
  BY <1>1, <1>2, <1>4, <1>5, <1>6
  DEF RouteInv, PhaseInv, PhaseRuns, CountsWithinLimits, NothingDoneBeforePlan,
      RequestAccepted, RouteHasLegs, ValidationReach, RouteIsChecked,
      NothingSentBeforePermission
<1> QED
  BY <1>1, <1>3, <1>7, RunningProperties DEF RouteInv

\* A resume away from the route plans it again.
LEMMA ReplanPreserves ==
    ASSUME RouteInv, result = "RUNNING", UNCHANGED <<dispatched, granted>>,
           NEW in \in Inputs, Replan(in)
    PROVE  RouteInv'
<1>1. /\ totalLegs \in 0 .. MaxLegs /\ activeLeg \in 0 .. totalLegs
      /\ activeLeg < totalLegs /\ request.valid
      /\ stableCycles < RequiredStableCycles
      /\ verificationCycles < MaximumVerificationCycles
      /\ target' = "HELD" /\ phase' = "PREPARE_LEG"
      /\ totalLegs' = totalLegs - activeLeg /\ activeLeg' = 0
      /\ sampleIndex' = 0 /\ validationIndex' = 0
      /\ checked' = {} /\ sent' = {}
      /\ UNCHANGED <<result, error, request, legSamples, verificationVars,
                     pausedDuringVerification>>
  BY DEF RouteInv, RunTypeOK, PhaseInv, FollowingReach, Following, RequestAccepted,
         CountsWithinLimits, Replan
<1>2. totalLegs' \in 1 .. MaxLegs
  BY <1>1, ApproachAssumption
<1>3. RunTypeOK'
  BY <1>1, <1>2, ApproachAssumption DEF RouteInv, RunTypeOK, Phases, Targets
<1>4. LegsPlanned'
  BY <1>1, ApproachAssumption DEF LegsPlanned, PlannedTo, Legs
<1>5. PhaseInv'
  BY <1>1, <1>2, <1>4
  DEF PhaseInv, PhaseRuns, CountsWithinLimits, NothingDoneBeforePlan,
      RequestAccepted, RouteHasLegs, ValidationReach, RouteIsChecked,
      NothingSentBeforePermission, FollowingReach, VerifyingReach,
      AtRestBeforeRoute, Following, Verifying
<1> QED
  BY <1>1, <1>3, <1>5, RunningProperties DEF RouteInv

\* A sample that is commanded.
LEMMA ExecuteLegPreserves ==
    ASSUME RouteInv, result = "RUNNING", UNCHANGED <<dispatched, granted>>,
           NEW in \in Inputs, ExecuteLeg(in)
    PROVE  RouteInv'
<1>1. /\ totalLegs \in 0 .. MaxLegs /\ activeLeg \in 0 .. totalLegs
      /\ legSamples \in Lengths /\ sampleIndex \in 0 .. MaxLegSamples - 1
      /\ activeLeg < totalLegs /\ sampleIndex < legSamples[activeLeg]
      /\ PlannedTo(totalLegs) /\ request.valid
      /\ checked = RouteSamples /\ sent = Before(activeLeg, sampleIndex)
      /\ stableCycles < RequiredStableCycles
      /\ verificationCycles < MaximumVerificationCycles
      /\ sent' = sent \cup {<<activeLeg, sampleIndex>>}
      /\ target' \in {"ROUTE", "FINAL"}
      /\ UNCHANGED <<result, error, request, routeVars, validationIndex,
                     verificationVars, pausedDuringVerification, checked>>
  BY DEF RouteInv, RunTypeOK, PhaseInv, FollowingReach, Following, LegsPlanned,
         RequestAccepted, RouteIsChecked, CountsWithinLimits, Lengths, ExecuteLeg,
         NextTarget
<1>2. /\ activeLeg \in Legs /\ sampleIndex \in Nat
      /\ legSamples[activeLeg] \in 2 .. MaxLegSamples
  BY <1>1, ApproachAssumption DEF Legs, PlannedTo, LegSamples
<1>3. /\ sent' = PartOf(totalLegs, legSamples, activeLeg, sampleIndex + 1)
      /\ sent' # {}
  <2>1. sent = PartOf(totalLegs, legSamples, activeLeg, sampleIndex)
    BY <1>1, RouteIsRouteOf
  <2>2. PartOf(totalLegs, legSamples, activeLeg, sampleIndex)
            \cup {<<activeLeg, sampleIndex>>}
            = PartOf(totalLegs, legSamples, activeLeg, sampleIndex + 1)
    BY <1>1, <1>2, NextPlace
  <2> QED
    BY <1>1, <2>1, <2>2
<1>4. RouteSamples' = RouteOf(totalLegs, legSamples)
          /\ Before(activeLeg, sampleIndex)' =
                 PartOf(totalLegs, legSamples, activeLeg', sampleIndex')
  BY <1>1 DEF Before, PartOf, RouteOf, RouteSamples, Places
<1>5. /\ sent' = PartOf(totalLegs, legSamples, activeLeg', sampleIndex')
      /\ activeLeg' \in 0 .. totalLegs /\ sampleIndex' \in 0 .. MaxLegSamples - 1
      /\ \/ /\ phase' = "EXECUTE_LEG" /\ activeLeg' < totalLegs
            /\ sampleIndex' < legSamples[activeLeg']
         \/ phase' = "VERIFY_TARGET" /\ activeLeg' = totalLegs /\ sampleIndex' = 0
  <2>1. CASE LastSampleOfLeg
    <3>1. /\ activeLeg' = activeLeg + 1 /\ sampleIndex' = 0
          /\ phase' = IF activeLeg' >= totalLegs
                      THEN "VERIFY_TARGET" ELSE "EXECUTE_LEG"
          /\ sampleIndex + 1 >= legSamples[activeLeg]
      BY <1>2, <2>1 DEF ExecuteLeg, LastSampleOfLeg
    <3>2. sent' = PartOf(totalLegs, legSamples, activeLeg + 1, 0)
      BY <1>1, <1>2, <1>3, <3>1, NextLeg
    <3>3. activeLeg + 1 < totalLegs => legSamples[activeLeg + 1] \in LegSamples
      BY <1>1, ApproachAssumption DEF PlannedTo, Legs
    <3> QED
      BY <1>1, <3>1, <3>2, <3>3, ApproachAssumption DEF LegSamples
  <2>2. CASE ~LastSampleOfLeg
    <3>1. /\ activeLeg' = activeLeg /\ sampleIndex' = sampleIndex + 1
          /\ phase' = "EXECUTE_LEG"
          /\ sampleIndex + 1 < legSamples[activeLeg]
      BY <1>1, <1>2, <2>2 DEF ExecuteLeg, LastSampleOfLeg
    <3> QED
      BY <1>1, <1>2, <1>3, <3>1, ApproachAssumption
  <2> QED
    BY <2>1, <2>2
<1>6. RunTypeOK'
  <2>1. sent' \in SUBSET (Legs \X (0 .. MaxLegSamples - 1))
    BY <1>3 DEF PartOf, RouteOf, Places
  <2> QED
    BY <1>1, <1>5, <2>1 DEF RouteInv, RunTypeOK, Phases, Targets
<1>7. checked' = RouteSamples'
  BY <1>1 DEF RouteSamples
<1>8. LegsPlanned'
  BY <1>1, <1>5 DEF LegsPlanned, PlannedTo
<1>9. FollowingReach'
  BY <1>1, <1>4, <1>5 DEF FollowingReach, Following
<1>10. VerifyingReach'
  <2>1. phase' = "VERIFY_TARGET" => sent' = RouteOf(totalLegs, legSamples)
    BY <1>1, <1>5, WholePart
  <2> QED
    BY <1>3, <1>4, <1>5, <2>1 DEF VerifyingReach, Verifying
<1>11. PhaseInv'
  BY <1>1, <1>3, <1>5, <1>7, <1>8, <1>9, <1>10
  DEF PhaseInv, PhaseRuns, CountsWithinLimits, NothingDoneBeforePlan,
      RequestAccepted, RouteHasLegs, ValidationReach, RouteIsChecked,
      NothingSentBeforePermission, AtRestBeforeRoute
<1> QED
  BY <1>1, <1>6, <1>11, RunningProperties DEF RouteInv

\* The verification ends at the target.
LEMMA TargetReachedPreserves ==
    ASSUME RouteInv, result = "RUNNING", dispatched' = "INACTIVE", UNCHANGED granted,
           NEW in \in Inputs, TargetReached(in)
    PROVE  RouteInv'
<1>1. /\ phase = "VERIFY_TARGET" /\ phase' = "COMPLETE" /\ result' = "COMPLETE"
      /\ target' = "FINAL"
      /\ stableCycles' = stableCycles + 1
      /\ verificationCycles' = verificationCycles + 1
      /\ stableCycles \in Nat /\ stableCycles < RequiredStableCycles
      /\ verificationCycles \in Nat
      /\ verificationCycles < MaximumVerificationCycles
      /\ sent = RouteSamples
      /\ UNCHANGED <<error, request, routeVars, activeLeg, sampleIndex,
                     validationIndex, pausedDuringVerification, checked, sent>>
  BY DEF RouteInv, RunTypeOK, PhaseInv, VerifyingReach, Verifying,
         CountsWithinLimits, TargetReached
<1>2. RunTypeOK'
  BY <1>1, ApproachAssumption
  DEF RouteInv, RunTypeOK, Phases, Results, Targets, Dispatches
<1>3. RouteSamples' = RouteSamples
  BY <1>1 DEF RouteSamples
<1>4. RouteCheckedBeforeMotion' /\ RouteWithoutGaps' /\ CompletionAtTarget'
  BY <1>1, <1>3
  DEF RouteInv, RouteCheckedBeforeMotion, RouteWithoutGaps, CompletionAtTarget
<1>5. PhaseInv'
  BY <1>1
  DEF PhaseInv, PhaseRuns, CountsWithinLimits, NothingDoneBeforePlan,
      RequestAccepted, RouteHasLegs, LegsPlanned, ValidationReach, RouteIsChecked,
      NothingSentBeforePermission, FollowingReach, VerifyingReach,
      AtRestBeforeRoute, Following, Verifying
<1> QED
  BY <1>2, <1>4, <1>5 DEF RouteInv

-----------------------------------------------------------------------------
(* The specification.                                                      *)

\* Every step that leaves the approach running.
LEMMA StepRunsPreserves ==
    ASSUME RouteInv, UNCHANGED <<dispatched, granted>>,
           NEW in \in Inputs, StepRuns(in)
    PROVE  RouteInv' /\ result' = "RUNNING"
<1>1. result = "RUNNING"
  BY DEF StepRuns, Proceeds
<1>2. RouteInv'
  <2>1. CASE CheckRequest \/ LoadTarget \/ ReadStart
    BY <1>1, <2>1, LoadingPreserves
  <2>2. CASE PrepareLeg
    BY <1>1, <2>2, PrepareLegPreserves
  <2>3. CASE ValidateLeg
    BY <1>1, <2>3, ValidateLegPreserves
  <2>4. CASE RouteValidated
    BY <1>1, <2>4, RouteValidatedPreserves
  <2>5. CASE WaitPermission(in)
    BY <1>1, <2>5, WaitPermissionPreserves
  <2>6. CASE ExecuteLeg(in)
    BY <1>1, <2>6, ExecuteLegPreserves
  <2>7. CASE \/ HoldMotion(in)
             \/ StayPaused(in)
             \/ ResumeVerification(in)
             \/ \E within \in BOOLEAN : VerifyTarget(in, within)
    BY <1>1, <2>7, HoldingPreserves
  <2>8. CASE Replan(in)
    BY <1>1, <2>8, ReplanPreserves
  <2> QED
    BY <2>1, <2>2, <2>3, <2>4, <2>5, <2>6, <2>7, <2>8 DEF StepRuns
<1>3. result' = "RUNNING"
  BY <1>1
  DEF StepRuns, CheckRequest, LoadTarget, ReadStart, PrepareLeg, ValidateLeg,
      RouteValidated, WaitPermission, ExecuteLeg, HoldMotion, StayPaused,
      ResumeVerification, Replan, VerifyTarget
<1> QED
  BY <1>2, <1>3

\* Every step that ends the approach.
LEMMA StepEndsPreserves ==
    ASSUME RouteInv, dispatched' = "INACTIVE", UNCHANGED granted,
           NEW in \in Inputs, StepFails(in) \/ StepCompletes(in)
    PROVE  RouteInv'
<1>1. result = "RUNNING"
  BY DEF StepFails, StepCompletes, StopInput, Proceeds, AbortOnRequest, Requested
<1>2. target \in Targets /\ dispatched' \in Dispatches
  BY DEF RouteInv, RunTypeOK, Dispatches
<1>3. CASE StopInput(in) /\ Fail /\ UNCHANGED target
  BY <1>1, <1>2, <1>3, EndPreserves
<1>4. CASE PhaseFails(in)
  <2>1. Fail /\ target' \in Targets
    BY <1>2, <1>4 DEF PhaseFails, NextTarget, Targets
  <2> QED
    BY <1>1, <1>2, <2>1, EndPreserves
<1>5. CASE AbortOnRequest(in)
  <2>1. PICK reason \in Errors : Abort(reason)
    BY <1>5 DEF AbortOnRequest, Errors
  <2>2. target' = target
    BY <2>1 DEF Abort
  <2> QED
    BY <1>1, <1>2, <2>1, <2>2, EndPreserves
<1>6. CASE TargetReached(in)
  BY <1>1, <1>6, TargetReachedPreserves
<1> QED
  BY <1>3, <1>4, <1>5, <1>6 DEF StepFails, StepCompletes

\* The values of a fresh approach are of their types.
LEMMA InitialValues ==
    /\ [leg \in Legs |-> 0] \in [Legs -> LegSamples \cup {0}]
    /\ 0 \in 0 .. MaxLegs /\ 0 \in 0 .. 0
    /\ 0 \in 0 .. MaxLegSamples - 1 /\ 0 \in 0 .. MaxLegSamples
    /\ 0 \in 0 .. RequiredStableCycles /\ 0 \in 0 .. MaximumVerificationCycles
    /\ {} \in SUBSET (Legs \X (0 .. MaxLegSamples - 1))
    /\ 1 \in 1 .. MaxLegs
BY ApproachAssumption

\* The supervisor enters APPROACH.
LEMMA StartPreserves ==
    ASSUME RunInv, Start
    PROVE  RunInv'
<1>1. PICK valid \in BOOLEAN, legs \in RouteLegs : Enter(valid, legs)
  BY DEF Start
<1>2. legs \in 1 .. MaxLegs
  BY ApproachRunAssumption
<1>3. dispatched' = "STEPPED" /\ granted' = FALSE /\ result' = "RUNNING"
  BY <1>1 DEF Start, Enter
<1>4. RunTypeOK'
  <2>1. request' \in [valid : BOOLEAN, legs : 1 .. MaxLegs]
    BY <1>1, <1>2 DEF Enter
  <2> QED
    BY <1>1, <1>3, <2>1, InitialValues
    DEF RunTypeOK, Enter, Phases, Results, Errors, Targets, Dispatches
<1>5. PhaseInv'
  BY <1>1, ApproachAssumption
  DEF Enter, PhaseInv, PhaseRuns, CountsWithinLimits, NothingDoneBeforePlan,
      RequestAccepted, RouteHasLegs, LegsPlanned, ValidationReach, RouteIsChecked,
      NothingSentBeforePermission, FollowingReach, VerifyingReach,
      AtRestBeforeRoute, Following, Verifying
<1> QED
  BY <1>3, <1>4, <1>5, RunningProperties DEF RunInv, RouteInv, DispatchedRuns

\* What happens around the state: control messages, pauses and stops.
LEMMA DispatchPreserves ==
    ASSUME RunInv,
           \/ PublishControl \/ PauseRun \/ ResumeRun \/ Interrupt
           \/ UNCHANGED runVars
    PROVE  RunInv'
<1>1. UNCHANGED approachVars
  BY DEF PublishControl, PauseRun, ResumeRun, Interrupt, runVars
<1>2. /\ dispatched' \in Dispatches /\ granted' \in BOOLEAN
      /\ dispatched' # "INACTIVE" => dispatched # "INACTIVE"
  BY DEF PublishControl, PauseRun, ResumeRun, Interrupt, runVars, RunInv, RouteInv,
         RunTypeOK, Dispatches
<1>3. RunTypeOK'
  BY <1>1, <1>2 DEF RunInv, RouteInv, RunTypeOK, approachVars
<1>4. RouteCheckedBeforeMotion' /\ RouteWithoutGaps' /\ CompletionAtTarget'
  BY <1>1
  DEF RunInv, RouteInv, RouteCheckedBeforeMotion, RouteWithoutGaps,
      CompletionAtTarget, RouteSamples, approachVars
<1>5. PhaseInv'
  BY <1>1
  DEF RunInv, RouteInv, approachVars, PhaseInv, PhaseRuns, CountsWithinLimits,
      NothingDoneBeforePlan, RequestAccepted, RouteHasLegs, LegsPlanned, PlannedTo,
      ValidationReach, RouteIsChecked, NothingSentBeforePermission, FollowingReach,
      VerifyingReach, AtRestBeforeRoute, Following, Verifying, Before, RouteSamples
<1> QED
  BY <1>1, <1>2, <1>3, <1>4, <1>5 DEF RunInv, RouteInv, DispatchedRuns, approachVars

\* A step of PAUSE, which holds the approach.
LEMMA PausedStepPreserves ==
    ASSUME RunInv, PausedStep
    PROVE  RunInv'
<1>1. /\ result = "RUNNING" /\ target' = "HELD"
      /\ UNCHANGED <<outcomeVars, request, routeVars, activeLeg, sampleIndex,
                     validationIndex, verificationVars, pausedDuringVerification,
                     historyVars, dispatched, granted>>
  BY DEF PausedStep, RunInv, DispatchedRuns
<1>2. RunTypeOK'
  BY <1>1 DEF RunInv, RouteInv, RunTypeOK, Targets
<1>3. PhaseInv'
  BY <1>1
  DEF RunInv, RouteInv, PhaseInv, PhaseRuns, CountsWithinLimits,
      NothingDoneBeforePlan, RequestAccepted, RouteHasLegs, LegsPlanned, PlannedTo,
      ValidationReach, RouteIsChecked, NothingSentBeforePermission, FollowingReach,
      VerifyingReach, AtRestBeforeRoute, Following, Verifying, Before, RouteSamples
<1> QED
  BY <1>1, <1>2, <1>3, RunningProperties DEF RunInv, RouteInv, DispatchedRuns

\* The invariant holds at the start.
LEMMA RunInvInit ==
    ASSUME RunInit
    PROVE  RunInv
<1>1. RunTypeOK
  <2>1. request \in [valid : BOOLEAN, legs : 1 .. MaxLegs]
    BY InitialValues DEF RunInit, Init
  <2> QED
    BY <2>1, InitialValues
    DEF RunInit, Init, RunTypeOK, Phases, Results, Errors, Targets, Dispatches
<1>2. PhaseInv
  BY ApproachAssumption
  DEF RunInit, Init, PhaseInv, PhaseRuns, CountsWithinLimits, NothingDoneBeforePlan,
      RequestAccepted, RouteHasLegs, LegsPlanned, ValidationReach, RouteIsChecked,
      NothingSentBeforePermission, FollowingReach, VerifyingReach,
      AtRestBeforeRoute, Following, Verifying
<1>3. RouteCheckedBeforeMotion /\ RouteWithoutGaps /\ CompletionAtTarget
  BY DEF RunInit, Init, RouteCheckedBeforeMotion, RouteWithoutGaps,
         CompletionAtTarget
<1> QED
  BY <1>1, <1>2, <1>3 DEF RunInit, RunInv, RouteInv, DispatchedRuns

\* The invariant under any step of the run.
LEMMA RunInvNext ==
    ASSUME RunInv, [RunNext]_runVars
    PROVE  RunInv'
<1>1. CASE Cycle
  <2>1. PICK in \in Inputs :
            \/ StepRuns(in) /\ UNCHANGED dispatched
            \/ StepFails(in) /\ dispatched' = "INACTIVE"
            \/ StepCompletes(in) /\ dispatched' = "INACTIVE"
    BY <1>1 DEF Cycle
  <2>2. UNCHANGED granted
    BY <1>1 DEF Cycle
  <2>3. CASE StepRuns(in) /\ UNCHANGED dispatched
    BY <2>2, <2>3, StepRunsPreserves DEF RunInv, DispatchedRuns
  <2>4. CASE (StepFails(in) \/ StepCompletes(in)) /\ dispatched' = "INACTIVE"
    BY <2>2, <2>4, StepEndsPreserves DEF RunInv, DispatchedRuns
  <2> QED
    BY <2>1, <2>3, <2>4
<1>2. CASE Start
  BY <1>2, StartPreserves
<1>3. CASE PausedStep
  BY <1>3, PausedStepPreserves
<1>4. CASE \/ PublishControl \/ PauseRun \/ ResumeRun \/ Interrupt
           \/ UNCHANGED runVars
  BY <1>4, DispatchPreserves
<1> QED
  BY <1>1, <1>2, <1>3, <1>4 DEF RunNext

\* The route is planned, checked, followed and verified as RunInv says.
THEOREM RunInvariant == RunSpec => []RunInv
<1>1. RunInit => RunInv
  BY RunInvInit
<1>2. RunInv /\ [RunNext]_runVars => RunInv'
  BY RunInvNext
<1> QED
  BY <1>1, <1>2, PTL DEF RunSpec

\* Every field keeps a value of its C type, and every index and counter of
\* state_approach.c its bound.
THEOREM RunTypes == RunSpec => []RunTypeOK
<1>1. RunInv => RunTypeOK
  BY DEF RunInv, RouteInv
<1> QED
  BY <1>1, RunInvariant, PTL

\* The robot moves only along a route whose every sample was checked since it
\* was planned.
THEOREM RouteIsCheckedBeforeMotion == RunSpec => []RouteCheckedBeforeMotion
<1>1. RunInv => RouteCheckedBeforeMotion
  BY DEF RunInv, RouteInv
<1> QED
  BY <1>1, RunInvariant, PTL

\* No sample is left out over the boundaries of the legs and over pauses.
THEOREM RouteHasNoGaps == RunSpec => []RouteWithoutGaps
<1>1. RunInv => RouteWithoutGaps
  BY DEF RunInv, RouteInv
<1> QED
  BY <1>1, RunInvariant, PTL

\* A completed APPROACH sent its whole route, and the drives stand at sample 0
\* of the trajectory.
THEOREM CompletesAtTarget == RunSpec => []CompletionAtTarget
<1>1. RunInv => CompletionAtTarget
  BY DEF RunInv, RouteInv
<1> QED
  BY <1>1, RunInvariant, PTL

\* The first sample of a route is sent to a robot that stands or is held.
THEOREM RouteStartsAtRest == RunSpec => RouteStartsFromRest
<1>1. RunInv /\ [RunNext]_runVars =>
          [sent = {} /\ sent' # {} => target \in {"STANDING", "HELD"}]_runVars
  <2> SUFFICES ASSUME RunInv, RunNext, sent = {}, sent' # {}
               PROVE  target \in {"STANDING", "HELD"}
    OBVIOUS
  <2>1. PICK in \in Inputs : StepRuns(in) \/ StepFails(in) \/ StepCompletes(in)
    BY DEF RunNext, Start, Enter, Cycle, PublishControl, PauseRun, PausedStep,
           ResumeRun, Interrupt, approachVars
  <2>2. result = "RUNNING"
    BY <2>1
    DEF StepRuns, StepFails, StepCompletes, Proceeds, StopInput, AbortOnRequest,
        Requested
  <2> QED
    BY <2>2 DEF RunInv, RouteInv, PhaseInv, AtRestBeforeRoute
<1> QED
  BY <1>1, RunInvariant, PTL DEF RunSpec, RouteStartsFromRest
=============================================================================
