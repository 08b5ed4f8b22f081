----------------------------- MODULE Assessment -----------------------------
(***************************************************************************)
(* The condition index of a device (bridge_service/healthycore/            *)
(* assessment.go) as a function of the evidence, and evidence that gets    *)
(* worse step by step. Counts are as wide as the build's int.              *)
(***************************************************************************)
EXTENDS Integers

CONSTANTS
  Temperatures,  \* maximum temperatures that are observed
  Limit,         \* the thermal limit of the device
  Counts,        \* errors, throttling events and samples that may be reported
  Vendors,       \* vendor health percentages
  MaxInt         \* bound: the largest int

AssessmentAssumption ==
  /\ Temperatures \subseteq Int /\ Vendors \subseteq 0..100
  /\ Limit \in 1..200 /\ MaxInt \in Nat /\ Counts \subseteq 0..MaxInt

Devices == {"cpu", "gpu", "ram"}
Missing == -100  \* a pointer that is nil

VARIABLE evidence  \* [device, samples, temperature, throttles, errors, vendor]

vars == <<evidence>>

Evidence ==
  [device : Devices, samples : Counts, temperature : Temperatures \cup {Missing},
   throttles : Counts, errors : Counts, vendor : Vendors \cup {Missing}]

(* Multiplication as the processor does it.                                 *)
Times(a, b) ==
  LET span == 2 * (MaxInt + 1) IN ((a * b + MaxInt + 1) % span) - (MaxInt + 1)

-----------------------------------------------------------------------------
(* Evaluate *)

Lower(a, b) == IF a < b THEN a ELSE b

Valid(e) ==
  e.temperature # Missing =>
    /\ e.temperature \in -20..200
    /\ e.device # "ram"
    /\ e.temperature <= Limit + 15

Thermal(e) == e.device # "ram" /\ e.temperature # Missing /\ e.samples > 0

Unfounded(e) ==
  ~Thermal(e) /\ e.vendor = Missing /\ e.errors = 0 /\ e.throttles = 0

TemperaturePenalty(e) ==
  IF ~Thermal(e) THEN 0
  ELSE IF e.temperature >= Limit THEN 35
  ELSE IF 100 * e.temperature >= 95 * Limit THEN 25
  ELSE IF 100 * e.temperature >= 85 * Limit THEN 12 ELSE 0

ThrottlePenalty(e) ==
  IF e.device = "ram" THEN 0 ELSE Lower(Times(e.throttles, 5), 20)

ErrorPenalty(e) == Lower(Times(e.errors, IF e.device = "ram" THEN 20 ELSE 10), 30)

Score(e) ==
  LET observed == 100 - TemperaturePenalty(e) - ThrottlePenalty(e) - ErrorPenalty(e)
      score == IF e.vendor = Missing THEN observed ELSE (observed + e.vendor) \div 2
  IN IF score < 0 THEN 0 ELSE Lower(score, 100)

(* Mutant: throttling that a memory module cannot show counts as evidence.  *)
AnyEvidence(e) == FALSE

(* Neither an error nor a vendor's report: utilisation is not health.       *)
RAMUnfounded(e) == e.device = "ram" /\ e.errors = 0 /\ e.vendor = Missing

ConditionIndex(e) == IF Unfounded(e) \/ RAMUnfounded(e) THEN Missing ELSE Score(e)

-----------------------------------------------------------------------------
(* The device *)

Init == evidence \in {e \in Evidence : Valid(e)}

(* New evidence: as much or more of what is counted, a maximum as high or   *)
(* higher.                                                                  *)
Worsens(field, values) ==
  /\ \E v \in values : v >= evidence[field] /\ evidence' = [evidence EXCEPT ![field] = v]
  /\ evidence[field] # Missing
  /\ Valid(evidence')

Next ==
  \/ Worsens("errors", Counts)
  \/ Worsens("throttles", Counts)
  \/ Worsens("temperature", Temperatures)

Spec == Init /\ [][Next]_vars

-----------------------------------------------------------------------------
(* Properties *)

(* Counts for which no penalty overflows.                                   *)
InRange(e) == 20 * e.errors <= MaxInt /\ 5 * e.throttles <= MaxInt

(* What gives an index is a measurement of this kind of device.             *)
Founded ==
  ConditionIndex(evidence) # Missing =>
    \/ evidence.vendor # Missing \/ evidence.errors > 0
    \/ Thermal(evidence)
    \/ evidence.device # "ram" /\ evidence.throttles > 0

NoImprovement ==
  InRange(evidence') =>
    \/ ConditionIndex(evidence) = Missing
    \/ ConditionIndex(evidence') <= ConditionIndex(evidence)

(* Trouble never improves the index, and there is none without evidence:    *)
(* "No usable evidence returns condition_index: null ..., never a           *)
(* fabricated 100/100" (docs/wiki/Features-Healthy-Core.md). Counts beyond  *)
(* the build's largest int divided by 20 are left out: there the penalty    *)
(* wraps around.                                                            *)
IndexIsHonest == []Founded /\ [][NoImprovement]_vars
=============================================================================
