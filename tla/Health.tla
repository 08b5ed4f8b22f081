------------------------------- MODULE Health -------------------------------
(***************************************************************************)
(* What "Get Health" says of the machine (bridge_service/src/health.go)    *)
(* and what the gate of the fan commands makes of the same machine         *)
(* (main.go). Each collects its own metrics, and the two collectors choose *)
(* differently among several sensors. Temperatures are in degrees; the     *)
(* inputs are what the Linux bridge can read.                              *)
(***************************************************************************)
EXTENDS Integers, Sequences, FiniteSetsExt

CONSTANTS
  Readings,    \* what a sensor may show
  MaxSensors,  \* bound: host sensors
  Fans         \* PWM channels

HealthAssumption == Readings \subseteq Int /\ MaxSensors \in Nat

FanKinds == {"unsupported", "spinning", "stalled", "stopped", "noRPM", "noPercent"}
Kinds == {"cpu", "gpu"}  \* by the name of the host sensor

VARIABLES
  host,       \* the host sensors [kind, temperature] in the order they are listed
  vendor,     \* what nvidia-smi or amdgpu shows
  late,       \* nvidia-smi answers after the gate's deadline and before the other
  fan,        \* what is known of each channel
  integrity,  \* bridgeIntegrityHealthy()
  minor       \* a worn battery, a full volume or an invalid utilisation

vars == <<host, vendor, late, fan, integrity, minor>>

thermalWarningTemperature == 85
thermalCriticalTemperature == 95
isValidTemperature(t) == -20 <= t /\ t <= 125
Usable(t) == isValidTemperature(t) /\ t > 0
None == 0

-----------------------------------------------------------------------------
(* The two collectors *)

Matching(kind) == {i \in DOMAIN host : host[i].kind = kind}

(* The loop ends at the first sensor that matches, usable or not.           *)
First(kind) ==
  LET first == host[Min(Matching(kind))].temperature
  IN IF Matching(kind) # {} /\ Usable(first) THEN first ELSE None

(* The loop goes on; every usable one overwrites the one before.            *)
Last(kind) ==
  LET usable == {i \in Matching(kind) : Usable(host[i].temperature)}
  IN IF usable = {} THEN None ELSE host[Max(usable)].temperature

Controllable == {f \in Fans : fan[f] # "unsupported"}

Metrics(cpu, gpu) ==
  [cpu |-> cpu, gpu |-> gpu, thermal |-> Usable(cpu) \/ Usable(gpu), channels |-> Controllable]

collectMetrics == Metrics(First("cpu"), IF Usable(vendor) THEN vendor ELSE None)

(* Mutant: the host sensors' value stays although the vendor's tool answers.*)
SafetyMetricsHostFirst ==
  LET gpu == Last("gpu")
  IN Metrics(Last("cpu"),
             IF gpu # None THEN gpu ELSE IF Usable(vendor) /\ ~late THEN vendor ELSE None)

collectHardwareControlSafetyMetrics ==
  Metrics(Last("cpu"),
          IF Usable(vendor) /\ ~late THEN vendor ELSE Last("gpu"))

-----------------------------------------------------------------------------
(* The gate: validateFanChannelControlRequest *)

validateThermalTelemetry(m) ==
  m.thermal /\ \A t \in {m.cpu, m.gpu} : t # None => isValidTemperature(t)

hasCriticalThermalState(m) == m.cpu >= thermalCriticalTemperature \/ m.gpu >= thermalCriticalTemperature

GateAllows(f, percent) ==
  LET m == collectHardwareControlSafetyMetrics IN
    /\ validateThermalTelemetry(m)
    /\ f \in m.channels
    /\ hasCriticalThermalState(m) => percent >= 100

-----------------------------------------------------------------------------
(* evaluateHardwareHealth *)

(* What is said of a controllable channel under thermal load; one that was  *)
(* commanded to stop may stand still. A fan the Linux bridge can control is *)
(* always a channel, so the check without channels never applies.           *)
FanSeverity(kind) ==
  CASE kind \in {"noRPM", "noPercent"} -> {"warning"}
    [] kind = "stalled" -> {"critical"}
    [] OTHER -> {}

Overtemperature(m) == \E t \in {m.cpu, m.gpu} : t >= thermalCriticalTemperature

Severities(m) ==
  LET hot == \E t \in {m.cpu, m.gpu} : t >= thermalWarningTemperature
      invalid == \E t \in {m.cpu, m.gpu} : t > 0 /\ ~isValidTemperature(t)
  IN (IF invalid \/ Overtemperature(m) THEN {"critical"} ELSE {})
     \cup (IF hot /\ ~Overtemperature(m) THEN {"warning"} ELSE {})
     \cup (IF hot THEN UNION {FanSeverity(fan[f]) : f \in m.channels} ELSE {})
     \cup (IF ~m.thermal \/ minor THEN {"warning"} ELSE {})

SafetyState(m) ==
  IF ~integrity THEN "FAIL_SAFE"
  ELSE IF "critical" \in Severities(m) THEN "CRITICAL"
  ELSE IF "warning" \in Severities(m) THEN "WARNING" ELSE "SAFE"

hasValidCriticalTemperature(m) ==
  \E t \in {m.cpu, m.gpu} : Usable(t) /\ t >= thermalCriticalTemperature

RecoveryAction(m) ==
  CASE SafetyState(m) = "FAIL_SAFE" -> "repair"
    [] SafetyState(m) = "CRITICAL" ->
         IF hasValidCriticalTemperature(m) /\ m.thermal /\ m.channels # {}
         THEN "emergency-cooling" ELSE "stop-hardware-control"
    [] SafetyState(m) = "WARNING" -> "monitor"
    [] OTHER -> "none"

-----------------------------------------------------------------------------
(* The machine *)

HostSensors == [kind : Kinds, temperature : Readings]

Init ==
  /\ host \in UNION {[1..n -> HostSensors] : n \in 0..MaxSensors}
  /\ vendor \in Readings
  /\ late = FALSE /\ integrity = TRUE /\ minor = FALSE
  /\ fan = [f \in Fans |-> "unsupported"]

HeatChanges ==
  /\ \/ /\ \E i \in DOMAIN host, t \in Readings : host' = [host EXCEPT ![i].temperature = t]
        /\ UNCHANGED <<vendor, late>>
     \/ vendor' \in Readings /\ UNCHANGED <<host, late>>
     \/ late' = ~late /\ UNCHANGED <<host, vendor>>
  /\ UNCHANGED <<fan, integrity, minor>>

FanChanges ==
  /\ \E f \in Fans, kind \in FanKinds : fan' = [fan EXCEPT ![f] = kind]
  /\ UNCHANGED <<host, vendor, late, integrity, minor>>

ConditionChanges ==
  /\ integrity' \in {FALSE, integrity}
  /\ minor' \in BOOLEAN
  /\ UNCHANGED <<host, vendor, late, fan>>

Next == HeatChanges \/ FanChanges \/ ConditionChanges

Spec == Init /\ [][Next]_vars

-----------------------------------------------------------------------------
(* Properties *)

(* With one processor sensor, a graphics processor that its vendor's tool   *)
(* reads in time and no other, the report and the gate speak of the same    *)
(* machine: targets below full speed are refused exactly when the report    *)
(* shows a critical temperature or none at all, and cooling is advised only *)
(* where the gate lets the command through.                                 *)
HealthAgreesWithGate ==
  Cardinality(Matching("cpu")) <= 1 /\ (Matching("gpu") = {} \/ Usable(vendor)) /\ ~late =>
    \A f \in Controllable :
      /\ ~GateAllows(f, 99) <=> Overtemperature(collectMetrics) \/ ~collectMetrics.thermal
      /\ RecoveryAction(collectMetrics) = "emergency-cooling" => GateAllows(f, 100)

(* "thermal critical: permit only a validated 100% emergency fan target     *)
(* ...; reject lower fan targets" (docs/wiki/Features-Health-Diagnostics.md)*)
(* on any machine: while the report advises emergency cooling the gate lets *)
(* no lower target through.                                                 *)
CriticalRefusesLower ==
  RecoveryAction(collectMetrics) = "emergency-cooling" =>
    \A f \in Fans : ~GateAllows(f, 99)
=============================================================================
