----------------------------- MODULE Hardware -----------------------------
(***************************************************************************)
(* What the bridge does to the hardware and says of it: fan commands       *)
(* (FanSafety), power modes (PowerProfile), the health report (Health) and *)
(* the condition index (Assessment). They share no state, so a behaviour   *)
(* exercises one of them and the others are at rest.                       *)
(***************************************************************************)
EXTENDS FanSafety

CONSTANTS
  Platforms, Setters, Profiles, Foreign, MaxUserSets, MaxFailures,  \* PowerProfile
  Readings, MaxSensors, Outputs,                                    \* Health
  Degrees, Limit, Counts, Vendors, MaxInt                           \* Assessment

(* One sensor for each source.                                              *)
OneEach == [s \in Sources |-> <<s>>]

VARIABLES
  part,
  platform, profile, powerPc, target, before, reply, held, userSets, failures,  \* PowerProfile
  host, vendor, late, fan, integrity, minor,                                    \* Health
  evidence                                                                      \* Assessment

Power == INSTANCE PowerProfile WITH pc <- powerPc, Handlers <- Setters
Report == INSTANCE Health WITH Fans <- Outputs
Index == INSTANCE Assessment WITH Temperatures <- Degrees

ASSUME HardwareAssumption ==
  Power!PowerAssumption /\ Report!HealthAssumption /\ Index!AssessmentAssumption

power == <<platform, profile, powerPc, target, before, reply, held, userSets, failures>>
report == <<host, vendor, late, fan, integrity, minor>>
all == <<part, vars, power, report, evidence>>

FansRest ==
  Init /\ temp = [s \in Sensors |-> "absent"] /\ mode = [f \in Fans |-> "gone"]
PowerRests ==
  Power!Init /\ platform = (CHOOSE p \in Platforms : TRUE) /\ profile = (CHOOSE p \in Profiles : TRUE)
ReportRests == Report!Init /\ host = <<>> /\ vendor = (CHOOSE t \in Readings : TRUE)
IndexRests ==
  evidence = [device |-> "cpu", samples |-> 0, temperature |-> Index!Missing,
              throttles |-> 0, errors |-> 0, vendor |-> Index!Missing]

HardwareInit ==
  \/ part = "fans" /\ Init /\ PowerRests /\ ReportRests /\ IndexRests
  \/ part = "power" /\ FansRest /\ Power!Init /\ ReportRests /\ IndexRests
  \/ part = "report" /\ FansRest /\ PowerRests /\ Report!Init /\ IndexRests
  \/ part = "index" /\ FansRest /\ PowerRests /\ ReportRests /\ Index!Init

HardwareNext ==
  \/ part = "fans" /\ Next /\ UNCHANGED <<part, power, report, evidence>>
  \/ part = "power" /\ Power!Next /\ UNCHANGED <<part, vars, report, evidence>>
  \/ part = "report" /\ Report!Next /\ UNCHANGED <<part, vars, power, evidence>>
  \/ part = "index" /\ Index!Next /\ UNCHANGED <<part, vars, power, report>>

HardwareSpec == HardwareInit /\ [][HardwareNext]_all

-----------------------------------------------------------------------------

(* A mode is reported as set only if it was (PowerProfile).                 *)
SuccessWasTrue == part = "power" => Power!SuccessWasTrue

(* The health report and the gate of the fan commands agree (Health).       *)
HealthAgreesWithGate == part = "report" => Report!HealthAgreesWithGate

(* Trouble never improves the condition index (Assessment).                 *)
IndexIsHonest ==
  /\ [](part = "index" => Index!Founded)
  /\ [][part = "index" => Index!NoImprovement]_all
=============================================================================
