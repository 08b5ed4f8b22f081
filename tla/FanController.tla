--------------------------- MODULE FanController ---------------------------
(***************************************************************************)
(* The controller between a temperature and the commands of one fan        *)
(* channel (FanCurveController and resolveAutomaticFanTarget of            *)
(* gui_dashboard/lib/fan_curve.dart, HardwareAutomationEngine of           *)
(* automation_rules.dart): smoothing, hysteresis, least change, and rules  *)
(* that may raise the target. Polls are further apart than the least       *)
(* interval between commands, so that test never holds a target back.      *)
(***************************************************************************)
EXTENDS CurvePoints

CONSTANTS
  Curve,       \* the channel's curve, normalised
  Rules,       \* enabled automation rules: threshold in degrees, fan in percent
  Readings,    \* temperatures below the critical one; 0 is no reading
  MaxChanges,  \* bound: changes of the temperature
  MaxFailures  \* bound: commands that fail

(* What the constants must be.                                              *)
ControllerAssumption ==
  /\ Curve # <<>> /\ Curve = Normalized(Curve)
  /\ Readings \subseteq 0..94
  /\ Rules \subseteq [threshold : 20..110, fan : 0..100]
  /\ MaxChanges \in Nat /\ MaxFailures \in Nat

SmoothingSamples == 3
HysteresisCelsius == 2 * Sixths
MinimumChange == 300
None == -1

VARIABLES
  temp,      \* the sensor
  window,    \* _temperatures
  target,    \* _lastTarget, None after a reset
  accepted,  \* _lastAcceptedTemperature
  fan,       \* what the channel is set to, in hundredths of a percent
  used       \* changes and failures so far

vars == <<temp, window, target, accepted, fan, used>>

Distance(a, b) == IF a < b THEN b - a ELSE a - b
Smoothed(w) ==
  LET sum[i \in 0..Len(w)] == IF i = 0 THEN 0 ELSE sum[i - 1] + w[i]
  IN (Sixths * sum[Len(w)]) \div Len(w)

-----------------------------------------------------------------------------

(* HardwareAutomationEngine.evaluate: of the rules whose threshold is       *)
(* reached the one with the highest.                                        *)
RuleTarget(t) ==
  LET reached == {r \in Rules : t >= r.threshold} IN
    IF reached = {} THEN None
    ELSE 100 * (CHOOSE r \in reached : \A q \in reached : q.threshold <= r.threshold).fan

(* resolveAutomaticFanTarget, and the clamping of its caller.               *)
Resolved(curveTarget, ruleTarget, current) ==
  CASE curveTarget # None -> Larger(curveTarget, ruleTarget)
    [] curveTarget = None /\ ruleTarget # None /\ ruleTarget >= current -> Larger(2000, ruleTarget)
    [] OTHER -> None

(* Mutant: every reading counts as accepted.                                *)
NextTargetCreeps(w) ==
  LET s == Smoothed(w)
      t == Evaluate(Curve, s)
  IN [changes |-> /\ accepted = None \/ Distance(s, accepted) >= HysteresisCelsius
                  /\ target = None \/ Distance(t, target) >= MinimumChange,
      target |-> t, accepted |-> s, kept |-> s]

(* nextTarget with a valid reading: whether there is a new target, and what *)
(* the controller then remembers.                                           *)
NextTarget(w) ==
  LET s == Smoothed(w)
      t == Evaluate(Curve, s)
  IN [changes |-> /\ accepted = None \/ Distance(s, accepted) >= HysteresisCelsius
                  /\ target = None \/ Distance(t, target) >= MinimumChange,
      target |-> t, accepted |-> s, kept |-> accepted]

(* The channel is told, or the command fails; nobody takes note of that.    *)
Command(value) ==
  \/ value # None /\ fan' = value /\ UNCHANGED used
  \/ value = None /\ UNCHANGED <<fan, used>>
  \/ /\ value # None
     /\ used.failures < MaxFailures
     /\ used' = [used EXCEPT !.failures = @ + 1]
     /\ UNCHANGED fan

(* A poll finds no usable reading: reset, and only a rule could ask, which  *)
(* needs a reading too.                                                     *)
PollBlind ==
  /\ temp = 0
  /\ window' = <<>> /\ target' = None /\ accepted' = None
  /\ UNCHANGED <<temp, fan, used>>

PollReading ==
  /\ temp # 0
  /\ LET all == Append(window, temp)
         w == IF Len(all) > SmoothingSamples THEN Tail(all) ELSE all
         next == NextTarget(w)
     IN /\ window' = w
        /\ IF next.changes
           THEN target' = next.target /\ accepted' = next.accepted
           ELSE accepted' = next.kept /\ UNCHANGED target
        /\ Command(Resolved(IF next.changes THEN next.target ELSE None, RuleTarget(temp), fan))
  /\ UNCHANGED temp

TemperatureChanges(reading) ==
  /\ reading # temp
  /\ used.changes < MaxChanges
  /\ temp' = reading
  /\ used' = [used EXCEPT !.changes = @ + 1]
  /\ UNCHANGED <<window, target, accepted, fan>>

Init ==
  /\ temp \in Readings
  /\ window = <<>> /\ target = None /\ accepted = None
  /\ fan = 2000
  /\ used = [changes |-> 0, failures |-> 0]

Poll == PollBlind \/ PollReading

Next == Poll \/ \E reading \in Readings : TemperatureChanges(reading)

Spec == Init /\ [][Next]_vars

(* The dashboard polls every five seconds.                                  *)
FairSpec == Spec /\ WF_vars(Poll)

-----------------------------------------------------------------------------
(* Properties *)

(* The fan is where the curve has it for a temperature less than the        *)
(* hysteresis below, or short of it by less than the least change.          *)
Answered ==
  \/ fan >= Evaluate(Curve, Sixths * temp - HysteresisCelsius + 1)
  \/ fan > Evaluate(Curve, Sixths * temp) - MinimumChange

(* "without delaying an upward safety response indefinitely": however       *)
(* slowly or often the temperature moved before it stays (its changes are   *)
(* bounded), the fan gets to what the curve asks there, within the          *)
(* hysteresis and the least change, and remains. A command that fails is    *)
(* the exception: its target counts as given, and at a steady temperature   *)
(* nothing repeats it.                                                      *)
RiseIsAnswered == <>[](temp = 0 \/ Answered \/ used.failures > 0)
=============================================================================
