------------------------------ MODULE FanCurve ------------------------------
(***************************************************************************)
(* The ways a fan curve comes into use in the dashboard                    *)
(* (gui_dashboard/lib/fan_curve.dart, main.dart): the settings file, which *)
(* may hold anything, the editor and the presets. How the file is written  *)
(* is the subject of UserDataStore.                                        *)
(***************************************************************************)
EXTENDS CurvePoints

CONSTANTS
  Degrees,    \* temperatures the user or the file may give
  Percents,   \* fan values the user or the file may give
  MaxStored,  \* bound: points of the list the first start finds
  MaxEdits    \* bound: edits of the user

(* What the constants must be.                                              *)
CurveAssumption ==
  Degrees \subseteq Nat /\ Percents \subseteq Nat /\ MaxStored \in Nat /\ MaxEdits \in Nat

VARIABLES
  stored,   \* the list in the settings file
  curve,    \* _fanCurve
  points,   \* _points of the open editor, empty while it is closed
  edits     \* edits so far

vars == <<stored, curve, points, edits>>

-----------------------------------------------------------------------------
(* Settings file and editor *)

AnyPoint == [t : Degrees, f : Percents]

(* _loadFanCurve, at every start of the dashboard.                          *)
LoadFanCurve ==
  /\ curve' = FromJson(stored)
  /\ points' = <<>>
  /\ UNCHANGED <<stored, edits>>

(* _applyFanChannelPreset, not while the modal editor is open.              *)
ApplyPreset(key) ==
  /\ points = <<>>
  /\ curve' = Normalized(FanCurvePreset[key])
  /\ stored' = Normalized(curve')
  /\ UNCHANGED <<points, edits>>

OpenEditor ==
  /\ points = <<>>
  /\ points' = Normalized(curve)
  /\ UNCHANGED <<stored, curve, edits>>

Edited(list) ==
  /\ points # <<>> /\ edits < MaxEdits
  /\ points' = list
  /\ edits' = edits + 1
  /\ UNCHANGED <<stored, curve>>

EditPointTemperature(i, t) == Edited(Normalized([points EXCEPT ![i].t = Clamp(t, 20, 110)]))

AddPoint(p) == Edited(Normalized(Append(points, Clamped(p))))

MoveSlider(i, f) == Edited(Normalized([points EXCEPT ![i].f = Clamp(f, 20, 100)]))

DeletePoint(i) == Len(points) > 2 /\ Edited(RemoveAt(points, i))

ResetBalanced == Edited(Balanced)

Cancel ==
  /\ points # <<>>
  /\ points' = <<>>
  /\ UNCHANGED <<stored, curve, edits>>

(* Mutant: the button is enabled for any list.                              *)
SaveAny ==
  /\ points # <<>>
  /\ curve' = Normalized(points)
  /\ stored' = Normalized(curve')
  /\ points' = <<>>
  /\ UNCHANGED edits

(* The button is disabled for fewer than two points; the curve is put to    *)
(* use and written to the file.                                             *)
Save ==
  /\ Len(points) >= 2
  /\ curve' = Normalized(points)
  /\ stored' = Normalized(curve')
  /\ points' = <<>>
  /\ UNCHANGED edits

-----------------------------------------------------------------------------

(* The dashboard has started on a file that may have been written by        *)
(* another version or by hand.                                              *)
Init ==
  /\ stored \in BoundedSeq(AnyPoint, MaxStored)
  /\ curve = FromJson(stored)
  /\ points = <<>>
  /\ edits = 0

Next ==
  \/ LoadFanCurve
  \/ \E key \in DOMAIN FanCurvePreset : ApplyPreset(key)
  \/ OpenEditor
  \/ \E i \in DOMAIN points, t \in Degrees : EditPointTemperature(i, t)
  \/ \E p \in AnyPoint : AddPoint(p)
  \/ \E i \in DOMAIN points, f \in Percents : MoveSlider(i, f)
  \/ \E i \in DOMAIN points : DeletePoint(i)
  \/ ResetBalanced
  \/ Cancel
  \/ Save

Spec == Init /\ [][Next]_vars

-----------------------------------------------------------------------------
(* Properties *)

(* The curve in use and the editor's list are safe whatever the file held   *)
(* and however the points were moved onto and past each other: temperatures *)
(* strictly rising from 20 to 110, fan values from 20 to 100 and never      *)
(* falling, two points at least in the curve; and its demand, around every  *)
(* point and between them, stays within 20 to 100 percent and does not fall *)
(* from one sixth of a degree to the next.                                  *)
Safe(c) ==
  /\ \A i \in DOMAIN c : c[i].t \in 20..110 /\ c[i].f \in 20..100
  /\ \A i, j \in DOMAIN c : i < j => c[i].t < c[j].t /\ c[i].f <= c[j].f
Probes == {Sixths * t + d : t \in {curve[i].t : i \in DOMAIN curve}, d \in {-7, -1, 0, 1, 7}}
DemandNeverFalls ==
  LET c == Normalized(curve) IN
    \A t \in Probes :
      /\ Evaluate(c, t) \in 2000..10000
      /\ Evaluate(c, t) <= Evaluate(c, t + 1)
CurveSafe == Safe(curve) /\ Safe(points) /\ Len(curve) >= 2 /\ DemandNeverFalls

(* What normalisation is to compute, stated without its loop: at every      *)
(* temperature that occurs, the most that any point up to it asks for.      *)
MaxUpTo(list, t) ==
  Max({20} \union {Clamped(list[i]).f : i \in {j \in DOMAIN list : Clamped(list[j]).t <= t}})
NormalForm(list) ==
  {[t |-> d, f |-> MaxUpTo(list, d)] : d \in {Clamped(list[i]).t : i \in DOMAIN list}}
NormalizedAsIntended ==
  Safe(Normalized(stored)) /\ ToSet(Normalized(stored)) = NormalForm(stored)
=============================================================================
