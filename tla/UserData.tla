------------------------------ MODULE UserData ------------------------------
(***************************************************************************)
(* Fan curves and the file that keeps the settings: the editor with what   *)
(* it loads (FanCurve), the controller that follows a fixed curve          *)
(* (FanController), and the saves, crashes and starts of one settings file *)
(* (UserDataStore). They share operators and no state, so a behaviour      *)
(* exercises one of them and the others are at rest.                       *)
(***************************************************************************)
EXTENDS UserDataStore, CurvePoints

CONSTANTS Degrees, Percents, MaxStored, MaxEdits, Readings, MaxChanges, MaxFailures

VARIABLES
  part,
  stored, curve, points, edits,                         \* FanCurve
  temp, window, target, accepted, fan, happened         \* FanController

Curve == Balanced
Rules == {[threshold |-> 88, fan |-> 95]}

Editor == INSTANCE FanCurve
Controller == INSTANCE FanController WITH used <- happened

ASSUME UserDataAssumption == Editor!CurveAssumption /\ Controller!ControllerAssumption

editor == <<stored, curve, points, edits>>
controller == <<temp, window, target, accepted, fan, happened>>
all == <<part, vars, editor, controller>>

(* An editor at rest has found an empty file and is closed.                 *)
EditorRests == stored = <<>> /\ curve = Balanced /\ points = <<>> /\ edits = 0

(* A controller at rest has no sensor and has not commanded anything.       *)
ControllerRests == Controller!Init /\ temp = 0

(* A store at rest is about to read one whole file.                         *)
StoreRests ==
  /\ Init
  /\ dir["target"] = 1 /\ dir["legacy"] = Absent
  /\ content = [i \in Inodes |-> IF i = 1 THEN CHOOSE v \in Values : TRUE ELSE Torn]

UserDataInit ==
  \/ part = "editor" /\ Editor!Init /\ ControllerRests /\ StoreRests
  \/ part = "controller" /\ EditorRests /\ Controller!Init /\ StoreRests
  \/ part = "store" /\ EditorRests /\ ControllerRests /\ Init

UserDataNext ==
  \/ part = "editor" /\ Editor!Next /\ UNCHANGED <<part, vars, controller>>
  \/ part = "controller" /\ Controller!Next /\ UNCHANGED <<part, vars, editor>>
  \/ part = "store" /\ Next /\ UNCHANGED <<part, editor, controller>>

(* The dashboard polls every five seconds.                                  *)
Poll == part = "controller" /\ Controller!Poll /\ UNCHANGED <<part, vars, editor>>

UserDataSpec == UserDataInit /\ [][UserDataNext]_all
UserDataFairSpec == UserDataSpec /\ WF_all(Poll)

-----------------------------------------------------------------------------

(* The curve in use and the editor's list are safe whatever the settings    *)
(* file held and whatever the user did (FanCurve).                          *)
CurveSafe == part = "editor" => Editor!CurveSafe

(* safetyNormalizedPoints computes the reference definition (FanCurve).     *)
NormalizedAsIntended == part = "editor" => Editor!NormalizedAsIntended

(* Once the temperature stays, the fan gets to what the curve asks there,   *)
(* unless a command failed (FanController).                                 *)
RiseIsAnswered == Controller!RiseIsAnswered
=============================================================================
