---------------------------- MODULE PowerProfile ----------------------------
(***************************************************************************)
(* Setting an OS power mode: setPlatformPowerMode of power_mode_linux.go   *)
(* (power-profiles-daemon over busctl) and of power_mode_windows.go (one   *)
(* of the two supply modes).  Each call to the platform is a step; several *)
(* handlers and the user act on the same profile, any call may fail, a     *)
(* call reported as failed (a busctl killed after its timeout) may have    *)
(* taken effect, and one that returned no error may have had none.         *)
(***************************************************************************)
EXTENDS Integers, FiniteSets

CONSTANTS
  Platforms,   \* "linux", "windows" or both: one is chosen for a behaviour
  Handlers,    \* connections that set the profile
  Profiles,    \* the modes a command may ask for
  Foreign,     \* a mode the bridge cannot ask for or name
  MaxUserSets, \* bound: changes by the user or the system
  MaxFailures  \* bound: failed platform calls

PowerAssumption ==
  /\ Platforms \subseteq {"linux", "windows"}
  /\ Profiles # {} /\ Foreign \notin Profiles
  /\ MaxUserSets \in Nat /\ MaxFailures \in Nat

VARIABLES
  platform,  \* what the bridge was built for, for good
  profile,   \* the active profile
  pc, target, before,
  reply,     \* the last reply of each handler: "none", "SUCCESS", "ERROR"
  held,      \* history: the target was active at some time since the command began
  userSets, failures

bounds == <<userSets, failures>>
vars == <<platform, profile, pc, target, before, reply, held, bounds>>

Modes == Profiles \cup {Foreign}

Goto(h, label) == pc' = [pc EXCEPT ![h] = label] /\ UNCHANGED reply
Answer(h, status) ==
  /\ pc' = [pc EXCEPT ![h] = "idle"]
  /\ reply' = [reply EXCEPT ![h] = status]

(* A platform call that fails.                                              *)
Failing == failures < MaxFailures /\ failures' = failures + 1 /\ UNCHANGED userSets

(* readLinuxPowerProfile refuses a profile it does not know; the Windows    *)
(* reader names it "unknown" and goes on.                                   *)
Readable == platform = "windows" \/ profile # Foreign

(* The profile is written.                                                  *)
SetTo(p) ==
  /\ profile' = p
  /\ held' = [h \in Handlers |-> held[h] \/ p = target[h]]

Begin(h, t) ==
  /\ pc[h] = "idle"
  /\ target' = [target EXCEPT ![h] = t]
  /\ held' = [held EXCEPT ![h] = profile = t]
  /\ reply' = [reply EXCEPT ![h] = "none"]
  /\ pc' = [pc EXCEPT ![h] = "before"]
  /\ UNCHANGED <<profile, before, bounds>>

(* The profile before the change; on Linux the target may be there already. *)
ReadBefore(h) ==
  /\ pc[h] = "before"
  /\ \/ /\ Readable
        /\ before' = [before EXCEPT ![h] = profile]
        /\ \/ platform = "linux" /\ profile = target[h] /\ Answer(h, "SUCCESS")
           \/ ~(platform = "linux" /\ profile = target[h]) /\ Goto(h, "set")
        /\ UNCHANGED bounds
     \/ /\ ~Readable
        /\ Answer(h, "ERROR")
        /\ UNCHANGED <<before, bounds>>
     \/ /\ Failing
        /\ Answer(h, "ERROR")
        /\ UNCHANGED before
  /\ UNCHANGED <<profile, target, held>>

SetProfile(h) ==
  /\ pc[h] = "set"
  /\ \/ SetTo(target[h]) /\ Goto(h, "readback") /\ UNCHANGED bounds
     \/ Goto(h, "readback") /\ Failing /\ UNCHANGED <<profile, held>>
     \/ SetTo(target[h]) /\ Answer(h, "ERROR") /\ Failing
     \/ Answer(h, "ERROR") /\ Failing /\ UNCHANGED <<profile, held>>
  /\ UNCHANGED <<target, before>>

(* Mutant: a call that returned no error counts as confirmation.            *)
ConfirmedAnyway(h) == TRUE

(* The value read back is the one asked for.                                *)
Confirmed(h) == Readable /\ profile = target[h]

ReadBack(h) ==
  /\ pc[h] = "readback"
  /\ \/ Confirmed(h) /\ Answer(h, "SUCCESS") /\ UNCHANGED bounds
     \/ ~Confirmed(h) /\ Goto(h, "current") /\ UNCHANGED bounds
     \/ Goto(h, "current") /\ Failing
  /\ UNCHANGED <<profile, target, before, held>>

(* Linux looks once more and rolls back only what is still its own value;   *)
(* Windows rolls back whenever it can name the mode it found.               *)
RollsBack(h) == IF platform = "linux" THEN profile = target[h] ELSE before[h] # Foreign

ReadCurrent(h) ==
  /\ pc[h] = "current"
  /\ \/ RollsBack(h) /\ Goto(h, "rollback") /\ UNCHANGED bounds
     \/ ~RollsBack(h) /\ Answer(h, "ERROR") /\ UNCHANGED bounds
     \/ platform = "linux" /\ Answer(h, "ERROR") /\ Failing
  /\ UNCHANGED <<profile, target, before, held>>

(* The rollback is attempted; its outcome is not looked at.                 *)
Rollback(h) ==
  /\ pc[h] = "rollback"
  /\ \/ SetTo(before[h]) /\ UNCHANGED bounds
     \/ UNCHANGED <<profile, held>> /\ Failing
  /\ Answer(h, "ERROR")
  /\ UNCHANGED <<target, before>>

(* Another actor sets the profile.                                          *)
UserSets(p) ==
  /\ userSets < MaxUserSets
  /\ userSets' = userSets + 1
  /\ SetTo(p)
  /\ UNCHANGED <<pc, target, before, reply, failures>>

-----------------------------------------------------------------------------

NoProfile == CHOOSE p \in Profiles : TRUE

Init ==
  /\ platform \in Platforms
  /\ profile \in Modes
  /\ pc = [h \in Handlers |-> "idle"]
  /\ target = [h \in Handlers |-> NoProfile]
  /\ before = [h \in Handlers |-> NoProfile]
  /\ reply = [h \in Handlers |-> "none"]
  /\ held = [h \in Handlers |-> FALSE]
  /\ userSets = 0 /\ failures = 0

Step(h) ==
  ReadBefore(h) \/ SetProfile(h) \/ ReadBack(h) \/ ReadCurrent(h) \/ Rollback(h)

Next ==
  /\ \/ \E h \in Handlers, t \in Profiles : Begin(h, t)
     \/ \E h \in Handlers : Step(h)
     \/ \E p \in Modes : UserSets(p)
  /\ UNCHANGED platform

Spec == Init /\ [][Next]_vars

-----------------------------------------------------------------------------
(* Properties *)

(* Every variable keeps its type; on Linux a rollback never goes to a mode  *)
(* the bridge does not know.                                                *)
TypeOK ==
  /\ platform \in Platforms
  /\ profile \in Modes
  /\ pc \in [Handlers -> {"idle", "before", "set", "readback", "current", "rollback"}]
  /\ target \in [Handlers -> Profiles]
  /\ before \in [Handlers -> IF platform = "linux" THEN Profiles ELSE Modes]
  /\ reply \in [Handlers -> {"none", "SUCCESS", "ERROR"}]
  /\ held \in [Handlers -> BOOLEAN]
  /\ userSets \in 0..MaxUserSets /\ failures \in 0..MaxFailures

(* The operation never reports success for a change that did not happen:    *)
(* whatever the other handlers, the user and failing calls do, SUCCESS      *)
(* means that the target was the active profile during the command.         *)
SuccessWasTrue == \A h \in Handlers : reply[h] = "SUCCESS" => held[h]
=============================================================================
