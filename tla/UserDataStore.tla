--------------------------- MODULE UserDataStore ---------------------------
(***************************************************************************)
(* One settings file of the dashboard (gui_dashboard/lib/                  *)
(* user_data_store.dart) and the saves and the start that use it. Every    *)
(* awaited file operation is a step: between two of them other futures     *)
(* run, the process may die, and any of them may fail. Files are inodes,   *)
(* so that a file renamed while another save is writing to it is seen; a   *)
(* rename replaces its target, as on Linux and macOS.                      *)
(***************************************************************************)
EXTENDS Naturals, FiniteSets, Functions

CONSTANTS
  Savers,     \* saves that may be under way at once
  Values,     \* settings the user may choose
  Default,    \* what the program uses when it can read nothing
  MaxSaves,   \* bound: saves
  MaxFaults,  \* bound: file operations that fail
  MaxCrashes, \* bound: crashes
  MaxEvents   \* bound: these together

Startup == "startup"
Procs == Savers \union {Startup}
Names == {"target", "temporary", "backup", "legacy"}
Absent == 0
Inodes == 1..(Cardinality(Names) + Cardinality(Procs))
Torn == "torn"

ASSUME StoreAssumption ==
  /\ IsFiniteSet(Savers) /\ Startup \notin Savers
  /\ Default \notin Values /\ Torn \notin Values
  /\ MaxSaves \in Nat /\ MaxFaults \in Nat /\ MaxCrashes \in Nat /\ MaxEvents \in Nat

VARIABLES
  dir,      \* the file each name stands for
  content,  \* what each file holds
  pc,       \* the next operation of each save and of the start
  saving,   \* the value a save is to write
  handle,   \* the file a save has open
  settings, \* the settings in memory
  result,   \* what the last save to end reported
  used,     \* saves, faults and crashes so far
  alone,    \* history: what is under way, or was last, has met no other save
  since     \* history: overlap, faults and crashes since the last good save

vars == <<dir, content, pc, saving, handle, settings, result, used, alone, since>>

Exists(name) == dir[name] # Absent
Complete(name) == Exists(name) /\ content[dir[name]] # Torn
AllIdle == \A p \in Procs : pc[p] = "idle"
MoreEvents == used.saves + used.faults + used.crashes < MaxEvents
NewInode == CHOOSE i \in Inodes : i \notin Range(dir) \union Range(handle)

(* Types of the variables.                                                  *)
TypeOK ==
  /\ dir \in [Names -> Inodes \union {Absent}]
  /\ content \in [Inodes -> Values \union {Torn}]
  /\ pc \in [Procs ->
       {"idle", "readTarget", "readLegacy", "deleteLegacy", "openTemporary", "writeTemporary",
        "findBackup", "deleteBackup", "findTarget", "setAside", "commit", "catchBackup",
        "catchTarget", "restore", "findLeftover", "deleteLeftover"}]
  /\ saving \in [Procs -> Values \union {Default}]
  /\ handle \in [Procs -> Inodes \union {Absent}]
  /\ settings \in Values \union {Default}
  /\ result \in {"none", "ok", "failed"}
  /\ used \in [saves : 0..MaxSaves, faults : 0..MaxFaults, crashes : 0..MaxCrashes]
  /\ alone \in BOOLEAN
  /\ since \in [overlap : BOOLEAN, faults : Nat, crashes : Nat]

-----------------------------------------------------------------------------
(* Steps of writeJsonObject *)

Goto(p, next) == pc' = [pc EXCEPT ![p] = next]

(* A save is over and reported; the start has what it read, moved or not.   *)
EndSave(p, outcome) ==
  /\ Goto(p, IF p = Startup /\ outcome = "ok" THEN "deleteLegacy" ELSE "idle")
  /\ saving' = [saving EXCEPT ![p] = Default]
  /\ handle' = [handle EXCEPT ![p] = Absent]
  /\ result' = IF p = Startup THEN result ELSE outcome
  /\ settings' = IF p = Startup THEN saving[p] ELSE settings

Continue(p, next) == Goto(p, next) /\ UNCHANGED <<saving, handle, result, settings>>

(* An operation throws and has had no effect; `thrown` is where that leads. *)
Fault(p, thrown) ==
  /\ used.faults < MaxFaults /\ MoreEvents
  /\ used' = [used EXCEPT !.faults = @ + 1]
  /\ thrown
  /\ UNCHANGED <<dir, content>>

OpenTemporary(p) ==
  /\ pc[p] = "openTemporary"
  /\ \/ LET i == IF Exists("temporary") THEN dir["temporary"] ELSE NewInode IN
          /\ dir' = [dir EXCEPT !["temporary"] = i]
          /\ content' = [content EXCEPT ![i] = Torn]
          /\ handle' = [handle EXCEPT ![p] = i]
          /\ Goto(p, "writeTemporary")
          /\ UNCHANGED <<saving, settings, result, used>>
     \/ Fault(p, EndSave(p, "failed"))

(* Over a file that another save has written since, a shorter text leaves   *)
(* the tail of the longer one.                                              *)
WriteTemporary(p) ==
  /\ pc[p] = "writeTemporary"
  /\ \/ /\ \E text \in {saving[p]} \union
                       (IF content[handle[p]] = Torn THEN {} ELSE {Torn}) :
              content' = [content EXCEPT ![handle[p]] = text]
        /\ handle' = [handle EXCEPT ![p] = Absent]
        /\ Goto(p, "findBackup")
        /\ UNCHANGED <<dir, saving, settings, result, used>>
     \/ Fault(p, EndSave(p, "failed"))

Find(p, at, name, found, missing) ==
  /\ pc[p] = at
  /\ IF Exists(name) THEN found ELSE missing
  /\ UNCHANGED <<dir, content, used>>

Delete(p, at, name, next, thrown) ==
  /\ pc[p] = at
  /\ \/ /\ Exists(name)
        /\ dir' = [dir EXCEPT ![name] = Absent]
        /\ next
        /\ UNCHANGED <<content, used>>
     \/ /\ ~Exists(name)
        /\ thrown
        /\ UNCHANGED <<dir, content, used>>
     \/ Fault(p, thrown)

Rename(p, at, from, to, next, thrown) ==
  /\ pc[p] = at
  /\ \/ /\ Exists(from)
        /\ dir' = [dir EXCEPT ![to] = dir[from], ![from] = Absent]
        /\ next
        /\ UNCHANGED <<content, used>>
     \/ /\ ~Exists(from)
        /\ thrown
        /\ UNCHANGED <<dir, content, used>>
     \/ Fault(p, thrown)

FindBackup(p) ==
  Find(p, "findBackup", "backup", Continue(p, "deleteBackup"), Continue(p, "findTarget"))
DeleteBackup(p) ==
  Delete(p, "deleteBackup", "backup", Continue(p, "findTarget"), EndSave(p, "failed"))
FindTarget(p) ==
  Find(p, "findTarget", "target", Continue(p, "setAside"), Continue(p, "commit"))
(* Mutant: the old file is deleted, not set aside.                          *)
SetAsideDeletes(p) ==
  Delete(p, "setAside", "target", Continue(p, "commit"), EndSave(p, "failed"))
SetAside(p) ==
  Rename(p, "setAside", "target", "backup", Continue(p, "commit"), EndSave(p, "failed"))
(* Mutant: a new file that could not be put in place is not noticed.        *)
CommitIgnores(p) ==
  Rename(p, "commit", "temporary", "target", Continue(p, "findLeftover"), Continue(p, "findLeftover"))
Commit(p) ==
  Rename(p, "commit", "temporary", "target", Continue(p, "findLeftover"), Continue(p, "catchBackup"))
CatchBackup(p) ==
  Find(p, "catchBackup", "backup", Continue(p, "catchTarget"), EndSave(p, "failed"))
CatchTarget(p) ==
  Find(p, "catchTarget", "target", EndSave(p, "failed"), Continue(p, "restore"))
Restore(p) ==
  Rename(p, "restore", "backup", "target", EndSave(p, "failed"), EndSave(p, "failed"))
FindLeftover(p) ==
  Find(p, "findLeftover", "backup", Continue(p, "deleteLeftover"), EndSave(p, "ok"))
DeleteLeftover(p) ==
  Delete(p, "deleteLeftover", "backup", EndSave(p, "ok"), EndSave(p, "failed"))

-----------------------------------------------------------------------------
(* Saves, the start, crashes *)

(* _saveSettings: the user changes a setting and what is in memory is to be *)
(* written.                                                                 *)
SaveSettings(p, v) ==
  /\ pc[p] = "idle"
  /\ used.saves < MaxSaves /\ MoreEvents
  /\ settings' = v
  /\ saving' = [saving EXCEPT ![p] = v]
  /\ Goto(p, "openTemporary")
  /\ used' = [used EXCEPT !.saves = @ + 1]
  /\ UNCHANGED <<dir, content, handle, result>>

(* readJsonObject: a file that is missing or is not JSON is passed over for *)
(* the one of the older layout.                                             *)
ReadTarget ==
  /\ pc[Startup] = "readTarget"
  /\ IF Complete("target")
     THEN Goto(Startup, "idle") /\ settings' = content[dir["target"]]
     ELSE Goto(Startup, "readLegacy") /\ UNCHANGED settings
  /\ UNCHANGED <<dir, content, saving, handle, result, used>>

(* The older file is written anew and then deleted.                         *)
ReadLegacy ==
  /\ pc[Startup] = "readLegacy"
  /\ IF Complete("legacy")
     THEN /\ saving' = [saving EXCEPT ![Startup] = content[dir["legacy"]]]
          /\ Goto(Startup, "openTemporary")
          /\ UNCHANGED settings
     ELSE /\ Goto(Startup, "idle")
          /\ settings' = Default
          /\ UNCHANGED saving
  /\ UNCHANGED <<dir, content, handle, result, used>>

DeleteLegacy ==
  Delete(Startup, "deleteLegacy", "legacy", Continue(Startup, "idle"), Continue(Startup, "idle"))

(* The dashboard dies and is started again.                                 *)
Crash ==
  /\ used.crashes < MaxCrashes /\ MoreEvents
  /\ used' = [used EXCEPT !.crashes = @ + 1]
  /\ pc' = [p \in Procs |-> IF p = Startup THEN "readTarget" ELSE "idle"]
  /\ saving' = [p \in Procs |-> Default]
  /\ handle' = [p \in Procs |-> Absent]
  /\ settings' = Default
  /\ result' = "none"
  /\ UNCHANGED <<dir, content>>

-----------------------------------------------------------------------------

(* A first start after an update, or any later one; the file may have been  *)
(* spoiled from outside, the one of the older layout may still be there.    *)
Init ==
  /\ dir \in [Names -> 0..2]
  /\ dir["target"] \in {Absent, 1} /\ dir["legacy"] \in {Absent, 2}
  /\ dir["temporary"] = Absent /\ dir["backup"] = Absent
  /\ \E old, new \in Values \union {Torn} :
       content = [i \in Inodes |-> CASE i = 1 -> new [] i = 2 -> old [] OTHER -> Torn]
  /\ Complete("target") \/ Complete("legacy")
  /\ pc = [p \in Procs |-> IF p = Startup THEN "readTarget" ELSE "idle"]
  /\ saving = [p \in Procs |-> Default]
  /\ handle = [p \in Procs |-> Absent]
  /\ settings = Default
  /\ result = "none"
  /\ used = [saves |-> 0, faults |-> 0, crashes |-> 0]
  /\ alone = TRUE
  /\ since = [overlap |-> FALSE, faults |-> 0, crashes |-> 0]

(* The history variables. A good save has met no other and has ended well.  *)
GoodSave ==
  /\ alone
  /\ \E p \in Procs :
       /\ pc[p] \in {"findLeftover", "deleteLeftover"}
       /\ IF p = Startup THEN pc'[p] = "deleteLegacy" ELSE pc'[p] = "idle" /\ result' = "ok"
Remember ==
  /\ alone' = IF used'.crashes # used.crashes THEN TRUE
              ELSE IF used'.saves # used.saves THEN AllIdle
              ELSE alone
  /\ since' =
       IF GoodSave THEN [overlap |-> FALSE, faults |-> 0, crashes |-> 0]
       ELSE [overlap |-> since.overlap \/ (used'.saves # used.saves /\ ~AllIdle),
             faults |-> since.faults + (used'.faults - used.faults),
             crashes |-> since.crashes + (used'.crashes - used.crashes)]

Started == pc[Startup] = "idle"
Unused == CHOOSE p \in Savers : pc[p] = "idle"  \* one stands for all of them

(* The user's changes come after the start has read the file; the dashboard *)
(* does not wait for a save before it begins the next.                      *)
StoreStep ==
  \/ \E p \in Savers, v \in Values : Started /\ SaveSettings(p, v) /\ p = Unused
  \/ ReadTarget
  \/ ReadLegacy
  \/ DeleteLegacy
  \/ Crash
  \/ \E p \in Procs :
       \/ OpenTemporary(p) \/ WriteTemporary(p)
       \/ FindBackup(p) \/ DeleteBackup(p)
       \/ FindTarget(p) \/ SetAside(p)
       \/ Commit(p) \/ CatchBackup(p) \/ CatchTarget(p) \/ Restore(p)
       \/ FindLeftover(p) \/ DeleteLeftover(p)

Next == StoreStep /\ Remember

Spec == Init /\ [][Next]_vars

-----------------------------------------------------------------------------
(* Properties *)

(* As long as saves do not overlap: one crash anywhere since the last good  *)
(* save, and equally two failing operations, leave a file with one whole    *)
(* set of settings on the disk. No step has deleted or overwritten the last *)
(* one, however often that has happened before. (A crash in a save and a    *)
(* second mishap in the save after it can leave none, and so can two saves  *)
(* that overlap.)                                                           *)
CopyExists ==
  /\ ~since.overlap
  /\ \/ since.crashes = 0 /\ since.faults <= 2
     \/ since.faults = 0 /\ since.crashes <= 1
  => \E name \in Names : Complete(name)

(* A save that met no other and reported success is what the next start     *)
(* will read, and what is in memory, until the next change, also when saves *)
(* before it overlapped.                                                    *)
SuccessIsStored ==
  result = "ok" /\ alone /\ AllIdle => Complete("target") /\ content[dir["target"]] = settings
=============================================================================
