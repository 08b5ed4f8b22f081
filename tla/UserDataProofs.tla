--------------------------- MODULE UserDataProofs ---------------------------
(***************************************************************************)
(* Theorems about the settings file (UserDataStore), for any saves at any  *)
(* time and any settings, crashes and failures, and about fan curves       *)
(* (FanCurve, CurvePoints), for any points and edits.                      *)
(***************************************************************************)
EXTENDS UserData, FiniteSetTheorems, SequenceTheorems, WellFoundedInduction, TLAPS

-----------------------------------------------------------------------------
(* What holds of the settings file however saves overlap *)

(* No two names stand for one file; a save has a file open while it writes. *)
FilesApart == \A m, n \in Names : m # n /\ Exists(m) => dir[m] # dir[n]
Open == \A p \in Procs : handle[p] # Absent <=> pc[p] = "writeTemporary"

StartLabels == {"readTarget", "readLegacy", "deleteLegacy"}
Own(p) ==
  /\ pc[p] \in StartLabels => p = Startup
  /\ pc[p] \notin StartLabels \cup {"idle"} => saving[p] \in Values

(* The start meets no save, and a save that met another is remembered.      *)
Base ==
  /\ TypeOK /\ FilesApart /\ Open
  /\ \A p \in Procs : Own(p)
  /\ pc[Startup] # "idle" => alone
  /\ ~alone => since.overlap

LEMMA OneMoreElement ==
  ASSUME NEW S, IsFiniteSet(S), NEW x, x \notin S
  PROVE  IsFiniteSet(S \cup {x}) /\ Cardinality(S \cup {x}) = Cardinality(S) + 1
BY FS_AddElement

LEMMA FourNames == IsFiniteSet(Names) /\ Cardinality(Names) = 4
<1> DEFINE two == {"target"} \cup {"temporary"}
           three == two \cup {"backup"}
<1>1. "temporary" \notin {"target"} /\ "backup" \notin two /\ "legacy" \notin three
  OBVIOUS
<1>2. Names = three \cup {"legacy"}
  BY DEF Names
<1>3. IsFiniteSet({"target"}) /\ Cardinality({"target"}) = 1
  BY FS_Singleton
<1>4. IsFiniteSet(two) /\ Cardinality(two) = Cardinality({"target"}) + 1
  BY <1>1, <1>3, OneMoreElement
<1> HIDE DEF two
<1>5. IsFiniteSet(three) /\ Cardinality(three) = Cardinality(two) + 1
  BY <1>1, <1>4, OneMoreElement
<1> HIDE DEF three
<1>6. /\ IsFiniteSet(three \cup {"legacy"})
      /\ Cardinality(three \cup {"legacy"}) = Cardinality(three) + 1
  BY <1>1, <1>5, OneMoreElement
<1>7. QED
  BY <1>2, <1>3, <1>4, <1>5, <1>6

LEMMA InodesAre ==
  ASSUME StoreAssumption
  PROVE  /\ IsFiniteSet(Procs) /\ Cardinality(Procs) \in Nat
         /\ Inodes = 1..(4 + Cardinality(Procs)) /\ Absent \notin Inodes
<1>1. IsFiniteSet(Procs) /\ Cardinality(Procs) \in Nat
  BY OneMoreElement, FS_CardinalityType DEF StoreAssumption, Procs
<1>2. QED
  BY <1>1, FourNames DEF Inodes, Absent

(* The values of a function are no more than its arguments.                 *)
LEMMA RangeIs ==
  ASSUME NEW S, IsFiniteSet(S), NEW T, NEW f \in [S -> T]
  PROVE  /\ IsFiniteSet(Range(f)) /\ Cardinality(Range(f)) <= Cardinality(S)
         /\ \A x \in S : f[x] \in Range(f)
<1> DEFINE R == {f[x] : x \in S}
<1>1. Range(f) = R
  BY DEF Range
<1>2. f \in Surjection(S, R)
  BY DEF Surjection
<1>3. IsFiniteSet(R) /\ Cardinality(R) <= Cardinality(S)
  BY <1>2, FS_Surjection
<1>4. QED
  BY <1>1, <1>3

(* There is room for the temporary file, whatever the saves have open.      *)
LEMMA FreshInode ==
  ASSUME StoreAssumption, TypeOK, ~Exists("temporary")
  PROVE  /\ NewInode \in Inodes
         /\ \A n \in Names : NewInode # dir[n]
<1> DEFINE D == Range(dir)
           H == Range(handle)
           c == Cardinality(Procs)
<1>1. /\ IsFiniteSet(D) /\ Cardinality(D) <= 4 /\ \A n \in Names : dir[n] \in D
  <2>1. dir \in [Names -> Inodes \union {Absent}] /\ IsFiniteSet(Names)
    BY FourNames DEF TypeOK
  <2>2. /\ IsFiniteSet(D) /\ Cardinality(D) <= Cardinality(Names)
        /\ \A n \in Names : dir[n] \in D
    BY <2>1, RangeIs
  <2>3. QED
    BY <2>2, FourNames
<1>2. IsFiniteSet(H) /\ Cardinality(H) <= c
  BY InodesAre, RangeIs DEF TypeOK
<1>3. c \in Nat /\ Inodes = 1..(4 + c) /\ Absent \notin Inodes
  BY InodesAre
<1>4. Absent \in D
  BY <1>1 DEF Exists, Names
<1> HIDE DEF D, H, c
<1>5. \E i \in Inodes : i \notin D \cup H
  <2> SUFFICES ASSUME Inodes \subseteq D \cup H
               PROVE  FALSE
    OBVIOUS
  <2>1. IsFiniteSet(Inodes) /\ Cardinality(Inodes) = 4 + c
    BY <1>3, FS_Interval
  <2>2. IsFiniteSet(Inodes \cup {Absent}) /\ Cardinality(Inodes \cup {Absent}) = 5 + c
    <3>1. Cardinality(Inodes \cup {Absent}) = Cardinality(Inodes) + 1
          /\ IsFiniteSet(Inodes \cup {Absent})
      BY <1>3, <2>1, OneMoreElement
    <3>2. QED
      BY <1>3, <2>1, <3>1
  <2>3. /\ IsFiniteSet(D \cup H) /\ Cardinality(D \cup H) \in Nat
        /\ Cardinality(D \cup H) <= 4 + c
    <3>1. Cardinality(D \cap H) \in Nat /\ Cardinality(D) \in Nat /\ Cardinality(H) \in Nat
      BY <1>1, <1>2, FS_Intersection, FS_CardinalityType
    <3>2. /\ IsFiniteSet(D \cup H)
          /\ Cardinality(D \cup H) = Cardinality(D) + Cardinality(H) - Cardinality(D \cap H)
      BY <1>1, <1>2, FS_Union
    <3>3. QED
      BY <1>1, <1>2, <1>3, <3>1, <3>2, FS_CardinalityType
  <2>4. Inodes \cup {Absent} \subseteq D \cup H
    BY <1>4
  <2>5. Cardinality(Inodes \cup {Absent}) <= Cardinality(D \cup H)
    BY <2>3, <2>4, FS_Subset
  <2>6. QED
    BY <1>3, <2>2, <2>3, <2>5
<1>6. NewInode \in Inodes /\ NewInode \notin D \cup H
  BY <1>5 DEF NewInode, D, H
<1>7. QED
  BY <1>1, <1>6

-----------------------------------------------------------------------------
(* Files *)

Holds(name, v) == Exists(name) /\ content[dir[name]] = v

Labels ==
  {"idle", "readTarget", "readLegacy", "deleteLegacy", "openTemporary", "writeTemporary",
   "findBackup", "deleteBackup", "findTarget", "setAside", "commit", "catchBackup",
   "catchTarget", "restore", "findLeftover", "deleteLeftover"}

(* Steps that look for a file, or fail, change no file.                     *)
LEMMA SameFiles ==
  ASSUME UNCHANGED <<dir, content>>, FilesApart
  PROVE  /\ FilesApart'
         /\ \A n : /\ Exists(n)' <=> Exists(n)
                   /\ Complete(n)' <=> Complete(n)
                   /\ \A v : Holds(n, v)' <=> Holds(n, v)
BY DEF FilesApart, Exists, Complete, Holds

(* A file is deleted; a file is renamed.                                    *)
LEMMA Removed ==
  ASSUME TypeOK, FilesApart, NEW name \in Names,
         dir' = [dir EXCEPT ![name] = Absent], content' = content
  PROVE  /\ dir' \in [Names -> Inodes \union {Absent}] /\ FilesApart'
         /\ ~Exists(name)'
         /\ \A n \in Names :
              n # name => /\ Exists(n)' <=> Exists(n)
                          /\ Complete(n)' <=> Complete(n)
                          /\ \A v : Holds(n, v)' <=> Holds(n, v)
<1>1. /\ dir' \in [Names -> Inodes \union {Absent}]
      /\ dir'[name] = Absent /\ \A n \in Names : n # name => dir'[n] = dir[n]
  BY DEF TypeOK
<1> QED BY <1>1 DEF FilesApart, Exists, Complete, Holds

LEMMA Renamed ==
  ASSUME TypeOK, FilesApart, NEW from \in Names, NEW to \in Names, from # to,
         Exists(from),
         dir' = [dir EXCEPT ![to] = dir[from], ![from] = Absent], content' = content
  PROVE  /\ dir' \in [Names -> Inodes \union {Absent}] /\ FilesApart'
         /\ ~Exists(from)'
         /\ Complete(to)' <=> Complete(from)
         /\ \A v : Holds(to, v)' <=> Holds(from, v)
         /\ \A n \in Names :
              n \notin {from, to} => /\ Exists(n)' <=> Exists(n)
                                     /\ Complete(n)' <=> Complete(n)
                                     /\ \A v : Holds(n, v)' <=> Holds(n, v)
<1>1. /\ dir' \in [Names -> Inodes \union {Absent}]
      /\ dir'[from] = Absent /\ dir'[to] = dir[from]
      /\ \A n \in Names : n \notin {from, to} => dir'[n] = dir[n]
  BY DEF TypeOK
<1> QED BY <1>1 DEF FilesApart, Exists, Complete, Holds

Moves ==
  \/ dir' = dir
  \/ \E name \in Names : dir' = [dir EXCEPT ![name] = Absent]
  \/ \E from, to \in Names :
       from # to /\ Exists(from) /\ dir' = [dir EXCEPT ![to] = dir[from], ![from] = Absent]

LEMMA MovesFiles ==
  ASSUME TypeOK, FilesApart, Moves, content' = content
  PROVE  dir' \in [Names -> Inodes \union {Absent}] /\ FilesApart'
<1>1. CASE dir' = dir
  BY <1>1, SameFiles DEF TypeOK
<1>2. ASSUME NEW name \in Names, dir' = [dir EXCEPT ![name] = Absent]
      PROVE  dir' \in [Names -> Inodes \union {Absent}] /\ FilesApart'
  BY <1>2, Removed
<1>3. ASSUME NEW from \in Names, NEW to \in Names, from # to, Exists(from),
             dir' = [dir EXCEPT ![to] = dir[from], ![from] = Absent]
      PROVE  dir' \in [Names -> Inodes \union {Absent}] /\ FilesApart'
  BY <1>3, Renamed
<1>4. QED
  BY <1>1, <1>2, <1>3 DEF Moves

-----------------------------------------------------------------------------
(* Steps, however saves overlap *)

FaultCounted ==
  used.faults < MaxFaults /\ used' = [used EXCEPT !.faults = @ + 1]
Counted == used' = used \/ FaultCounted

(* Such a step changes the history by what it counts and stores.            *)
LEMMA HistoryIs ==
  ASSUME StoreAssumption, TypeOK, Remember, Counted
  PROVE  /\ used' \in [saves : 0..MaxSaves, faults : 0..MaxFaults, crashes : 0..MaxCrashes]
         /\ used'.saves = used.saves /\ used'.crashes = used.crashes
         /\ alone' = alone
         /\ since' \in [overlap : BOOLEAN, faults : Nat, crashes : Nat]
         /\ ~GoodSave => /\ since'.overlap = since.overlap /\ since'.crashes = since.crashes
                         /\ used' = used => since'.faults = since.faults
                         /\ FaultCounted => since'.faults = since.faults + 1
<1>1. /\ used \in [saves : 0..MaxSaves, faults : 0..MaxFaults, crashes : 0..MaxCrashes]
      /\ since \in [overlap : BOOLEAN, faults : Nat, crashes : Nat] /\ alone \in BOOLEAN
  BY DEF TypeOK
<1>2. /\ used' \in [saves : 0..MaxSaves, faults : 0..MaxFaults, crashes : 0..MaxCrashes]
      /\ used'.saves = used.saves /\ used'.crashes = used.crashes
      /\ used' = used => used'.faults - used.faults = 0
      /\ FaultCounted => used'.faults - used.faults = 1
  BY <1>1 DEF Counted, FaultCounted, StoreAssumption
<1>3. alone' = alone
  BY <1>2 DEF Remember
<1>4. CASE GoodSave
  <2>1. since' = [overlap |-> FALSE, faults |-> 0, crashes |-> 0]
    BY <1>4 DEF Remember
  <2>2. QED
    BY <1>2, <1>3, <1>4, <2>1
<1>5. CASE ~GoodSave
  <2>1. since' = [overlap |-> since.overlap \/ (used'.saves # used.saves /\ ~AllIdle),
                  faults |-> since.faults + (used'.faults - used.faults),
                  crashes |-> since.crashes + (used'.crashes - used.crashes)]
    BY <1>5, Zenon DEF Remember
  <2>2. since'.overlap = since.overlap /\ since'.overlap \in BOOLEAN
    BY <1>1, <1>2, <2>1
  <2>3. /\ since'.faults = since.faults + (used'.faults - used.faults)
        /\ since'.crashes = since.crashes + (used'.crashes - used.crashes)
    BY <2>1
  <2>4. /\ used' = used => since'.faults = since.faults
        /\ FaultCounted => since'.faults = since.faults + 1
        /\ since'.crashes = since.crashes /\ since'.faults \in Nat
    BY <1>1, <1>2, <2>3 DEF Counted
  <2>5. since' \in [overlap : BOOLEAN, faults : Nat, crashes : Nat]
    <3>1. since'.crashes \in Nat
      BY <1>1, <2>4
    <3>2. since' = [overlap |-> since'.overlap, faults |-> since'.faults,
                    crashes |-> since'.crashes]
      BY <2>1, Zenon
    <3>3. QED
      BY <2>2, <2>4, <3>1, <3>2
  <2>6. QED
    BY <1>2, <1>3, <2>2, <2>4, <2>5
<1>6. QED
  BY <1>4, <1>5

(* What a step of p may do to the rest.                                     *)
Frame(p, label) ==
  /\ pc' = [pc EXCEPT ![p] = label] /\ Counted
  /\ \A q \in Procs : q # p => saving'[q] = saving[q] /\ handle'[q] = handle[q]
  /\ saving' \in [Procs -> Values \union {Default}]
  /\ handle' \in [Procs -> Inodes \union {Absent}]
  /\ settings' \in Values \union {Default} /\ result' \in {"none", "ok", "failed"}
  /\ content' \in [Inodes -> Values \union {Torn}]
  /\ dir' \in [Names -> Inodes \union {Absent}] /\ FilesApart'

LEMMA BaseFrame ==
  ASSUME StoreAssumption, Base, Remember, NEW p \in Procs, pc[p] # "idle",
         NEW label \in Labels, Frame(p, label),
         handle'[p] # Absent <=> label = "writeTemporary",
         label \in StartLabels => p = Startup,
         label \notin StartLabels \cup {"idle"} => saving'[p] \in Values
  PROVE  Base'
<1>1. TypeOK /\ Counted
  BY DEF Base, Frame
<1>2. /\ used' \in [saves : 0..MaxSaves, faults : 0..MaxFaults, crashes : 0..MaxCrashes]
      /\ alone' = alone /\ since' \in [overlap : BOOLEAN, faults : Nat, crashes : Nat]
      /\ ~GoodSave => since'.overlap = since.overlap
  BY <1>1, HistoryIs
<1>3. /\ pc' \in [Procs -> Labels] /\ pc'[p] = label
      /\ \A q \in Procs : q # p => pc'[q] = pc[q]
  BY <1>1 DEF Frame, TypeOK, Labels
<1>4. TypeOK'
  BY <1>1, <1>2, <1>3 DEF TypeOK, Frame, Labels
<1>5. Open'
  BY <1>3 DEF Base, Open, Frame
<1>6. ASSUME NEW q \in Procs PROVE Own(q)'
  BY <1>3 DEF Base, Own, Frame
<1>7. pc'[Startup] # "idle" => alone'
  BY <1>2, <1>3 DEF Base, Procs
<1>8. ~alone' => since'.overlap
  BY <1>2 DEF Base, GoodSave
<1>9. QED
  BY <1>4, <1>5, <1>6, <1>7, <1>8 DEF Base, Frame

(* The operations on files after the temporary one is written.              *)
Operation(p) ==
  \/ FindBackup(p) \/ DeleteBackup(p) \/ FindTarget(p) \/ SetAside(p)
  \/ Commit(p) \/ CatchBackup(p) \/ CatchTarget(p) \/ Restore(p)
  \/ FindLeftover(p) \/ DeleteLeftover(p)

GoesTo ==
  {"deleteBackup", "findTarget", "setAside", "commit", "catchBackup", "catchTarget", "restore",
   "findLeftover", "deleteLeftover"}

LEMMA OperationIs ==
  ASSUME NEW p \in Procs, Operation(p)
  PROVE  /\ Moves /\ content' = content /\ Counted
         /\ pc[p] \notin StartLabels \cup {"idle", "openTemporary", "writeTemporary"}
         /\ (\E l \in GoesTo : Continue(p, l)) \/ EndSave(p, "ok") \/ EndSave(p, "failed")
<1>1. CASE FindBackup(p) \/ FindTarget(p) \/ CatchBackup(p) \/ CatchTarget(p) \/ FindLeftover(p)
  BY <1>1 DEF FindBackup, FindTarget, CatchBackup, CatchTarget, FindLeftover, Find, Moves, Counted,
     GoesTo, StartLabels
<1>2. CASE DeleteBackup(p) \/ DeleteLeftover(p)
  BY <1>2 DEF DeleteBackup, DeleteLeftover, Delete, Fault, Moves, Counted, FaultCounted, GoesTo,
     StartLabels, Names
<1>3. CASE SetAside(p) \/ Commit(p) \/ Restore(p)
  BY <1>3 DEF SetAside, Commit, Restore, Rename, Fault, Moves, Counted, FaultCounted, GoesTo,
     StartLabels, Names
<1>4. QED
  BY <1>1, <1>2, <1>3 DEF Operation

LEMMA ContinueFrame ==
  ASSUME TypeOK, NEW p \in Procs, NEW l, Continue(p, l), content' = content, Counted,
         dir' \in [Names -> Inodes \union {Absent}], FilesApart'
  PROVE  Frame(p, l) /\ handle'[p] = handle[p] /\ saving'[p] = saving[p]
BY DEF TypeOK, Continue, Goto, Frame

LEMMA EndFrame ==
  ASSUME TypeOK, NEW p \in Procs, NEW outcome \in {"ok", "failed"}, EndSave(p, outcome),
         content' = content, Counted, dir' \in [Names -> Inodes \union {Absent}], FilesApart'
  PROVE  /\ Frame(p, IF p = Startup /\ outcome = "ok" THEN "deleteLegacy" ELSE "idle")
         /\ handle'[p] = Absent
BY DEF TypeOK, EndSave, Goto, Frame

LEMMA EndBase ==
  ASSUME StoreAssumption, Base, Remember, NEW p \in Procs, pc[p] # "idle",
         NEW outcome \in {"ok", "failed"}, EndSave(p, outcome),
         content' = content, Counted, dir' \in [Names -> Inodes \union {Absent}], FilesApart'
  PROVE  Base'
<1> DEFINE label == IF p = Startup /\ outcome = "ok" THEN "deleteLegacy" ELSE "idle"
<1>1. Frame(p, label) /\ handle'[p] = Absent
  BY EndFrame DEF Base
<1>2. label \in Labels /\ label \in StartLabels \cup {"idle"} /\ label # "writeTemporary"
      /\ (label \in StartLabels => p = Startup)
  BY DEF Labels, StartLabels
<1> HIDE DEF label
<1>3. QED
  BY <1>1, <1>2, BaseFrame

LEMMA OperationBase ==
  ASSUME StoreAssumption, Base, Remember, NEW p \in Procs, Operation(p)
  PROVE  Base'
<1>1. /\ Moves /\ content' = content /\ Counted
      /\ pc[p] \notin StartLabels \cup {"idle", "openTemporary", "writeTemporary"}
      /\ (\E l \in GoesTo : Continue(p, l)) \/ EndSave(p, "ok") \/ EndSave(p, "failed")
  BY OperationIs
<1>2. dir' \in [Names -> Inodes \union {Absent}] /\ FilesApart'
  BY <1>1, MovesFiles DEF Base
<1>3. CASE EndSave(p, "ok") \/ EndSave(p, "failed")
  BY <1>1, <1>2, <1>3, EndBase
<1>4. ASSUME NEW l \in GoesTo, Continue(p, l)
      PROVE  Base'
  <2>1. Frame(p, l) /\ handle'[p] = handle[p] /\ saving'[p] = saving[p]
    BY <1>1, <1>2, <1>4, ContinueFrame DEF Base
  <2>2. handle[p] = Absent /\ saving[p] \in Values
    BY <1>1 DEF Base, Open, Own
  <2>3. l \in Labels \ (StartLabels \cup {"idle", "writeTemporary"})
    BY DEF GoesTo, Labels, StartLabels
  <2>4. QED
    BY <1>1, <2>1, <2>2, <2>3, BaseFrame
<1>5. QED
  BY <1>1, <1>3, <1>4

(* The temporary file is emptied, or made anew.                             *)
LEMMA OpenIs ==
  ASSUME StoreAssumption, TypeOK, FilesApart, NEW i,
         i = (IF Exists("temporary") THEN dir["temporary"] ELSE NewInode),
         dir' = [dir EXCEPT !["temporary"] = i],
         content' = [content EXCEPT ![i] = Torn]
  PROVE  /\ i \in Inodes /\ i # Absent
         /\ dir' \in [Names -> Inodes \union {Absent}] /\ FilesApart'
         /\ content' \in [Inodes -> Values \union {Torn}]
         /\ dir'["temporary"] = i /\ content'[i] = Torn
         /\ \A n \in Names : n # "temporary" => (Complete(n)' <=> Complete(n))
<1>1. i \in Inodes /\ \A n \in Names : n # "temporary" => dir[n] # i
  <2>1. CASE Exists("temporary")
    BY <2>1 DEF TypeOK, FilesApart, Exists, Names
  <2>2. CASE ~Exists("temporary")
    BY <2>2, FreshInode
  <2>3. QED
    BY <2>1, <2>2
<1>2. i # Absent
  BY <1>1, InodesAre
<1>3. /\ dir' \in [Names -> Inodes \union {Absent}]
      /\ content' \in [Inodes -> Values \union {Torn}]
      /\ dir'["temporary"] = i /\ content'[i] = Torn
      /\ \A n \in Names : n # "temporary" => dir'[n] = dir[n]
      /\ \A j \in Inodes : j # i => content'[j] = content[j]
  BY <1>1 DEF TypeOK, Names
<1>4. FilesApart'
  BY <1>1, <1>2, <1>3 DEF FilesApart, Exists
<1>5. \A n \in Names : n # "temporary" => (Complete(n)' <=> Complete(n))
  BY <1>1, <1>2, <1>3 DEF Exists, Complete, TypeOK
<1>6. QED
  BY <1>1, <1>2, <1>3, <1>4, <1>5

LEMMA OpenBase ==
  ASSUME StoreAssumption, Base, Remember, NEW p \in Procs, OpenTemporary(p)
  PROVE  Base'
<1>1. TypeOK /\ FilesApart /\ pc[p] = "openTemporary" /\ saving[p] \in Values
  BY DEF Base, Own, OpenTemporary, StartLabels
<1>2. CASE Fault(p, EndSave(p, "failed"))
  BY <1>1, <1>2, EndBase, SameFiles DEF Fault, Counted, FaultCounted, TypeOK
<1>3. ASSUME NEW i, i = (IF Exists("temporary") THEN dir["temporary"] ELSE NewInode),
             dir' = [dir EXCEPT !["temporary"] = i],
             content' = [content EXCEPT ![i] = Torn],
             handle' = [handle EXCEPT ![p] = i],
             Goto(p, "writeTemporary"),
             UNCHANGED <<saving, settings, result, used>>
      PROVE  Base'
  <2>1. /\ i \in Inodes /\ i # Absent
        /\ dir' \in [Names -> Inodes \union {Absent}] /\ FilesApart'
        /\ content' \in [Inodes -> Values \union {Torn}]
    BY <1>1, <1>3, OpenIs
  <2>2. /\ handle' \in [Procs -> Inodes \union {Absent}] /\ handle'[p] = i
        /\ \A q \in Procs : q # p => handle'[q] = handle[q]
    BY <1>1, <1>3, <2>1 DEF TypeOK
  <2>3. Frame(p, "writeTemporary")
    BY <1>1, <1>3, <2>1, <2>2 DEF Frame, Goto, Counted, TypeOK
  <2>4. "writeTemporary" \in Labels /\ "writeTemporary" \notin StartLabels /\ pc[p] # "idle"
    BY <1>1 DEF Labels, StartLabels
  <2>5. saving'[p] \in Values
    BY <1>1, <1>3
  <2>6. QED
    BY <2>1, <2>2, <2>3, <2>4, <2>5, BaseFrame
<1>4. QED
  BY <1>2, <1>3 DEF OpenTemporary

(* A save writes the file it has open, whatever its name is by now.         *)
LEMMA WriteBase ==
  ASSUME StoreAssumption, Base, Remember, NEW p \in Procs, WriteTemporary(p)
  PROVE  Base'
<1>1. /\ TypeOK /\ FilesApart /\ pc[p] = "writeTemporary" /\ saving[p] \in Values
      /\ handle[p] \in Inodes
  BY DEF Base, Own, Open, TypeOK, WriteTemporary, StartLabels
<1>2. CASE Fault(p, EndSave(p, "failed"))
  BY <1>1, <1>2, EndBase, SameFiles DEF Fault, Counted, FaultCounted, TypeOK
<1>3. ASSUME NEW text \in {saving[p], Torn},
             content' = [content EXCEPT ![handle[p]] = text],
             handle' = [handle EXCEPT ![p] = Absent],
             Goto(p, "findBackup"), UNCHANGED <<dir, saving, settings, result, used>>
      PROVE  Base'
  <2>1. content' \in [Inodes -> Values \union {Torn}]
    BY <1>1, <1>3 DEF TypeOK
  <2>2. /\ handle' \in [Procs -> Inodes \union {Absent}] /\ handle'[p] = Absent
        /\ \A q \in Procs : q # p => handle'[q] = handle[q]
    BY <1>1, <1>3 DEF TypeOK
  <2>3. FilesApart' /\ dir' \in [Names -> Inodes \union {Absent}]
    BY <1>1, <1>3 DEF FilesApart, Exists, TypeOK
  <2>4. Frame(p, "findBackup")
    BY <1>1, <1>3, <2>1, <2>2, <2>3 DEF Frame, Goto, Counted, TypeOK
  <2>5. /\ "findBackup" \in Labels /\ "findBackup" \notin StartLabels /\ pc[p] # "idle"
        /\ saving'[p] \in Values
    BY <1>1, <1>3 DEF Labels, StartLabels
  <2>6. QED
    BY <2>2, <2>4, <2>5, BaseFrame
<1>4. QED
  BY <1>2, <1>3 DEF WriteTemporary

(* The steps of the start.                                                  *)
LEMMA StartBase ==
  ASSUME StoreAssumption, Base, Remember, ReadTarget \/ ReadLegacy \/ DeleteLegacy
  PROVE  Base'
<1> DEFINE p == Startup
<1>1. p \in Procs /\ TypeOK /\ FilesApart
  BY DEF Procs, Base
<1>2. pc[p] \in StartLabels
  BY DEF ReadTarget, ReadLegacy, DeleteLegacy, Delete, StartLabels
<1>3. handle[p] = Absent /\ pc[p] # "idle"
  BY <1>1, <1>2 DEF Base, Open, StartLabels
<1>4. \A n \in Names : Complete(n) => content[dir[n]] \in Values
  BY <1>1 DEF TypeOK, Complete, Exists
<1>5. CASE ReadTarget
  <2>1. /\ UNCHANGED <<dir, content, saving, handle, result, used>>
        /\ settings' \in Values \union {Default}
    BY <1>1, <1>4, <1>5 DEF ReadTarget, TypeOK, Names
  <2>2. PICK label \in {"idle", "readLegacy"} : Goto(p, label)
    BY <1>5 DEF ReadTarget
  <2>3. Frame(p, label)
    BY <1>1, <2>1, <2>2, SameFiles DEF Frame, Goto, Counted, TypeOK
  <2>4. /\ label \in Labels /\ label \in StartLabels \cup {"idle"} /\ label # "writeTemporary"
        /\ handle'[p] = Absent
    BY <1>3, <2>1 DEF Labels, StartLabels
  <2>5. QED
    BY <1>1, <1>3, <2>3, <2>4, BaseFrame
<1>6. CASE ReadLegacy
  <2>1. /\ UNCHANGED <<dir, content, handle, result, used>>
        /\ settings' \in Values \union {Default}
    BY <1>1, <1>6 DEF ReadLegacy, TypeOK
  <2>2. PICK label \in {"idle", "openTemporary"} :
          /\ Goto(p, label)
          /\ \/ label = "idle" /\ saving' = saving
             \/ \E v \in Values : saving' = [saving EXCEPT ![p] = v]
    BY <1>4, <1>6 DEF ReadLegacy, Names
  <2>3. /\ saving' \in [Procs -> Values \union {Default}]
        /\ \A q \in Procs : q # p => saving'[q] = saving[q]
        /\ label # "idle" => saving'[p] \in Values
    BY <1>1, <2>2 DEF TypeOK
  <2>4. Frame(p, label)
    BY <1>1, <2>1, <2>2, <2>3, SameFiles DEF Frame, Goto, Counted, TypeOK
  <2>5. /\ label \in Labels /\ label \notin StartLabels /\ label # "writeTemporary"
        /\ handle'[p] = Absent
    BY <1>3, <2>1 DEF Labels, StartLabels
  <2>6. QED
    BY <1>1, <1>3, <2>3, <2>4, <2>5, BaseFrame
<1>7. CASE DeleteLegacy
  <2>1. Moves /\ content' = content /\ Counted /\ Continue(p, "idle")
    BY <1>7 DEF DeleteLegacy, Delete, Fault, Moves, Counted, FaultCounted, Names
  <2>2. dir' \in [Names -> Inodes \union {Absent}] /\ FilesApart'
    BY <1>1, <2>1, MovesFiles
  <2>3. Frame(p, "idle") /\ handle'[p] = handle[p]
    BY <1>1, <2>1, <2>2, ContinueFrame
  <2>4. QED
    BY <1>1, <1>3, <2>3, BaseFrame DEF Labels, StartLabels
<1>8. QED
  BY <1>5, <1>6, <1>7

(* A save begins.                                                           *)
LEMMA BeginIs ==
  ASSUME StoreAssumption, TypeOK, Remember, NEW p \in Procs, NEW v \in Values, SaveSettings(p, v)
  PROVE  /\ used' \in [saves : 0..MaxSaves, faults : 0..MaxFaults, crashes : 0..MaxCrashes]
         /\ alone' = AllIdle
         /\ since' \in [overlap : BOOLEAN, faults : Nat, crashes : Nat]
         /\ since'.overlap = (since.overlap \/ ~AllIdle)
         /\ since'.faults = since.faults /\ since'.crashes = since.crashes
<1>1. /\ used \in [saves : 0..MaxSaves, faults : 0..MaxFaults, crashes : 0..MaxCrashes]
      /\ since \in [overlap : BOOLEAN, faults : Nat, crashes : Nat]
  BY DEF TypeOK
<1>2. /\ used' \in [saves : 0..MaxSaves, faults : 0..MaxFaults, crashes : 0..MaxCrashes]
      /\ used'.saves # used.saves /\ used'.faults = used.faults /\ used'.crashes = used.crashes
      /\ used'.faults - used.faults = 0 /\ used'.crashes - used.crashes = 0
  BY <1>1 DEF SaveSettings, StoreAssumption
<1>3. alone' = AllIdle
  BY <1>2 DEF Remember
<1>4. ~GoodSave
  BY DEF GoodSave, SaveSettings, Goto, TypeOK
<1>5. since' = [overlap |-> since.overlap \/ (used'.saves # used.saves /\ ~AllIdle),
                faults |-> since.faults + (used'.faults - used.faults),
                crashes |-> since.crashes + (used'.crashes - used.crashes)]
  BY <1>4, Zenon DEF Remember
<1>6. /\ since'.overlap = (since.overlap \/ ~AllIdle)
  BY <1>2, <1>5, Zenon
<1>7. /\ since'.faults = since.faults + (used'.faults - used.faults)
      /\ since'.crashes = since.crashes + (used'.crashes - used.crashes)
  BY <1>5
<1>8. since'.faults = since.faults /\ since'.crashes = since.crashes
  BY <1>1, <1>2, <1>7
<1>9. since' = [overlap |-> since'.overlap, faults |-> since'.faults, crashes |-> since'.crashes]
  BY <1>5, Zenon
<1>10. since'.overlap \in BOOLEAN /\ since'.faults \in Nat /\ since'.crashes \in Nat
  BY <1>1, <1>6, <1>8
<1>11. since' \in [overlap : BOOLEAN, faults : Nat, crashes : Nat]
  BY <1>9, <1>10
<1>12. QED
  BY <1>2, <1>3, <1>6, <1>8, <1>11

LEMMA SaveBase ==
  ASSUME StoreAssumption, Base, Remember, NEW p \in Procs, p # Startup, Started,
         NEW v \in Values, SaveSettings(p, v)
  PROVE  Base'
<1>1. TypeOK /\ FilesApart /\ pc[p] = "idle"
  BY DEF Base, SaveSettings
<1>2. /\ pc' \in [Procs -> Labels] /\ pc'[p] = "openTemporary"
      /\ \A q \in Procs : q # p => pc'[q] = pc[q] /\ saving'[q] = saving[q]
      /\ saving' \in [Procs -> Values \union {Default}] /\ saving'[p] = v
      /\ settings' \in Values \union {Default} /\ UNCHANGED <<dir, content, handle, result>>
  BY <1>1 DEF SaveSettings, Goto, TypeOK, Labels
<1>3. TypeOK'
  <2>1. alone' \in BOOLEAN
    BY <1>1, BeginIs DEF AllIdle
  <2>2. QED
    BY <1>1, <1>2, <2>1, BeginIs DEF TypeOK, Labels
<1>4. FilesApart'
  BY <1>1, <1>2, SameFiles
<1>5. Open'
  BY <1>1, <1>2 DEF Base, Open
<1>6. ASSUME NEW q \in Procs PROVE Own(q)'
  BY <1>2 DEF Base, Own, StartLabels
<1>7. pc'[Startup] = "idle"
  BY <1>2 DEF Started, Procs
<1>8. ~alone' => since'.overlap
  BY <1>1, BeginIs
<1>9. QED
  BY <1>3, <1>4, <1>5, <1>6, <1>7, <1>8 DEF Base

(* The program dies wherever it is.                                         *)
LEMMA DieIs ==
  ASSUME StoreAssumption, TypeOK, Remember, Crash
  PROVE  /\ used' \in [saves : 0..MaxSaves, faults : 0..MaxFaults, crashes : 0..MaxCrashes]
         /\ alone' = TRUE
         /\ since' \in [overlap : BOOLEAN, faults : Nat, crashes : Nat]
         /\ since'.overlap = since.overlap
         /\ since'.faults = since.faults /\ since'.crashes = since.crashes + 1
<1>1. /\ used \in [saves : 0..MaxSaves, faults : 0..MaxFaults, crashes : 0..MaxCrashes]
      /\ since \in [overlap : BOOLEAN, faults : Nat, crashes : Nat]
  BY DEF TypeOK
<1>2. /\ used' \in [saves : 0..MaxSaves, faults : 0..MaxFaults, crashes : 0..MaxCrashes]
      /\ used'.saves = used.saves /\ used'.faults = used.faults /\ used'.crashes # used.crashes
      /\ used'.faults - used.faults = 0 /\ used'.crashes - used.crashes = 1
  BY <1>1 DEF Crash, StoreAssumption
<1>3. alone' = TRUE
  BY <1>2 DEF Remember
<1>4. ~GoodSave
  BY DEF GoodSave, Crash
<1>5. since' = [overlap |-> since.overlap \/ (used'.saves # used.saves /\ ~AllIdle),
                faults |-> since.faults + (used'.faults - used.faults),
                crashes |-> since.crashes + (used'.crashes - used.crashes)]
  BY <1>4, Zenon DEF Remember
<1>6. since'.overlap = since.overlap /\ since'.overlap \in BOOLEAN
  BY <1>1, <1>2, <1>5
<1>7. /\ since'.faults = since.faults + (used'.faults - used.faults)
      /\ since'.crashes = since.crashes + (used'.crashes - used.crashes)
  BY <1>5
<1>8. since'.faults = since.faults /\ since'.crashes = since.crashes + 1
  BY <1>1, <1>2, <1>7
<1>9. since' = [overlap |-> since'.overlap, faults |-> since'.faults, crashes |-> since'.crashes]
  BY <1>5, Zenon
<1>10. since'.faults \in Nat /\ since'.crashes \in Nat
  BY <1>1, <1>8
<1>11. since' \in [overlap : BOOLEAN, faults : Nat, crashes : Nat]
  BY <1>6, <1>9, <1>10
<1>12. QED
  BY <1>2, <1>3, <1>6, <1>8, <1>11

LEMMA CrashBase ==
  ASSUME StoreAssumption, Base, Remember, Crash
  PROVE  Base'
<1>1. TypeOK /\ FilesApart
  BY DEF Base
<1>2. /\ UNCHANGED <<dir, content>> /\ settings' = Default /\ result' = "none"
      /\ pc' = [q \in Procs |-> IF q = Startup THEN "readTarget" ELSE "idle"]
      /\ saving' = [q \in Procs |-> Default] /\ handle' = [q \in Procs |-> Absent]
  BY DEF Crash
<1>3. TypeOK'
  BY <1>1, <1>2, DieIs DEF TypeOK
<1>4. FilesApart' /\ Open'
  BY <1>1, <1>2, SameFiles DEF Open
<1>5. ASSUME NEW q \in Procs PROVE Own(q)'
  BY <1>2 DEF Own, StartLabels
<1>6. QED
  BY <1>1, <1>3, <1>4, <1>5, DieIs DEF Base

-----------------------------------------------------------------------------
(* A save that meets no other *)

Alone == \A p, q \in Procs : pc[p] # "idle" /\ pc[q] # "idle" => p = q
Only(p) == \A q \in Procs : q # p => pc[q] = "idle"

(* It has the temporary file open while it writes.                          *)
Handles ==
  \A p \in Procs :
    handle[p] = IF pc[p] = "writeTemporary" THEN dir["temporary"] ELSE Absent

Prepared == {"findBackup", "deleteBackup", "findTarget", "setAside", "commit"}
Committed == {"findLeftover", "deleteLeftover"}
Undoing == {"catchBackup", "catchTarget", "restore"}

(* How far the save has come.                                               *)
Progress(p) ==
  /\ pc[p] = "writeTemporary" => Holds("temporary", Torn)
  /\ pc[p] \in Prepared => Holds("temporary", saving[p])
  /\ pc[p] \in Committed => Holds("target", saving[p])
  /\ pc[p] = "deleteLegacy" => Complete("target")
  /\ pc[p] = "deleteBackup" => Exists("backup")
  /\ pc[p] = "setAside" => Exists("target")
  /\ pc[p] \in Undoing => since.faults >= 1
  /\ pc[p] # "idle" =>
       IF p = Startup THEN result = "none" ELSE settings = saving[p]

(* No further mishap can come that CopyExists speaks of.                    *)
Spent == since.crashes >= 1 \/ since.faults >= 2
Kept == Complete("target") \/ (Spent /\ Complete("backup"))

(* Where the last whole file is while the save is under way.                *)
Guarded(p) ==
  /\ pc[p] \in {"readTarget", "readLegacy", "openTemporary", "writeTemporary"} => Kept
  /\ pc[p] \in Prepared \ {"commit"} => Complete("target") \/ Spent
  /\ pc[p] = "commit" => (Complete("backup") /\ ~Exists("target")) \/ Spent
  /\ pc[p] \in Undoing => Complete("backup") /\ ~Exists("target")

(* What CopyExists allows for since the last good save.                     *)
Considered ==
  /\ ~since.overlap
  /\ \/ since.crashes = 0 /\ since.faults <= 2
     \/ since.faults = 0 /\ since.crashes <= 1

CopyKept ==
  Considered =>
    \/ Complete("legacy")
    \/ (AllIdle => Kept) /\ \A p \in Procs : Guarded(p)

LastStored ==
  AllIdle /\ result = "ok" => Complete("target") /\ content[dir["target"]] = settings

Lone ==
  /\ Alone /\ Handles
  /\ \A p \in Procs : Progress(p)
  /\ LastStored /\ CopyKept

(* What a step of p has to establish, the others being idle.                *)
Opened(p) ==
  /\ \A q \in Procs : q # p => handle'[q] = handle[q]
  /\ handle'[p] = IF pc'[p] = "writeTemporary" THEN dir'["temporary"] ELSE Absent
Ended(p) ==
  pc[p] = "idle" /\ result = "ok" =>
    Complete("target") /\ content[dir["target"]] = settings
Copied(p) ==
  Considered =>
    Complete("legacy") \/ ((pc[p] = "idle" => Kept) /\ Guarded(p))

LEMMA Assemble ==
  ASSUME TypeOK, Open, NEW p \in Procs, Only(p), NEW label \in Labels,
         pc' = [pc EXCEPT ![p] = label], Opened(p), Progress(p)', Ended(p)', Copied(p)'
  PROVE  Lone'
<1>1. /\ pc'[p] = label /\ \A q \in Procs : q # p => pc'[q] = "idle" /\ pc[q] = "idle"
  BY DEF TypeOK, Only
<1>2. Alone'
  BY <1>1 DEF Alone
<1>3. Handles'
  BY <1>1 DEF Opened, Open, Handles
<1>4. ASSUME NEW q \in Procs PROVE Progress(q)'
  <2>1. CASE q = p
    BY <2>1
  <2>2. CASE q # p
    BY <1>1, <2>2 DEF Progress, Prepared, Committed, Undoing
  <2> QED BY <2>1, <2>2
<1>5. AllIdle' => pc'[p] = "idle"
  BY DEF AllIdle
<1>6. LastStored'
  BY <1>5 DEF LastStored, Ended
<1>7. CopyKept'
  <2>1. ASSUME NEW q \in Procs, q # p PROVE Guarded(q)'
    BY <1>1, <2>1 DEF Guarded, Prepared, Undoing
  <2> QED BY <1>5, <2>1 DEF CopyKept, Copied
<1> QED BY <1>2, <1>3, <1>4, <1>6, <1>7 DEF Lone

LEMMA Current ==
  ASSUME Base, Lone, NEW p \in Procs, Only(p)
  PROVE  /\ TypeOK /\ FilesApart /\ Open /\ Own(p) /\ Progress(p) /\ Ended(p) /\ Copied(p)
         /\ handle[p] = IF pc[p] = "writeTemporary" THEN dir["temporary"] ELSE Absent
<1>1. pc[p] = "idle" => AllIdle
  BY DEF Only, AllIdle
<1>2. Ended(p)
  BY <1>1 DEF Lone, LastStored, Ended
<1>3. Copied(p)
  BY <1>1 DEF Lone, CopyKept, Copied
<1> QED BY <1>2, <1>3 DEF Base, Lone, Handles

LEMMA NotGood ==
  ASSUME NEW p \in Procs, Only(p), pc[p] \notin Committed
  PROVE  ~GoodSave
BY DEF GoodSave, Only, Committed

(* A fault that CopyExists allows for comes while not all are spent.        *)
LEMMA FaultSpends ==
  ASSUME StoreAssumption, TypeOK, Remember, FaultCounted,
         NEW p \in Procs, Only(p), pc[p] \notin Committed
  PROVE  /\ Counted /\ since'.faults >= 1
         /\ Considered' => Considered /\ ~Spent
         /\ since.faults >= 1 => Spent'
<1>1. Counted
  BY DEF Counted
<1>2. /\ since'.overlap = since.overlap /\ since'.crashes = since.crashes
      /\ since'.faults = since.faults + 1
  BY <1>1, NotGood, HistoryIs
<1>3. since.faults \in Nat /\ since.crashes \in Nat
  BY DEF TypeOK
<1> QED BY <1>1, <1>2, <1>3 DEF Considered, Spent

LEMMA NothingSpent ==
  ASSUME StoreAssumption, TypeOK, Remember, used' = used,
         NEW p \in Procs, Only(p), pc[p] \notin Committed
  PROVE  /\ Counted /\ (Considered' <=> Considered) /\ (Spent' <=> Spent)
         /\ since'.faults = since.faults
<1>1. Counted
  BY DEF Counted
<1>2. /\ since'.overlap = since.overlap /\ since'.crashes = since.crashes
      /\ since'.faults = since.faults
  BY <1>1, NotGood, HistoryIs
<1> QED BY <1>1, <1>2 DEF Considered, Spent

(* A step that goes on.                                                     *)
LEMMA GoesOn ==
  ASSUME Base, Lone, NEW p \in Procs, Only(p),
         NEW label \in Labels \ {"idle", "writeTemporary"},
         pc[p] \notin {"idle", "writeTemporary"},
         Continue(p, label),
         (pc' = [pc EXCEPT ![p] = label] /\ pc'[p] = label /\ saving' = saving
            /\ settings' = settings /\ result' = result) => Progress(p)' /\ Copied(p)'
  PROVE  Lone'
<1>1. TypeOK /\ Open /\ handle[p] = Absent
  BY Current
<1>2. /\ pc' = [pc EXCEPT ![p] = label] /\ pc'[p] = label /\ saving' = saving
      /\ settings' = settings /\ result' = result /\ Opened(p)
  BY <1>1 DEF Continue, Goto, Opened, Labels, TypeOK
<1>3. Ended(p)'
  BY <1>2 DEF Ended
<1> QED BY <1>1, <1>2, <1>3, Assemble

(* A step with which a save is over.                                        *)
LEMMA Ends ==
  ASSUME StoreAssumption, Base, Lone, NEW p \in Procs, Only(p),
         NEW outcome \in {"ok", "failed"},
         pc[p] \notin StartLabels \cup {"idle"},
         EndSave(p, outcome), content' = content,
         outcome = "ok" => Exists("target")' /\ content'[dir'["target"]] = saving[p],
         Considered' => Complete("legacy")' \/ Kept'
  PROVE  Lone'
<1>1. TypeOK /\ Open /\ Progress(p) /\ saving[p] \in Values
  BY Current DEF Own
<1> DEFINE label == IF p = Startup /\ outcome = "ok" THEN "deleteLegacy" ELSE "idle"
<1>2. label \in {"deleteLegacy", "idle"} /\ label \in Labels
  BY DEF Labels
<1>3. /\ pc' = [pc EXCEPT ![p] = label] /\ pc'[p] = label
      /\ handle' = [handle EXCEPT ![p] = Absent] /\ saving'[p] = Default
      /\ result' = (IF p = Startup THEN result ELSE outcome)
      /\ settings' = (IF p = Startup THEN saving[p] ELSE settings)
  BY <1>1 DEF EndSave, Goto, TypeOK
<1>4. Opened(p)
  BY <1>1, <1>2, <1>3 DEF Opened, TypeOK
<1>5. IF p = Startup THEN result = "none" ELSE settings = saving[p]
  BY <1>1 DEF Progress
<1>6. outcome = "ok" => Complete("target")' /\ content'[dir'["target"]] = saving[p]
  BY <1>1 DEF Complete, StoreAssumption
<1>7. Progress(p)'
  BY <1>2, <1>3, <1>5, <1>6 DEF Progress, Prepared, Committed, Undoing
<1>8. Ended(p)'
  BY <1>3, <1>5, <1>6 DEF Ended
<1>9. Copied(p)'
  BY <1>2, <1>3 DEF Copied, Guarded, Prepared, Undoing
<1> QED BY <1>1, <1>2, <1>3, <1>4, <1>7, <1>8, <1>9, Assemble

LEMMA FindBackupStep ==
  ASSUME StoreAssumption, Base, Lone, Remember, NEW p \in Procs, Only(p),
         FindBackup(p)
  PROVE  Lone'
<1>1. /\ pc[p] = "findBackup" /\ UNCHANGED <<dir, content, used>>
      /\ IF Exists("backup") THEN Continue(p, "deleteBackup")
         ELSE Continue(p, "findTarget")
  BY DEF FindBackup, Find
<1>2. TypeOK /\ FilesApart /\ Progress(p) /\ Copied(p) /\ Own(p)
  BY Current
<1>3. PICK label \in {"deleteBackup", "findTarget"} :
         Continue(p, label) /\ (label = "deleteBackup" => Exists("backup"))
  BY <1>1
<1>4. ASSUME saving' = saving, pc'[p] = label, settings' = settings, result' = result
      PROVE  Progress(p)' /\ Copied(p)'
  BY <1>1, <1>2, <1>3, <1>4, SameFiles, NothingSpent
     DEF Progress, Copied, Guarded, Kept, Prepared, Committed, Undoing
<1> QED BY <1>1, <1>2, <1>3, <1>4, GoesOn DEF Labels

LEMMA FindTargetStep ==
  ASSUME StoreAssumption, Base, Lone, Remember, NEW p \in Procs, Only(p),
         FindTarget(p)
  PROVE  Lone'
<1>1. /\ pc[p] = "findTarget" /\ UNCHANGED <<dir, content, used>>
      /\ IF Exists("target") THEN Continue(p, "setAside")
         ELSE Continue(p, "commit")
  BY DEF FindTarget, Find
<1>2. TypeOK /\ FilesApart /\ Progress(p) /\ Copied(p) /\ Own(p)
  BY Current
<1>3. PICK label \in {"setAside", "commit"} :
         Continue(p, label) /\ (label = "setAside" <=> Exists("target"))
  BY <1>1
<1>4. ASSUME saving' = saving, pc'[p] = label, settings' = settings, result' = result
      PROVE  Progress(p)' /\ Copied(p)'
  BY <1>1, <1>2, <1>3, <1>4, SameFiles, NothingSpent
     DEF Progress, Copied, Guarded, Kept, Prepared, Committed, Undoing, Complete
<1> QED BY <1>1, <1>2, <1>3, <1>4, GoesOn DEF Labels

LEMMA CatchBackupStep ==
  ASSUME StoreAssumption, Base, Lone, Remember, NEW p \in Procs, Only(p),
         CatchBackup(p)
  PROVE  Lone'
<1>1. /\ pc[p] = "catchBackup" /\ UNCHANGED <<dir, content, used>>
      /\ IF Exists("backup") THEN Continue(p, "catchTarget")
         ELSE EndSave(p, "failed")
  BY DEF CatchBackup, Find
<1>2. TypeOK /\ FilesApart /\ Progress(p) /\ Copied(p) /\ Own(p)
  BY Current
<1>3. Considered => \/ Complete("legacy")
                    \/ Complete("backup") /\ ~Exists("target")
  BY <1>1, <1>2 DEF Copied, Guarded, Undoing
<1>4. CASE Exists("backup")
  <2>1. ASSUME saving' = saving, pc'[p] = "catchTarget", settings' = settings, result' = result
        PROVE  Progress(p)' /\ Copied(p)'
    BY <1>1, <1>2, <1>3, <2>1, SameFiles, NothingSpent
       DEF Progress, Copied, Guarded, Kept, Prepared, Committed, Undoing
  <2> QED BY <1>1, <1>2, <1>4, <2>1, GoesOn DEF Labels
<1>5. CASE ~Exists("backup")
  <2>1. Considered' => Complete("legacy")' \/ Kept'
    BY <1>1, <1>2, <1>3, <1>5, SameFiles, NothingSpent DEF Complete, Committed
  <2> QED BY <1>1, <1>2, <1>5, <2>1, Ends DEF StartLabels
<1> QED BY <1>4, <1>5

LEMMA CatchTargetStep ==
  ASSUME StoreAssumption, Base, Lone, Remember, NEW p \in Procs, Only(p),
         CatchTarget(p)
  PROVE  Lone'
<1>1. /\ pc[p] = "catchTarget" /\ UNCHANGED <<dir, content, used>>
      /\ IF Exists("target") THEN EndSave(p, "failed")
         ELSE Continue(p, "restore")
  BY DEF CatchTarget, Find
<1>2. TypeOK /\ FilesApart /\ Progress(p) /\ Copied(p) /\ Own(p)
  BY Current
<1>3. Considered => \/ Complete("legacy")
                    \/ Complete("backup") /\ ~Exists("target")
  BY <1>1, <1>2 DEF Copied, Guarded, Undoing
<1>4. CASE Exists("target")
  <2>1. Considered' => Complete("legacy")' \/ Kept'
    BY <1>1, <1>2, <1>3, <1>4, SameFiles, NothingSpent DEF Committed
  <2> QED BY <1>1, <1>2, <1>4, <2>1, Ends DEF StartLabels
<1>5. CASE ~Exists("target")
  <2>1. ASSUME saving' = saving, pc'[p] = "restore", settings' = settings, result' = result
        PROVE  Progress(p)' /\ Copied(p)'
    BY <1>1, <1>2, <1>3, <2>1, SameFiles, NothingSpent
       DEF Progress, Copied, Guarded, Kept, Prepared, Committed, Undoing
  <2> QED BY <1>1, <1>2, <1>5, <2>1, GoesOn DEF Labels
<1> QED BY <1>4, <1>5

LEMMA FindLeftoverStep ==
  ASSUME StoreAssumption, Base, Lone, Remember, NEW p \in Procs, Only(p),
         FindLeftover(p)
  PROVE  Lone'
<1>1. /\ pc[p] = "findLeftover" /\ UNCHANGED <<dir, content, used>>
      /\ IF Exists("backup") THEN Continue(p, "deleteLeftover")
         ELSE EndSave(p, "ok")
  BY DEF FindLeftover, Find
<1>2. TypeOK /\ FilesApart /\ Progress(p) /\ Copied(p) /\ Own(p)
  BY Current
<1>3. /\ Holds("target", saving[p]) /\ Complete("target")
  BY <1>1, <1>2 DEF Progress, Own, StartLabels, Committed, Holds, Complete, StoreAssumption
<1>4. CASE Exists("backup")
  <2>1. ASSUME saving' = saving, pc'[p] = "deleteLeftover", settings' = settings, result' = result
        PROVE  Progress(p)' /\ Copied(p)'
    BY <1>1, <1>2, <1>3, <2>1, SameFiles
       DEF Progress, Copied, Guarded, Kept, Prepared, Committed, Undoing
  <2> QED BY <1>1, <1>2, <1>4, <2>1, GoesOn DEF Labels
<1>5. CASE ~Exists("backup")
  <2>1. Kept' /\ Exists("target")' /\ content'[dir'["target"]] = saving[p]
    BY <1>1, <1>2, <1>3, SameFiles DEF Kept, Holds
  <2> QED BY <1>1, <1>2, <1>5, <2>1, Ends DEF StartLabels
<1> QED BY <1>4, <1>5

(* A save that fails at an operation without effect while the target, or the*)
(* file of the older layout, is whole.                                      *)
LEMMA FaultEnds ==
  ASSUME StoreAssumption, Base, Lone, Remember, NEW p \in Procs, Only(p),
         pc[p] \notin StartLabels \cup Committed \cup {"idle"},
         FaultCounted, EndSave(p, "failed"), UNCHANGED <<dir, content>>,
         Considered /\ ~Spent => Complete("legacy") \/ Complete("target")
  PROVE  Lone'
<1>1. TypeOK /\ FilesApart
  BY Current
<1>2. Considered' => Complete("legacy")' \/ Kept'
  BY <1>1, FaultSpends, SameFiles DEF Kept, Committed
<1> QED BY <1>1, <1>2, Ends DEF StartLabels

LEMMA DeleteBackupStep ==
  ASSUME StoreAssumption, Base, Lone, Remember, NEW p \in Procs, Only(p),
         DeleteBackup(p)
  PROVE  Lone'
<1>1. TypeOK /\ FilesApart /\ Progress(p) /\ Copied(p) /\ pc[p] = "deleteBackup"
  BY Current DEF DeleteBackup, Delete
<1>2. /\ Exists("backup") /\ Holds("temporary", saving[p])
      /\ Considered => Complete("legacy") \/ Complete("target") \/ Spent
  BY <1>1 DEF Progress, Copied, Guarded, Prepared
<1>3. CASE FaultCounted /\ EndSave(p, "failed") /\ UNCHANGED <<dir, content>>
  BY <1>1, <1>2, <1>3, FaultEnds DEF StartLabels, Committed
<1>4. CASE /\ dir' = [dir EXCEPT !["backup"] = Absent]
           /\ Continue(p, "findTarget")
           /\ UNCHANGED <<content, used>>
  <2>1. ASSUME saving' = saving, pc'[p] = "findTarget", settings' = settings, result' = result
        PROVE  Progress(p)' /\ Copied(p)'
    BY <1>1, <1>2, <1>4, <2>1, Removed, NothingSpent
       DEF Progress, Copied, Guarded, Prepared, Committed, Undoing, Names
  <2> QED BY <1>1, <1>4, <2>1, GoesOn DEF Labels
<1> QED BY <1>2, <1>3, <1>4 DEF DeleteBackup, Delete, Fault, FaultCounted

LEMMA SetAsideStep ==
  ASSUME StoreAssumption, Base, Lone, Remember, NEW p \in Procs, Only(p),
         SetAside(p)
  PROVE  Lone'
<1>1. TypeOK /\ FilesApart /\ Progress(p) /\ Copied(p) /\ pc[p] = "setAside"
  BY Current DEF SetAside, Rename
<1>2. /\ Exists("target") /\ Holds("temporary", saving[p])
      /\ Considered => Complete("legacy") \/ Complete("target") \/ Spent
  BY <1>1 DEF Progress, Copied, Guarded, Prepared
<1>3. CASE FaultCounted /\ EndSave(p, "failed") /\ UNCHANGED <<dir, content>>
  BY <1>1, <1>2, <1>3, FaultEnds DEF StartLabels, Committed
<1>4. CASE /\ dir' = [dir EXCEPT !["backup"] = dir["target"], !["target"] = Absent]
           /\ Continue(p, "commit")
           /\ UNCHANGED <<content, used>>
  <2>1. ASSUME saving' = saving, pc'[p] = "commit", settings' = settings, result' = result
        PROVE  Progress(p)' /\ Copied(p)'
    BY <1>1, <1>2, <1>4, <2>1, Renamed, NothingSpent
       DEF Progress, Copied, Guarded, Prepared, Committed, Undoing, Names
  <2> QED BY <1>1, <1>2, <1>4, <2>1, GoesOn DEF Labels
<1> QED BY <1>2, <1>3, <1>4 DEF SetAside, Rename, Fault, FaultCounted

LEMMA CommitStep ==
  ASSUME StoreAssumption, Base, Lone, Remember, NEW p \in Procs, Only(p),
         Commit(p)
  PROVE  Lone'
<1>1. TypeOK /\ FilesApart /\ Progress(p) /\ Copied(p) /\ pc[p] = "commit"
  BY Current DEF Commit, Rename
<1>2. /\ Exists("temporary") /\ Holds("temporary", saving[p])
      /\ Considered => \/ Complete("legacy") \/ Spent
                       \/ Complete("backup") /\ ~Exists("target")
  BY <1>1 DEF Progress, Copied, Guarded, Prepared, Holds
<1>3. CASE /\ FaultCounted /\ Continue(p, "catchBackup")
           /\ UNCHANGED <<dir, content>>
  <2>1. ASSUME saving' = saving, pc'[p] = "catchBackup", settings' = settings, result' = result
        PROVE  Progress(p)' /\ Copied(p)'
    BY <1>1, <1>2, <1>3, <2>1, SameFiles, FaultSpends
       DEF Progress, Copied, Guarded, Prepared, Committed, Undoing
  <2> QED BY <1>1, <1>3, <2>1, GoesOn DEF Labels
<1>4. CASE /\ dir' = [dir EXCEPT !["target"] = dir["temporary"], !["temporary"] = Absent]
           /\ Continue(p, "findLeftover")
           /\ UNCHANGED <<content, used>>
  <2>1. ASSUME saving' = saving, pc'[p] = "findLeftover", settings' = settings, result' = result
        PROVE  Progress(p)' /\ Copied(p)'
    BY <1>1, <1>2, <1>4, <2>1, Renamed, NothingSpent
       DEF Progress, Copied, Guarded, Prepared, Committed, Undoing, Names
  <2> QED BY <1>1, <1>2, <1>4, <2>1, GoesOn DEF Labels
<1> QED BY <1>2, <1>3, <1>4 DEF Commit, Rename, Fault, FaultCounted

LEMMA RestoreStep ==
  ASSUME StoreAssumption, Base, Lone, Remember, NEW p \in Procs, Only(p),
         Restore(p)
  PROVE  Lone'
<1>1. TypeOK /\ FilesApart /\ Progress(p) /\ Copied(p) /\ pc[p] = "restore"
  BY Current DEF Restore, Rename
<1>2. /\ since.faults >= 1
      /\ Considered => Complete("legacy") \/ Complete("backup")
  BY <1>1 DEF Progress, Copied, Guarded, Undoing
<1>3. CASE FaultCounted /\ EndSave(p, "failed") /\ UNCHANGED <<dir, content>>
  <2>1. Considered' => Complete("legacy")' \/ Kept'
    BY <1>1, <1>2, <1>3, FaultSpends, SameFiles DEF Kept, Committed
  <2> QED BY <1>1, <1>3, <2>1, Ends DEF StartLabels
<1>4. CASE /\ Exists("backup")
           /\ dir' = [dir EXCEPT !["target"] = dir["backup"], !["backup"] = Absent]
           /\ EndSave(p, "failed")
           /\ UNCHANGED <<content, used>>
  <2>1. Considered' => Complete("legacy")' \/ Kept'
    BY <1>1, <1>2, <1>4, Renamed, NothingSpent DEF Kept, Names, Committed
  <2> QED BY <1>1, <1>4, <2>1, Ends DEF StartLabels
<1>5. CASE /\ ~Exists("backup") /\ EndSave(p, "failed")
           /\ UNCHANGED <<dir, content, used>>
  <2>1. Considered' => Complete("legacy")' \/ Kept'
    BY <1>1, <1>2, <1>5, SameFiles, NothingSpent DEF Complete, Committed
  <2> QED BY <1>1, <1>5, <2>1, Ends DEF StartLabels
<1> QED BY <1>3, <1>4, <1>5 DEF Restore, Rename, Fault, FaultCounted

LEMMA DeleteLeftoverStep ==
  ASSUME StoreAssumption, Base, Lone, Remember, NEW p \in Procs, Only(p),
         DeleteLeftover(p)
  PROVE  Lone'
<1>1. TypeOK /\ FilesApart /\ Progress(p) /\ Own(p) /\ pc[p] = "deleteLeftover"
  BY Current DEF DeleteLeftover, Delete
<1>2. Holds("target", saving[p]) /\ Complete("target")
  BY <1>1 DEF Progress, Own, StartLabels, Committed, Holds, Complete, StoreAssumption
<1>3. CASE /\ dir' = [dir EXCEPT !["backup"] = Absent]
           /\ EndSave(p, "ok")
           /\ UNCHANGED <<content, used>>
  <2>1. Kept' /\ Exists("target")' /\ content'[dir'["target"]] = saving[p]
    BY <1>1, <1>2, <1>3, Removed DEF Kept, Holds, Names
  <2> QED BY <1>1, <1>3, <2>1, Ends DEF StartLabels
<1>4. CASE /\ EndSave(p, "failed") /\ UNCHANGED <<dir, content>>
  <2>1. Kept'
    BY <1>1, <1>2, <1>4, SameFiles DEF Kept
  <2> QED BY <1>1, <1>4, <2>1, Ends DEF StartLabels
<1> QED BY <1>3, <1>4 DEF DeleteLeftover, Delete, Fault

(* The start has moved the file of the older layout.                        *)
LEMMA DeleteLegacyStep ==
  ASSUME StoreAssumption, Base, Lone, Remember, Only(Startup), DeleteLegacy
  PROVE  Lone'
<1> DEFINE p == Startup
<1>0. p \in Procs
  BY DEF Procs
<1> HIDE DEF p
<1>1. /\ TypeOK /\ FilesApart /\ Open /\ Progress(p) /\ pc[p] = "deleteLegacy"
      /\ handle[p] = Absent
  BY <1>0, Current DEF DeleteLegacy, Delete, p
<1>2. Complete("target") /\ result = "none"
  BY <1>1 DEF Progress, p
<1>3. /\ Continue(p, "idle") /\ content' = content
      /\ dir' \in {dir, [dir EXCEPT !["legacy"] = Absent]}
  BY DEF DeleteLegacy, Delete, Fault, p
<1>4. Complete("target")'
  <2>1. CASE dir' = dir
    BY <1>1, <1>2, <1>3, <2>1, SameFiles
  <2>2. CASE dir' = [dir EXCEPT !["legacy"] = Absent]
    BY <1>1, <1>2, <1>3, <2>2, Removed DEF Names
  <2> QED BY <1>3, <2>1, <2>2
<1>5. /\ pc' = [pc EXCEPT ![p] = "idle"] /\ pc'[p] = "idle"
      /\ settings' = settings /\ result' = "none" /\ Opened(p)
  BY <1>0, <1>1, <1>2, <1>3 DEF Continue, Goto, Opened, TypeOK
<1>6. Progress(p)' /\ Ended(p)' /\ Copied(p)'
  BY <1>4, <1>5 DEF Progress, Ended, Copied, Guarded, Kept, Prepared, Committed, Undoing
<1> QED BY <1>0, <1>1, <1>5, <1>6, Assemble DEF Labels, p

LEMMA OpenTemporaryStep ==
  ASSUME StoreAssumption, Base, Lone, Remember, NEW p \in Procs, Only(p),
         OpenTemporary(p)
  PROVE  Lone'
<1>1. /\ TypeOK /\ FilesApart /\ Open /\ Progress(p) /\ Copied(p)
      /\ pc[p] = "openTemporary"
  BY Current DEF OpenTemporary
<1>2. Considered => Complete("legacy") \/ Kept
  BY <1>1 DEF Copied, Guarded
<1>3. CASE FaultCounted /\ EndSave(p, "failed") /\ UNCHANGED <<dir, content>>
  BY <1>1, <1>2, <1>3, FaultEnds DEF StartLabels, Committed, Kept
<1>4. ASSUME NEW i, i = (IF Exists("temporary") THEN dir["temporary"] ELSE NewInode),
             dir' = [dir EXCEPT !["temporary"] = i],
             content' = [content EXCEPT ![i] = Torn],
             handle' = [handle EXCEPT ![p] = i],
             Goto(p, "writeTemporary"),
             UNCHANGED <<saving, settings, result, used>>
      PROVE  Lone'
  <2>1. /\ i \in Inodes /\ i # Absent
        /\ dir'["temporary"] = i /\ content'[i] = Torn
        /\ \A n \in Names : n # "temporary" => (Complete(n)' <=> Complete(n))
    BY <1>1, <1>4, OpenIs
  <2>2. /\ pc' = [pc EXCEPT ![p] = "writeTemporary"] /\ pc'[p] = "writeTemporary"
        /\ Opened(p)
    BY <1>1, <1>4, <2>1 DEF Goto, Opened, TypeOK
  <2>3. Holds("temporary", Torn)'
    BY <2>1 DEF Holds, Exists
  <2>4. Progress(p)' /\ Ended(p)'
    BY <1>1, <1>4, <2>2, <2>3 DEF Progress, Ended, Prepared, Committed, Undoing
  <2>5. (Considered' <=> Considered) /\ (Spent' <=> Spent)
    BY <1>1, <1>4, NothingSpent DEF Committed
  <2>6. Copied(p)'
    BY <1>2, <2>1, <2>2, <2>5 DEF Copied, Guarded, Kept, Prepared, Undoing, Names
  <2> QED BY <1>1, <2>2, <2>4, <2>6, Assemble DEF Labels
<1> QED BY <1>3, <1>4 DEF OpenTemporary, Fault, FaultCounted

LEMMA WriteTemporaryStep ==
  ASSUME StoreAssumption, Base, Lone, Remember, NEW p \in Procs, Only(p),
         WriteTemporary(p)
  PROVE  Lone'
<1>1. /\ TypeOK /\ FilesApart /\ Open /\ Progress(p) /\ Copied(p)
      /\ pc[p] = "writeTemporary" /\ handle[p] = dir["temporary"]
  BY Current DEF WriteTemporary
<1>2. /\ Considered => Complete("legacy") \/ Kept
      /\ Holds("temporary", Torn)
  BY <1>1 DEF Copied, Guarded, Progress
<1>3. CASE FaultCounted /\ EndSave(p, "failed") /\ UNCHANGED <<dir, content>>
  BY <1>1, <1>2, <1>3, FaultEnds DEF StartLabels, Committed, Kept
<1>4. CASE /\ content' = [content EXCEPT ![handle[p]] = saving[p]]
           /\ handle' = [handle EXCEPT ![p] = Absent]
           /\ Goto(p, "findBackup")
           /\ UNCHANGED <<dir, saving, settings, result, used>>
  <2> DEFINE i == dir["temporary"]
  <2>1. i \in Inodes /\ i # Absent
        /\ \A n \in Names : n # "temporary" => dir[n] # i
    BY <1>1, <1>2 DEF Holds, Exists, TypeOK, Names, FilesApart
  <2>2. /\ content'[i] = saving[p] /\ dir' = dir
        /\ \A j \in Inodes : j # i => content'[j] = content[j]
    BY <1>1, <1>2, <1>4, <2>1 DEF TypeOK
  <2>3. /\ pc' = [pc EXCEPT ![p] = "findBackup"] /\ pc'[p] = "findBackup"
        /\ Opened(p)
    BY <1>1, <1>4 DEF Goto, Opened, TypeOK
  <2>4. /\ Holds("temporary", saving[p])'
        /\ \A n \in Names : n # "temporary" => (Complete(n)' <=> Complete(n))
    BY <1>1, <1>4, <2>1, <2>2 DEF Holds, Exists, Complete, TypeOK
  <2>5. Progress(p)' /\ Ended(p)'
    BY <1>1, <1>4, <2>3, <2>4 DEF Progress, Ended, Prepared, Committed, Undoing
  <2>6. (Considered' <=> Considered) /\ (Spent' <=> Spent)
    BY <1>1, <1>4, NothingSpent DEF Committed
  <2>7. Copied(p)'
    BY <1>2, <2>3, <2>4, <2>6 DEF Copied, Guarded, Kept, Prepared, Undoing, Names
  <2> QED BY <1>1, <2>3, <2>5, <2>7, Assemble DEF Labels
<1>5. content[handle[p]] = Torn
  BY <1>1, <1>2 DEF Holds
<1> QED BY <1>3, <1>4, <1>5 DEF WriteTemporary, Fault, FaultCounted

LEMMA ReadTargetStep ==
  ASSUME StoreAssumption, Base, Lone, Remember, Only(Startup), ReadTarget
  PROVE  Lone'
<1> DEFINE p == Startup
<1>0. p \in Procs /\ Only(p)
  BY DEF Procs
<1> HIDE DEF p
<1>1. /\ TypeOK /\ FilesApart /\ Open /\ Progress(p) /\ Copied(p)
      /\ pc[p] = "readTarget" /\ handle[p] = Absent
  BY <1>0, Current DEF ReadTarget, p
<1>2. /\ result = "none" /\ UNCHANGED <<dir, content, saving, handle, result, used>>
      /\ Considered => Complete("legacy") \/ Kept
  BY <1>1 DEF Progress, Copied, Guarded, ReadTarget, p
<1>3. PICK label \in {"idle", "readLegacy"} : pc' = [pc EXCEPT ![p] = label]
  BY DEF ReadTarget, Goto, p
<1>4. pc'[p] = label /\ Opened(p)
  BY <1>0, <1>1, <1>2, <1>3 DEF TypeOK, Opened
<1>5. Progress(p)' /\ Ended(p)'
  BY <1>2, <1>4 DEF Progress, Ended, Prepared, Committed, Undoing, p
<1>6. (Considered' <=> Considered) /\ (Spent' <=> Spent)
  BY <1>0, <1>1, <1>2, NothingSpent DEF Committed
<1>7. Copied(p)'
  BY <1>1, <1>2, <1>4, <1>6, SameFiles DEF Copied, Guarded, Kept, Prepared, Undoing
<1> QED BY <1>0, <1>1, <1>3, <1>4, <1>5, <1>7, Assemble DEF Labels

LEMMA ReadLegacyStep ==
  ASSUME StoreAssumption, Base, Lone, Remember, Only(Startup), ReadLegacy
  PROVE  Lone'
<1> DEFINE p == Startup
<1>0. p \in Procs /\ Only(p)
  BY DEF Procs
<1> HIDE DEF p
<1>1. /\ TypeOK /\ FilesApart /\ Open /\ Progress(p) /\ Copied(p)
      /\ pc[p] = "readLegacy" /\ handle[p] = Absent
  BY <1>0, Current DEF ReadLegacy, p
<1>2. /\ result = "none" /\ UNCHANGED <<dir, content, handle, result, used>>
      /\ Considered => Complete("legacy") \/ Kept
  BY <1>1 DEF Progress, Copied, Guarded, ReadLegacy, p
<1>3. PICK label \in {"idle", "openTemporary"} : pc' = [pc EXCEPT ![p] = label]
  BY DEF ReadLegacy, Goto, p
<1>4. pc'[p] = label /\ Opened(p)
  BY <1>0, <1>1, <1>2, <1>3 DEF TypeOK, Opened
<1>5. Progress(p)' /\ Ended(p)'
  BY <1>2, <1>4 DEF Progress, Ended, Prepared, Committed, Undoing, p
<1>6. (Considered' <=> Considered) /\ (Spent' <=> Spent)
  BY <1>0, <1>1, <1>2, NothingSpent DEF Committed
<1>7. Copied(p)'
  BY <1>1, <1>2, <1>4, <1>6, SameFiles DEF Copied, Guarded, Kept, Prepared, Undoing
<1> QED BY <1>0, <1>1, <1>3, <1>4, <1>5, <1>7, Assemble DEF Labels

-----------------------------------------------------------------------------
(* The first save after others, and the start after a crash, have met no    *)
(* other whatever was before.                                               *)

StoreInv == Base /\ (alone => Lone)

LEMMA SaveSettingsStep ==
  ASSUME StoreAssumption, StoreInv, AllIdle, Remember, NEW p \in Procs, p # Startup,
         NEW v \in Values, SaveSettings(p, v)
  PROVE  Lone'
<1>1. /\ TypeOK /\ FilesApart /\ Open /\ Only(p) /\ pc[p] = "idle" /\ handle[p] = Absent
  BY DEF StoreInv, Base, AllIdle, Only, Open
<1>2. /\ pc' = [pc EXCEPT ![p] = "openTemporary"] /\ pc'[p] = "openTemporary"
      /\ settings' = v /\ saving'[p] = v /\ UNCHANGED <<dir, content, handle, result>>
  BY <1>1 DEF SaveSettings, Goto, TypeOK
<1>3. /\ since'.overlap = (since.overlap \/ ~AllIdle)
      /\ since'.faults = since.faults /\ since'.crashes = since.crashes
  BY <1>1, BeginIs
<1>4. Opened(p)
  BY <1>1, <1>2 DEF Opened
<1>5. Progress(p)' /\ Ended(p)'
  BY <1>2 DEF Progress, Ended, Prepared, Committed, Undoing
<1>6. Copied(p)'
  <2> SUFFICES ASSUME Considered'
               PROVE  Complete("legacy")' \/ Kept'
    BY <1>2 DEF Copied, Guarded, Prepared, Undoing
  <2>1. Considered /\ alone
    BY <1>3 DEF Considered, StoreInv, Base
  <2>2. Copied(p)
    BY <1>1, <2>1, Current DEF StoreInv
  <2>3. Complete("legacy") \/ Kept
    BY <1>1, <2>1, <2>2 DEF Copied
  <2>4. Spent' <=> Spent
    BY <1>3 DEF Spent
  <2> QED BY <1>1, <1>2, <2>3, <2>4, SameFiles DEF Kept
<1> QED BY <1>1, <1>2, <1>4, <1>5, <1>6, Assemble DEF Labels

LEMMA CrashStep ==
  ASSUME StoreAssumption, StoreInv, Remember, Crash
  PROVE  Lone'
<1>1. TypeOK /\ FilesApart
  BY DEF StoreInv, Base
<1>2. /\ UNCHANGED <<dir, content>> /\ settings' = Default /\ result' = "none"
      /\ pc' = [q \in Procs |-> IF q = Startup THEN "readTarget" ELSE "idle"]
      /\ handle' = [q \in Procs |-> Absent]
  BY DEF Crash
<1>3. /\ since'.overlap = since.overlap
      /\ since'.faults = since.faults /\ since'.crashes = since.crashes + 1
      /\ since.faults \in Nat /\ since.crashes \in Nat
  BY <1>1, DieIs DEF TypeOK
<1>4. /\ Spent' /\ (Considered' => Considered /\ ~Spent)
  BY <1>3 DEF Spent, Considered
<1>5. Alone' /\ Handles'
  BY <1>2 DEF Alone, Handles
<1>6. ASSUME NEW q \in Procs PROVE Progress(q)'
  BY <1>2 DEF Progress, Prepared, Committed, Undoing
<1>7. LastStored'
  BY <1>2 DEF LastStored
<1>8. CopyKept'
  <2> SUFFICES ASSUME Considered', ~Complete("legacy")'
               PROVE  Kept'
    BY <1>2 DEF CopyKept, Guarded, Prepared, Undoing
  <2>1. Considered /\ ~Spent /\ ~Complete("legacy")
    BY <1>1, <1>2, <1>4, SameFiles
  <2>2. Lone
    BY <2>1 DEF Considered, StoreInv, Base
  <2>3. (AllIdle => Kept) /\ \A q \in Procs : Guarded(q)
    BY <2>1, <2>2 DEF Lone, CopyKept
  <2>4. Complete("target") \/ Complete("backup")
    <3>1. CASE AllIdle
      BY <2>3, <3>1 DEF Kept
    <3>2. CASE ~AllIdle
      <4>1. PICK q \in Procs : pc[q] # "idle"
        BY <3>2 DEF AllIdle
      <4>2. pc[q] \in Labels /\ Progress(q) /\ Guarded(q) /\ Own(q)
        BY <1>1, <2>2, <2>3 DEF StoreInv, Base, Lone, TypeOK, Labels
      <4>3. pc[q] \in Committed \cup {"deleteLegacy"} => Complete("target")
        BY <4>2 DEF Progress, Own, StartLabels, Committed, Holds, Complete, StoreAssumption
      <4> QED BY <2>1, <4>1, <4>2, <4>3
              DEF Guarded, Kept, Prepared, Committed, Undoing, Labels
    <3> QED BY <3>1, <3>2
  <2> QED BY <1>1, <1>2, <1>4, <2>4, SameFiles DEF Kept
<1> QED BY <1>5, <1>6, <1>7, <1>8 DEF Lone

LEMMA StoreInvInit ==
  ASSUME StoreAssumption, Init
  PROVE  StoreInv
<1>1. TypeOK
  <2>1. {1, 2} \subseteq Inodes /\ 0..2 \subseteq Inodes \union {Absent}
    BY InodesAre DEF Absent
  <2>2. content \in [Inodes -> Values \union {Torn}]
    BY <2>1 DEF Init
  <2>3. dir \in [Names -> Inodes \union {Absent}]
    BY <2>1 DEF Init
  <2>4. /\ used \in [saves : 0..MaxSaves, faults : 0..MaxFaults, crashes : 0..MaxCrashes]
        /\ since \in [overlap : BOOLEAN, faults : Nat, crashes : Nat] /\ alone \in BOOLEAN
    BY DEF Init, StoreAssumption
  <2> QED BY <2>2, <2>3, <2>4 DEF Init, TypeOK
<1>2. Alone /\ Handles /\ Open
  BY DEF Init, Alone, Handles, Open
<1>3. FilesApart
  BY DEF Init, FilesApart, Exists, Absent, Names
<1>4. ASSUME NEW q \in Procs PROVE Progress(q) /\ Own(q)
  BY DEF Init, Progress, Own, StartLabels, Prepared, Committed, Undoing
<1>5. LastStored
  BY DEF Init, LastStored
<1>6. CopyKept
  <2>1. Complete("target") \/ Complete("legacy")
    BY DEF Init
  <2> QED BY <2>1 DEF Init, CopyKept, Kept, Guarded, Prepared, Undoing
<1>7. alone
  BY DEF Init
<1> QED BY <1>1, <1>2, <1>3, <1>4, <1>5, <1>6, <1>7 DEF StoreInv, Base, Lone

LEMMA StoreInvStep ==
  ASSUME StoreAssumption, StoreInv, [Next]_vars
  PROVE  StoreInv'
<1>1. alone => \A p \in Procs : pc[p] # "idle" => Only(p)
  BY DEF StoreInv, Lone, Alone, Only
<1>2. Startup \in Procs /\ Base /\ TypeOK
  BY DEF Procs, StoreInv, Base
<1>3. ASSUME Counted, Remember PROVE alone' = alone
  BY <1>2, <1>3, HistoryIs
<1>4. ASSUME NEW p \in Savers, NEW v \in Values, Started, SaveSettings(p, v), Remember
      PROVE  StoreInv'
  <2>1. p \in Procs /\ p # Startup
    BY <1>4 DEF Procs, StoreAssumption
  <2>2. Base'
    BY <1>2, <1>4, <2>1, SaveBase
  <2>3. alone' = AllIdle
    BY <1>2, <1>4, <2>1, BeginIs
  <2>4. AllIdle => Lone'
    BY <1>4, <2>1, SaveSettingsStep
  <2> QED BY <2>2, <2>3, <2>4 DEF StoreInv
<1>5. CASE (ReadTarget \/ ReadLegacy \/ DeleteLegacy) /\ Remember
  <2>1. pc[Startup] # "idle" /\ Counted
    BY <1>5 DEF ReadTarget, ReadLegacy, DeleteLegacy, Delete, Fault, Counted, FaultCounted
  <2>2. alone => Only(Startup)
    BY <1>1, <1>2, <2>1
  <2>3. Base' /\ alone' = alone
    BY <1>2, <1>3, <1>5, <2>1, StartBase
  <2>4. alone => Lone'
    BY <1>2, <1>5, <2>2, ReadTargetStep, ReadLegacyStep, DeleteLegacyStep DEF StoreInv
  <2> QED BY <2>3, <2>4 DEF StoreInv
<1>6. CASE Crash /\ Remember
  BY <1>2, <1>6, CrashBase, CrashStep DEF StoreInv
<1>7. ASSUME NEW p \in Procs, OpenTemporary(p) \/ WriteTemporary(p), Remember
      PROVE  StoreInv'
  <2>1. pc[p] # "idle" /\ Counted
    BY <1>7 DEF OpenTemporary, WriteTemporary, Fault, Counted, FaultCounted
  <2>2. alone => Only(p)
    BY <1>1, <2>1
  <2>3. Base' /\ alone' = alone
    BY <1>2, <1>3, <1>7, <2>1, OpenBase, WriteBase
  <2>4. alone => Lone'
    BY <1>2, <1>7, <2>2, OpenTemporaryStep, WriteTemporaryStep DEF StoreInv
  <2> QED BY <2>3, <2>4 DEF StoreInv
<1>8. ASSUME NEW p \in Procs, Operation(p), Remember
      PROVE  StoreInv'
  <2>1. pc[p] # "idle" /\ Counted
    BY <1>8, OperationIs
  <2>2. alone => Only(p)
    BY <1>1, <2>1
  <2>3. Base' /\ alone' = alone
    BY <1>2, <1>3, <1>8, <2>1, OperationBase
  <2>4. ASSUME Only(p), Lone PROVE Lone'
    BY <1>2, <1>8, <2>4, FindBackupStep, DeleteBackupStep, FindTargetStep, SetAsideStep,
       CommitStep, CatchBackupStep, CatchTargetStep, RestoreStep, FindLeftoverStep,
       DeleteLeftoverStep DEF Operation
  <2> QED BY <2>2, <2>3, <2>4 DEF StoreInv
<1>9. CASE UNCHANGED vars
  <2>1. Base'
    BY <1>2, <1>9 DEF Base, vars, TypeOK, FilesApart, Open, Own, Exists
  <2>2. Lone => Lone'
    BY <1>9 DEF vars, Lone, Alone, Handles, Progress, LastStored, CopyKept, Kept, Guarded,
       Considered, Spent, AllIdle, Holds, Exists, Complete
  <2> QED BY <1>9, <2>1, <2>2 DEF StoreInv, vars
<1> QED BY <1>4, <1>5, <1>6, <1>7, <1>8, <1>9 DEF Next, StoreStep, Operation

LEMMA StoreInvHolds ==
  ASSUME StoreAssumption
  PROVE  Spec => []StoreInv
<1>1. Init => StoreInv
  BY StoreInvInit
<1>2. StoreInv /\ [Next]_vars => StoreInv'
  BY StoreInvStep
<1> QED BY <1>1, <1>2, PTL DEF Spec

(* For any number of saves that overlap as they like: unless two have       *)
(* overlapped since the last good one, a whole set of settings is on the    *)
(* disk under one of its names, whichever operation of writeJsonObject or of*)
(* the move from the older layout the program has died in since then, or    *)
(* whichever two of them have failed.                                       *)
THEOREM CopyExistsHolds ==
  ASSUME StoreAssumption
  PROVE  Spec => []CopyExists
<1>1. StoreInv => CopyExists
  <2> SUFFICES ASSUME StoreInv, Considered
               PROVE  \E name \in Names : Complete(name)
    BY DEF CopyExists, Considered
  <2>1. Lone
    BY DEF StoreInv, Base, Considered
  <2>2. CASE Complete("legacy")
    BY <2>2 DEF Names
  <2>3. CASE AllIdle /\ Kept
    BY <2>3 DEF Kept, Names
  <2>4. ASSUME NEW q \in Procs, pc[q] # "idle", Guarded(q)
        PROVE  \E name \in Names : Complete(name)
    <3>1. pc[q] \in Labels /\ Progress(q) /\ Own(q)
      BY <2>1 DEF StoreInv, Base, Lone, TypeOK, Labels
    <3>2. pc[q] \in Committed \cup {"deleteLegacy"} => Complete("target")
      BY <3>1 DEF Progress, Own, StartLabels, Committed, Holds, Complete, StoreAssumption
    <3>3. pc[q] \in Prepared => Complete("temporary")
      BY <3>1 DEF Progress, Own, StartLabels, Prepared, Holds, Complete, StoreAssumption
    <3> QED BY <2>4, <3>1, <3>2, <3>3
            DEF Guarded, Kept, Prepared, Committed, Undoing, Labels, Names
  <2> QED BY <2>1, <2>2, <2>3, <2>4 DEF Lone, CopyKept, AllIdle
<1> QED BY <1>1, StoreInvHolds, PTL

(* For any number of saves that overlap as they like: a save that met no    *)
(* other and for which writeJsonObject returned without an error is what    *)
(* the next start reads and what is in memory, until the next change,       *)
(* however often saves overlapped, operations failed or the program died    *)
(* before.                                                                  *)
THEOREM SuccessIsStoredHolds ==
  ASSUME StoreAssumption
  PROVE  Spec => []SuccessIsStored
<1>1. StoreInv => SuccessIsStored
  BY DEF StoreInv, Lone, LastStored, SuccessIsStored
<1> QED BY <1>1, StoreInvHolds, PTL

-----------------------------------------------------------------------------
(* Fan curves *)

(* Every set of natural numbers has a least element.                        *)
LEMMA Least ==
  ASSUME NEW T, T \subseteq Nat, T # {}
  PROVE  \E x \in T : \A y \in T : x <= y
<1> DEFINE Below == {ss \in Nat \X Nat : ss[1] < ss[2]}
<1>1. IsWellFoundedOn(Below, Nat)
  <2>1. OpToRel(<, Nat) = Below
    BY Zenon DEF OpToRel
  <2>2. QED
    BY <2>1, NatLessThanWellFounded, Zenon
<1> HIDE DEF Below
<1>2. PICK x \in T : \A y \in T : ~(<<y, x>> \in Below)
  BY <1>1, WFMin, Zenon
<1>3. ASSUME NEW y \in T
      PROVE  x <= y
  <2>1. ~(y < x)
    BY <1>2 DEF Below
  <2>2. QED
    BY <2>1
<1>4. QED
  BY <1>3

(* Induction over the natural numbers, for a set of them.                   *)
LEMMA AllNaturals ==
  ASSUME NEW S, S \subseteq Nat, 0 \in S, \A n \in S : n + 1 \in S
  PROVE  S = Nat
<1> SUFFICES ASSUME Nat \ S # {}
             PROVE  FALSE
  OBVIOUS
<1>1. PICK x \in Nat \ S : \A y \in Nat \ S : x <= y
  BY Least
<1>2. x # 0 /\ x - 1 \in Nat /\ x - 1 \notin Nat \ S
  BY <1>1
<1>3. QED
  BY <1>1, <1>2

(* What the two loops of the normalisation compute, one step after another.   *)
LEMMA SortedUnfolds ==
  ASSUME NEW list, Len(list) \in Nat
  PROVE  /\ Editor!Sorted(list)[0] = <<>>
         /\ \A i \in 1..Len(list) :
              Editor!Sorted(list)[i] = Editor!Insert(Editor!Sorted(list)[i - 1],
              Editor!Clamped(list[i]))
<1> DEFINE Step(x, i) == Editor!Insert(x, Editor!Clamped(list[i]))
           Table(g, m) == [i \in 0..m |-> IF i = 0 THEN <<>> ELSE Step(g[i - 1], i)]
           S == {m \in Nat : \E g : g = Table(g, m)}
<1> HIDE DEF Step
<1>1. 0 \in S
  <2> DEFINE g == [i \in 0..0 |-> <<>>]
  <2>1. g = Table(g, 0)
    OBVIOUS
  <2>2. QED
    BY <2>1
<1>2. ASSUME NEW m \in S
      PROVE  m + 1 \in S
  <2>1. m \in Nat
    OBVIOUS
  <2>2. PICK g : g = Table(g, m)
    OBVIOUS
  <2>3. \A i \in 0..m : g[i] = IF i = 0 THEN <<>> ELSE Step(g[i - 1], i)
    BY <2>2
  <2> HIDE DEF S
  <2> DEFINE h == [i \in 0..m + 1 |-> IF i <= m THEN g[i] ELSE Step(g[m], m + 1)]
  <2>4. \A i \in 0..m + 1 : h[i] = IF i = 0 THEN <<>> ELSE Step(h[i - 1], i)
    <3> SUFFICES ASSUME NEW i \in 0..m + 1
                 PROVE  h[i] = IF i = 0 THEN <<>> ELSE Step(h[i - 1], i)
      OBVIOUS
    <3>1. CASE i = 0
      BY <2>1, <2>3, <3>1
    <3>2. CASE i # 0 /\ i <= m
      <4>1. i - 1 \in 0..m + 1 /\ i - 1 <= m /\ i \in 0..m
        BY <2>1, <3>2
      <4>2. h[i] = g[i] /\ h[i - 1] = g[i - 1]
        BY <3>2, <4>1
      <4>3. QED
        BY <2>3, <3>2, <4>1, <4>2
    <3>3. CASE i = m + 1
      <4>1. i - 1 = m /\ i # 0 /\ ~(i <= m) /\ m \in 0..m + 1
        BY <2>1, <3>3
      <4>2. h[i] = Step(g[m], m + 1) /\ h[m] = g[m]
        BY <2>1, <3>3, <4>1
      <4>3. QED
        BY <3>3, <4>1, <4>2
    <3>4. QED
      BY <2>1, <3>1, <3>2, <3>3
  <2>5. h = Table(h, m + 1)
    <3>1. h = [i \in 0..m + 1 |-> h[i]]
      OBVIOUS
    <3> HIDE DEF h
    <3>2. QED
      BY <2>4, <3>1, Zenon
  <2> HIDE DEF h, Table
  <2>6. m + 1 \in Nat
    BY <2>1
  <2>7. QED
    BY <2>5, <2>6 DEF S
<1>3. S = Nat
  <2>1. S \subseteq Nat
    OBVIOUS
  <2> HIDE DEF S
  <2>2. QED
    BY <1>1, <1>2, <2>1, AllNaturals
<1> DEFINE f == CHOOSE g : g = Table(g, Len(list))
<1>4. f = Table(f, Len(list))
  <2>1. \E g : g = Table(g, Len(list))
    BY <1>3
  <2> HIDE DEF Table
  <2>2. QED
    BY <2>1
<1>5. Editor!Sorted(list) = f
  BY DEF Editor!Sorted, Step
<1> HIDE DEF f, S
<1>6. Editor!Sorted(list) = Table(Editor!Sorted(list), Len(list))
  BY <1>4, <1>5, Zenon
<1>7. QED
  BY <1>6 DEF Step

LEMMA MergedUnfolds ==
  ASSUME NEW s, Len(s) \in Nat
  PROVE  /\ Editor!Merged(s)[0] = <<>>
         /\ \A i \in 1..Len(s) : Editor!Merged(s)[i] = Editor!Merge(Editor!Merged(s)[i - 1], s[i])
<1> DEFINE Step(x, i) == Editor!Merge(x, s[i])
           Table(g, m) == [i \in 0..m |-> IF i = 0 THEN <<>> ELSE Step(g[i - 1], i)]
           S == {m \in Nat : \E g : g = Table(g, m)}
<1> HIDE DEF Step
<1>1. 0 \in S
  <2> DEFINE g == [i \in 0..0 |-> <<>>]
  <2>1. g = Table(g, 0)
    OBVIOUS
  <2>2. QED
    BY <2>1
<1>2. ASSUME NEW m \in S
      PROVE  m + 1 \in S
  <2>1. m \in Nat
    OBVIOUS
  <2>2. PICK g : g = Table(g, m)
    OBVIOUS
  <2>3. \A i \in 0..m : g[i] = IF i = 0 THEN <<>> ELSE Step(g[i - 1], i)
    BY <2>2
  <2> HIDE DEF S
  <2> DEFINE h == [i \in 0..m + 1 |-> IF i <= m THEN g[i] ELSE Step(g[m], m + 1)]
  <2>4. \A i \in 0..m + 1 : h[i] = IF i = 0 THEN <<>> ELSE Step(h[i - 1], i)
    <3> SUFFICES ASSUME NEW i \in 0..m + 1
                 PROVE  h[i] = IF i = 0 THEN <<>> ELSE Step(h[i - 1], i)
      OBVIOUS
    <3>1. CASE i = 0
      BY <2>1, <2>3, <3>1
    <3>2. CASE i # 0 /\ i <= m
      <4>1. i - 1 \in 0..m + 1 /\ i - 1 <= m /\ i \in 0..m
        BY <2>1, <3>2
      <4>2. h[i] = g[i] /\ h[i - 1] = g[i - 1]
        BY <3>2, <4>1
      <4>3. QED
        BY <2>3, <3>2, <4>1, <4>2
    <3>3. CASE i = m + 1
      <4>1. i - 1 = m /\ i # 0 /\ ~(i <= m) /\ m \in 0..m + 1
        BY <2>1, <3>3
      <4>2. h[i] = Step(g[m], m + 1) /\ h[m] = g[m]
        BY <2>1, <3>3, <4>1
      <4>3. QED
        BY <3>3, <4>1, <4>2
    <3>4. QED
      BY <2>1, <3>1, <3>2, <3>3
  <2>5. h = Table(h, m + 1)
    <3>1. h = [i \in 0..m + 1 |-> h[i]]
      OBVIOUS
    <3> HIDE DEF h
    <3>2. QED
      BY <2>4, <3>1, Zenon
  <2> HIDE DEF h, Table
  <2>6. m + 1 \in Nat
    BY <2>1
  <2>7. QED
    BY <2>5, <2>6 DEF S
<1>3. S = Nat
  <2>1. S \subseteq Nat
    OBVIOUS
  <2> HIDE DEF S
  <2>2. QED
    BY <1>1, <1>2, <2>1, AllNaturals
<1> DEFINE f == CHOOSE g : g = Table(g, Len(s))
<1>4. f = Table(f, Len(s))
  <2>1. \E g : g = Table(g, Len(s))
    BY <1>3
  <2> HIDE DEF Table
  <2>2. QED
    BY <2>1
<1>5. Editor!Merged(s) = f
  BY DEF Editor!Merged, Step
<1> HIDE DEF f, S
<1>6. Editor!Merged(s) = Table(Editor!Merged(s), Len(s))
  BY <1>4, <1>5, Zenon
<1>7. QED
  BY <1>6 DEF Step

-----------------------------------------------------------------------------
(* What normalisation computes *)

Point == [t : Int, f : Int]
SafePoint == [t : 20..110, f : 20..100]
Rising(s) == \A i, j \in DOMAIN s : i < j => s[i].t <= s[j].t

(* Clamping makes a point safe and leaves a safe one alone.                 *)
LEMMA ClampedIs ==
  ASSUME NEW p \in Point
  PROVE  Editor!Clamped(p) \in SafePoint /\ (p \in SafePoint => Editor!Clamped(p) = p)
<1>1. p.t \in Int /\ p.f \in Int
  BY DEF Point
<1>2. Editor!Clamp(p.t, 20, 110) \in 20..110 /\ Editor!Clamp(p.f, 20, 100) \in 20..100
  BY <1>1 DEF Editor!Clamp, Editor!Larger, Editor!Smaller
<1>3. ASSUME p \in SafePoint
      PROVE  Editor!Clamped(p) = p
  <2>1. p.t \in 20..110 /\ p.f \in 20..100 /\ p = [t |-> p.t, f |-> p.f]
    BY <1>3 DEF SafePoint
  <2>2. Editor!Clamp(p.t, 20, 110) = p.t /\ Editor!Clamp(p.f, 20, 100) = p.f
    BY <2>1 DEF Editor!Clamp, Editor!Larger, Editor!Smaller
  <2>3. QED
    BY <2>1, <2>2, Zenon DEF Editor!Clamped
<1>4. QED
  BY <1>2, <1>3 DEF Editor!Clamped, SafePoint

(* The fields of a safe point are numbers.                                  *)
LEMMA SafePointIs ==
  ASSUME NEW e \in SafePoint
  PROVE  /\ e.t \in 20..110 /\ e.f \in 20..100 /\ e.t \in Int /\ e.f \in Int
         /\ e = [t |-> e.t, f |-> e.f]
<1>1. e.t \in 20..110 /\ e.f \in 20..100 /\ e = [t |-> e.t, f |-> e.f]
  BY DEF SafePoint
<1>2. QED
  BY <1>1

(* Among sorted points there is a place for one more.                       *)
LEMMA PlaceIs ==
  ASSUME NEW s \in Seq(SafePoint), Rising(s), NEW p \in SafePoint
  PROVE  /\ Editor!Place(s, p) \in 1..Len(s) + 1
         /\ \A i \in 1..Editor!Place(s, p) - 1 : s[i].t <= p.t
         /\ \A i \in Editor!Place(s, p)..Len(s) : p.t < s[i].t
<1> DEFINE n == Len(s)
           T == {k \in 1..n + 1 : \A i \in k..n : p.t < s[i].t}
<1>1. n \in Nat /\ DOMAIN s = 1..n /\ p.t \in Int /\ \A i \in 1..n : s[i].t \in Int
  <2>1. n \in Nat /\ DOMAIN s = 1..n /\ \A i \in 1..n : s[i] \in SafePoint
    OBVIOUS
  <2>2. QED
    BY <2>1, SafePointIs
<1> HIDE DEF n
<1>2. T \subseteq Nat /\ n + 1 \in T
  BY <1>1
<1>3. PICK k \in T : \A l \in T : k <= l
  BY <1>2, Least
<1>4. k \in 1..n + 1 /\ \A i \in k..n : p.t < s[i].t
  BY <1>3
<1>5. \A i \in 1..k - 1 : s[i].t <= p.t
  <2> SUFFICES ASSUME NEW i \in 1..k - 1
               PROVE  s[i].t <= p.t
    OBVIOUS
  <2>1. k - 1 \in 1..n /\ k - 1 \in 1..n + 1 /\ i \in 1..n /\ i <= k - 1 /\ ~(k <= k - 1)
    BY <1>1, <1>4
  <2>2. k - 1 \notin T
    BY <1>3, <2>1
  <2>3. PICK j \in (k - 1)..n : ~(p.t < s[j].t)
    BY <2>1, <2>2
  <2>4. j = k - 1
    BY <1>1, <1>4, <2>1, <2>3
  <2>5. s[k - 1].t <= p.t
    BY <1>1, <2>1, <2>3, <2>4
  <2>6. i = k - 1 \/ s[i].t <= s[k - 1].t
    BY <1>1, <2>1 DEF Rising
  <2>7. QED
    BY <1>1, <2>1, <2>5, <2>6
<1> HIDE DEF T
<1>6. QED
  BY <1>4, <1>5 DEF Editor!Place, n

LEMMA InsertIs ==
  ASSUME NEW s \in Seq(SafePoint), Rising(s), NEW p \in SafePoint
  PROVE  /\ Editor!Insert(s, p) \in Seq(SafePoint) /\ Rising(Editor!Insert(s, p))
         /\ Len(Editor!Insert(s, p)) = Len(s) + 1
         /\ \E k \in DOMAIN Editor!Insert(s, p) : Editor!Insert(s, p)[k] = p
         /\ \A i \in DOMAIN s :
              \E k \in DOMAIN Editor!Insert(s, p) : Editor!Insert(s, p)[k] = s[i]
         /\ \A k \in DOMAIN Editor!Insert(s, p) :
              Editor!Insert(s, p)[k] = p \/ \E i \in DOMAIN s : Editor!Insert(s, p)[k] = s[i]
<1> DEFINE n == Len(s)
           k == Editor!Place(s, p)
           q == Editor!Insert(s, p)
<1>1. n \in Nat /\ DOMAIN s = 1..n /\ p.t \in Int /\ \A i \in 1..n : s[i].t \in Int
  <2>1. n \in Nat /\ DOMAIN s = 1..n /\ \A i \in 1..n : s[i] \in SafePoint
    OBVIOUS
  <2>2. QED
    BY <2>1, SafePointIs
<1>2. /\ k \in 1..n + 1 /\ \A i \in 1..k - 1 : s[i].t <= p.t
      /\ \A i \in k..n : p.t < s[i].t
  BY PlaceIs
<1> HIDE DEF k
<1>3. q = SubSeq(s, 1, k - 1) \o <<p>> \o SubSeq(s, k, n)
  BY DEF Editor!Insert, Editor!InsertAt, k
<1> HIDE DEF q
<1>4. /\ q \in Seq(SafePoint) /\ Len(q) = n + 1 /\ DOMAIN q = 1..n + 1
      /\ q[k] = p
      /\ \A i \in 1..n + 1 : i < k => i \in 1..n /\ q[i] = s[i]
      /\ \A i \in 1..n + 1 : k < i => i - 1 \in 1..n /\ q[i] = s[i - 1]
  <2> DEFINE a == SubSeq(s, 1, k - 1)
             b == SubSeq(s, k, n)
  <2>1. a \in Seq(SafePoint) /\ Len(a) = k - 1 /\ \A i \in 1..k - 1 : a[i] = s[i]
    BY <1>1, <1>2
  <2>2. b \in Seq(SafePoint) /\ Len(b) = n + 1 - k /\ \A i \in 1..n + 1 - k : b[i] = s[k + i - 1]
    BY <1>1, <1>2
  <2> HIDE DEF a, b
  <2> DEFINE c == a \o <<p>>
  <2>3. c \in Seq(SafePoint) /\ Len(c) = k /\ c[k] = p /\ \A i \in 1..k - 1 : c[i] = s[i]
    <3>1. <<p>> \in Seq(SafePoint) /\ Len(<<p>>) = 1 /\ <<p>>[1] = p
      OBVIOUS
    <3>2. c \in Seq(SafePoint)
      BY <2>1, <3>1, ConcatProperties
    <3>3. Len(c) = k
      BY <1>1, <1>2, <2>1, <3>1, ConcatProperties
    <3>4. c[k] = p
      BY <1>1, <1>2, <2>1
    <3>5. \A i \in 1..k - 1 : c[i] = s[i]
      BY <1>1, <1>2, <2>1
    <3>6. QED
      BY <3>2, <3>3, <3>4, <3>5
  <2> HIDE DEF c
  <2>4. q = c \o b
    BY <1>3 DEF a, b, c
  <2>5. q \in Seq(SafePoint) /\ Len(q) = n + 1 /\ DOMAIN q = 1..n + 1
    <3>1. q \in Seq(SafePoint)
      BY <2>2, <2>3, <2>4, ConcatProperties
    <3>2. Len(q) = Len(c) + Len(b)
      BY <2>2, <2>3, <2>4, ConcatProperties
    <3>3. Len(q) = n + 1
      BY <1>1, <1>2, <2>2, <2>3, <3>2
    <3>4. QED
      BY <3>1, <3>3
  <2>6. \A i \in 1..k : q[i] = c[i]
    BY <1>1, <1>2, <2>2, <2>3, <2>4
  <2>7. \A i \in 1..n + 1 - k : q[k + i] = b[i]
    BY <1>1, <1>2, <2>2, <2>3, <2>4
  <2>8. ASSUME NEW i \in 1..n + 1, k < i
        PROVE  i - 1 \in 1..n /\ q[i] = s[i - 1]
    <3>1. i - k \in 1..n + 1 - k /\ k + (i - k) = i /\ k + (i - k) - 1 = i - 1 /\ i - 1 \in 1..n
      BY <1>1, <1>2, <2>8
    <3>2. QED
      BY <2>2, <2>7, <3>1
  <2>9. QED
    BY <1>1, <1>2, <2>3, <2>5, <2>6, <2>8
<1> HIDE DEF n
<1>5. Rising(q)
  <2> SUFFICES ASSUME NEW i \in 1..n + 1, NEW j \in 1..n + 1, i < j
               PROVE  q[i].t <= q[j].t
    BY <1>4 DEF Rising
  <2>1. CASE j < k
    <3>1. i < k
      BY <1>2, <2>1
    <3>2. QED
      BY <1>1, <1>4, <2>1, <3>1 DEF Rising
  <2>2. CASE j = k
    <3>1. i \in 1..k - 1
      BY <1>2, <2>2
    <3>2. QED
      BY <1>2, <1>4, <2>2, <3>1
  <2>3. CASE k < j /\ i = k
    <3>1. j - 1 \in k..n
      BY <1>1, <1>2, <2>3
    <3>2. p.t < s[j - 1].t /\ s[j - 1].t \in Int
      BY <1>1, <1>2, <3>1
    <3>3. QED
      BY <1>1, <1>4, <2>3, <3>2
  <2>4. CASE k < j /\ i < k
    <3>1. i \in 1..k - 1 /\ j - 1 \in k..n
      BY <1>1, <1>2, <2>4
    <3>2. s[i].t <= p.t /\ p.t < s[j - 1].t /\ s[i].t \in Int /\ s[j - 1].t \in Int
      BY <1>1, <1>2, <1>4, <2>4, <3>1
    <3>3. QED
      BY <1>1, <1>4, <2>4, <3>2
  <2>5. CASE k < i
    <3>1. k < j /\ i - 1 < j - 1
      BY <1>2, <2>5
    <3>2. q[i] = s[i - 1] /\ q[j] = s[j - 1] /\ i - 1 \in 1..n /\ j - 1 \in 1..n
      BY <1>4, <2>5, <3>1
    <3>3. QED
      BY <1>1, <3>1, <3>2 DEF Rising
  <2>6. QED
    BY <1>2, <2>1, <2>2, <2>3, <2>4, <2>5
<1>6. \A i \in 1..n : \E j \in 1..n + 1 : q[j] = s[i]
  <2> SUFFICES ASSUME NEW i \in 1..n
               PROVE  \E j \in 1..n + 1 : q[j] = s[i]
    OBVIOUS
  <2>1. CASE i < k
    <3>1. i \in 1..n + 1 /\ q[i] = s[i]
      BY <1>1, <1>4, <2>1
    <3>2. QED
      BY <3>1
  <2>2. CASE ~(i < k)
    <3>1. i + 1 \in 1..n + 1 /\ k < i + 1 /\ i + 1 - 1 = i
      BY <1>1, <1>2, <2>2
    <3>2. q[i + 1] = s[i]
      BY <1>4, <3>1
    <3>3. QED
      BY <3>1, <3>2
  <2>3. QED
    BY <2>1, <2>2
<1>7. \A j \in 1..n + 1 : q[j] = p \/ \E i \in 1..n : q[j] = s[i]
  <2> SUFFICES ASSUME NEW j \in 1..n + 1
               PROVE  q[j] = p \/ \E i \in 1..n : q[j] = s[i]
    OBVIOUS
  <2>1. j = k \/ j < k \/ k < j
    BY <1>2
  <2>2. QED
    BY <1>4, <2>1
<1>8. QED
  BY <1>1, <1>2, <1>4, <1>5, <1>6, <1>7 DEF q, n

(* The points of the list, clamped and in order.                            *)
SortedTo(s, list, m) ==
  /\ s \in Seq(SafePoint) /\ Rising(s) /\ Len(s) = m
  /\ \A i \in 1..m : \E k \in 1..m : s[k] = Editor!Clamped(list[i])
  /\ \A k \in 1..m : \E i \in 1..m : s[k] = Editor!Clamped(list[i])

LEMMA SortedIs ==
  ASSUME NEW list \in Seq(Point)
  PROVE  SortedTo(Editor!Sorted(list)[Len(list)], list, Len(list))
<1> DEFINE n == Len(list)
           S == {m \in Nat : m <= n => SortedTo(Editor!Sorted(list)[m], list, m)}
<1>1. n \in Nat /\ \A i \in 1..n : Editor!Clamped(list[i]) \in SafePoint
  BY ClampedIs
<1>2. /\ Editor!Sorted(list)[0] = <<>>
      /\ \A i \in 1..n :
           Editor!Sorted(list)[i] = Editor!Insert(Editor!Sorted(list)[i - 1],
           Editor!Clamped(list[i]))
  BY SortedUnfolds
<1> HIDE DEF n
<1>3. 0 \in S
  <2>1. <<>> \in Seq(SafePoint) /\ Len(<<>>) = 0 /\ Rising(<<>>)
    BY DEF Rising
  <2>2. SortedTo(<<>>, list, 0)
    BY <2>1 DEF SortedTo
  <2>3. QED
    BY <1>2, <2>2
<1>4. ASSUME NEW m \in S
      PROVE  m + 1 \in S
  <2>1. m \in Nat
    OBVIOUS
  <2> SUFFICES ASSUME m + 1 <= n
               PROVE  SortedTo(Editor!Sorted(list)[m + 1], list, m + 1)
    BY <2>1
  <2> DEFINE s == Editor!Sorted(list)[m]
             p == Editor!Clamped(list[m + 1])
  <2>2. m + 1 \in 1..n /\ m + 1 - 1 = m
    BY <1>1, <2>1
  <2>3. SortedTo(s, list, m) /\ p \in SafePoint
        /\ Editor!Sorted(list)[m + 1] = Editor!Insert(s, p)
    BY <1>1, <1>2, <2>1, <2>2
  <2> HIDE DEF S, s, p
  <2> DEFINE q == Editor!Insert(s, p)
  <2>4. /\ s \in Seq(SafePoint) /\ Rising(s) /\ Len(s) = m /\ DOMAIN s = 1..m
    BY <2>3 DEF SortedTo
  <2>5. /\ q \in Seq(SafePoint) /\ Rising(q) /\ Len(q) = m + 1 /\ DOMAIN q = 1..m + 1
        /\ \E k \in 1..m + 1 : q[k] = p
        /\ \A i \in 1..m : \E k \in 1..m + 1 : q[k] = s[i]
        /\ \A k \in 1..m + 1 : q[k] = p \/ \E i \in 1..m : q[k] = s[i]
    <3>1. /\ q \in Seq(SafePoint) /\ Rising(q) /\ Len(q) = m + 1
          /\ \E k \in DOMAIN q : q[k] = p
          /\ \A i \in DOMAIN s : \E k \in DOMAIN q : q[k] = s[i]
          /\ \A k \in DOMAIN q : q[k] = p \/ \E i \in DOMAIN s : q[k] = s[i]
      BY <2>3, <2>4, InsertIs, Zenon
    <3> HIDE DEF q
    <3>2. DOMAIN q = 1..m + 1
      BY <3>1
    <3>3. QED
      BY <2>4, <3>1, <3>2, Zenon
  <2> HIDE DEF q
  <2>6. \A i \in 1..m + 1 : \E k \in 1..m + 1 : q[k] = Editor!Clamped(list[i])
    <3> SUFFICES ASSUME NEW i \in 1..m + 1
                 PROVE  \E k \in 1..m + 1 : q[k] = Editor!Clamped(list[i])
      OBVIOUS
    <3>1. CASE i = m + 1
      BY <2>5, <3>1 DEF p
    <3>2. CASE i \in 1..m
      <4>1. PICK j \in 1..m : s[j] = Editor!Clamped(list[i])
        BY <2>3, <3>2 DEF SortedTo
      <4>2. QED
        BY <2>5, <4>1
    <3>3. QED
      BY <2>1, <3>1, <3>2
  <2>7. \A k \in 1..m + 1 : \E i \in 1..m + 1 : q[k] = Editor!Clamped(list[i])
    <3> SUFFICES ASSUME NEW k \in 1..m + 1
                 PROVE  \E i \in 1..m + 1 : q[k] = Editor!Clamped(list[i])
      OBVIOUS
    <3>1. m + 1 \in 1..m + 1 /\ \A i \in 1..m : i \in 1..m + 1
      BY <2>1
    <3>2. CASE q[k] = p
      BY <3>1, <3>2 DEF p
    <3>3. ASSUME NEW i \in 1..m, q[k] = s[i]
          PROVE  \E l \in 1..m + 1 : q[k] = Editor!Clamped(list[l])
      <4>1. PICK j \in 1..m : s[i] = Editor!Clamped(list[j])
        BY <2>3 DEF SortedTo
      <4>2. QED
        BY <3>1, <3>3, <4>1
    <3>4. QED
      BY <2>5, <3>2, <3>3
  <2>8. QED
    BY <2>3, <2>5, <2>6, <2>7 DEF SortedTo, q
<1>5. S = Nat
  <2>1. S \subseteq Nat
    OBVIOUS
  <2> HIDE DEF S
  <2>2. QED
    BY <1>3, <1>4, <2>1, AllNaturals
<1>6. QED
  <2>1. n \in S /\ n <= n
    BY <1>1, <1>5
  <2>2. QED
    BY <2>1 DEF n

(* The most that the first i points of s ask for up to a temperature is f.  *)
Peak(s, i, e) ==
  /\ \A k \in 1..i : s[k].t <= e.t => s[k].f <= e.f
  /\ \E k \in 1..i : s[k].t <= e.t /\ s[k].f = e.f

(* What the loop has made of the first i of the sorted points.              *)
Summary(r, s, i) ==
  /\ r \in Seq(SafePoint) /\ Editor!Safe(r)
  /\ i = 0 => r = <<>>
  /\ i > 0 => r # <<>> /\ r[Len(r)].t = s[i].t
  /\ \A k \in 1..i : \E j \in DOMAIN r : r[j].t = s[k].t
  /\ \A j \in DOMAIN r : \E k \in 1..i : s[k].t = r[j].t
  /\ \A j \in DOMAIN r : Peak(s, i, r[j])

(* One more point, hotter than all and asking for no less, keeps a list     *)
(* safe.                                                                    *)
LEMMA ExtendedIsSafe ==
  ASSUME NEW b \in Seq(SafePoint), Editor!Safe(b), NEW x \in SafePoint,
         \A j \in DOMAIN b : b[j].t < x.t /\ b[j].f <= x.f
  PROVE  Append(b, x) \in Seq(SafePoint) /\ Editor!Safe(Append(b, x))
<1> DEFINE q == Append(b, x)
           n == Len(b)
<1>1. /\ q \in Seq(SafePoint) /\ Len(q) = n + 1 /\ n \in Nat /\ DOMAIN b = 1..n
      /\ DOMAIN q = 1..n + 1 /\ q[n + 1] = x /\ \A j \in 1..n : q[j] = b[j]
  OBVIOUS
<1> HIDE DEF q, n
<1>2. \A j \in DOMAIN q : q[j] \in SafePoint
  BY <1>1
<1>3. \A j \in DOMAIN q : q[j].t \in 20..110 /\ q[j].f \in 20..100
  BY <1>2, SafePointIs
<1>4. ASSUME NEW i \in DOMAIN q, NEW j \in DOMAIN q, i < j
      PROVE  q[i].t < q[j].t /\ q[i].f <= q[j].f
  <2>1. i \in 1..n /\ q[i] = b[i]
    BY <1>1, <1>4
  <2>2. CASE j = n + 1
    BY <1>1, <2>1, <2>2
  <2>3. CASE j \in 1..n
    BY <1>1, <1>4, <2>1, <2>3 DEF Editor!Safe
  <2>4. QED
    BY <1>1, <2>2, <2>3
<1>5. QED
  BY <1>1, <1>3, <1>4 DEF Editor!Safe, q

LEMMA SummaryStep ==
  ASSUME NEW s \in Seq(SafePoint), NEW i \in 1..Len(s),
         NEW b \in Seq(SafePoint), Editor!Safe(b), NEW x \in SafePoint, x.t = s[i].t,
         \A j \in DOMAIN b : b[j].t < x.t /\ b[j].f <= x.f,
         \A k \in 1..i - 1 : s[k].t = x.t \/ \E j \in DOMAIN b : b[j].t = s[k].t,
         \A j \in DOMAIN b : \E k \in 1..i - 1 : s[k].t = b[j].t,
         \A j \in DOMAIN b : Peak(s, i - 1, b[j]),
         Peak(s, i, x)
  PROVE  Summary(Append(b, x), s, i)
<1> DEFINE q == Append(b, x)
           n == Len(b)
<1>1. /\ q \in Seq(SafePoint) /\ Len(q) = n + 1 /\ n \in Nat /\ DOMAIN b = 1..n
      /\ DOMAIN q = 1..n + 1 /\ q[n + 1] = x /\ (\A j \in 1..n : q[j] = b[j])
      /\ n + 1 \in DOMAIN q /\ (\A j \in 1..n : j \in DOMAIN q)
      /\ q # <<>>
  OBVIOUS
<1>2. Editor!Safe(q)
  BY ExtendedIsSafe
<1> HIDE DEF q, n
<1>3. i \in Nat /\ i > 0 /\ i - 1 \in Nat /\ i \in 1..i /\ \A k \in 1..i - 1 : k \in 1..i
  OBVIOUS
<1>4. \A j \in DOMAIN q : j = n + 1 \/ j \in 1..n
  BY <1>1
<1>5. ASSUME NEW k \in 1..i
      PROVE  \E j \in DOMAIN q : q[j].t = s[k].t
  <2>1. k = i \/ k \in 1..i - 1
    BY <1>3
  <2>2. CASE s[k].t = x.t
    BY <1>1, <2>2
  <2>3. ASSUME NEW j \in DOMAIN b, b[j].t = s[k].t
        PROVE  \E l \in DOMAIN q : q[l].t = s[k].t
    BY <1>1, <2>3
  <2>4. QED
    BY <2>1, <2>2, <2>3
<1>6. ASSUME NEW j \in DOMAIN q
      PROVE  \E k \in 1..i : s[k].t = q[j].t
  <2>1. CASE j = n + 1
    BY <1>1, <1>3, <2>1
  <2>2. CASE j \in 1..n
    <3>1. PICK k \in 1..i - 1 : s[k].t = b[j].t
      BY <1>1, <2>2
    <3>2. QED
      BY <1>1, <1>3, <2>2, <3>1
  <2>3. QED
    BY <1>4, <2>1, <2>2
<1>7. ASSUME NEW j \in DOMAIN q
      PROVE  Peak(s, i, q[j])
  <2>1. CASE j = n + 1
    BY <1>1, <2>1
  <2>2. CASE j \in 1..n
    <3>1. q[j] = b[j] /\ Peak(s, i - 1, b[j]) /\ b[j].t < x.t /\ b[j] \in SafePoint
      BY <1>1, <2>2
    <3>2. b[j].t \in Int /\ x.t \in Int
      BY <3>1, SafePointIs
    <3>3. ~(s[i].t <= b[j].t)
      BY <3>1, <3>2
    <3>4. \A k \in 1..i : s[k].t <= b[j].t => s[k].f <= b[j].f
      <4> SUFFICES ASSUME NEW k \in 1..i, s[k].t <= b[j].t
                   PROVE  s[k].f <= b[j].f
        OBVIOUS
      <4>1. k # i
        BY <3>3
      <4>2. k \in 1..i - 1
        BY <1>3, <4>1
      <4>3. QED
        BY <3>1, <4>2 DEF Peak
    <3>5. \E k \in 1..i : s[k].t <= b[j].t /\ s[k].f = b[j].f
      BY <1>3, <3>1 DEF Peak
    <3>6. QED
      BY <3>1, <3>4, <3>5 DEF Peak
  <2>3. QED
    BY <1>4, <2>1, <2>2
<1>8. q[Len(q)].t = s[i].t
  BY <1>1
<1>9. QED
  <2>1. i # 0
    BY <1>3
  <2>2. QED
    BY <1>1, <1>2, <1>5, <1>6, <1>7, <1>8, <2>1, Zenon DEF Summary, q

(* One pass of the loop.                                                    *)
LEMMA MergeStep ==
  ASSUME NEW s \in Seq(SafePoint), Rising(s), NEW i \in 1..Len(s),
         NEW r, Summary(r, s, i - 1)
  PROVE  Summary(Editor!Merge(r, s[i]), s, i)
<1> DEFINE n == Len(r)
           p == s[i]
           e == r[n]
           x(f) == [t |-> p.t, f |-> f]
<1>1. /\ i - 1 \in Nat /\ DOMAIN s = 1..Len(s) /\ Len(s) \in Nat
      /\ \A k \in 1..i - 1 : k \in 1..i /\ k \in 1..Len(s) /\ k < i
  OBVIOUS
<1>2. p \in SafePoint /\ r \in Seq(SafePoint) /\ Editor!Safe(r)
  BY DEF Summary
<1>3. p.t \in 20..110 /\ p.f \in 20..100 /\ p.t \in Int /\ p.f \in Int
  BY <1>2, SafePointIs
<1>4. p = [t |-> p.t, f |-> p.f]
  BY <1>2, SafePointIs
<1>5. /\ (i - 1 = 0 <=> r = <<>>) /\ (r # <<>> => e.t = s[i - 1].t)
      /\ \A k \in 1..i - 1 : \E j \in DOMAIN r : r[j].t = s[k].t
      /\ \A j \in DOMAIN r : \E k \in 1..i - 1 : s[k].t = r[j].t
      /\ \A j \in DOMAIN r : Peak(s, i - 1, r[j])
  BY <1>1 DEF Summary
<1>6. \A k \in 1..i - 1 : s[k] \in SafePoint /\ s[k].t <= p.t
  BY <1>1 DEF Rising
<1>7. n \in Nat /\ DOMAIN r = 1..n /\ (r # <<>> <=> n # 0)
  BY <1>2
<1>8. \A f : [p EXCEPT !.f = f] = x(f)
  BY <1>4
<1> HIDE DEF p, n
<1>9. CASE r = <<>>
  <2>1. Editor!Merge(r, p) = Append(r, x(p.f))
    <3>1. Editor!Larger(p.f, 20) = p.f
      <4>1. ASSUME NEW g \in 20..100
            PROVE  Editor!Larger(g, 20) = g
        BY DEF Editor!Larger
      <4>2. QED
        BY <1>3, <4>1
    <3>2. QED
      BY <1>8, <1>9, <3>1 DEF Editor!Merge
  <2>2. x(p.f) = p
    BY <1>4
  <2>3. \A k \in 1..i : k = i
    BY <1>5, <1>9
  <2>4. Peak(s, i, p)
    <3>1. i \in 1..i /\ p.t <= p.t /\ p.f <= p.f
      BY <1>3
    <3>2. QED
      BY <2>3, <3>1, Zenon DEF Peak, p
  <2>5. DOMAIN r = {} /\ 1..i - 1 = {}
    BY <1>1, <1>5, <1>7, <1>9
  <2>6. Summary(Append(r, p), s, i)
    BY <1>2, <2>4, <2>5, SummaryStep DEF p
  <2>7. QED
    BY <2>1, <2>2, <2>6 DEF p
<1>10. CASE r # <<>>
  <2> DEFINE f == Editor!Larger(p.f, e.f)
  <2>1. n \in 1..n /\ e \in SafePoint /\ i - 1 \in 1..i - 1 /\ Editor!Last(r) = e
    BY <1>1, <1>2, <1>5, <1>7, <1>10 DEF Editor!Last, n
  <2>2. e.t \in Int /\ e.f \in 20..100 /\ e.f \in Int
    BY <2>1, SafePointIs
  <2>3. e.t <= p.t
    BY <1>5, <1>6, <1>10, <2>1
  <2>4. f \in 20..100 /\ f \in Int /\ p.f <= f /\ e.f <= f /\ (f = p.f \/ f = e.f)
    BY <1>3, <2>2 DEF Editor!Larger
  <2>5. x(f) \in SafePoint /\ x(f).t = p.t /\ x(f).f = f
    BY <1>3, <2>4 DEF SafePoint
  <2>6. Peak(s, i - 1, e)
    BY <1>5, <1>7, <2>1
  <2>7. Peak(s, i, x(f))
    <3>1. ASSUME NEW k \in 1..i
          PROVE  s[k].f <= f
      <4>1. CASE k = i
        BY <2>4, <4>1 DEF p
      <4>2. CASE k # i
        <5>1. k \in 1..i - 1
          BY <4>2
        <5>2. s[k].t <= e.t
          <6>1. k = i - 1 \/ k < i - 1
            BY <5>1
          <6>2. e.t = s[i - 1].t /\ s[i - 1].t <= s[i - 1].t
            BY <1>5, <1>10, <2>2
          <6>3. k \in DOMAIN s /\ i - 1 \in DOMAIN s
            BY <1>1, <2>1, <5>1
          <6>4. QED
            BY <6>1, <6>2, <6>3, Zenon DEF Rising
        <5>3. s[k].f <= e.f /\ s[k] \in SafePoint
          BY <1>6, <2>6, <5>1, <5>2 DEF Peak
        <5>4. s[k].f \in Int /\ f \in Int /\ e.f \in Int
          <6>1. s[k].f \in Int
            BY <5>3, SafePointIs
          <6>2. QED
            BY <2>2, <2>4, <6>1, Zenon
        <5> HIDE DEF f
        <5>5. QED
          BY <2>4, <5>3, <5>4
      <4>3. QED
        BY <4>1, <4>2
    <3>2. \E k \in 1..i : s[k].t <= p.t /\ s[k].f = f
      <4>1. CASE f = p.f
        <5>1. i \in 1..i /\ s[i].t <= p.t /\ s[i].f = f
          BY <1>3, <4>1 DEF p
        <5>2. QED
          BY <5>1
      <4>2. CASE f = e.f
        <5>1. PICK k \in 1..i - 1 : s[k].t <= e.t /\ s[k].f = e.f
          BY <2>6 DEF Peak
        <5>2. QED
          BY <1>1, <1>6, <4>2, <5>1
      <4>3. QED
        BY <2>4, <4>1, <4>2
    <3> HIDE DEF x, f
    <3>3. QED
      BY <2>5, <3>1, <3>2 DEF Peak
  <2>8. \A j \in DOMAIN r : r[j] \in SafePoint /\ (j = n \/ (r[j].t < e.t /\ r[j].f <= e.f))
    <3> SUFFICES ASSUME NEW j \in 1..n
                 PROVE  r[j] \in SafePoint /\ (j = n \/ (r[j].t < e.t /\ r[j].f <= e.f))
      BY <1>7
    <3>1. r[j] \in SafePoint
      BY <1>2, <1>7
    <3>2. j = n \/ j < n
      BY <1>7
    <3>3. QED
      BY <1>2, <1>7, <2>1, <3>1, <3>2 DEF Editor!Safe
  <2>9. CASE e.t = p.t
    <3> DEFINE b == Editor!Front(r)
    <3>1. Editor!Merge(r, p) = Append(b, x(f))
      BY <1>8, <1>10, <2>1, <2>9 DEF Editor!Merge
    <3>2. b \in Seq(SafePoint) /\ Len(b) = n - 1 /\ \A j \in 1..n - 1 : b[j] = r[j]
      BY <1>2, <1>7, <2>1 DEF Editor!Front, n
    <3>3. DOMAIN b = 1..n - 1 /\ \A j \in 1..n - 1 : j \in 1..n /\ j # n
      BY <1>7, <3>2
    <3> HIDE DEF b, x, f
    <3>4. Editor!Safe(b)
      <4>1. \A j \in DOMAIN b : j \in DOMAIN r /\ b[j] = r[j]
        BY <1>7, <3>2, <3>3
      <4>2. QED
        BY <1>2, <4>1, Zenon DEF Editor!Safe
    <3>5. ASSUME NEW j \in DOMAIN b
          PROVE  b[j].t < x(f).t /\ b[j].f <= x(f).f
      <4>1. b[j] = r[j] /\ r[j].t < e.t /\ r[j].f <= e.f /\ r[j] \in SafePoint
        BY <1>7, <2>8, <3>2, <3>3
      <4>2. r[j].f \in Int
        BY <4>1, SafePointIs
      <4>3. QED
        BY <2>2, <2>4, <2>5, <2>9, <4>1, <4>2
    <3>6. ASSUME NEW k \in 1..i - 1
          PROVE  s[k].t = x(f).t \/ \E j \in DOMAIN b : b[j].t = s[k].t
      <4>1. PICK j \in 1..n : r[j].t = s[k].t
        BY <1>5, <1>7
      <4>2. CASE j = n
        BY <2>5, <2>9, <4>1, <4>2
      <4>3. CASE j # n
        <5>1. j \in 1..n - 1
          BY <1>7, <4>3
        <5>2. QED
          BY <3>2, <3>3, <4>1, <5>1
      <4>4. QED
        BY <4>2, <4>3
    <3>7. \A j \in DOMAIN b : (\E k \in 1..i - 1 : s[k].t = b[j].t) /\ Peak(s, i - 1, b[j])
      BY <1>5, <1>7, <3>2, <3>3
    <3>8. Summary(Append(b, x(f)), s, i)
      BY <2>5, <2>7, <3>2, <3>4, <3>5, <3>6, <3>7, SummaryStep DEF p
    <3>9. QED
      BY <3>1, <3>8 DEF p
  <2>10. CASE e.t # p.t
    <3>1. Editor!Merge(r, p) = Append(r, x(f))
      BY <1>8, <1>10, <2>1, <2>10 DEF Editor!Merge
    <3>2. e.t < p.t
      BY <1>3, <2>2, <2>3, <2>10
    <3> HIDE DEF x, f
    <3>3. ASSUME NEW j \in DOMAIN r
          PROVE  r[j].t < x(f).t /\ r[j].f <= x(f).f
      <4>1. r[j].t <= e.t /\ r[j].f <= e.f /\ r[j].f \in Int /\ r[j].t \in Int
        BY <2>2, <2>8, SafePointIs
      <4>2. QED
        BY <1>3, <2>2, <2>4, <2>5, <3>2, <4>1
    <3>4. Summary(Append(r, x(f)), s, i)
      BY <1>2, <1>5, <2>5, <2>7, <3>3, SummaryStep DEF p
    <3>5. QED
      BY <3>1, <3>4 DEF p
  <2>11. QED
    BY <2>9, <2>10
<1>11. QED
  BY <1>9, <1>10

LEMMA MergedIs ==
  ASSUME NEW s \in Seq(SafePoint), Rising(s)
  PROVE  Summary(Editor!Merged(s)[Len(s)], s, Len(s))
<1> DEFINE n == Len(s)
           S == {m \in Nat : m <= n => Summary(Editor!Merged(s)[m], s, m)}
<1>1. n \in Nat
  OBVIOUS
<1>2. /\ Editor!Merged(s)[0] = <<>>
      /\ \A i \in 1..n : Editor!Merged(s)[i] = Editor!Merge(Editor!Merged(s)[i - 1], s[i])
  BY MergedUnfolds
<1>3. 0 \in S
  <2>1. <<>> \in Seq(SafePoint) /\ Editor!Safe(<<>>) /\ DOMAIN <<>> = {}
    BY DEF Editor!Safe
  <2>2. Summary(<<>>, s, 0)
    BY <2>1 DEF Summary
  <2>3. QED
    BY <1>2, <2>2
<1>4. ASSUME NEW m \in S
      PROVE  m + 1 \in S
  <2>1. m \in Nat
    OBVIOUS
  <2> SUFFICES ASSUME m + 1 <= n
               PROVE  Summary(Editor!Merged(s)[m + 1], s, m + 1)
    BY <2>1
  <2>2. m + 1 \in 1..n /\ m + 1 - 1 = m /\ Summary(Editor!Merged(s)[m], s, m)
    BY <1>1, <2>1
  <2>3. Editor!Merged(s)[m + 1] = Editor!Merge(Editor!Merged(s)[m], s[m + 1])
    BY <1>2, <2>2
  <2>4. Summary(Editor!Merged(s)[m], s, (m + 1) - 1)
    BY <2>2
  <2> HIDE DEF S
  <2>5. QED
    BY <2>2, <2>3, <2>4, MergeStep
<1>5. S = Nat
  <2>1. S \subseteq Nat
    OBVIOUS
  <2> HIDE DEF S
  <2>2. QED
    BY <1>3, <1>4, <2>1, AllNaturals
<1>6. QED
  BY <1>1, <1>5

Clamps(list, i) == Editor!Clamped(list[i])

(* What normalisation makes of any list.                                    *)
LEMMA NormalIs ==
  ASSUME NEW list \in Seq(Point)
  PROVE  /\ Editor!Normalized(list) \in Seq(SafePoint) /\ Editor!Safe(Editor!Normalized(list))
         /\ \A i \in DOMAIN list : \E j \in DOMAIN Editor!Normalized(list) :
              Editor!Normalized(list)[j].t = Clamps(list, i).t
         /\ \A j \in DOMAIN Editor!Normalized(list) : \E i \in DOMAIN list :
              Clamps(list, i).t = Editor!Normalized(list)[j].t
         /\ \A j \in DOMAIN Editor!Normalized(list), i \in DOMAIN list :
              Clamps(list, i).t <= Editor!Normalized(list)[j].t =>
                Clamps(list, i).f <= Editor!Normalized(list)[j].f
         /\ \A j \in DOMAIN Editor!Normalized(list) : \E i \in DOMAIN list :
              Clamps(list, i).t <= Editor!Normalized(list)[j].t
              /\ Clamps(list, i).f = Editor!Normalized(list)[j].f
<1> DEFINE n == Len(list)
           s == Editor!Sorted(list)[n]
           r == Editor!Normalized(list)
<1>1. n \in Nat /\ DOMAIN list = 1..n
  OBVIOUS
<1>2. SortedTo(s, list, n)
  BY SortedIs
<1>3. s \in Seq(SafePoint) /\ Rising(s) /\ Len(s) = n
  BY <1>2 DEF SortedTo
<1> HIDE DEF s, n
<1>4. Summary(Editor!Merged(s)[n], s, n)
  BY <1>3, MergedIs
<1>5. Editor!Normalized(list) = Editor!Merged(s)[n]
  BY DEF Editor!Normalized, s, n
<1>6. Summary(r, s, n)
  BY <1>4, <1>5
<1> HIDE DEF r
<1>7. /\ \A i \in 1..n : \E k \in 1..n : s[k] = Clamps(list, i)
      /\ \A k \in 1..n : \E i \in 1..n : s[k] = Clamps(list, i)
  BY <1>2 DEF SortedTo, Clamps
<1>8. /\ r \in Seq(SafePoint) /\ Editor!Safe(r)
      /\ \A k \in 1..n : \E j \in DOMAIN r : r[j].t = s[k].t
      /\ \A j \in DOMAIN r : \E k \in 1..n : s[k].t = r[j].t
      /\ \A j \in DOMAIN r : Peak(s, n, r[j])
  BY <1>6 DEF Summary
<1>9. ASSUME NEW i \in 1..n
      PROVE  \E j \in DOMAIN r : r[j].t = Clamps(list, i).t
  <2>1. PICK k \in 1..n : s[k] = Clamps(list, i)
    BY <1>7, Zenon
  <2>2. QED
    BY <1>8, <2>1, Zenon
<1>10. ASSUME NEW j \in DOMAIN r
       PROVE  \E i \in 1..n : Clamps(list, i).t = r[j].t
  <2>1. PICK k \in 1..n : s[k].t = r[j].t
    BY <1>8, Zenon
  <2>2. PICK i \in 1..n : s[k] = Clamps(list, i)
    BY <1>7, Zenon
  <2>3. QED
    BY <2>1, <2>2, Zenon
<1>11. \A j \in DOMAIN r, i \in 1..n : Clamps(list, i).t <= r[j].t => Clamps(list, i).f <= r[j].f
  BY <1>7, <1>8, Zenon DEF Peak
<1>12. ASSUME NEW j \in DOMAIN r
       PROVE  \E i \in 1..n : Clamps(list, i).t <= r[j].t /\ Clamps(list, i).f = r[j].f
  <2>1. PICK k \in 1..n : s[k].t <= r[j].t /\ s[k].f = r[j].f
    BY <1>8, Zenon DEF Peak
  <2>2. PICK i \in 1..n : s[k] = Clamps(list, i)
    BY <1>7, Zenon
  <2>3. QED
    BY <2>1, <2>2, Zenon
<1>13. QED
  BY <1>1, <1>8, <1>9, <1>10, <1>11, <1>12, Zenon DEF r

(* The greatest of a set, once it is known.                                 *)
LEMMA MaxIs ==
  ASSUME NEW M, M \subseteq Int, NEW x \in M, \A y \in M : y <= x
  PROVE  Editor!Max(M) = x
<1>1. \A y \in M : x >= y
  OBVIOUS
<1>2. Editor!Max(M) \in M /\ \A y \in M : Editor!Max(M) >= y
  BY <1>1, Zenon DEF Editor!Max
<1>3. ASSUME NEW m \in Int, NEW z \in Int, m >= z, m <= z
      PROVE  m = z
  BY <1>3
<1>4. Editor!Max(M) \in Int /\ x \in Int /\ Editor!Max(M) >= x /\ Editor!Max(M) <= x
  BY <1>2, Zenon
<1>5. QED
  BY <1>3, <1>4, Zenon

(* The result is what is to be computed.                                    *)
LEMMA NormalFormIs ==
  ASSUME NEW list \in Seq(Point)
  PROVE  Editor!ToSet(Editor!Normalized(list)) = Editor!NormalForm(list)
<1> DEFINE r == Editor!Normalized(list)
           C(i) == Clamps(list, i)
           M(d) == {20} \union {C(i).f : i \in {k \in DOMAIN list : C(k).t <= d}}
<1>1. /\ r \in Seq(SafePoint) /\ Editor!Safe(r)
      /\ \A i \in DOMAIN list : \E j \in DOMAIN r : r[j].t = C(i).t
      /\ \A j \in DOMAIN r : \E i \in DOMAIN list : C(i).t = r[j].t
      /\ \A j \in DOMAIN r, i \in DOMAIN list : C(i).t <= r[j].t => C(i).f <= r[j].f
      /\ \A j \in DOMAIN r : \E i \in DOMAIN list : C(i).t <= r[j].t /\ C(i).f = r[j].f
  BY NormalIs
<1> HIDE DEF r
<1>2. \A j \in DOMAIN r : r[j] \in SafePoint
  BY <1>1
<1>3. \A i \in DOMAIN list : C(i) \in SafePoint
  <2>1. \A i \in DOMAIN list : list[i] \in Point
    OBVIOUS
  <2>2. QED
    BY <2>1, ClampedIs DEF Clamps
<1>4. \A d : Editor!MaxUpTo(list, d) = Editor!Max(M(d))
  BY DEF Editor!MaxUpTo, Clamps
<1>5. \A i \in DOMAIN list : C(i).f \in Int /\ C(i).f \in 20..100
  BY <1>3, SafePointIs
<1>6. ASSUME NEW j \in DOMAIN r
      PROVE  r[j] = [t |-> r[j].t, f |-> Editor!MaxUpTo(list, r[j].t)]
  <2>1. r[j].f \in 20..100 /\ r[j].f \in Int /\ r[j] = [t |-> r[j].t, f |-> r[j].f]
    BY <1>2, SafePointIs
  <2>2. M(r[j].t) \subseteq Int
    BY <1>5
  <2>3. r[j].f \in M(r[j].t)
    BY <1>1
  <2>4. \A y \in M(r[j].t) : y <= r[j].f
    <3>1. 20 <= r[j].f
      <4>1. ASSUME NEW g \in 20..100
            PROVE  20 <= g
        OBVIOUS
      <4>2. QED
        BY <2>1, <4>1, Zenon
    <3>2. ASSUME NEW y \in M(r[j].t), y # 20
          PROVE  y <= r[j].f
      <4>1. PICK i \in DOMAIN list : C(i).t <= r[j].t /\ y = C(i).f
        BY <3>2
      <4>2. QED
        BY <1>1, <4>1, Zenon
    <3> HIDE DEF M
    <3>3. QED
      BY <3>1, <3>2, Zenon
  <2>5. Editor!Max(M(r[j].t)) = r[j].f
    <3> HIDE DEF M
    <3>1. QED
      BY <2>2, <2>3, <2>4, MaxIs
  <2>6. Editor!MaxUpTo(list, r[j].t) = r[j].f
    BY <1>4, <2>5
  <2>7. QED
    BY <2>1, <2>6, Zenon
<1> HIDE DEF M
<1>7. Editor!NormalForm(list) =
        {[t |-> d, f |-> Editor!MaxUpTo(list, d)] : d \in {C(i).t : i \in DOMAIN list}}
  BY DEF Editor!NormalForm, Clamps
<1>8. Editor!ToSet(r) = {r[j] : j \in DOMAIN r}
  BY DEF Editor!ToSet
<1>9. ASSUME NEW e \in Editor!ToSet(r)
      PROVE  e \in Editor!NormalForm(list)
  <2>1. PICK j \in DOMAIN r : e = r[j]
    BY <1>8
  <2>2. PICK i \in DOMAIN list : C(i).t = r[j].t
    BY <1>1
  <2>3. e = [t |-> C(i).t, f |-> Editor!MaxUpTo(list, C(i).t)]
    BY <1>6, <2>1, <2>2, Zenon
  <2>4. QED
    BY <1>7, <2>3, Zenon
<1>10. ASSUME NEW e \in Editor!NormalForm(list)
       PROVE  e \in Editor!ToSet(r)
  <2>1. PICK i \in DOMAIN list : e = [t |-> C(i).t, f |-> Editor!MaxUpTo(list, C(i).t)]
    BY <1>7, Zenon
  <2>2. PICK j \in DOMAIN r : r[j].t = C(i).t
    BY <1>1
  <2>3. e = r[j]
    BY <1>6, <2>1, <2>2, Zenon
  <2>4. QED
    BY <1>8, <2>3, Zenon
<1>11. QED
  BY <1>9, <1>10, Zenon DEF r

(* Two different temperatures make two points.                              *)
LEMMA TwoPoints ==
  ASSUME NEW list \in Seq(Point), NEW i \in DOMAIN list, NEW j \in DOMAIN list,
         Editor!Clamped(list[i]).t # Editor!Clamped(list[j]).t
  PROVE  Len(Editor!Normalized(list)) >= 2
<1> DEFINE r == Editor!Normalized(list)
<1>1. r \in Seq(SafePoint)
  BY NormalIs
<1>2. PICK k \in DOMAIN r : r[k].t = Editor!Clamped(list[i]).t
  BY NormalIs DEF Clamps
<1>3. PICK l \in DOMAIN r : r[l].t = Editor!Clamped(list[j]).t
  BY NormalIs DEF Clamps
<1>4. k # l
  BY <1>2, <1>3
<1>5. DOMAIN r = 1..Len(r) /\ Len(r) \in Nat
  BY <1>1
<1> HIDE DEF r
<1>6. Len(r) >= 2
  BY <1>4, <1>5
<1>7. QED
  BY <1>6 DEF r

LEMMA SafeIsPoint == SafePoint \subseteq Point /\ Seq(SafePoint) \subseteq Seq(Point)
<1>1. ASSUME NEW e \in SafePoint
      PROVE  e \in Point
  <2>1. e = [t |-> e.t, f |-> e.f] /\ e.t \in Int /\ e.f \in Int
    BY SafePointIs
  <2>2. QED
    BY <2>1 DEF Point
<1>2. QED
  BY <1>1

LEMMA SafeStaysCurve ==
  ASSUME NEW list \in Seq(SafePoint), Editor!Safe(list), Len(list) >= 2
  PROVE  Len(Editor!Normalized(list)) >= 2
<1>1. /\ 1 \in DOMAIN list /\ 2 \in DOMAIN list /\ list[1] \in SafePoint /\ list[2] \in SafePoint
      /\ list \in Seq(Point) /\ list[1] \in Point /\ list[2] \in Point
  BY SafeIsPoint
<1>2. list[1].t < list[2].t /\ list[1].t \in Int /\ list[2].t \in Int
  BY <1>1, SafePointIs DEF Editor!Safe
<1>3. Editor!Clamped(list[1]) = list[1] /\ Editor!Clamped(list[2]) = list[2]
  BY <1>1, ClampedIs
<1>4. Editor!Clamped(list[1]).t # Editor!Clamped(list[2]).t
  BY <1>2, <1>3
<1>5. QED
  BY <1>1, <1>4, TwoPoints

(* The curve that is used when nothing else is.                             *)
LEMMA BalancedIs == Editor!Balanced \in Seq(SafePoint) /\ Editor!Safe(Editor!Balanced)
/\ Len(Editor!Balanced) = 6
<1> DEFINE b == Editor!Balanced
<1>1. /\ Len(b) = 6 /\ DOMAIN b = 1..6
      /\ b[1] = [t |-> 40, f |-> 25] /\ b[2] = [t |-> 55, f |-> 35]
      /\ b[3] = [t |-> 65, f |-> 50] /\ b[4] = [t |-> 75, f |-> 65]
      /\ b[5] = [t |-> 85, f |-> 80] /\ b[6] = [t |-> 92, f |-> 100]
  BY DEF Editor!Balanced
<1>2. Editor!Balanced \in Seq(SafePoint)
  <2>1. /\ [t |-> 40, f |-> 25] \in SafePoint /\ [t |-> 55, f |-> 35] \in SafePoint
        /\ [t |-> 65, f |-> 50] \in SafePoint /\ [t |-> 75, f |-> 65] \in SafePoint
        /\ [t |-> 85, f |-> 80] \in SafePoint /\ [t |-> 92, f |-> 100] \in SafePoint
    BY DEF SafePoint
  <2>2. QED
    BY <2>1 DEF Editor!Balanced
<1> HIDE DEF b
<1>3. /\ b[1].t = 40 /\ b[2].t = 55 /\ b[3].t = 65 /\ b[4].t = 75 /\ b[5].t = 85 /\ b[6].t = 92
      /\ b[1].f = 25 /\ b[2].f = 35 /\ b[3].f = 50 /\ b[4].f = 65 /\ b[5].f = 80 /\ b[6].f = 100
  BY <1>1
<1>4. \A i \in 1..6 : i = 1 \/ i = 2 \/ i = 3 \/ i = 4 \/ i = 5 \/ i = 6
  OBVIOUS
<1>5. \A i \in 1..6 : b[i].t \in 20..110 /\ b[i].f \in 20..100
  BY <1>3, <1>4
<1>6. ASSUME NEW i \in 1..6, NEW j \in 1..6, i < j
      PROVE  b[i].t < b[j].t /\ b[i].f <= b[j].f
  <2>1. CASE j = 2
    BY <1>3, <1>4, <1>6, <2>1
  <2>2. CASE j = 3
    BY <1>3, <1>4, <1>6, <2>2
  <2>3. CASE j = 4
    BY <1>3, <1>4, <1>6, <2>3
  <2>4. CASE j = 5
    BY <1>3, <1>4, <1>6, <2>4
  <2>5. CASE j = 6
    BY <1>3, <1>4, <1>6, <2>5
  <2>6. j # 1
    BY <1>6
  <2>7. QED
    BY <1>4, <2>1, <2>2, <2>3, <2>4, <2>5, <2>6
<1>7. QED
  BY <1>1, <1>2, <1>5, <1>6 DEF Editor!Safe, b

(* A preset is a list of points, two of them at different temperatures.     *)
LEMMA PresetIs ==
  ASSUME NEW key \in DOMAIN Editor!FanCurvePreset
  PROVE  Editor!FanCurvePreset[key] \in Seq(Point)
         /\ Len(Editor!Normalized(Editor!FanCurvePreset[key])) >= 2
<1>1. ASSUME NEW x \in Int, NEW y \in Int
      PROVE  [t |-> x, f |-> y] \in Point
  BY DEF Point
<1>2. ASSUME NEW p, p.t \in 20..110
      PROVE  Editor!Clamped(p).t = p.t
  <2>1. Editor!Clamp(p.t, 20, 110) = p.t
    BY <1>2 DEF Editor!Clamp, Editor!Larger, Editor!Smaller
  <2>2. QED
    BY <2>1 DEF Editor!Clamped
<1>3. key \in {"quiet", "balanced", "performance"}
  BY DEF Editor!FanCurvePreset
<1>4. CASE key = "quiet"
  <2> DEFINE b == Editor!FanCurvePreset["quiet"]
  <2>1. b = << [t |-> 40, f |-> 20], [t |-> 55, f |-> 20], [t |-> 65, f |-> 30],
               [t |-> 75, f |-> 45], [t |-> 85, f |-> 70], [t |-> 92, f |-> 100] >>
    BY DEF Editor!FanCurvePreset
  <2>2. /\ [t |-> 40, f |-> 20] \in Point /\ [t |-> 55, f |-> 20] \in Point
        /\ [t |-> 65, f |-> 30] \in Point /\ [t |-> 75, f |-> 45] \in Point
        /\ [t |-> 85, f |-> 70] \in Point /\ [t |-> 92, f |-> 100] \in Point
    BY <1>1
  <2> HIDE DEF b
  <2>3. b \in Seq(Point)
    BY <2>1, <2>2
  <2>4. 1 \in DOMAIN b /\ 2 \in DOMAIN b /\ b[1] = [t |-> 40, f |-> 20]
        /\ b[2] = [t |-> 55, f |-> 20]
    BY <2>1
  <2>5. Editor!Clamped(b[1]).t = 40 /\ Editor!Clamped(b[2]).t = 55
    <3>1. b[1].t = 40 /\ b[2].t = 55
      BY <2>4
    <3>2. QED
      BY <1>2, <3>1
  <2>6. Len(Editor!Normalized(b)) >= 2
    <3>1. Editor!Clamped(b[1]).t # Editor!Clamped(b[2]).t
      BY <2>5
    <3>2. QED
      BY <2>3, <2>4, <3>1, TwoPoints
  <2>7. QED
    BY <1>4, <2>3, <2>6 DEF b
<1>5. CASE key = "balanced"
  <2>1. Editor!FanCurvePreset["balanced"] = Editor!Balanced
    BY DEF Editor!FanCurvePreset
  <2>2. Editor!Balanced \in Seq(SafePoint) /\ Editor!Safe(Editor!Balanced)
        /\ Len(Editor!Balanced) >= 2
    BY BalancedIs
  <2>3. Len(Editor!Normalized(Editor!Balanced)) >= 2 /\ Editor!Balanced \in Seq(Point)
    BY <2>2, SafeStaysCurve, SafeIsPoint
  <2>4. QED
    BY <1>5, <2>1, <2>3
<1>6. CASE key = "performance"
  <2> DEFINE b == Editor!FanCurvePreset["performance"]
  <2>1. b = << [t |-> 30, f |-> 35], [t |-> 45, f |-> 50], [t |-> 55, f |-> 65],
               [t |-> 65, f |-> 80], [t |-> 75, f |-> 95], [t |-> 85, f |-> 100] >>
    BY DEF Editor!FanCurvePreset
  <2>2. /\ [t |-> 30, f |-> 35] \in Point /\ [t |-> 45, f |-> 50] \in Point
        /\ [t |-> 55, f |-> 65] \in Point /\ [t |-> 65, f |-> 80] \in Point
        /\ [t |-> 75, f |-> 95] \in Point /\ [t |-> 85, f |-> 100] \in Point
    BY <1>1
  <2> HIDE DEF b
  <2>3. b \in Seq(Point)
    BY <2>1, <2>2
  <2>4. 1 \in DOMAIN b /\ 2 \in DOMAIN b /\ b[1] = [t |-> 30, f |-> 35]
        /\ b[2] = [t |-> 45, f |-> 50]
    BY <2>1
  <2>5. Editor!Clamped(b[1]).t = 30 /\ Editor!Clamped(b[2]).t = 45
    <3>1. b[1].t = 30 /\ b[2].t = 45
      BY <2>4
    <3>2. QED
      BY <1>2, <3>1
  <2>6. Len(Editor!Normalized(b)) >= 2
    <3>1. Editor!Clamped(b[1]).t # Editor!Clamped(b[2]).t
      BY <2>5
    <3>2. QED
      BY <2>3, <2>4, <3>1, TwoPoints
  <2>7. QED
    BY <1>6, <2>3, <2>6 DEF b
<1>7. QED
  BY <1>3, <1>4, <1>5, <1>6

(* A safe list stays safe without one of its points.                        *)
LEMMA RemoveAtIs ==
  ASSUME NEW c \in Seq(SafePoint), Editor!Safe(c), NEW i \in DOMAIN c
  PROVE  Editor!RemoveAt(c, i) \in Seq(SafePoint) /\ Editor!Safe(Editor!RemoveAt(c, i))
<1> DEFINE n == Len(c)
           a == SubSeq(c, 1, i - 1)
           b == SubSeq(c, i + 1, n)
           q == Editor!RemoveAt(c, i)
           at(k) == IF k < i THEN k ELSE k + 1
<1>1. n \in Nat /\ DOMAIN c = 1..n /\ i \in 1..n
  OBVIOUS
<1>2. a \in Seq(SafePoint) /\ Len(a) = i - 1 /\ \A k \in 1..i - 1 : a[k] = c[k]
  BY <1>1
<1>3. b \in Seq(SafePoint) /\ Len(b) = n - i /\ \A k \in 1..n - i : b[k] = c[k + i]
  BY <1>1
<1>4. q = a \o b
  BY DEF Editor!RemoveAt
<1> HIDE DEF n, a, b, q
<1>5. q \in Seq(SafePoint) /\ Len(q) = Len(a) + Len(b)
  BY <1>2, <1>3, <1>4, ConcatProperties
<1>6. DOMAIN q = 1..n - 1
  BY <1>1, <1>2, <1>3, <1>5
<1>7. ASSUME NEW k \in 1..n - 1
      PROVE  at(k) \in 1..n /\ q[k] = c[at(k)]
  <2>1. CASE k < i
    BY <1>1, <1>2, <1>3, <1>4, <2>1
  <2>2. CASE ~(k < i)
    <3>1. k - (i - 1) \in 1..n - i /\ k - (i - 1) + i = k + 1 /\ k > i - 1
      BY <1>1, <2>2
    <3>2. q[k] = b[k - (i - 1)]
      <4>1. k \in 1..Len(a) + Len(b) /\ ~(k <= Len(a)) /\ k - Len(a) = k - (i - 1)
        BY <1>1, <1>2, <1>3, <3>1
      <4>2. (a \o b)[k] = IF k <= Len(a) THEN a[k] ELSE b[k - Len(a)]
        BY <1>2, <1>3, <4>1, ConcatProperties
      <4>3. QED
        BY <1>4, <4>1, <4>2
    <3>3. q[k] = c[k + 1]
      BY <1>3, <3>1, <3>2
    <3>4. k + 1 \in 1..n
      BY <1>1
    <3>5. QED
      BY <2>2, <3>3, <3>4
  <2>3. QED
    BY <2>1, <2>2
<1>8. \A k, l \in 1..n - 1 : k < l => at(k) < at(l)
  BY <1>1
<1> HIDE DEF at
<1>9. Editor!Safe(q)
  <2>1. \A k \in DOMAIN q : at(k) \in DOMAIN c /\ q[k] = c[at(k)]
    BY <1>1, <1>6, <1>7
  <2>2. \A k, l \in DOMAIN q : k < l => at(k) < at(l)
    BY <1>6, <1>8
  <2>3. QED
    BY <2>1, <2>2, Zenon DEF Editor!Safe
<1>10. QED
  BY <1>5, <1>9 DEF q

-----------------------------------------------------------------------------
(* What evaluation computes *)

(* Rounded down, a share of a grows with the part and stays within a.       *)
LEMMA ShareIs ==
  ASSUME NEW a \in Nat, NEW d \in Nat, d > 0, NEW x \in Nat, NEW y \in Nat, x <= y, y <= d
  PROVE  /\ (a * x) \div d \in 0..a
         /\ (a * x) \div d <= (a * y) \div d
<1> DEFINE q(z) == (a * z) \div d
<1>1. ASSUME NEW z \in Nat
      PROVE  q(z) \in Int /\ q(z) * d <= a * z /\ a * z < (q(z) + 1) * d /\ a * z \in Nat
  <2>1. a * z \in Nat
    OBVIOUS
  <2>2. ASSUME NEW m \in Int
        PROVE  m \div d \in Int /\ (m \div d) * d <= m /\ m < (m \div d + 1) * d
    OBVIOUS
  <2>3. QED
    BY <2>1, <2>2
<1>2. ASSUME NEW g \in Int, NEW h \in Int, g <= h
      PROVE  g * d <= h * d /\ g * d \in Int /\ h * d \in Int
  BY <1>2
<1>3. ASSUME NEW g \in Nat, NEW h \in Nat, g <= h
      PROVE  a * g <= a * h /\ a * g \in Int /\ a * h \in Int
  BY <1>3
<1> HIDE DEF q
<1>4. q(x) \in Int /\ q(y) \in Int
  BY <1>1
<1>5. q(x) >= 0
  <2> SUFFICES ASSUME q(x) + 1 <= 0
               PROVE  FALSE
    BY <1>4
  <2>1. (q(x) + 1) * d <= 0 * d /\ 0 * d = 0 /\ (q(x) + 1) * d \in Int
    BY <1>2, <1>4
  <2>2. a * x < (q(x) + 1) * d /\ a * x \in Nat
    BY <1>1
  <2>3. QED
    BY <2>1, <2>2
<1>6. q(x) <= a
  <2> SUFFICES ASSUME a + 1 <= q(x)
               PROVE  FALSE
    BY <1>4
  <2>1. (a + 1) * d <= q(x) * d /\ (a + 1) * d \in Int /\ q(x) * d \in Int
    BY <1>2, <1>4
  <2>2. (a + 1) * d = a * d + d
    OBVIOUS
  <2>3. a * x <= a * d /\ a * x \in Int /\ a * d \in Int
    BY <1>3
  <2>4. q(x) * d <= a * x
    BY <1>1
  <2>5. QED
    BY <2>1, <2>2, <2>3, <2>4
<1>7. q(x) <= q(y)
  <2> SUFFICES ASSUME q(y) + 1 <= q(x)
               PROVE  FALSE
    BY <1>4
  <2>1. (q(y) + 1) * d <= q(x) * d /\ (q(y) + 1) * d \in Int /\ q(x) * d \in Int
    BY <1>2, <1>4
  <2>2. a * x <= a * y /\ a * x \in Int /\ a * y \in Int
    BY <1>3
  <2>3. q(x) * d <= a * x /\ a * y < (q(y) + 1) * d
    BY <1>1
  <2>4. QED
    BY <2>1, <2>2, <2>3
<1>8. QED
  BY <1>4, <1>5, <1>6, <1>7 DEF q

(* On a segment the demand lies between those of its ends and never falls.  *)
LEMMA InterpolatedIs ==
  ASSUME NEW l \in SafePoint, NEW r \in SafePoint, l.t < r.t, l.f <= r.f,
         NEW t \in Int, NEW u \in Int, Editor!Sixths * l.t <= t, t <= u, u <= Editor!Sixths * r.t
  PROVE  /\ Editor!Interpolated(l, r, t) \in 100 * l.f..100 * r.f
         /\ Editor!Interpolated(l, r, t) <= Editor!Interpolated(l, r, u)
<1> DEFINE a == 100 * (r.f - l.f)
           d == Editor!Sixths * (r.t - l.t)
           x == t - Editor!Sixths * l.t
           y == u - Editor!Sixths * l.t
<1>1. l.t \in Int /\ r.t \in Int /\ l.f \in Int /\ r.f \in Int
  BY SafePointIs
<1>2. a \in Nat /\ d \in Nat /\ d > 0 /\ x \in Nat /\ y \in Nat /\ x <= y /\ y <= d
  BY <1>1 DEF Editor!Sixths
<1>3. Editor!Interpolated(l, r, t) = 100 * l.f + (a * x) \div d
  BY DEF Editor!Interpolated
<1>4. Editor!Interpolated(l, r, u) = 100 * l.f + (a * y) \div d
  BY DEF Editor!Interpolated
<1>5. 100 * l.f \in Int /\ 100 * r.f \in Int /\ 100 * l.f + a = 100 * r.f
  BY <1>1
<1> HIDE DEF a, d, x, y
<1>6. (a * x) \div d \in 0..a /\ (a * x) \div d <= (a * y) \div d
  BY <1>2, ShareIs
<1>7. (a * y) \div d \in Int
  <2>1. a * y \in Int
    BY <1>2
  <2>2. QED
    BY <1>2, <2>1
<1>8. QED
  BY <1>2, <1>3, <1>4, <1>5, <1>6, <1>7

(* A smaller range within a larger one.                                     *)
LEMMA WithinRange ==
  ASSUME NEW l \in Int, NEW h \in Int, NEW k \in Int, NEW m \in Int, l <= k, m <= h,
         NEW v \in k..m
  PROVE  v \in l..h
OBVIOUS

(* A curve that can be evaluated.                                           *)
Usable(c) == c \in Seq(SafePoint) /\ Editor!Safe(c) /\ Len(c) >= 2

(* t lies on segment i of the curve.                                        *)
On(c, t, i) == i \in 2..Len(c) /\ Editor!Sixths * c[i - 1].t < t /\ t <= Editor!Sixths * c[i].t

LEMMA UsableIs ==
  ASSUME NEW c, Usable(c)
  PROVE  /\ Len(c) \in Nat /\ Len(c) >= 2 /\ DOMAIN c = 1..Len(c)
         /\ \A i \in 1..Len(c) : /\ c[i] \in SafePoint /\ c[i].t \in Int /\ c[i].f \in Int
                                 /\ c[i].f \in 20..100
         /\ \A i, j \in 1..Len(c) : i < j => c[i].t < c[j].t
         /\ \A i, j \in 1..Len(c) : i <= j => c[i].f <= c[j].f /\ c[i].t <= c[j].t
<1>1. Len(c) \in Nat /\ Len(c) >= 2 /\ DOMAIN c = 1..Len(c)
      /\ \A i \in 1..Len(c) : c[i] \in SafePoint
  BY DEF Usable
<1>2. \A i \in 1..Len(c) : c[i].t \in Int /\ c[i].f \in Int /\ c[i].f \in 20..100
  BY <1>1, SafePointIs
<1>3. \A i, j \in 1..Len(c) : i < j => c[i].t < c[j].t /\ c[i].f <= c[j].f
  BY <1>1 DEF Usable, Editor!Safe
<1>4. ASSUME NEW i \in 1..Len(c), NEW j \in 1..Len(c), i <= j
      PROVE  c[i].f <= c[j].f /\ c[i].t <= c[j].t
  <2>1. CASE i = j
    BY <1>2, <2>1
  <2>2. CASE i < j
    BY <1>2, <1>3, <2>2
  <2>3. QED
    BY <1>4, <2>1, <2>2
<1>5. QED
  BY <1>1, <1>2, <1>3, <1>4

(* Every temperature is below the curve, above it or on a segment, and      *)
(* evaluation takes that case.                                              *)
LEMMA EvaluateIs ==
  ASSUME NEW c, Usable(c), NEW t \in Int
  PROVE  \/ t <= Editor!Sixths * c[1].t /\ Editor!Evaluate(c, t) = 100 * c[1].f
         \/ t >= Editor!Sixths * c[Len(c)].t /\ Editor!Evaluate(c, t) = 100 * c[Len(c)].f
         \/ /\ ~(t <= Editor!Sixths * c[1].t) /\ ~(t >= Editor!Sixths * c[Len(c)].t)
            /\ \E i \in 2..Len(c) : On(c, t, i)
               /\ Editor!Evaluate(c, t) = Editor!Interpolated(c[i - 1], c[i], t)
<1> DEFINE n == Len(c)
<1>1. /\ n \in Nat /\ n >= 2 /\ 1 \in 1..n /\ n \in 1..n
      /\ \A i \in 1..n : c[i].t \in Int
      /\ c[1].t < c[n].t
  BY UsableIs
<1>2. Head(c) = c[1] /\ Editor!Last(c) = c[n] /\ c # <<>>
  BY <1>1 DEF Usable, Editor!Last
<1> HIDE DEF n
<1>3. \A i \in 1..n : Editor!Sixths * c[i].t \in Int
  BY <1>1 DEF Editor!Sixths
<1>4. Editor!Sixths * c[1].t < Editor!Sixths * c[n].t
  BY <1>1 DEF Editor!Sixths
<1>5. CASE t <= Editor!Sixths * c[1].t
  <2>1. ~(t >= Editor!Sixths * c[n].t)
    BY <1>1, <1>3, <1>4, <1>5
  <2>2. Editor!Evaluate(c, t) = 100 * c[1].f
    BY <1>2, <1>5, <2>1 DEF Editor!Evaluate
  <2>3. QED
    BY <1>5, <2>2
<1>6. CASE t >= Editor!Sixths * c[n].t
  <2>1. ~(t <= Editor!Sixths * c[1].t)
    BY <1>1, <1>3, <1>4, <1>6
  <2>2. Editor!Evaluate(c, t) = 100 * c[n].f
    BY <1>2, <1>6, <2>1 DEF Editor!Evaluate
  <2>3. QED
    BY <1>6, <2>2 DEF n
<1>7. CASE ~(t <= Editor!Sixths * c[1].t) /\ ~(t >= Editor!Sixths * c[n].t)
  <2> DEFINE T == {i \in 2..n : t <= Editor!Sixths * c[i].t}
             i == Editor!Segment(c, t)
  <2>1. T \subseteq Nat /\ n \in T
    BY <1>1, <1>3, <1>7
  <2>2. PICK k \in T : \A j \in T : k <= j
    BY <2>1, Least
  <2>3. \A j \in 2..k - 1 : t > Editor!Sixths * c[j].t
    <3> SUFFICES ASSUME NEW j \in 2..k - 1
                 PROVE  t > Editor!Sixths * c[j].t
      OBVIOUS
    <3>1. j \in 2..n /\ j \in 1..n /\ ~(k <= j)
      BY <1>1, <2>2
    <3>2. ~(t <= Editor!Sixths * c[j].t)
      BY <2>2, <3>1
    <3>3. QED
      BY <1>3, <3>1, <3>2
  <2>4. k \in 2..n /\ t <= Editor!Sixths * c[k].t
    BY <2>2
  <2> HIDE DEF T
  <2>5. i \in 2..n /\ t <= Editor!Sixths * c[i].t
        /\ \A j \in 2..i - 1 : t > Editor!Sixths * c[j].t
    BY <2>3, <2>4, Zenon DEF Editor!Segment, n
  <2>6. Editor!Evaluate(c, t) = Editor!Interpolated(c[i - 1], c[i], t)
    BY <1>2, <1>7 DEF Editor!Evaluate
  <2> HIDE DEF i
  <2>7. Editor!Sixths * c[i - 1].t < t
    <3>1. CASE i = 2
      <4>1. i - 1 = 1
        BY <3>1
      <4>2. QED
        BY <1>1, <1>3, <1>7, <4>1
    <3>2. CASE i # 2
      <4>1. i - 1 \in 2..i - 1 /\ i - 1 \in 1..n
        BY <1>1, <2>5, <3>2
      <4>2. QED
        BY <1>3, <2>5, <4>1
    <3>3. QED
      BY <3>1, <3>2
  <2>8. On(c, t, i)
    BY <2>5, <2>7 DEF On, n
  <2>9. QED
    BY <1>7, <2>5, <2>6, <2>8, Zenon DEF n
<1>8. QED
  BY <1>5, <1>6, <1>7

(* The demand of a usable curve, at any temperature.                        *)
LEMMA DemandIs ==
  ASSUME NEW c, Usable(c), NEW t \in Int
  PROVE  /\ Editor!Evaluate(c, t) \in 100 * c[1].f..100 * c[Len(c)].f
         /\ \A i \in 2..Len(c) : On(c, t, i) =>
              Editor!Interpolated(c[i - 1], c[i], t) \in 100 * c[i - 1].f..100 * c[i].f
<1> DEFINE n == Len(c)
<1>1. /\ n \in Nat /\ n >= 2 /\ 1 \in 1..n /\ n \in 1..n
      /\ \A i \in 1..n : c[i] \in SafePoint /\ c[i].t \in Int /\ c[i].f \in Int
         /\ c[i].f \in 20..100
      /\ \A i, j \in 1..n : i < j => c[i].t < c[j].t
      /\ \A i, j \in 1..n : i <= j => c[i].f <= c[j].f
  BY UsableIs
<1> HIDE DEF n
<1> DEFINE v(i) == 100 * c[i].f
<1>2. ASSUME NEW i \in 1..n
      PROVE  v(i) \in Int
  BY <1>1
<1>3. ASSUME NEW i \in 1..n, NEW j \in 1..n, i <= j
      PROVE  v(i) <= v(j)
  <2>1. c[i].f <= c[j].f /\ c[i].f \in Int /\ c[j].f \in Int
    BY <1>1, <1>3
  <2>2. QED
    BY <2>1
<1>4. ASSUME NEW i \in 2..n, On(c, t, i)
      PROVE  Editor!Interpolated(c[i - 1], c[i], t) \in v(i - 1)..v(i)
  <2>1. i - 1 \in 1..n /\ i \in 1..n /\ i - 1 < i /\ i - 1 <= i
    BY <1>1
  <2>2. c[i - 1].t < c[i].t /\ c[i - 1].f <= c[i].f /\ c[i - 1] \in SafePoint
        /\ c[i] \in SafePoint
    BY <1>1, <2>1
  <2>3. Editor!Sixths * c[i - 1].t <= t /\ t <= t /\ t <= Editor!Sixths * c[i].t
    <3>1. Editor!Sixths * c[i - 1].t \in Int
      BY <1>1, <2>1 DEF Editor!Sixths
    <3>2. QED
      BY <1>4, <3>1 DEF On
  <2>4. QED
    BY <2>2, <2>3, InterpolatedIs
<1>5. \/ Editor!Evaluate(c, t) = v(1)
      \/ Editor!Evaluate(c, t) = v(n)
      \/ \E i \in 2..n :
           On(c, t, i) /\ Editor!Evaluate(c, t) = Editor!Interpolated(c[i - 1], c[i], t)
  BY EvaluateIs DEF n
<1> HIDE DEF v
<1>6. v(1) \in Int /\ v(n) \in Int /\ v(1) <= v(n)
  <2>1. 1 <= n
    BY <1>1
  <2>2. QED
    BY <1>1, <1>2, <1>3, <2>1
<1>7. Editor!Evaluate(c, t) \in v(1)..v(n)
  <2>1. ASSUME NEW i \in 2..n, On(c, t, i), Editor!Evaluate(c, t) = Editor!Interpolated(c[i - 1],
        c[i], t)
        PROVE  Editor!Evaluate(c, t) \in v(1)..v(n)
    <3>1. Editor!Evaluate(c, t) \in v(i - 1)..v(i)
      BY <1>4, <2>1
    <3>2. i - 1 \in 1..n /\ i \in 1..n /\ 1 <= i - 1 /\ i <= n
      BY <1>1
    <3>3. v(1) <= v(i - 1) /\ v(i) <= v(n) /\ v(i - 1) \in Int /\ v(i) \in Int
      BY <1>1, <1>2, <1>3, <3>2
    <3>4. QED
      BY <1>6, <3>1, <3>3, WithinRange
  <2>2. v(1) \in v(1)..v(n) /\ v(n) \in v(1)..v(n)
    BY <1>6
  <2>3. QED
    BY <1>5, <2>1, <2>2
<1>8. QED
  BY <1>4, <1>7 DEF n, v

LEMMA DemandInRange ==
  ASSUME NEW c, Usable(c), NEW t \in Int
  PROVE  Editor!Evaluate(c, t) \in 2000..10000
<1> DEFINE e == Editor!Evaluate(c, t)
           k == c[1].f
           m == c[Len(c)].f
<1>1. k \in 20..100 /\ m \in 20..100
  <2>1. 1 \in 1..Len(c) /\ Len(c) \in 1..Len(c)
    BY UsableIs
  <2>2. QED
    BY <2>1, UsableIs
<1>2. e \in 100 * k..100 * m
  BY DemandIs
<1> HIDE DEF e, k, m
<1>3. 100 * k \in Int /\ 2000 <= 100 * k /\ 100 * m \in Int /\ 100 * m <= 10000
  BY <1>1
<1>4. e \in 2000..10000
  BY <1>2, <1>3
<1>5. QED
  BY <1>4 DEF e

(* A hotter component never gets a slower fan.                              *)
LEMMA DemandRises ==
  ASSUME NEW c, Usable(c), NEW t \in Int, NEW u \in Int, t <= u
  PROVE  Editor!Evaluate(c, t) <= Editor!Evaluate(c, u)
<1> DEFINE n == Len(c)
<1>1. /\ n \in Nat /\ n >= 2 /\ 1 \in 1..n /\ n \in 1..n
      /\ \A i \in 1..n : c[i] \in SafePoint /\ c[i].t \in Int /\ c[i].f \in Int
      /\ \A i, j \in 1..n : i < j => c[i].t < c[j].t
      /\ \A i, j \in 1..n : i <= j => c[i].f <= c[j].f /\ c[i].t <= c[j].t
  BY UsableIs
<1>2. /\ Editor!Evaluate(c, t) \in 100 * c[1].f..100 * c[n].f
      /\ Editor!Evaluate(c, u) \in 100 * c[1].f..100 * c[n].f
  BY DemandIs
<1> HIDE DEF n
<1>3. \A i \in 1..n : 100 * c[i].f \in Int /\ Editor!Sixths * c[i].t \in Int
  BY <1>1 DEF Editor!Sixths
<1>4. 100 * c[1].f \in Int /\ 100 * c[n].f \in Int
  BY <1>1, <1>3
<1>5. CASE Editor!Evaluate(c, t) = 100 * c[1].f
  BY <1>2, <1>4, <1>5
<1>6. CASE Editor!Evaluate(c, u) = 100 * c[n].f
  BY <1>2, <1>4, <1>6
<1>7. CASE t >= Editor!Sixths * c[n].t /\ Editor!Evaluate(c, t) = 100 * c[n].f
  <2>1. u >= Editor!Sixths * c[n].t /\ c[1].t < c[n].t /\ c[1].t \in Int /\ c[n].t \in Int
    BY <1>1, <1>3, <1>7
  <2>2. ~(u <= Editor!Sixths * c[1].t)
    BY <2>1 DEF Editor!Sixths
  <2>3. Editor!Evaluate(c, u) = 100 * c[n].f
    BY <2>1, <2>2, EvaluateIs DEF n
  <2>4. QED
    BY <1>6, <2>3
<1>8. CASE u <= Editor!Sixths * c[1].t /\ ~(t <= Editor!Sixths * c[1].t)
  BY <1>1, <1>3, <1>8
<1>9. ASSUME NEW i \in 2..n, On(c, t, i), Editor!Evaluate(c, t) = Editor!Interpolated(c[i - 1],
      c[i], t),
             NEW j \in 2..n, On(c, u, j),
             Editor!Evaluate(c, u) = Editor!Interpolated(c[j - 1], c[j], u)
      PROVE  Editor!Evaluate(c, t) <= Editor!Evaluate(c, u)
  <2>1. i \in 1..n /\ i - 1 \in 1..n /\ j \in 1..n /\ j - 1 \in 1..n
    BY <1>1
  <2>2. /\ Editor!Sixths * c[i - 1].t < t /\ t <= Editor!Sixths * c[i].t
        /\ Editor!Sixths * c[j - 1].t < u /\ u <= Editor!Sixths * c[j].t
    BY <1>9 DEF On
  <2>3. CASE i = j
    <3>1. c[i - 1].t < c[i].t /\ c[i - 1].f <= c[i].f /\ c[i - 1] \in SafePoint
          /\ c[i] \in SafePoint
      BY <1>1, <2>1
    <3>2. Editor!Sixths * c[i - 1].t <= t /\ u <= Editor!Sixths * c[i].t
      BY <1>3, <2>1, <2>2, <2>3
    <3>3. Editor!Interpolated(c[i - 1], c[i], t) <= Editor!Interpolated(c[i - 1], c[i], u)
      BY <3>1, <3>2, InterpolatedIs
    <3>4. QED
      BY <1>9, <2>3, <3>3
  <2>4. CASE i < j
    <3>1. /\ Editor!Evaluate(c, t) \in 100 * c[i - 1].f..100 * c[i].f
          /\ Editor!Evaluate(c, u) \in 100 * c[j - 1].f..100 * c[j].f
      <4>1. Editor!Interpolated(c[i - 1], c[i], t) \in 100 * c[i - 1].f..100 * c[i].f
        BY <1>9, DemandIs DEF n
      <4>2. Editor!Interpolated(c[j - 1], c[j], u) \in 100 * c[j - 1].f..100 * c[j].f
        BY <1>9, DemandIs DEF n
      <4>3. QED
        BY <1>9, <4>1, <4>2
    <3>2. c[i].f <= c[j - 1].f /\ c[i].f \in Int /\ c[j - 1].f \in Int
      BY <1>1, <2>1, <2>4
    <3>3. 100 * c[i].f <= 100 * c[j - 1].f
      BY <3>2
    <3>4. QED
      BY <1>3, <2>1, <3>1, <3>3
  <2>5. CASE j < i
    <3>1. c[j].t <= c[i - 1].t /\ c[j].t \in Int /\ c[i - 1].t \in Int
      BY <1>1, <2>1, <2>5
    <3>2. Editor!Sixths * c[j].t <= Editor!Sixths * c[i - 1].t
      BY <3>1 DEF Editor!Sixths
    <3>3. QED
      BY <1>3, <2>1, <2>2, <3>2
  <2>6. QED
    BY <2>3, <2>4, <2>5
<1>10. QED
  <2>1. \/ Editor!Evaluate(c, t) = 100 * c[1].f
        \/ t >= Editor!Sixths * c[n].t /\ Editor!Evaluate(c, t) = 100 * c[n].f
        \/ /\ ~(t <= Editor!Sixths * c[1].t)
           /\ \E i \in 2..n : On(c, t, i)
              /\ Editor!Evaluate(c, t) = Editor!Interpolated(c[i - 1], c[i], t)
    BY EvaluateIs, Zenon DEF n
  <2>2. \/ u <= Editor!Sixths * c[1].t
        \/ Editor!Evaluate(c, u) = 100 * c[n].f
        \/ \E i \in 2..n :
             On(c, u, i) /\ Editor!Evaluate(c, u) = Editor!Interpolated(c[i - 1], c[i], u)
    BY EvaluateIs, Zenon DEF n
  <2>3. QED
    BY <1>5, <1>6, <1>7, <1>8, <1>9, <2>1, <2>2, Zenon

-----------------------------------------------------------------------------
(* Settings file, editor and presets *)

(* The file holds some list of points; what is in use and what is edited is *)
(* safe.                                                                    *)
CurveInv ==
  /\ stored \in Seq(Point)
  /\ Usable(curve)
  /\ points \in Seq(SafePoint) /\ Editor!Safe(points)

LEMMA NormalizedIsSafe ==
  ASSUME NEW list \in Seq(Point)
  PROVE  Editor!Normalized(list) \in Seq(SafePoint) /\ Editor!Safe(Editor!Normalized(list))
         /\ Editor!Normalized(list) \in Seq(Point)
<1>1. Editor!Normalized(list) \in Seq(SafePoint) /\ Editor!Safe(Editor!Normalized(list))
  BY NormalIs, Zenon
<1>2. QED
  BY <1>1, SafeIsPoint

LEMMA NormalizedIsUsable ==
  ASSUME NEW c, Usable(c)
  PROVE  Usable(Editor!Normalized(c)) /\ Editor!Normalized(c) \in Seq(Point)
<1>1. c \in Seq(SafePoint) /\ Editor!Safe(c) /\ Len(c) >= 2
  BY DEF Usable
<1>2. c \in Seq(Point)
  BY <1>1, SafeIsPoint
<1>3. QED
  BY <1>1, <1>2, NormalizedIsSafe, SafeStaysCurve DEF Usable

(* Whatever the file held, what is loaded from it is a curve.               *)
LEMMA FromJsonIs ==
  ASSUME NEW list \in Seq(Point)
  PROVE  Usable(Editor!FromJson(list))
<1>1. CASE Len(Editor!Normalized(list)) < 2
  <2>1. Editor!FromJson(list) = Editor!Balanced
    BY <1>1 DEF Editor!FromJson
  <2>2. Usable(Editor!Balanced)
    BY BalancedIs DEF Usable
  <2>3. QED
    BY <2>1, <2>2
<1>2. CASE ~(Len(Editor!Normalized(list)) < 2)
  <2>1. Editor!FromJson(list) = Editor!Normalized(list)
    BY <1>2 DEF Editor!FromJson
  <2>2. Editor!Normalized(list) \in Seq(SafePoint) /\ Editor!Safe(Editor!Normalized(list))
    BY NormalizedIsSafe
  <2>3. Len(Editor!Normalized(list)) >= 2
    BY <1>2, <2>2
  <2>4. QED
    BY <2>1, <2>2, <2>3 DEF Usable
<1>3. QED
  BY <1>1, <1>2

LEMMA AnyPointIs ==
  ASSUME Editor!CurveAssumption
  PROVE  Editor!AnyPoint \subseteq Point
<1> SUFFICES ASSUME NEW e \in Editor!AnyPoint
             PROVE  e \in Point
  OBVIOUS
<1>1. e.t \in Degrees /\ e.f \in Percents /\ e = [t |-> e.t, f |-> e.f]
  BY DEF Editor!AnyPoint
<1>2. e.t \in Int /\ e.f \in Int
  BY <1>1 DEF Editor!CurveAssumption
<1>3. QED
  BY <1>1, <1>2 DEF Point

LEMMA CurveInit ==
  ASSUME Editor!CurveAssumption, Editor!Init
  PROVE  CurveInv
<1>1. stored \in Seq(Point)
  <2>1. PICK m \in 0..MaxStored : stored \in [1..m -> Editor!AnyPoint]
    BY DEF Editor!Init, Editor!BoundedSeq, Editor!SeqOf
  <2>2. m \in Nat /\ stored \in [1..m -> Point]
    BY <2>1, AnyPointIs DEF Editor!CurveAssumption
  <2>3. QED
    BY <2>2
<1>2. Usable(curve)
  BY <1>1, FromJsonIs DEF Editor!Init
<1>3. points \in Seq(SafePoint) /\ Editor!Safe(points)
  BY DEF Editor!Init, Editor!Safe
<1>4. QED
  BY <1>1, <1>2, <1>3 DEF CurveInv

(* Edits start from safe points and end with a list that is safe.           *)
LEMMA EditIsSafe ==
  ASSUME CurveInv, NEW list, list \in Seq(SafePoint), Editor!Safe(list), Editor!Edited(list)
  PROVE  CurveInv'
BY DEF CurveInv, Editor!Edited

LEMMA CurveStep ==
  ASSUME Editor!CurveAssumption, CurveInv, Editor!Next
  PROVE  CurveInv'
<1>1. /\ stored \in Seq(Point) /\ Usable(curve) /\ curve \in Seq(SafePoint)
      /\ points \in Seq(SafePoint) /\ Editor!Safe(points) /\ points \in Seq(Point)
  BY SafeIsPoint DEF CurveInv, Usable
<1>2. curve \in Seq(Point)
  BY <1>1, SafeIsPoint
<1>3. <<>> \in Seq(SafePoint) /\ Editor!Safe(<<>>)
  BY DEF Editor!Safe
<1>4. CASE Editor!LoadFanCurve
  <2>1. Usable(Editor!FromJson(stored))
    BY <1>1, FromJsonIs
  <2>2. QED
    BY <1>1, <1>3, <1>4, <2>1, Zenon DEF Editor!LoadFanCurve, CurveInv
<1>5. ASSUME NEW key \in DOMAIN Editor!FanCurvePreset, Editor!ApplyPreset(key)
      PROVE  CurveInv'
  <2> DEFINE c == Editor!Normalized(Editor!FanCurvePreset[key])
  <2>1. Editor!FanCurvePreset[key] \in Seq(Point) /\ Len(c) >= 2
    BY PresetIs
  <2>2. Usable(c)
    BY <2>1, NormalizedIsSafe DEF Usable
  <2> HIDE DEF c
  <2>3. Editor!Normalized(c) \in Seq(Point)
    BY <2>2, NormalizedIsUsable
  <2>4. curve' = c /\ stored' = Editor!Normalized(c) /\ points' = points
    BY <1>5, Zenon DEF Editor!ApplyPreset, c
  <2>5. QED
    BY <1>1, <2>2, <2>3, <2>4, Zenon DEF CurveInv
<1>6. CASE Editor!OpenEditor
  <2>1. Editor!Normalized(curve) \in Seq(SafePoint) /\ Editor!Safe(Editor!Normalized(curve))
    BY <1>2, NormalizedIsSafe
  <2>2. QED
    BY <1>1, <1>6, <2>1, Zenon DEF Editor!OpenEditor, CurveInv
<1>7. ASSUME NEW i \in DOMAIN points, NEW t \in Degrees, Editor!EditPointTemperature(i, t)
      PROVE  CurveInv'
  <2> DEFINE list == [points EXCEPT ![i].t = Editor!Clamp(t, 20, 110)]
  <2>1. t \in Int
    BY DEF Editor!CurveAssumption
  <2>2. Editor!Clamp(t, 20, 110) \in Int
    BY <2>1 DEF Editor!Clamp, Editor!Larger, Editor!Smaller
  <2>3. points[i] \in Point
    BY <1>1
  <2>4. [points[i] EXCEPT !.t = Editor!Clamp(t, 20, 110)] \in Point
    BY <2>2, <2>3 DEF Point
  <2>5. list = [points EXCEPT ![i] = [points[i] EXCEPT !.t = Editor!Clamp(t, 20, 110)]]
    OBVIOUS
  <2>6. list \in Seq(Point)
    BY <1>1, <2>4, <2>5
  <2>7. Editor!Normalized(list) \in Seq(SafePoint) /\ Editor!Safe(Editor!Normalized(list))
    BY <2>6, NormalizedIsSafe
  <2>8. Editor!Edited(Editor!Normalized(list))
    BY <1>7, Zenon DEF Editor!EditPointTemperature
  <2>9. QED
    BY <2>7, <2>8, EditIsSafe
<1>8. ASSUME NEW p \in Editor!AnyPoint, Editor!AddPoint(p)
      PROVE  CurveInv'
  <2>1. p \in Point
    BY AnyPointIs
  <2>2. Editor!Clamped(p) \in Point
    BY <2>1, ClampedIs, SafeIsPoint
  <2>3. Append(points, Editor!Clamped(p)) \in Seq(Point)
    BY <1>1, <2>2
  <2>4. Editor!Edited(Editor!Normalized(Append(points, Editor!Clamped(p))))
    BY <1>8, Zenon DEF Editor!AddPoint
  <2>5. QED
    BY <2>3, <2>4, NormalizedIsSafe, EditIsSafe
<1>9. ASSUME NEW i \in DOMAIN points, NEW f \in Percents, Editor!MoveSlider(i, f)
      PROVE  CurveInv'
  <2> DEFINE list == [points EXCEPT ![i].f = Editor!Clamp(f, 20, 100)]
  <2>1. f \in Int
    BY DEF Editor!CurveAssumption
  <2>2. Editor!Clamp(f, 20, 100) \in Int
    BY <2>1 DEF Editor!Clamp, Editor!Larger, Editor!Smaller
  <2>3. points[i] \in Point
    BY <1>1
  <2>4. [points[i] EXCEPT !.f = Editor!Clamp(f, 20, 100)] \in Point
    BY <2>2, <2>3 DEF Point
  <2>5. list = [points EXCEPT ![i] = [points[i] EXCEPT !.f = Editor!Clamp(f, 20, 100)]]
    OBVIOUS
  <2>6. list \in Seq(Point)
    BY <1>1, <2>4, <2>5
  <2>7. Editor!Normalized(list) \in Seq(SafePoint) /\ Editor!Safe(Editor!Normalized(list))
    BY <2>6, NormalizedIsSafe
  <2>8. Editor!Edited(Editor!Normalized(list))
    BY <1>9, Zenon DEF Editor!MoveSlider
  <2>9. QED
    BY <2>7, <2>8, EditIsSafe
<1>10. ASSUME NEW i \in DOMAIN points, Editor!DeletePoint(i)
       PROVE  CurveInv'
  <2>1. Editor!RemoveAt(points, i) \in Seq(SafePoint) /\ Editor!Safe(Editor!RemoveAt(points, i))
    BY <1>1, RemoveAtIs
  <2>2. Editor!Edited(Editor!RemoveAt(points, i))
    BY <1>10, Zenon DEF Editor!DeletePoint
  <2>3. QED
    BY <2>1, <2>2, EditIsSafe
<1>11. CASE Editor!ResetBalanced
  <2>1. Editor!Edited(Editor!Balanced)
    BY <1>11, Zenon DEF Editor!ResetBalanced
  <2>2. QED
    BY <2>1, BalancedIs, EditIsSafe
<1>12. CASE Editor!Cancel
  BY <1>1, <1>3, <1>12, Zenon DEF Editor!Cancel, CurveInv
<1>13. CASE Editor!Save
  <2>1. Len(points) >= 2 /\ curve' = Editor!Normalized(points)
        /\ stored' = Editor!Normalized(Editor!Normalized(points))
        /\ points' = <<>>
    BY <1>13, Zenon DEF Editor!Save
  <2>2. Usable(points)
    BY <1>1, <2>1 DEF Usable
  <2>3. Usable(Editor!Normalized(points))
    BY <2>2, NormalizedIsUsable
  <2>4. Editor!Normalized(Editor!Normalized(points)) \in Seq(Point)
    BY <2>3, NormalizedIsUsable
  <2>5. QED
    BY <1>3, <2>1, <2>3, <2>4, Zenon DEF CurveInv
<1>14. QED
  BY <1>4, <1>5, <1>6, <1>7, <1>8, <1>9, <1>10, <1>11, <1>12, <1>13, Zenon DEF Editor!Next

(* What the invariant says of the properties.                               *)
LEMMA CurveInvSuffices ==
  ASSUME CurveInv
  PROVE  Editor!CurveSafe /\ Editor!NormalizedAsIntended
<1>1. /\ stored \in Seq(Point) /\ Usable(curve) /\ curve \in Seq(SafePoint)
      /\ Editor!Safe(curve) /\ Len(curve) >= 2 /\ Editor!Safe(points)
  BY DEF CurveInv, Usable
<1>2. Editor!DemandNeverFalls
  <2> DEFINE c == Editor!Normalized(curve)
  <2>1. Usable(c)
    BY <1>1, NormalizedIsUsable
  <2> HIDE DEF c
  <2>2. ASSUME NEW t \in Editor!Probes
        PROVE  Editor!Evaluate(c, t) \in 2000..10000
               /\ Editor!Evaluate(c, t) <= Editor!Evaluate(c, t + 1)
    <3>1. PICK i \in DOMAIN curve, d \in {-7, -1, 0, 1, 7} : t = Editor!Sixths * curve[i].t + d
      BY DEF Editor!Probes
    <3>2. curve[i] \in SafePoint
      BY <1>1
    <3>3. curve[i].t \in Int
      BY <3>2, SafePointIs
    <3>4. t \in Int /\ t + 1 \in Int /\ t <= t + 1
      BY <3>1, <3>3 DEF Editor!Sixths
    <3>5. QED
      BY <2>1, <3>4, DemandInRange, DemandRises
  <2>3. QED
    BY <2>2 DEF Editor!DemandNeverFalls, c
<1>3. Editor!Safe(Editor!Normalized(stored))
      /\ Editor!ToSet(Editor!Normalized(stored)) = Editor!NormalForm(stored)
  BY <1>1, NormalizedIsSafe, NormalFormIs
<1>4. QED
  BY <1>1, <1>2, <1>3 DEF Editor!CurveSafe, Editor!NormalizedAsIntended

LEMMA CurveInvHolds ==
  ASSUME Editor!CurveAssumption
  PROVE  Editor!Spec => []CurveInv
<1>1. CurveInv /\ [Editor!Next]_(Editor!vars) => CurveInv'
  <2> SUFFICES ASSUME CurveInv, [Editor!Next]_(Editor!vars)
               PROVE  CurveInv'
    OBVIOUS
  <2>1. CASE Editor!Next
    BY <2>1, CurveStep
  <2>2. CASE UNCHANGED Editor!vars
    BY <2>2, Zenon DEF Editor!vars, CurveInv
  <2>3. QED
    BY <2>1, <2>2
<1>2. QED
  BY <1>1, CurveInit, PTL DEF Editor!Spec

-----------------------------------------------------------------------------
(* The parts together: a behaviour stays with the part it began with.       *)

InEditor == part = "editor"

LEMMA EditorPart ==
  /\ UserDataInit /\ InEditor => Editor!Init
  /\ InEditor /\ [UserDataNext]_all => InEditor' /\ [Editor!Next]_(Editor!vars)
  /\ ~InEditor /\ [UserDataNext]_all => ~InEditor'
BY Zenon DEF InEditor, UserDataInit, UserDataNext, all, editor, Editor!vars

LEMMA EditorInvHolds == UserDataSpec => [](InEditor => CurveInv)
<1>1. Editor!Spec => []CurveInv
  BY CurveInvHolds, UserDataAssumption
<1>2. QED
  BY <1>1, EditorPart, PTL DEF UserDataSpec, Editor!Spec

(* For any stored list, any degrees and percents and any number of edits:   *)
(* the curve in use and the editor's list are safe, and the demand of the   *)
(* curve in use stays within 20 to 100 percent and never falls as it gets   *)
(* hotter (safetyNormalizedPoints, evaluate, FanCurveEditor).               *)
THEOREM CurveSafeHolds == UserDataSpec => []CurveSafe
<1>1. (InEditor => CurveInv) => CurveSafe
  BY CurveInvSuffices DEF CurveSafe, InEditor
<1>2. QED
  BY <1>1, EditorInvHolds, PTL

(* For any stored list: safetyNormalizedPoints has at every temperature     *)
(* that occurs one point, with the most that any point up to it asks for.   *)
THEOREM NormalizedAsIntendedHolds == UserDataSpec => []NormalizedAsIntended
<1>1. (InEditor => CurveInv) => NormalizedAsIntended
  BY CurveInvSuffices DEF NormalizedAsIntended, InEditor
<1>2. QED
  BY <1>1, EditorInvHolds, PTL
===========================================================================
