-------------------------- MODULE VerifyInventory --------------------------
(***************************************************************************)
(* The installation inventory of the Windows bridge                        *)
(* (bridge_service/src/verify_integrity.go): the first start records every *)
(* file, each later start and the monitor's periodic check compare. The    *)
(* files are hashed by a pool of goroutines (jobs, workers, results,       *)
(* collector) while they may change, and the process may die anywhere.     *)
(*                                                                         *)
(* Files are numbered in the order of their paths. A record holds the size *)
(* of one read of the file and the digest of a later one.                  *)
(***************************************************************************)
EXTENDS Naturals, Sequences, FiniteSetsExt, Functions

CONSTANTS
  MaxFiles,    \* bound: paths of the installation tree
  Contents,    \* what a file may hold
  MaxProcs,    \* bound: GOMAXPROCS
  MaxChanges,  \* bound: changes to the tree
  MaxStarts    \* bound: starts of the bridge

InventoryAssumption ==
  /\ {"none", "link", "open", "error"} \cap Contents = {}
  /\ {MaxFiles, MaxProcs, MaxChanges, MaxStarts} \subseteq Nat \ {0}

MaxWorkers == 4
Files == 1..MaxFiles
Workers == 1..MaxProcs
Kinds == {"read", "persist", "corrupt", "crash"}

VARIABLES
  procs,     \* GOMAXPROCS
  tree,      \* the content of each path, "none" or "link" (not a regular file)
  state,     \* verify.state: [kind : absent, corrupt, authentic; files]
  pc,        \* what the bridge does
  expected,  \* the state this check has loaded
  todo,      \* paths not handed to a worker yet
  job,       \* [file, size, result] of each worker, file 0 when it is idle
  results,   \* the results channel
  records,   \* what the collector has
  firstErr,
  touched,   \* history: the tree changed since the walk of the latest baseline began
  alarmed,   \* history: the latest check failed
  used       \* [changes, starts, faults] so far, each kind of fault once

vars == <<procs, tree, state, pc, expected, todo, job, results, records, firstErr,
          touched, alarmed, used>>
scan == <<expected, todo, job, results, records, firstErr>>
disk == <<tree, state, touched>>

Absent == [kind |-> "absent", files |-> <<>>]
Idle == [file |-> 0, size |-> "none", result |-> "none"]
Return(next) ==
  /\ pc' = next
  /\ expected' = Absent /\ todo' = {} /\ job' = <<>> /\ results' = <<>>
  /\ records' = <<>> /\ firstErr' = FALSE
Fails(kind) == kind \notin used.faults /\ used' = [used EXCEPT !.faults = @ \cup {kind}]

-----------------------------------------------------------------------------
(* collectVerifyInventory *)

(* Mutant: in the order in which the workers finished.                      *)
ArrivalOrder(s) == s

canonicalVerifyRecords(s) ==
  LET orders == {[i \in DOMAIN s |-> s[p[i]]] : p \in Bijection(DOMAIN s, DOMAIN s)}
  IN CHOOSE q \in orders : \A i, j \in DOMAIN s : i < j => q[i].path <= q[j].path

PoolSize(paths) == Min({procs, MaxWorkers, Cardinality(paths)})

(* A path that is gone when the walk inspects it fails like one that is     *)
(* gone when it is hashed. Without paths there is no pool.                  *)
Walk ==
  /\ pc = "walk"
  /\ todo' = {f \in Files : tree[f] # "none"}
  /\ records' = <<>> /\ firstErr' = FALSE
  /\ pc' = IF todo' = {} THEN "judge" ELSE "pool"
  /\ job' = IF todo' = {} THEN <<>> ELSE [w \in 1..PoolSize(todo') |-> Idle]
  /\ UNCHANGED <<procs, disk, expected, results, alarmed, used>>

(* The feeder hands out the paths in order; the worker inspects its file.   *)
TakeJob(w) ==
  /\ pc = "pool" /\ todo # {}
  /\ job[w].file = 0
  /\ LET f == Min(todo) IN
       /\ todo' = todo \ {f}
       /\ job' = [job EXCEPT ![w] =
            [file |-> f, size |-> tree[f],
             result |-> IF tree[f] \in Contents THEN "open" ELSE "error"]]
  /\ UNCHANGED <<procs, disk, pc, expected, results, records, firstErr, alarmed, used>>

(* It reads what the file holds by now, or cannot.                          *)
Hash(w) ==
  /\ pc = "pool" /\ job[w].result = "open"
  /\ \/ /\ job' = [job EXCEPT ![w].result = IF tree[job[w].file] = "none" THEN "error"
                                           ELSE tree[job[w].file]]
        /\ UNCHANGED used
     \/ job' = [job EXCEPT ![w].result = "error"] /\ Fails("read")
  /\ UNCHANGED <<procs, disk, pc, expected, todo, results, records, firstErr, alarmed>>

(* The channel holds one result per worker.                                 *)
SendResult(w) ==
  /\ pc = "pool" /\ job[w].result \notin {"none", "open"}
  /\ Len(results) < Len(job)
  /\ results' = Append(results, job[w])
  /\ job' = [job EXCEPT ![w] = Idle]
  /\ UNCHANGED <<procs, disk, pc, expected, todo, records, firstErr, alarmed, used>>

Receive ==
  /\ pc = "pool" /\ results # <<>>
  /\ results' = Tail(results)
  /\ LET r == Head(results) IN
       IF r.result = "error" THEN firstErr' = TRUE /\ UNCHANGED records
       ELSE /\ records' = Append(records, [path |-> r.file, size |-> r.size, sha256 |-> r.result])
            /\ UNCHANGED firstErr
  /\ UNCHANGED <<procs, disk, pc, expected, todo, job, alarmed, used>>

(* Mutant: the collector waits for the workers before it takes a result.    *)
CollectWhenDone == todo = {} /\ (\A w \in DOMAIN job : job[w] = Idle) /\ Receive

(* The collector takes every result, also after an error.                   *)
Collect == Receive

(* jobs and results are closed and drained.                                 *)
PoolEnds ==
  /\ pc = "pool" /\ todo = {} /\ results = <<>>
  /\ \A w \in DOMAIN job : job[w] = Idle
  /\ pc' = "judge"
  /\ UNCHANGED <<procs, disk, scan, alarmed, used>>

-----------------------------------------------------------------------------
(* verifyInstallationStateWithKey *)

Load ==
  /\ pc = "load" /\ state.kind # "corrupt"
  /\ expected' = state
  /\ pc' = "walk"
  /\ touched' = (touched /\ state.kind # "absent")
  /\ UNCHANGED <<procs, tree, state, todo, job, results, records, firstErr, alarmed, used>>

(* The start is refused, or the monitor stops the bridge.                   *)
Alarm ==
  /\ Return("down") /\ alarmed' = TRUE
  /\ UNCHANGED <<procs, disk, used>>

NotAuthentic == pc = "load" /\ state.kind = "corrupt" /\ Alarm

(* verify.state is there and cannot be read.                                *)
StateUnreadable ==
  /\ pc = "load" /\ state.kind # "absent"
  /\ Fails("read")
  /\ Return("down") /\ alarmed' = TRUE
  /\ UNCHANGED <<procs, disk>>

(* Mutant: files that were not recorded are overlooked.                     *)
RecordedUnchanged(want, have) == \A i \in DOMAIN want : \E j \in DOMAIN have : have[j] = want[i]

verifyRecordsEqual(want, have) == canonicalVerifyRecords(want) = canonicalVerifyRecords(have)

Baseline == expected.kind = "absent"

Passes ==
  /\ pc = "judge" /\ ~Baseline /\ ~firstErr
  /\ verifyRecordsEqual(expected.files, records)
  /\ Return("running")
  /\ UNCHANGED <<procs, disk, alarmed, used>>

Differs ==
  /\ pc = "judge" /\ ~Baseline
  /\ firstErr \/ ~verifyRecordsEqual(expected.files, records)
  /\ Alarm

BaselineFails ==
  /\ pc = "judge" /\ Baseline /\ firstErr
  /\ Return("down")
  /\ UNCHANGED <<procs, disk, alarmed, used>>

(* writeVerifyState: a temporary file, renamed when it is complete; what is *)
(* recorded is in canonical order.                                          *)
Persist ==
  /\ pc = "judge" /\ Baseline /\ ~firstErr
  /\ \/ /\ state' = [kind |-> "authentic", files |-> canonicalVerifyRecords(records)]
        /\ Return("running")
        /\ UNCHANGED used
     \/ Fails("persist") /\ Return("down") /\ UNCHANGED state
  /\ UNCHANGED <<procs, tree, touched, alarmed>>

(* The monitor's check, ten seconds after the last one ended.               *)
PeriodicCheck ==
  /\ pc = "running"
  /\ pc' = "load"
  /\ UNCHANGED <<procs, disk, scan, alarmed, used>>

-----------------------------------------------------------------------------
(* Starts, crashes and the disk *)

Start ==
  /\ pc = "down" /\ used.starts < MaxStarts
  /\ used' = [used EXCEPT !.starts = @ + 1]
  /\ pc' = "load" /\ alarmed' = FALSE
  /\ UNCHANGED <<procs, disk, scan>>

(* The goroutines go with the process, whatever they hold.                  *)
Crash ==
  /\ pc # "down"
  /\ Fails("crash")
  /\ Return("down")
  /\ UNCHANGED <<procs, disk, alarmed>>

(* A file is added, removed, modified or replaced by a link.                *)
Change(f) ==
  /\ used.changes < MaxChanges
  /\ used' = [used EXCEPT !.changes = @ + 1]
  /\ \E c \in (Contents \cup {"none", "link"}) \ {tree[f]} : tree' = [tree EXCEPT ![f] = c]
  /\ touched' = TRUE
  /\ UNCHANGED <<procs, state, pc, scan, alarmed>>

Corrupt ==
  /\ state.kind = "authentic"
  /\ Fails("corrupt")
  /\ state' = [state EXCEPT !.kind = "corrupt"]
  /\ UNCHANGED <<procs, tree, touched, pc, scan, alarmed>>

(* verify.state is removed: by the installer with the service stopped, or   *)
(* while it runs; the next check then records what is there.                *)
RemoveState ==
  /\ state' = Absent /\ state # Absent
  /\ alarmed' = FALSE
  /\ UNCHANGED <<procs, tree, touched, pc, scan, used>>

Init ==
  /\ procs \in Workers
  /\ tree \in [Files -> Contents \cup {"none"}]
  /\ state = Absent /\ expected = Absent
  /\ pc = "down"
  /\ todo = {} /\ job = <<>> /\ results = <<>> /\ records = <<>> /\ firstErr = FALSE
  /\ touched = FALSE /\ alarmed = FALSE
  /\ used = [changes |-> 0, starts |-> 0, faults |-> {}]

Scan ==
  \/ Walk
  \/ \E w \in DOMAIN job : TakeJob(w) \/ Hash(w) \/ SendResult(w)
  \/ Collect \/ PoolEnds
  \/ Load \/ NotAuthentic \/ StateUnreadable
  \/ Passes \/ Differs \/ BaselineFails \/ Persist

Next ==
  \/ Scan \/ PeriodicCheck
  \/ Start \/ Crash \/ Corrupt \/ RemoveState
  \/ \E f \in Files : Change(f)

Spec == Init /\ [][Next]_vars

(* A goroutine that can run does, and the ticker ticks.                     *)
FairSpec == Spec /\ WF_vars(Scan) /\ WF_vars(PeriodicCheck)

-----------------------------------------------------------------------------
(* Properties *)

(* Every variable keeps its type.                                           *)
TypeOK ==
  /\ procs \in Workers
  /\ tree \in [Files -> Contents \cup {"none", "link"}]
  /\ state.kind \in {"absent", "corrupt", "authentic"}
  /\ expected.kind \in {"absent", "authentic"}
  /\ pc \in {"down", "load", "walk", "pool", "judge", "running"}
  /\ todo \subseteq Files
  /\ Len(job) <= procs /\ Len(results) <= Len(job) /\ Len(records) <= MaxFiles
  /\ {firstErr, touched, alarmed} \subseteq BOOLEAN
  /\ used \in [changes : 0..MaxChanges, starts : 0..MaxStarts, faults : SUBSET Kinds]

(* Only a tree that changed after its baseline was begun, a state file that *)
(* is not authentic or a file that could not be read raises the alarm: the  *)
(* order in which the workers finish, a crash or a second start never does. *)
NoFalseAlarm == alarmed => touched \/ state.kind = "corrupt" \/ "read" \in used.faults

(* A tree that stays different from what was recorded, by a file added,     *)
(* removed or modified, does not go on running unnoticed.                   *)
Recorded(f) ==
  \E i \in DOMAIN state.files :
    state.files[i] = [path |-> f, size |-> tree[f], sha256 |-> tree[f]]
Deviates ==
  /\ state.kind # "absent"
  /\ \/ state.kind = "corrupt"
     \/ \E f \in Files : tree[f] # "none" /\ ~Recorded(f)
     \/ \E i \in DOMAIN state.files : tree[state.files[i].path] = "none"
DeviationStops == pc = "running" /\ Deviates ~> pc = "down" \/ ~Deviates

(* A scan ends: no worker, feeder or collector waits for the others for     *)
(* ever, whatever files fail and however few results the channel holds.     *)
ScanEnds == pc = "pool" ~> pc # "pool"
=============================================================================
