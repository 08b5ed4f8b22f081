----------------------------- MODULE PanicState -----------------------------
(***************************************************************************)
(* The fail-closed panic state: the canary file, the two processes that    *)
(* watch it, and the panic file they publish.                              *)
(*                                                                         *)
(*   bridge    fetch_status_service.go, driven by the accept loop of       *)
(*             runBridge and by Get Fetch Status                           *)
(*   guardian  security_guardian/main.go, a second process                 *)
(*                                                                         *)
(* Both publish by writing panic-mode.json.tmp and renaming it.  The steps *)
(* of a publication (open with truncation, write, rename) are separate:    *)
(* the two processes share the name of the temporary file.  Files are      *)
(* modelled as POSIX does: a name refers to an inode, an open descriptor   *)
(* keeps writing to its inode, and a write from offset 0 leaves what lies  *)
(* beyond its end.                                                         *)
(***************************************************************************)
EXTENDS Integers, FiniteSets

CONSTANTS
  Publishers,  \* the processes deployed: "bridge", "guardian" or both
  Inodes,      \* inodes of the state directory
  NoInode,
  Lengths,     \* lengths of a published record (reason, source, timestamp)
  MaxFaults    \* bound: process crashes and failed writes

ASSUME PanicAssumption ==
  /\ Publishers \subseteq {"bridge", "guardian"}
  /\ NoInode \notin Inodes
  /\ Lengths \subseteq Nat \ {0}
  /\ MaxFaults \in Nat

VARIABLES
  canary,     \* "intact", or "violated": changed, missing or unreadable
  pc,         \* what each process does
  fd,         \* the inode of its open temporary file
  tmp, final, \* the inodes behind panic-mode.json.tmp and panic-mode.json
  content,    \* what each inode holds
  triggered,  \* decoyService.triggered, in the memory of the bridge
  faults

vars == <<canary, pc, fd, tmp, final, content, triggered, faults>>
files == <<fd, tmp, final, content>>

Empty == [len |-> 0, valid |-> FALSE]
ContentType == [len : Lengths \cup {0}, valid : BOOLEAN]

Running == {"serving", "watching", "open", "write", "rename"}

(* panicModeActive: the file is there, parses, and says so.                 *)
PanicModeActive == final # NoInode /\ content[final].valid

Goto(p, label) == pc' = [pc EXCEPT ![p] = label]

-----------------------------------------------------------------------------
(* Publication of the panic file: triggerPanicModeLocked and writePanic *)

Free == Inodes \ ({tmp, final} \cup {fd[p] : p \in Publishers})

(* os.WriteFile, its open: the temporary file is created or truncated.      *)
Open(p) ==
  /\ pc[p] = "open"
  /\ LET inode == IF tmp # NoInode THEN tmp ELSE CHOOSE i \in Free : TRUE
     IN /\ tmp' = inode
        /\ fd' = [fd EXCEPT ![p] = inode]
        /\ content' = [content EXCEPT ![inode] = Empty]
  /\ Goto(p, "write")
  /\ UNCHANGED <<canary, final, triggered, faults>>

(* A record written from offset 0 over what the inode holds.                *)
Overwritten(old, len) ==
  IF len >= old.len THEN [len |-> len, valid |-> TRUE]
  ELSE [len |-> old.len, valid |-> FALSE]

(* os.WriteFile, its write.                                                 *)
Write(p) ==
  /\ pc[p] = "write"
  /\ \E len \in Lengths :
       content' = [content EXCEPT ![fd[p]] = Overwritten(@, len)]
  /\ fd' = [fd EXCEPT ![p] = NoInode]
  /\ Goto(p, "rename")
  /\ UNCHANGED <<canary, tmp, final, triggered, faults>>

(* Where a process is when its publication is over, however it ended: the   *)
(* bridge goes on serving, the guardian returns an error and exits.         *)
Done(p) == IF p = "bridge" THEN "serving" ELSE "down"

(* os.WriteFile fails: nothing is renamed, the error is dropped.            *)
WriteFails(p) ==
  /\ pc[p] = "write"
  /\ faults < MaxFaults
  /\ faults' = faults + 1
  /\ fd' = [fd EXCEPT ![p] = NoInode]
  /\ Goto(p, Done(p))
  /\ UNCHANGED <<canary, tmp, final, content, triggered>>

(* os.Rename; it fails, unnoticed, when the temporary name is gone.         *)
Rename(p) ==
  /\ pc[p] = "rename"
  /\ IF tmp # NoInode THEN final' = tmp /\ tmp' = NoInode ELSE UNCHANGED <<tmp, final>>
  /\ Goto(p, Done(p))
  /\ UNCHANGED <<canary, fd, content, triggered, faults>>

-----------------------------------------------------------------------------
(* The bridge *)

(* checkDecoyIntegrity finds the canary violated: only once per process.    *)
CheckDecoy ==
  /\ pc["bridge"] = "serving"
  /\ ~triggered
  /\ canary = "violated"
  /\ triggered' = TRUE
  /\ Goto("bridge", "open")
  /\ UNCHANGED <<canary, files, faults>>

(* The accept loop sees panic mode: runBridge returns and the process, with *)
(* all its connections, is gone.                                            *)
AcceptLoopStops ==
  /\ pc["bridge"] \in Running
  /\ PanicModeActive
  /\ Goto("bridge", "down")
  /\ fd' = [fd EXCEPT !["bridge"] = NoInode]
  /\ triggered' = FALSE
  /\ UNCHANGED <<canary, tmp, final, content, faults>>

(* Mutant: a service that is started does not compare the canary.           *)
StartUnchecked ==
  /\ pc["bridge"] = "down"
  /\ Goto("bridge", "serving")
  /\ UNCHANGED <<canary, files, triggered, faults>>

(* systemd starts the bridge; initializeDecoyService lets it serve only     *)
(* when the canary has the expected digest.                                 *)
BridgeStart ==
  /\ pc["bridge"] = "down"
  /\ canary = "intact"
  /\ Goto("bridge", "serving")
  /\ UNCHANGED <<canary, files, triggered, faults>>

-----------------------------------------------------------------------------
(* The guardian *)

(* Mutant: a guardian that starts with a violated canary only gives up.     *)
GuardianStartSilent ==
  /\ pc["guardian"] = "down"
  /\ Goto("guardian", IF canary = "intact" THEN "watching" ELSE "down")
  /\ UNCHANGED <<canary, files, triggered, faults>>

(* systemd starts the guardian; initializeGuardian publishes at once when   *)
(* the canary is violated.                                                  *)
GuardianStart ==
  /\ pc["guardian"] = "down"
  /\ Goto("guardian", IF canary = "intact" THEN "watching" ELSE "open")
  /\ UNCHANGED <<canary, files, triggered, faults>>

(* checkGuardianCanary, every two seconds.                                  *)
CheckGuardianCanary ==
  /\ pc["guardian"] = "watching"
  /\ canary = "violated"
  /\ Goto("guardian", "open")
  /\ UNCHANGED <<canary, files, triggered, faults>>

-----------------------------------------------------------------------------
(* The environment *)

Violate ==
  /\ canary = "intact"
  /\ canary' = "violated"
  /\ UNCHANGED <<pc, files, triggered, faults>>

Crash(p) ==
  /\ pc[p] \in Running
  /\ faults < MaxFaults
  /\ faults' = faults + 1
  /\ Goto(p, "down")
  /\ fd' = [fd EXCEPT ![p] = NoInode]
  /\ triggered' = (triggered /\ p # "bridge")
  /\ UNCHANGED <<canary, tmp, final, content>>

-----------------------------------------------------------------------------

Init ==
  /\ canary = "intact"
  /\ pc = [p \in Publishers |-> IF p = "bridge" THEN "serving" ELSE "watching"]
  /\ fd = [p \in Publishers |-> NoInode]
  /\ tmp = NoInode
  /\ final = NoInode
  /\ content = [i \in Inodes |-> Empty]
  /\ triggered = FALSE
  /\ faults = 0

Publish(p) == Open(p) \/ Write(p) \/ Rename(p)

BridgeStep == "bridge" \in Publishers /\ (CheckDecoy \/ Publish("bridge"))
BridgeExit == "bridge" \in Publishers /\ AcceptLoopStops
BridgeRestart == "bridge" \in Publishers /\ BridgeStart
GuardianStep ==
  "guardian" \in Publishers
    /\ (CheckGuardianCanary \/ Publish("guardian") \/ GuardianStart)

Next ==
  \/ BridgeStep
  \/ BridgeExit
  \/ BridgeRestart
  \/ GuardianStep
  \/ \E p \in Publishers : WriteFails(p) \/ Crash(p)
  \/ Violate

(* Both processes are scheduled: the accept loop comes round at least every *)
(* second, the guardian's ticker every two, and systemd restarts a guardian *)
(* that failed.                                                             *)
Spec == Init /\ [][Next]_vars
FairSpec == Spec /\ WF_vars(BridgeStep) /\ WF_vars(BridgeExit) /\ WF_vars(GuardianStep)

-----------------------------------------------------------------------------
(* Properties *)

(* Names refer to inodes and a writing process has one open.                *)
TypeOK ==
  /\ canary \in {"intact", "violated"}
  /\ pc \in [Publishers -> Running \cup {"down"}]
  /\ fd \in [Publishers -> Inodes \cup {NoInode}]
  /\ \A p \in Publishers : pc[p] = "write" <=> fd[p] # NoInode
  /\ tmp \in Inodes \cup {NoInode} /\ final \in Inodes \cup {NoInode}
  /\ tmp = final => tmp = NoInode
  /\ content \in [Inodes -> ContentType]
  /\ triggered \in BOOLEAN
  /\ faults \in 0..MaxFaults

(* Fail closed: a violated canary ends the service for good, whatever the   *)
(* two processes and their publications do to each other, once the faults   *)
(* are over.                                                                *)
ViolationStopsBridge ==
  "bridge" \in Publishers => (canary = "violated" ~> [](pc["bridge"] = "down"))

(* The panic state persists: from some moment on it can always be read.     *)
ViolationPublished == canary = "violated" ~> []PanicModeActive
=============================================================================
