--------------------------- MODULE BridgeStartup ---------------------------
(***************************************************************************)
(* What bridge instances share on disk when they start and stop: the key   *)
(* file that the first of them creates, and the endpoint they listen on.   *)
(* Instances may be started at the same time or while another runs, any    *)
(* file operation is a step, and a process may die between two of them.    *)
(*                                                                         *)
(*   "unix"     bridge.key (loadOrCreateSecret), a socket file             *)
(*   "windows"  verify.key (loadOrCreateVerifyKey), a loopback port        *)
(*                                                                         *)
(* A Windows bridge creates its bridge.key before, by the same steps as on *)
(* unix. With HWCONTROL_KEY set there is no bridge.key.                    *)
(***************************************************************************)
EXTENDS Integers

CONSTANTS
  Platforms,  \* "unix", "windows" or both: one is chosen for a behaviour
  Instances,  \* processes; each may be started again when it is down
  MaxStarts   \* bound: starts

StartupAssumption ==
  /\ Platforms \subseteq {"unix", "windows"}
  /\ "absent" \notin Instances
  /\ MaxStarts \in Nat

Kinds == {"write", "finish", "remove", "protect", "crash"}

VARIABLES
  platform,
  key,         \* the key file: NoFile, UnsafeFile, PartialFile or the key in it
  endpoint,    \* "absent", or the instance that the socket file or port belongs to
  pc,
  secret,      \* the key each instance goes on with, NoSecret before
  starts,
  happened,    \* the kinds of failure that have happened, each at most once
  company      \* history: those that met another since they came to the endpoint

vars == <<platform, key, endpoint, pc, secret, starts, happened, company>>

NoSecret == 0
NoFile == -1
UnsafeFile == -2   \* a link, or a file that others may read
PartialFile == -3  \* created, and not or only partly written
GeneratedKeys == 1..MaxStarts
OldKey == MaxStarts + 1  \* from an earlier installation
ValidKeys == GeneratedKeys \cup {OldKey}
Nobody == "absent"

Goto(i, label) == pc' = [pc EXCEPT ![i] = label] /\ UNCHANGED secret
Load(i, k) == pc' = [pc EXCEPT ![i] = "inspect"] /\ secret' = [secret EXCEPT ![i] = k]
Down(i) == pc' = [pc EXCEPT ![i] = "down"] /\ secret' = [secret EXCEPT ![i] = NoSecret]
Fails(kind) == kind \notin happened /\ happened' = happened \cup {kind}

-----------------------------------------------------------------------------
(* The key file *)

(* validateKeyFilePath refuses a link or a file others may read; there is   *)
(* no such check for verify.key.                                            *)
Validate(i, at, next) ==
  /\ pc[i] = at
  /\ IF key = UnsafeFile /\ platform = "unix" THEN Down(i) ELSE Goto(i, next)
  /\ UNCHANGED <<key, endpoint, happened>>

(* os.ReadFile and the check of what it returned; `missing` is where an     *)
(* absent file leads.                                                       *)
ReadKey(i, at, missing) ==
  /\ pc[i] = at
  /\ IF key \in ValidKeys THEN Load(i, key)
     ELSE IF key = NoFile THEN missing ELSE Down(i)
  /\ UNCHANGED <<key, endpoint, happened>>

ReadExisting(i) == ReadKey(i, "read", Goto(i, "create"))
ReadConcurrent(i) == ReadKey(i, "reread", Down(i))

(* Mutant: an existing file is truncated.                                   *)
CreateAlways(i) ==
  /\ pc[i] = "create"
  /\ key' = PartialFile /\ Goto(i, "write")
  /\ UNCHANGED <<endpoint, happened>>

(* os.OpenFile with O_EXCL: whoever comes second reads the file instead.    *)
Create(i) ==
  /\ pc[i] = "create"
  /\ IF key = NoFile THEN key' = PartialFile /\ Goto(i, "write")
     ELSE UNCHANGED key /\ Goto(i, "revalidate")
  /\ UNCHANGED <<endpoint, happened>>

(* Its own, new key; a write that fails may have left a part.               *)
Write(i) ==
  /\ pc[i] = "write"
  /\ \/ key' = starts /\ Goto(i, "finish") /\ UNCHANGED happened
     \/ Fails("write") /\ Goto(i, "remove") /\ UNCHANGED key
  /\ UNCHANGED endpoint

(* Close and chmod, or sync and close; only bridge.key is removed when one  *)
(* of them fails.                                                           *)
Finish(i) ==
  /\ pc[i] = "finish"
  /\ \/ Load(i, key) /\ UNCHANGED happened
     \/ Fails("finish") /\ IF platform = "unix" THEN Goto(i, "remove") ELSE Down(i)
  /\ UNCHANGED <<key, endpoint>>

(* Mutant: a key that could not be written is left behind.                  *)
RemoveNothing(i) ==
  /\ pc[i] = "remove"
  /\ Down(i)
  /\ UNCHANGED <<key, endpoint, happened>>

(* os.Remove; whether it worked is not looked at.                           *)
Remove(i) ==
  /\ pc[i] = "remove"
  /\ \/ key' = NoFile /\ UNCHANGED happened
     \/ Fails("remove") /\ UNCHANGED key
  /\ Down(i)
  /\ UNCHANGED endpoint

-----------------------------------------------------------------------------
(* The endpoint: listenBridge and cleanupBridgeEndpoint *)

(* Mutant: a socket file that is there is taken for that of a running bridge. *)
InspectRefuses(i) ==
  /\ pc[i] = "inspect"
  /\ IF platform = "unix" /\ endpoint # Nobody THEN Down(i) ELSE Goto(i, "bind")
  /\ UNCHANGED <<key, endpoint, happened>>

(* A socket file that is there is taken for a stale one.                    *)
Inspect(i) ==
  /\ pc[i] = "inspect"
  /\ Goto(i, IF platform = "unix" /\ endpoint # Nobody THEN "unlink" ELSE "bind")
  /\ UNCHANGED <<key, endpoint, happened>>

Unlink(i) ==
  /\ pc[i] = "unlink"
  /\ IF endpoint = Nobody THEN Down(i) ELSE Goto(i, "bind")
  /\ endpoint' = Nobody
  /\ UNCHANGED <<key, happened>>

Bind(i) ==
  /\ pc[i] = "bind"
  /\ IF endpoint = Nobody THEN endpoint' = i /\ Goto(i, "protect")
     ELSE UNCHANGED endpoint /\ Down(i)
  /\ UNCHANGED <<key, happened>>

(* Owner and mode of the path, whatever it leads to by now; on failure the  *)
(* listener is closed, which unlinks the path.                              *)
Protect(i) ==
  /\ pc[i] = "protect"
  /\ \/ /\ endpoint # Nobody \/ platform = "windows"
        /\ Goto(i, "serving")
        /\ UNCHANGED <<endpoint, happened>>
     \/ /\ platform = "unix"
        /\ \/ endpoint = Nobody /\ UNCHANGED happened
           \/ Fails("protect")
        /\ endpoint' = Nobody
        /\ Down(i)
  /\ UNCHANGED key

(* runBridge returns: stopListener closes, which unlinks the path, and      *)
(* cleanupBridgeEndpoint removes it once more.                              *)
CloseListener(i) ==
  /\ pc[i] = "serving"
  /\ endpoint' = IF platform = "unix" \/ endpoint = i THEN Nobody ELSE endpoint
  /\ Goto(i, "cleanup")
  /\ UNCHANGED <<key, happened>>

Cleanup(i) ==
  /\ pc[i] = "cleanup"
  /\ endpoint' = IF platform = "unix" THEN Nobody ELSE endpoint
  /\ Down(i)
  /\ UNCHANGED <<key, happened>>

-----------------------------------------------------------------------------
(* Starts and crashes *)

Start(i) ==
  /\ pc[i] = "down"
  /\ starts < MaxStarts
  /\ starts' = starts + 1
  /\ Goto(i, "validate")
  /\ UNCHANGED <<key, endpoint, happened>>

(* A socket file stays, a port is free again.                               *)
Crash(i) ==
  /\ pc[i] # "down"
  /\ Fails("crash")
  /\ Down(i)
  /\ endpoint' = IF platform = "windows" /\ endpoint = i THEN Nobody ELSE endpoint
  /\ UNCHANGED key

AtEndpoint == {"inspect", "unlink", "bind", "protect", "serving", "cleanup"}

Step(i) ==
  \/ Validate(i, "validate", "read") \/ ReadExisting(i)
  \/ Validate(i, "revalidate", "reread") \/ ReadConcurrent(i)
  \/ Create(i) \/ Write(i) \/ Finish(i) \/ Remove(i)
  \/ Inspect(i) \/ Unlink(i) \/ Bind(i) \/ Protect(i)
  \/ CloseListener(i) \/ Cleanup(i)
  \/ Crash(i)

Init ==
  /\ platform \in Platforms
  /\ key \in {NoFile, OldKey} \cup (IF platform = "unix" THEN {UnsafeFile} ELSE {})
  /\ endpoint = Nobody
  /\ pc = [i \in Instances |-> "down"]
  /\ secret = [i \in Instances |-> NoSecret]
  /\ starts = 0
  /\ happened = {}
  /\ company = {}

Accompanied(i) == \E j \in Instances \ {i} : pc[j] \in AtEndpoint

Next ==
  /\ \E i \in Instances : Start(i) \/ (Step(i) /\ UNCHANGED starts)
  /\ company' = {i \in Instances : pc'[i] \in AtEndpoint /\ (i \in company \/ Accompanied(i)')}
  /\ UNCHANGED platform

Spec == Init /\ [][Next]_vars

-----------------------------------------------------------------------------
(* Properties *)

(* Every variable keeps its type.                                           *)
TypeOK ==
  /\ platform \in Platforms
  /\ key \in ValidKeys \cup {NoFile, UnsafeFile, PartialFile}
  /\ endpoint \in Instances \cup {Nobody}
  /\ pc \in [Instances -> {"down", "validate", "read", "create", "revalidate", "reread",
                           "write", "finish", "remove"} \cup AtEndpoint]
  /\ secret \in [Instances -> ValidKeys \cup {NoSecret}]
  /\ starts \in 0..MaxStarts
  /\ happened \subseteq Kinds
  /\ company \subseteq Instances

(* Instances started together end up with one key, the one in the file:     *)
(* the dashboard, which reads the file, can talk to each of them; the one   *)
(* exception is a key that is withdrawn because closing it failed. And a    *)
(* key file that no start can use, and none will repair, is not left by any *)
(* order of starts or failing writes, only by a crash while it was created  *)
(* or a failing removal.                                                    *)
KeysAgree ==
  "finish" \notin happened =>
    \A i \in Instances : secret[i] # NoSecret => key = secret[i]
BrokenKeyNeedsCrash ==
  key = PartialFile /\ {"crash", "remove"} \cap happened = {}
    => \E i \in Instances : pc[i] \in {"write", "remove"}
KeyFileSound == KeysAgree /\ BrokenKeyNeedsCrash

(* However instances start, overlap, stop and crash: the endpoint leads to  *)
(* a bridge that listens, unless it is the socket file of one that crashed; *)
(* and a start that meets no other instance there, only what earlier ones   *)
(* have left, comes to serve unless an operation fails, and stays reachable *)
(* as long as none comes. A port is kept in company, too; a socket file is  *)
(* not: each instance unlinks what another has bound.                       *)
Bound == {"protect", "serving"}
LeadsToListener ==
  endpoint # Nobody =>
    pc[endpoint] \in Bound \/ (platform = "unix" /\ "crash" \in happened)
ServingIsReachable ==
  \A i \in Instances :
    pc[i] = "serving" /\ (platform = "windows" \/ i \notin company) => endpoint = i
GivesUpInCompany ==
  \A i \in Instances :
    /\ pc[i] \in {"inspect", "unlink", "bind", "protect"} /\ pc'[i] = "down"
    /\ happened' = happened
    => i \in company
EndpointSound ==
  /\ [](LeadsToListener /\ ServingIsReachable)
  /\ [][GivesUpInCompany]_vars
=============================================================================
