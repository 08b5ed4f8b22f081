------------------------------ MODULE Service ------------------------------
(***************************************************************************)
(* The bridge as a service: one process from start to exit                 *)
(* (BridgeRuntime), the key file and endpoint that instances share         *)
(* (BridgeStartup) and the installation inventory (VerifyInventory). What  *)
(* one of them leaves to another is a free choice in it, so a behaviour    *)
(* exercises one of them and the others are at rest.                       *)
(***************************************************************************)
EXTENDS BridgeRuntime

CONSTANTS
  Platforms, Instances, MaxStarts,                       \* BridgeStartup
  MaxFiles, Contents, MaxProcs, MaxChanges, MaxReboots   \* VerifyInventory

VARIABLES
  part,
  platform, key, endpoint, at, secret, starts, happened, company,  \* BridgeStartup
  procs, tree, state, pc, expected, todo, job, results, records,      \* VerifyInventory
  firstErr, touched, alarmed, used

Boot == INSTANCE BridgeStartup WITH pc <- at
Inventory == INSTANCE VerifyInventory WITH MaxStarts <- MaxReboots

ASSUME ServiceAssumption == Boot!StartupAssumption /\ Inventory!InventoryAssumption

startup == <<platform, key, endpoint, at, secret, starts, happened, company>>
inventory == <<procs, tree, state, pc, expected, todo, job, results, records, firstErr,
               touched, alarmed, used>>
all == <<part, vars, startup, inventory>>

RuntimeRests == Init /\ host = (CHOOSE h \in Hosts : TRUE) /\ panic = FALSE
StartupRests == Boot!Init /\ platform = (CHOOSE p \in Platforms : TRUE) /\ key = Boot!OldKey
InventoryRests == Inventory!Init /\ procs = 1 /\ tree = [f \in Inventory!Files |-> "none"]

ServiceInit ==
  \/ part = "runtime" /\ Init /\ StartupRests /\ InventoryRests
  \/ part = "startup" /\ RuntimeRests /\ Boot!Init /\ InventoryRests
  \/ part = "inventory" /\ RuntimeRests /\ StartupRests /\ Inventory!Init

Runtime(step) == part = "runtime" /\ step /\ UNCHANGED <<part, startup, inventory>>
Inventories(step) == part = "inventory" /\ step /\ UNCHANGED <<part, vars, startup>>

ServiceNext ==
  \/ Runtime(Next)
  \/ part = "startup" /\ Boot!Next /\ UNCHANGED <<part, vars, inventory>>
  \/ Inventories(Inventory!Next)

ServiceSpec == ServiceInit /\ [][ServiceNext]_all

(* The fairness of BridgeRuntime and of VerifyInventory.                    *)
ServiceFairSpec ==
  /\ ServiceSpec
  /\ WF_all(Runtime(Live(RunBridge))) /\ WF_all(Runtime(Live(Monitor)))
  /\ WF_all(Runtime(Live(Control)))
  /\ WF_all(Runtime(exit = Alive /\ Exit /\ UNCHANGED host))
  /\ WF_all(Inventories(Inventory!Scan)) /\ WF_all(Inventories(Inventory!PeriodicCheck))

-----------------------------------------------------------------------------

(* One key, and no broken one without a crash (BridgeStartup).              *)
KeyFileSound == part = "startup" => Boot!KeyFileSound

(* The endpoint leads to a bridge that listens, and a start that is alone   *)
(* there comes to serve (BridgeStartup).                                    *)
EndpointSound == Boot!EndpointSound

(* Only what deserves it raises the alarm (VerifyInventory).                *)
NoFalseAlarm == part = "inventory" => Inventory!NoFalseAlarm

(* A deviating tree does not go on running unnoticed (VerifyInventory).     *)
DeviationStops ==
  part = "inventory" /\ pc = "running" /\ Inventory!Deviates
    ~> pc = "down" \/ ~Inventory!Deviates

(* A scan ends (VerifyInventory).                                           *)
ScanEnds == part = "inventory" /\ pc = "pool" ~> pc # "pool"
===========================================================================
