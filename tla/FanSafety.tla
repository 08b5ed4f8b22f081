----------------------------- MODULE FanSafety -----------------------------
(***************************************************************************)
(* Fan commands in the bridge: executeHardwareCommand for "Fan Hizi" (one  *)
(* target for the only fan) and "Set Fan Channel", from the panic check    *)
(* through safety telemetry and capability discovery to the write of the   *)
(* Linux hwmon PWM file.  Nothing is locked: temperatures, the control     *)
(* mode of a fan, the set of fans and the panic file may change between    *)
(* any two steps, and every step reads them afresh.                        *)
(***************************************************************************)
EXTENDS Integers, Sequences, FiniteSets

CONSTANTS
  Handlers,      \* connections with a command in execution
  Fans,          \* PWM outputs; a fan stands for its stable channel identifier
  Values,        \* targets clients ask for, in tenths of a percent
  Sensors,       \* temperature sensors
  SensorOrder,   \* the sensors of each source in the order they are listed
  MaxChanges     \* bound: changes of temperatures, fans and panic state

Full == 1000     \* 100 %
Sources == {"cpu", "gpu", "vendor"}  \* host sensors; nvidia-smi and amdgpu
Temperatures == {"absent", "cool", "critical"}

ASSUME FanAssumption ==
  /\ Fans # {} /\ IsFiniteSet(Fans)
  /\ Values # {} /\ Values \subseteq 0..Full
  /\ SensorOrder \in [Sources -> Seq(Sensors)]
  /\ MaxChanges \in Nat

VARIABLES
  temp,        \* what each sensor shows; a failed read shows nothing
  mode,        \* each fan: "manual", "auto" (firmware, no RPM or not writable), "gone"
  pwm,         \* the duty cycle register of each fan
  panic,       \* panicModeActive()
  changes,     \* how often the environment changed so far
  pc, cmd,     \* the handlers and their commands
  sensed,      \* CPU and GPU temperature in the metrics of each handler
  channels,    \* the fans its metrics report as supported
  handle,      \* the fan its backend call is about to write
  hot,         \* history: sources critical ever since the command came
  steady,      \* history: fans controllable ever since the command came
  untouchable  \* history: fans never controllable since the command came

environment == <<temp, mode, pwm, panic, changes>>
local == <<cmd, sensed, channels, handle>>
history == <<hot, steady, untouchable>>
vars == <<environment, pc, local, history>>

Commands == [action : {"Fan Hizi", "Set Fan Channel"}, target : Fans, value : Values]

-----------------------------------------------------------------------------
(* Telemetry *)

(* What a source says: of its sensors with a valid value the last one wins. *)
Reading(source, t) ==
  LET order == SensorOrder[source]
      last(value) ==
        \E i \in DOMAIN order :
          t[order[i]] = value /\ \A j \in DOMAIN order : j > i => t[order[j]] = "absent"
  IN IF last("critical") THEN "critical"
     ELSE IF last("cool") THEN "cool" ELSE "absent"

(* The sources that count as critical; the vendor tools replace the GPU     *)
(* value of the host sensors when they have one.                            *)
Critical(t) ==
  {s \in Sources : /\ Reading(s, t) = "critical"
                   /\ s = "gpu" => Reading("vendor", t) = "absent"}

(* validateThermalTelemetry, on the metrics of a handler.                   *)
ThermalSafetyAvailable(m) == m.cpu # "absent" \/ m.gpu # "absent"

(* Mutant: only the processor is looked at.                                 *)
CriticalCPU(m) == m.cpu = "critical"

(* hasCriticalThermalState.                                                 *)
HasCriticalThermalState(m) == m.cpu = "critical" \/ m.gpu = "critical"

-----------------------------------------------------------------------------
(* Fan discovery *)

(* Mutant: the control mode is not looked at.                               *)
AnyMode(f) == mode[f] # "gone"

(* discoverLinuxFanTargets: an RPM sensor, manual mode and a writable file. *)
Supported(f) == mode[f] = "manual"

SupportedFans == {f \in Fans : Supported(f)}

(* Mutant: the first of several fans is taken.                              *)
DetectFirst == IF SupportedFans = {} THEN {} ELSE {CHOOSE f \in SupportedFans : TRUE}

(* detectFanControl: one target for all only if there is exactly one fan.   *)
DetectFanControl == IF Cardinality(SupportedFans) = 1 THEN SupportedFans ELSE {}

(* writeLinuxFanTarget: int(percent * 255 / 100) truncates.                 *)
Pwm(percent) == (percent * 255) \div Full

(* validateFanPercent.                                                      *)
ValidFanPercent(percent) == percent > 0 /\ percent <= Full

-----------------------------------------------------------------------------
(* executeHardwareCommand *)

NoMetrics == [cpu |-> "absent", gpu |-> "absent"]
NoCommand == CHOOSE c \in Commands : TRUE
NoHandle == CHOOSE f \in Fans : TRUE

Goto(h, label) == pc' = [pc EXCEPT ![h] = label] /\ UNCHANGED history

(* The command is over, done or refused; its variables go out of scope.     *)
Leave(h) ==
  /\ pc' = [pc EXCEPT ![h] = "idle"]
  /\ cmd' = [cmd EXCEPT ![h] = NoCommand]
  /\ sensed' = [sensed EXCEPT ![h] = NoMetrics]
  /\ channels' = [channels EXCEPT ![h] = {}]
  /\ handle' = [handle EXCEPT ![h] = NoHandle]
  /\ hot' = [hot EXCEPT ![h] = {}]
  /\ steady' = [steady EXCEPT ![h] = {}]
  /\ untouchable' = [untouchable EXCEPT ![h] = {}]

(* A validated command is dispatched.                                       *)
Dispatch(h, c) ==
  /\ pc[h] = "idle"
  /\ c.action = "Set Fan Channel" => ValidFanPercent(c.value)
  /\ cmd' = [cmd EXCEPT ![h] = c]
  /\ pc' = [pc EXCEPT ![h] = "panic"]
  /\ hot' = [hot EXCEPT ![h] = Critical(temp)]
  /\ steady' = [steady EXCEPT ![h] = {f \in Fans : mode[f] = "manual"}]
  /\ untouchable' = [untouchable EXCEPT ![h] = {f \in Fans : mode[f] # "manual"}]
  /\ UNCHANGED <<environment, sensed, channels, handle>>

PanicCheck(h) ==
  /\ pc[h] = "panic"
  /\ \/ panic /\ Leave(h)
     \/ /\ ~panic
        /\ Goto(h, IF cmd[h].action = "Fan Hizi" THEN "sensors" ELSE "presence")
        /\ UNCHANGED local
  /\ UNCHANGED environment

(* A channel has to be there before telemetry is collected.                 *)
ChannelPresence(h) ==
  /\ pc[h] = "presence"
  /\ \/ ~Supported(cmd[h].target) /\ Leave(h)
     \/ Supported(cmd[h].target) /\ Goto(h, "sensors") /\ UNCHANGED local
  /\ UNCHANGED environment

(* collectHardwareControlSafetyMetrics: the host sensors, then the vendor   *)
(* tools (up to 1.2 s), then the fan channels.                              *)
ReadHostSensors(h) ==
  /\ pc[h] = "sensors"
  /\ sensed' = [sensed EXCEPT ![h] = [cpu |-> Reading("cpu", temp), gpu |-> Reading("gpu", temp)]]
  /\ Goto(h, "vendor")
  /\ UNCHANGED <<environment, cmd, channels, handle>>

ReadVendorSensors(h) ==
  /\ pc[h] = "vendor"
  /\ sensed' = IF Reading("vendor", temp) = "absent" THEN sensed
               ELSE [sensed EXCEPT ![h].gpu = Reading("vendor", temp)]
  /\ Goto(h, "channels")
  /\ UNCHANGED <<environment, cmd, channels, handle>>

(* listFanChannels for a channel command, detectFanControl for the other.   *)
ReadFanChannels(h) ==
  /\ pc[h] = "channels"
  /\ channels' = [channels EXCEPT ![h] = IF cmd[h].action = "Fan Hizi" THEN DetectFanControl
                                         ELSE SupportedFans]
  /\ Goto(h, "validate")
  /\ UNCHANGED <<environment, cmd, sensed, handle>>

(* validateFanControlRequest and validateFanChannelControlRequest.          *)
Allowed(c, m, reported) ==
  /\ ThermalSafetyAvailable(m)
  /\ IF c.action = "Fan Hizi" THEN reported # {}
     ELSE ValidFanPercent(c.value) /\ c.target \in reported
  /\ HasCriticalThermalState(m) => c.value >= Full

Validate(h) ==
  /\ pc[h] = "validate"
  /\ \/ ~Allowed(cmd[h], sensed[h], channels[h]) /\ Leave(h)
     \/ Allowed(cmd[h], sensed[h], channels[h]) /\ Goto(h, "discover") /\ UNCHANGED local
  /\ UNCHANGED environment

(* What setFanControl and setFanControlChannel find when they look again.   *)
Rediscovered(h) ==
  IF ~ValidFanPercent(cmd[h].value) THEN {}
  ELSE IF cmd[h].action = "Fan Hizi" THEN DetectFanControl
  ELSE SupportedFans \cap {cmd[h].target}

Discover(h) ==
  /\ pc[h] = "discover"
  /\ \/ Rediscovered(h) = {} /\ Leave(h)
     \/ /\ \E f \in Rediscovered(h) : handle' = [handle EXCEPT ![h] = f]
        /\ Goto(h, "write")
        /\ UNCHANGED <<cmd, sensed, channels>>
  /\ UNCHANGED environment

(* The write itself, which fails when the fan is gone.                      *)
WriteTarget(h) ==
  /\ pc[h] = "write"
  /\ pwm' = IF mode[handle[h]] = "gone" THEN pwm
            ELSE [pwm EXCEPT ![handle[h]] = Pwm(cmd[h].value)]
  /\ Leave(h)
  /\ UNCHANGED <<temp, mode, panic, changes>>

-----------------------------------------------------------------------------
(* The environment: heat, firmware and operating system, canary *)

Change == changes < MaxChanges /\ changes' = changes + 1

TemperatureChanges(s, value) ==
  /\ Change
  /\ value # temp[s]
  /\ temp' = [temp EXCEPT ![s] = value]
  /\ hot' = [h \in Handlers |-> hot[h] \cap Critical(temp')]
  /\ UNCHANGED <<mode, pwm, panic, pc, local, steady, untouchable>>

FanChanges(f, value) ==
  /\ Change
  /\ value # mode[f]
  /\ mode' = [mode EXCEPT ![f] = value]
  /\ steady' = [h \in Handlers |-> IF value = "manual" THEN steady[h] ELSE steady[h] \ {f}]
  /\ untouchable' = [h \in Handlers |-> IF value = "manual" THEN untouchable[h] \ {f}
                                        ELSE untouchable[h]]
  /\ UNCHANGED <<temp, pwm, panic, pc, local, hot>>

PanicChanges ==
  /\ Change
  /\ panic' = ~panic
  /\ UNCHANGED <<temp, mode, pwm, pc, local, history>>

-----------------------------------------------------------------------------

Modes == {"manual", "auto", "gone"}

Init ==
  /\ temp \in [Sensors -> Temperatures]
  /\ mode \in [Fans -> Modes]
  /\ pwm = [f \in Fans |-> 128]
  /\ panic = FALSE
  /\ changes = 0
  /\ pc = [h \in Handlers |-> "idle"]
  /\ cmd = [h \in Handlers |-> NoCommand]
  /\ sensed = [h \in Handlers |-> NoMetrics]
  /\ channels = [h \in Handlers |-> {}]
  /\ handle = [h \in Handlers |-> NoHandle]
  /\ hot = [h \in Handlers |-> {}]
  /\ steady = [h \in Handlers |-> {}]
  /\ untouchable = [h \in Handlers |-> {}]

Execute(h) ==
  \/ PanicCheck(h)
  \/ ChannelPresence(h)
  \/ ReadHostSensors(h)
  \/ ReadVendorSensors(h)
  \/ ReadFanChannels(h)
  \/ Validate(h)
  \/ Discover(h)
  \/ WriteTarget(h)

Next ==
  \/ \E h \in Handlers, c \in Commands : Dispatch(h, c)
  \/ \E h \in Handlers : Execute(h)
  \/ \E s \in Sensors, value \in Temperatures : TemperatureChanges(s, value)
  \/ \E f \in Fans, value \in Modes : FanChanges(f, value)
  \/ PanicChanges

Spec == Init /\ [][Next]_vars

-----------------------------------------------------------------------------
(* Properties *)

Labels == {"idle", "panic", "presence", "sensors", "vendor", "channels", "validate",
           "discover", "write"}

(* The registers hold a duty cycle from 0 to 255, the rest keeps its type.  *)
TypeOK ==
  /\ temp \in [Sensors -> Temperatures]
  /\ mode \in [Fans -> Modes]
  /\ pwm \in [Fans -> 0..255]
  /\ panic \in BOOLEAN /\ changes \in 0..MaxChanges
  /\ pc \in [Handlers -> Labels]
  /\ cmd \in [Handlers -> Commands]
  /\ sensed \in [Handlers -> [cpu : Temperatures, gpu : Temperatures]]
  /\ channels \in [Handlers -> SUBSET Fans]
  /\ handle \in [Handlers -> Fans]
  /\ hot \in [Handlers -> SUBSET Sources]
  /\ steady \in [Handlers -> SUBSET Fans]
  /\ untouchable \in [Handlers -> SUBSET Fans]

(* "Only the 100% emergency cooling target is allowed": a target below full *)
(* speed gets to the write only if every source was seen below critical     *)
(* while the command was executed, although the sources are read at         *)
(* different times and the write comes later still.                         *)
LowTargetSawItCool ==
  \A h \in Handlers : pc[h] = "write" /\ cmd[h].value < Full => hot[h] = {}

(* The application does not take a fan from the firmware: one that was not  *)
(* in manual mode at any time since the command came is not written.        *)
FirmwareFansUntouched ==
  \A h \in Handlers : pc[h] = "write" => handle[h] \notin untouchable[h]

(* One target for all fans: with two fans controllable throughout, neither  *)
(* of them is picked; a channel command reaches its own channel only.       *)
TargetUnambiguous ==
  \A h \in Handlers : pc[h] = "write" =>
    IF cmd[h].action = "Fan Hizi" THEN steady[h] \subseteq {handle[h]}
    ELSE handle[h] = cmd[h].target
=============================================================================
