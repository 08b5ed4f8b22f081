-------------------------- MODULE HardwareProofs --------------------------
(****************************************************************************)
(* Theorems about what the bridge does to the hardware and says of it: fan  *)
(* commands (FanSafety), for any number of handlers, fans, sensors, targets *)
(* and changes of the environment; power modes (PowerProfile), for any      *)
(* handlers and modes, on either platform; the health report (Health), for  *)
(* any sensors and readings; the condition index (Assessment), for any      *)
(* evidence.                                                                *)
(****************************************************************************)
EXTENDS Hardware, FiniteSetTheorems, WellFoundedInduction, TLAPS

(* What a handler has read agrees with its history.  A source that has been *)
(* critical ever since the command came is critical now, and in what the    *)
(* handler has sensed once it is past the read of that source; past the     *)
(* validation there is none left unless the target is full speed.           *)
Sound(p, c, m, f, ht, st, un, t, md) ==
  /\ ht \subseteq Critical(t)
  /\ p = "vendor" => /\ "cpu" \in ht => m.cpu = "critical"
                     /\ "gpu" \in ht => m.gpu = "critical"
  /\ p \in {"channels", "validate"} =>
       /\ "cpu" \in ht => m.cpu = "critical"
       /\ "gpu" \in ht \/ "vendor" \in ht => m.gpu = "critical"
  /\ p \in {"discover", "write"} /\ c.value < Full => ht = {}
  /\ \A g \in st : md[g] = "manual"
  /\ \A g \in un : md[g] # "manual"
  /\ p = "write" => /\ f \notin un
                    /\ IF c.action = "Fan Hizi" THEN st \subseteq {f} ELSE f = c.target

SoundAt(h) == Sound(pc[h], cmd[h], sensed[h], handle[h], hot[h], steady[h], untouchable[h],
                    temp, mode)

(* The inductive invariant.                                                 *)
FanInv == TypeOK /\ \A h \in Handlers : SoundAt(h)

-----------------------------------------------------------------------------
(* Constants and readings *)

LEMMA Constants ==
  /\ NoCommand \in Commands /\ NoHandle \in Fans
  /\ NoMetrics \in [cpu : Temperatures, gpu : Temperatures]
<1>1. \E v : v \in Values
  BY FanAssumption
<1>2. \E f : f \in Fans
  BY FanAssumption
<1>3. \E c : c \in Commands
  <2>1. PICK v : v \in Values
    BY <1>1
  <2>2. PICK f : f \in Fans
    BY <1>2
  <2>3. [action |-> "Fan Hizi", target |-> f, value |-> v] \in Commands
    BY <2>1, <2>2 DEF Commands
  <2>4. QED
    BY <2>3
<1>4. NoCommand \in Commands
  BY <1>3 DEF NoCommand
<1>5. NoHandle \in Fans
  BY <1>2 DEF NoHandle
<1>6. NoMetrics \in [cpu : Temperatures, gpu : Temperatures]
  BY DEF NoMetrics, Temperatures
<1>7. QED
  BY <1>4, <1>5, <1>6

(* A source shows one of the three kinds of temperature.                    *)
LEMMA ReadingType ==
  ASSUME NEW s, NEW t
  PROVE  Reading(s, t) \in Temperatures
BY DEF Reading, Temperatures

(* detectFanControl reports a fan only if it is the only one.               *)
LEMMA OnlyFan ==
  ASSUME NEW f \in DetectFanControl
  PROVE  f \in Fans /\ SupportedFans = {f}
<1>1. Cardinality(SupportedFans) = 1 /\ f \in SupportedFans
  BY DEF DetectFanControl
<1>2. IsFiniteSet(SupportedFans)
  BY FanAssumption, FS_Subset DEF SupportedFans
<1>3. \E x : SupportedFans = {x}
  BY <1>1, <1>2, FS_Singleton
<1>4. QED
  BY <1>1, <1>3 DEF SupportedFans

LEMMA ValueType ==
  ASSUME NEW v \in Values
  PROVE  v \in Int /\ 0 <= v /\ v <= 1000
BY FanAssumption DEF Full

(* A duty cycle fits its register.                                          *)
LEMMA PwmType ==
  ASSUME NEW v \in Values
  PROVE  Pwm(v) \in 0..255
<1>1. v \in Int /\ 0 <= v /\ v <= 1000
  BY ValueType
<1>2. (v * 255) \div 1000 \in 0..255
  BY <1>1
<1>3. QED
  BY <1>2 DEF Pwm, Full

-----------------------------------------------------------------------------
(* Type correctness *)

(* The variables of the handlers keep their types; the last three are the   *)
(* history.                                                                 *)
LocalTypes ==
  /\ pc \in [Handlers -> Labels]
  /\ cmd \in [Handlers -> Commands]
  /\ sensed \in [Handlers -> [cpu : Temperatures, gpu : Temperatures]]
  /\ channels \in [Handlers -> SUBSET Fans]
  /\ handle \in [Handlers -> Fans]
  /\ hot \in [Handlers -> SUBSET Sources]
  /\ steady \in [Handlers -> SUBSET Fans]
  /\ untouchable \in [Handlers -> SUBSET Fans]

EnvironmentTypes ==
  /\ temp \in [Sensors -> Temperatures]
  /\ mode \in [Fans -> Modes]
  /\ pwm \in [Fans -> 0..255]
  /\ panic \in BOOLEAN /\ changes \in 0..MaxChanges

LEMMA TypeParts == TypeOK <=> EnvironmentTypes /\ LocalTypes
BY Zenon DEF TypeOK, EnvironmentTypes, LocalTypes

LEMMA LeaveType ==
  ASSUME LocalTypes, NEW h \in Handlers, Leave(h)
  PROVE  LocalTypes'
BY Constants DEF LocalTypes, Leave, Labels

(* A step of a handler leaves the other handlers' variables alone.          *)
LEMMA StepType ==
  ASSUME LocalTypes, NEW h \in Handlers, Execute(h)
  PROVE  LocalTypes'
<1>1. CASE PanicCheck(h)
  <2>1. CASE Leave(h)
    BY <2>1, LeaveType
  <2>2. CASE Goto(h, IF cmd[h].action = "Fan Hizi" THEN "sensors" ELSE "presence")
        /\ UNCHANGED local
    BY <2>2 DEF LocalTypes, Goto, local, history, Labels
  <2>3. QED
    BY <1>1, <2>1, <2>2 DEF PanicCheck
<1>2. CASE ChannelPresence(h)
  <2>1. CASE Leave(h)
    BY <2>1, LeaveType
  <2>2. CASE Goto(h, "sensors") /\ UNCHANGED local
    BY <2>2 DEF LocalTypes, Goto, local, history, Labels
  <2>3. QED
    BY <1>2, <2>1, <2>2 DEF ChannelPresence
<1>3. CASE ReadHostSensors(h)
  <2>1. [cpu |-> Reading("cpu", temp), gpu |-> Reading("gpu", temp)]
          \in [cpu : Temperatures, gpu : Temperatures]
    BY ReadingType
  <2>2. QED
    BY <1>3, <2>1 DEF LocalTypes, ReadHostSensors, Goto, history, Labels
<1>4. CASE ReadVendorSensors(h)
  <2>1. sensed' \in [Handlers -> [cpu : Temperatures, gpu : Temperatures]]
    BY <1>4, ReadingType DEF LocalTypes, ReadVendorSensors
  <2>2. QED
    BY <1>4, <2>1 DEF LocalTypes, ReadVendorSensors, Goto, history, Labels
<1>5. CASE ReadFanChannels(h)
  <2>1. SupportedFans \subseteq Fans /\ DetectFanControl \subseteq Fans
    BY DEF SupportedFans, DetectFanControl
  <2>2. QED
    BY <1>5, <2>1 DEF LocalTypes, ReadFanChannels, Goto, history, Labels
<1>6. CASE Validate(h)
  <2>1. CASE Leave(h)
    BY <2>1, LeaveType
  <2>2. CASE Goto(h, "discover") /\ UNCHANGED local
    BY <2>2 DEF LocalTypes, Goto, local, history, Labels
  <2>3. QED
    BY <1>6, <2>1, <2>2 DEF Validate
<1>7. CASE Discover(h)
  <2>1. CASE Leave(h)
    BY <2>1, LeaveType
  <2>2. CASE /\ \E f \in Rediscovered(h) : handle' = [handle EXCEPT ![h] = f]
             /\ Goto(h, "write")
             /\ UNCHANGED <<cmd, sensed, channels>>
    <3>1. Rediscovered(h) \subseteq Fans
      BY DEF Rediscovered, SupportedFans, DetectFanControl
    <3>2. QED
      BY <2>2, <3>1 DEF LocalTypes, Goto, history, Labels
  <2>3. QED
    BY <1>7, <2>1, <2>2 DEF Discover
<1>8. CASE WriteTarget(h)
  BY <1>8, LeaveType DEF WriteTarget
<1>9. QED
  BY <1>1, <1>2, <1>3, <1>4, <1>5, <1>6, <1>7, <1>8 DEF Execute

(* The environment keeps its types over a step of a handler.                *)
LEMMA StepEnvironment ==
  ASSUME TypeOK, NEW h \in Handlers, Execute(h)
  PROVE  /\ EnvironmentTypes'
         /\ temp' = temp /\ mode' = mode
<1>1. /\ temp' = temp /\ mode' = mode /\ panic' = panic /\ changes' = changes
      /\ pwm' \in {pwm, [pwm EXCEPT ![handle[h]] = Pwm(cmd[h].value)]}
  BY DEF Execute, PanicCheck, ChannelPresence, ReadHostSensors, ReadVendorSensors,
         ReadFanChannels, Validate, Discover, WriteTarget, environment
<1>2. cmd[h] \in Commands
  BY DEF TypeOK
<1>3. Pwm(cmd[h].value) \in 0..255
  BY <1>2, PwmType DEF Commands
<1>4. pwm' \in [Fans -> 0..255]
  BY <1>1, <1>3 DEF TypeOK
<1>5. panic' \in BOOLEAN
  BY <1>1, Zenon DEF TypeOK
<1>6. temp' \in [Sensors -> Temperatures] /\ mode' \in [Fans -> Modes]
      /\ changes' \in 0..MaxChanges
  BY <1>1, Zenon DEF TypeOK
<1>7. EnvironmentTypes'
  BY <1>4, <1>5, <1>6, Zenon DEF EnvironmentTypes
<1>8. QED
  BY <1>1, <1>7

LEMMA DispatchType ==
  ASSUME LocalTypes, NEW h \in Handlers, NEW c \in Commands, Dispatch(h, c)
  PROVE  LocalTypes'
<1>1. Critical(temp) \subseteq Sources
  BY DEF Critical
<1>2. QED
  BY <1>1 DEF LocalTypes, Dispatch, Labels

(* Every step keeps the types.                                              *)
LEMMA NextType ==
  ASSUME TypeOK, [Next]_vars
  PROVE  TypeOK'
<1>1. EnvironmentTypes /\ LocalTypes
  BY TypeParts
<1>2. CASE \E h \in Handlers, c \in Commands : Dispatch(h, c)
  <2>1. PICK h \in Handlers, c \in Commands : Dispatch(h, c)
    BY <1>2
  <2>2. LocalTypes'
    BY <1>1, <2>1, DispatchType
  <2>3. UNCHANGED <<temp, mode, pwm, panic, changes>>
    BY <2>1 DEF Dispatch, environment
  <2>4. EnvironmentTypes'
    BY <1>1, <2>3, Zenon DEF EnvironmentTypes
  <2>5. QED
    BY <2>2, <2>4, TypeParts, Zenon DEF TypeOK, EnvironmentTypes, LocalTypes
<1>3. CASE \E h \in Handlers : Execute(h)
  <2>1. PICK h \in Handlers : Execute(h)
    BY <1>3
  <2>2. EnvironmentTypes' /\ LocalTypes'
    BY <1>1, <2>1, StepType, StepEnvironment
  <2>3. QED
    BY <2>2, Zenon DEF TypeOK, EnvironmentTypes, LocalTypes
<1>4. CASE \E s \in Sensors, value \in Temperatures : TemperatureChanges(s, value)
  <2>1. PICK s \in Sensors, value \in Temperatures : TemperatureChanges(s, value)
    BY <1>4
  <2>2. /\ UNCHANGED <<mode, pwm, panic, pc, cmd, sensed, channels, handle, steady, untouchable>>
        /\ temp' = [temp EXCEPT ![s] = value]
        /\ hot' = [h \in Handlers |-> hot[h] \cap Critical(temp')]
        /\ changes < MaxChanges /\ changes' = changes + 1
    BY <2>1 DEF TemperatureChanges, Change, local
  <2>3. temp' \in [Sensors -> Temperatures] /\ hot' \in [Handlers -> SUBSET Sources]
    BY <1>1, <2>2 DEF EnvironmentTypes, LocalTypes
  <2>4. changes' \in 0..MaxChanges
    BY <1>1, <2>2, FanAssumption DEF EnvironmentTypes
  <2>5. QED
    BY <1>1, <2>2, <2>3, <2>4, Zenon DEF TypeOK, EnvironmentTypes, LocalTypes
<1>5. CASE \E f \in Fans, value \in Modes : FanChanges(f, value)
  <2>1. PICK f \in Fans, value \in Modes : FanChanges(f, value)
    BY <1>5
  <2>2. /\ UNCHANGED <<temp, pwm, panic, pc, cmd, sensed, channels, handle, hot>>
        /\ mode' = [mode EXCEPT ![f] = value]
        /\ steady' = [h \in Handlers |-> IF value = "manual" THEN steady[h] ELSE steady[h] \ {f}]
        /\ untouchable' = [h \in Handlers |-> IF value = "manual" THEN untouchable[h] \ {f}
                                              ELSE untouchable[h]]
        /\ changes < MaxChanges /\ changes' = changes + 1
    BY <2>1 DEF FanChanges, Change, local
  <2>3. /\ mode' \in [Fans -> Modes]
        /\ steady' \in [Handlers -> SUBSET Fans]
        /\ untouchable' \in [Handlers -> SUBSET Fans]
    BY <1>1, <2>2 DEF EnvironmentTypes, LocalTypes
  <2>4. changes' \in 0..MaxChanges
    BY <1>1, <2>2, FanAssumption DEF EnvironmentTypes
  <2>5. QED
    BY <1>1, <2>2, <2>3, <2>4, Zenon DEF TypeOK, EnvironmentTypes, LocalTypes
<1>6. CASE PanicChanges
  <2>1. /\ UNCHANGED <<temp, mode, pwm, pc, cmd, sensed, channels, handle, hot, steady, untouchable>>
        /\ changes < MaxChanges /\ changes' = changes + 1
    BY <1>6 DEF PanicChanges, Change, local, history
  <2>2. panic' \in BOOLEAN
    BY <1>6, Zenon DEF PanicChanges
  <2>3. changes' \in 0..MaxChanges
    BY <1>1, <2>1, FanAssumption DEF EnvironmentTypes
  <2>4. QED
    BY <1>1, <2>1, <2>2, <2>3, Zenon DEF TypeOK, EnvironmentTypes, LocalTypes
<1>7. CASE UNCHANGED vars
  <2>1. UNCHANGED <<temp, mode, pwm, panic, changes, pc, cmd, sensed, channels, handle,
                    hot, steady, untouchable>>
    BY <1>7 DEF vars, environment, local, history
  <2>2. QED
    BY <1>1, <2>1, Zenon DEF TypeOK, EnvironmentTypes, LocalTypes
<1>8. QED
  BY <1>2, <1>3, <1>4, <1>5, <1>6, <1>7 DEF Next

LEMMA InitType ==
  ASSUME Init
  PROVE  TypeOK
<1>1. pwm \in [Fans -> 0..255] /\ changes \in 0..MaxChanges
  BY FanAssumption DEF Init
<1>2. panic \in BOOLEAN
  BY Zenon DEF Init
<1>3. LocalTypes
  BY Constants DEF Init, LocalTypes, Labels
<1>4. QED
  BY <1>1, <1>2, <1>3, Zenon DEF Init, TypeOK, LocalTypes

(* Every reachable state of the fan commands is type correct: duty cycles   *)
(* stay in their registers, metrics in their ranges.                        *)
THEOREM FanTypeCorrect == Spec => []TypeOK
BY InitType, NextType, PTL DEF Spec

-----------------------------------------------------------------------------
(* Preservation of the agreement between readings and history *)

(* A step changes the variables of its own handler only.                    *)
LEMMA OtherHandlers ==
  ASSUME LocalTypes, NEW h \in Handlers, NEW d \in Handlers, d # h,
         \/ Execute(h)
         \/ \E c \in Commands : Dispatch(h, c)
  PROVE  /\ pc'[d] = pc[d] /\ cmd'[d] = cmd[d] /\ sensed'[d] = sensed[d]
         /\ handle'[d] = handle[d] /\ hot'[d] = hot[d]
         /\ steady'[d] = steady[d] /\ untouchable'[d] = untouchable[d]
BY DEF LocalTypes, Execute, Dispatch, PanicCheck, ChannelPresence, ReadHostSensors,
       ReadVendorSensors, ReadFanChannels, Validate, Discover, WriteTarget, Leave, Goto,
       local, history

(* A handler that is done has nothing to agree with.                        *)
LEMMA LeaveSound ==
  ASSUME LocalTypes, NEW h \in Handlers, Leave(h)
  PROVE  SoundAt(h)'
<1>1. pc'[h] = "idle" /\ hot'[h] = {} /\ steady'[h] = {} /\ untouchable'[h] = {}
  BY DEF LocalTypes, Leave
<1>2. QED
  BY <1>1 DEF SoundAt, Sound

(* What stays when a handler only goes on.                                  *)
LEMMA GotoKeeps ==
  ASSUME LocalTypes, NEW h \in Handlers, NEW label, Goto(h, label)
  PROVE  /\ pc'[h] = label /\ hot'[h] = hot[h]
         /\ steady'[h] = steady[h] /\ untouchable'[h] = untouchable[h]
BY DEF LocalTypes, Goto, history

(* The step of a handler keeps its own agreement, one case for each read.   *)
LEMMA StepSound ==
  ASSUME TypeOK, NEW h \in Handlers, SoundAt(h), Execute(h), temp' = temp, mode' = mode
  PROVE  SoundAt(h)'
<1>1. LocalTypes /\ mode \in [Fans -> Modes]
  BY TypeParts DEF EnvironmentTypes
<1>2. CASE Leave(h)
  BY <1>1, <1>2, LeaveSound
<1>3. CASE PanicCheck(h) /\ ~Leave(h)
  <2>1. /\ Goto(h, IF cmd[h].action = "Fan Hizi" THEN "sensors" ELSE "presence")
        /\ UNCHANGED local
    BY <1>3 DEF PanicCheck
  <2>2. /\ pc'[h] \in {"sensors", "presence"} /\ hot'[h] = hot[h]
        /\ steady'[h] = steady[h] /\ untouchable'[h] = untouchable[h]
    BY <1>1, <2>1, GotoKeeps
  <2>3. QED
    BY <2>2 DEF SoundAt, Sound
<1>4. CASE ChannelPresence(h) /\ ~Leave(h)
  <2>1. Goto(h, "sensors")
    BY <1>4 DEF ChannelPresence
  <2>2. /\ pc'[h] = "sensors" /\ hot'[h] = hot[h]
        /\ steady'[h] = steady[h] /\ untouchable'[h] = untouchable[h]
    BY <1>1, <2>1, GotoKeeps
  <2>3. QED
    BY <2>2 DEF SoundAt, Sound
<1>5. CASE ReadHostSensors(h)
  <2>1. /\ pc'[h] = "vendor" /\ hot'[h] = hot[h]
        /\ steady'[h] = steady[h] /\ untouchable'[h] = untouchable[h]
    BY <1>1, <1>5, GotoKeeps DEF ReadHostSensors
  <2>2. sensed'[h].cpu = Reading("cpu", temp) /\ sensed'[h].gpu = Reading("gpu", temp)
    BY <1>1, <1>5 DEF LocalTypes, ReadHostSensors
  <2>3. /\ "cpu" \in hot[h] => Reading("cpu", temp) = "critical"
        /\ "gpu" \in hot[h] => Reading("gpu", temp) = "critical"
    BY DEF SoundAt, Sound, Critical
  <2>4. QED
    BY <2>1, <2>2, <2>3 DEF SoundAt, Sound
<1>6. CASE ReadVendorSensors(h)
  <2>1. /\ pc'[h] = "channels" /\ hot'[h] = hot[h]
        /\ steady'[h] = steady[h] /\ untouchable'[h] = untouchable[h]
        /\ pc[h] = "vendor"
    BY <1>1, <1>6, GotoKeeps DEF ReadVendorSensors
  <2>2. /\ sensed'[h].cpu = sensed[h].cpu
        /\ sensed'[h].gpu = IF Reading("vendor", temp) = "absent" THEN sensed[h].gpu
                            ELSE Reading("vendor", temp)
    BY <1>1, <1>6 DEF LocalTypes, ReadVendorSensors
  <2>3. /\ "vendor" \in hot[h] => Reading("vendor", temp) = "critical"
        /\ "gpu" \in hot[h] => Reading("vendor", temp) = "absent" /\ sensed[h].gpu = "critical"
        /\ "cpu" \in hot[h] => sensed[h].cpu = "critical"
    BY <2>1 DEF SoundAt, Sound, Critical
  <2>4. QED
    BY <2>1, <2>2, <2>3 DEF SoundAt, Sound
<1>7. CASE ReadFanChannels(h)
  <2>1. /\ pc'[h] = "validate" /\ hot'[h] = hot[h] /\ pc[h] = "channels"
        /\ steady'[h] = steady[h] /\ untouchable'[h] = untouchable[h]
        /\ sensed' = sensed
    BY <1>1, <1>7, GotoKeeps DEF ReadFanChannels
  <2>2. QED
    BY <2>1 DEF SoundAt, Sound
<1>8. CASE Validate(h) /\ ~Leave(h)
  <2>1. /\ Allowed(cmd[h], sensed[h], channels[h])
        /\ pc[h] = "validate" /\ pc'[h] = "discover" /\ hot'[h] = hot[h]
        /\ steady'[h] = steady[h] /\ untouchable'[h] = untouchable[h]
        /\ cmd' = cmd
    BY <1>1, <1>8, GotoKeeps DEF Validate, local
  <2>2. cmd[h].value \in Int
    <3>1. cmd[h] \in Commands
      BY <1>1 DEF LocalTypes
    <3>2. cmd[h].value \in Values
      BY <3>1 DEF Commands
    <3>3. QED
      BY <3>2, ValueType
  <2>3. cmd[h].value < Full => hot[h] = {}
    <3>1. SUFFICES ASSUME cmd[h].value < Full PROVE hot[h] = {}
      OBVIOUS
    <3>2. HasCriticalThermalState(sensed[h]) => cmd[h].value >= 1000
      BY <2>1 DEF Allowed, Full
    <3>5. ~HasCriticalThermalState(sensed[h])
      BY <2>2, <3>1, <3>2 DEF Full
    <3>6. "cpu" \notin hot[h] /\ "gpu" \notin hot[h] /\ "vendor" \notin hot[h]
      BY <2>1, <3>5 DEF SoundAt, Sound, HasCriticalThermalState
    <3>4. QED
      BY <1>1, <3>6 DEF LocalTypes, Sources
  <2>4. QED
    BY <2>1, <2>3 DEF SoundAt, Sound
<1>9. CASE Discover(h) /\ ~Leave(h)
  <2>1. PICK f \in Rediscovered(h) : handle' = [handle EXCEPT ![h] = f]
    BY <1>9 DEF Discover
  <2>2. /\ pc[h] = "discover" /\ pc'[h] = "write" /\ hot'[h] = hot[h]
        /\ steady'[h] = steady[h] /\ untouchable'[h] = untouchable[h]
        /\ cmd' = cmd /\ handle'[h] = f
    BY <1>1, <1>9, <2>1, GotoKeeps DEF Discover, LocalTypes
  <2>3. /\ f \in Fans /\ mode[f] = "manual"
        /\ cmd[h].action = "Fan Hizi" => SupportedFans = {f}
        /\ cmd[h].action # "Fan Hizi" => f = cmd[h].target
    BY <2>1, OnlyFan DEF Rediscovered, SupportedFans, Supported
  <2>4. f \notin untouchable[h]
    BY <2>3 DEF SoundAt, Sound
  <2>5. cmd[h].action = "Fan Hizi" => steady[h] \subseteq {f}
    BY <1>1, <2>3 DEF SoundAt, Sound, SupportedFans, Supported, LocalTypes
  <2>6. QED
    BY <2>2, <2>3, <2>4, <2>5 DEF SoundAt, Sound
<1>10. CASE WriteTarget(h)
  BY <1>1, <1>10, LeaveSound DEF WriteTarget
<1>11. QED
  BY <1>2, <1>3, <1>4, <1>5, <1>6, <1>7, <1>8, <1>9, <1>10 DEF Execute

(* A dispatched command starts with the history of this moment.             *)
LEMMA DispatchSound ==
  ASSUME LocalTypes, NEW h \in Handlers, NEW c \in Commands, Dispatch(h, c)
  PROVE  SoundAt(h)'
<1>1. /\ pc'[h] = "panic" /\ hot'[h] = Critical(temp)
      /\ steady'[h] = {f \in Fans : mode[f] = "manual"}
      /\ untouchable'[h] = {f \in Fans : mode[f] # "manual"}
      /\ temp' = temp /\ mode' = mode
  BY DEF LocalTypes, Dispatch, environment
<1>2. QED
  BY <1>1 DEF SoundAt, Sound

(* The environment takes sources and fans out of the histories it changes.  *)
LEMMA EnvironmentSound ==
  ASSUME TypeOK, NEW h \in Handlers, SoundAt(h),
         \/ \E s \in Sensors, value \in Temperatures : TemperatureChanges(s, value)
         \/ \E f \in Fans, value \in Modes : FanChanges(f, value)
         \/ PanicChanges
         \/ UNCHANGED vars
  PROVE  SoundAt(h)'
<1>1. LocalTypes /\ mode \in [Fans -> Modes]
  BY TypeParts DEF EnvironmentTypes
<1>2. CASE \E s \in Sensors, value \in Temperatures : TemperatureChanges(s, value)
  <2>1. /\ UNCHANGED <<mode, pc, cmd, sensed, handle, steady, untouchable>>
        /\ hot'[h] = hot[h] \cap Critical(temp')
    BY <1>2 DEF TemperatureChanges, local
  <2>2. QED
    BY <2>1 DEF SoundAt, Sound
<1>3. CASE \E f \in Fans, value \in Modes : FanChanges(f, value)
  <2>1. PICK f \in Fans, value \in Modes : FanChanges(f, value)
    BY <1>3
  <2>2. /\ UNCHANGED <<temp, pc, cmd, sensed, handle, hot>>
        /\ mode' = [mode EXCEPT ![f] = value]
        /\ steady'[h] = IF value = "manual" THEN steady[h] ELSE steady[h] \ {f}
        /\ untouchable'[h] = IF value = "manual" THEN untouchable[h] \ {f} ELSE untouchable[h]
    BY <2>1 DEF FanChanges, local
  <2>3. steady[h] \subseteq Fans /\ untouchable[h] \subseteq Fans
    BY <1>1 DEF LocalTypes
  <2>4. /\ \A g \in steady'[h] : mode'[g] = "manual"
        /\ \A g \in untouchable'[h] : mode'[g] # "manual"
    BY <1>1, <2>2, <2>3 DEF SoundAt, Sound
  <2>5. steady'[h] \subseteq steady[h] /\ untouchable'[h] \subseteq untouchable[h]
    BY <2>2
  <2>6. QED
    BY <2>2, <2>4, <2>5 DEF SoundAt, Sound
<1>4. CASE PanicChanges \/ UNCHANGED vars
  <2>1. UNCHANGED <<temp, mode, pc, cmd, sensed, handle, hot, steady, untouchable>>
    BY <1>4 DEF PanicChanges, vars, environment, local, history
  <2>2. QED
    BY <2>1 DEF SoundAt
<1>5. QED
  BY <1>2, <1>3, <1>4

LEMMA NextInv ==
  ASSUME FanInv, [Next]_vars
  PROVE  FanInv'
<1>1. TypeOK /\ TypeOK' /\ LocalTypes
  BY NextType, TypeParts DEF FanInv
<1>2. ASSUME NEW d \in Handlers PROVE SoundAt(d)'
  <2>1. SoundAt(d)
    BY DEF FanInv
  <2>2. CASE \E h \in Handlers, c \in Commands : Dispatch(h, c)
    <3>1. PICK h \in Handlers, c \in Commands : Dispatch(h, c)
      BY <2>2
    <3>2. temp' = temp /\ mode' = mode
      BY <3>1 DEF Dispatch, environment
    <3>3. CASE d = h
      BY <1>1, <3>1, <3>3, DispatchSound
    <3>4. CASE d # h
      BY <1>1, <2>1, <3>1, <3>2, <3>4, OtherHandlers DEF SoundAt
    <3>5. QED
      BY <3>3, <3>4
  <2>3. CASE \E h \in Handlers : Execute(h)
    <3>1. PICK h \in Handlers : Execute(h)
      BY <2>3
    <3>2. temp' = temp /\ mode' = mode
      BY <1>1, <3>1, StepEnvironment
    <3>3. CASE d = h
      BY <1>1, <2>1, <3>1, <3>2, <3>3, StepSound
    <3>4. CASE d # h
      BY <1>1, <2>1, <3>1, <3>2, <3>4, OtherHandlers DEF SoundAt
    <3>5. QED
      BY <3>3, <3>4
  <2>4. CASE ~\E h \in Handlers : Execute(h) \/ \E c \in Commands : Dispatch(h, c)
    BY <1>1, <2>1, <2>4, EnvironmentSound DEF Next
  <2>5. QED
    BY <2>2, <2>3, <2>4
<1>3. QED
  BY <1>1, <1>2 DEF FanInv

LEMMA InitInv ==
  ASSUME Init
  PROVE  FanInv
<1>1. ASSUME NEW h \in Handlers PROVE SoundAt(h)
  <2>1. pc[h] = "idle" /\ hot[h] = {} /\ steady[h] = {} /\ untouchable[h] = {}
    BY DEF Init
  <2>2. QED
    BY <2>1 DEF SoundAt, Sound
<1>2. QED
  BY <1>1, InitType DEF FanInv

(* What the invariant says of a handler that is about to write.             *)
LEMMA InvImplies ==
  ASSUME FanInv
  PROVE  LowTargetSawItCool /\ FirmwareFansUntouched /\ TargetUnambiguous
BY DEF FanInv, SoundAt, Sound, LowTargetSawItCool, FirmwareFansUntouched, TargetUnambiguous

-----------------------------------------------------------------------------
(* Theorems *)

LEMMA FanInvariant == Spec => []FanInv
BY InitInv, NextInv, PTL DEF Spec

(* A target below full speed gets to the write only if every temperature    *)
(* source was seen below critical during the command: executeHardwareCommand*)
(* reads the sources one after the other and nothing is locked.             *)
THEOREM LowTargetHolds == Spec => []LowTargetSawItCool
BY FanInvariant, InvImplies, PTL

(* A fan the firmware had throughout a command is not written, although it  *)
(* is discovered three times.                                               *)
THEOREM FirmwareFansHolds == Spec => []FirmwareFansUntouched
BY FanInvariant, InvImplies, PTL

(* A target without a channel reaches a fan only if no other one was        *)
(* controllable throughout, and a channel command its own channel.          *)
THEOREM TargetUnambiguousHolds == Spec => []TargetUnambiguous
BY FanInvariant, InvImplies, PTL

-----------------------------------------------------------------------------
(* Power modes *)

(* A handler at work whose target is the active profile has it on record.   *)
Recorded(h) == powerPc[h] # "idle" /\ profile = target[h] => held[h]

-----------------------------------------------------------------------------
(* Type correctness *)

PowerLabels == {"idle", "before", "set", "readback", "current", "rollback"}
Replies == {"none", "SUCCESS", "ERROR"}
Before == IF platform = "linux" THEN Profiles ELSE Power!Modes

PowerPlaces ==
  /\ platform \in Platforms
  /\ profile \in Power!Modes
  /\ powerPc \in [Setters -> PowerLabels]
  /\ target \in [Setters -> Profiles]
  /\ before \in [Setters -> Before]
  /\ reply \in [Setters -> Replies]
  /\ userSets \in 0..MaxUserSets /\ failures \in 0..MaxFailures

History == held \in [Setters -> BOOLEAN]

LEMMA PowerParts == Power!TypeOK <=> PowerPlaces /\ History
BY Zenon DEF Power!TypeOK, PowerPlaces, History, PowerLabels, Replies, Before

LEMMA PowerMoves ==
  ASSUME NEW h \in Setters, NEW l \in PowerLabels, NEW r \in Replies, PowerPlaces,
         Power!Goto(h, l) \/ Power!Answer(h, r)
  PROVE  powerPc' \in [Setters -> PowerLabels] /\ reply' \in [Setters -> Replies]
BY DEF PowerPlaces, Power!Goto, Power!Answer, PowerLabels

LEMMA FailingType ==
  ASSUME Power!PowerAssumption, PowerPlaces, Power!Failing \/ UNCHANGED Power!bounds
  PROVE  userSets' \in 0..MaxUserSets /\ failures' \in 0..MaxFailures
BY DEF Power!PowerAssumption, PowerPlaces, Power!Failing, Power!bounds

(* What is read on Linux is a mode that the bridge can ask for.             *)
LEMMA ReadableType ==
  ASSUME PowerPlaces, Power!Readable
  PROVE  profile \in Before
BY DEF PowerPlaces, Power!Readable, Before, Power!Modes

LEMMA BeforeModes == Before \subseteq Power!Modes
BY DEF Before, Power!Modes

LEMMA PowerPlacesStep ==
  ASSUME Power!PowerAssumption, PowerPlaces, Power!Next
  PROVE  PowerPlaces'
<1>1. Before' = Before /\ platform' \in Platforms
  BY DEF Power!Next, Before, PowerPlaces
<1>2. ASSUME NEW h \in Setters, NEW t \in Profiles, Power!Begin(h, t)
      PROVE  PowerPlaces'
  BY <1>1, <1>2 DEF PowerPlaces, Power!Begin, PowerLabels, Replies, Power!bounds
<1>3. ASSUME NEW h \in Setters, Power!ReadBefore(h)
      PROVE  PowerPlaces'
  <2>1. powerPc' \in [Setters -> PowerLabels] /\ reply' \in [Setters -> Replies]
    BY <1>3, PowerMoves DEF Power!ReadBefore, PowerLabels, Replies
  <2>2. userSets' \in 0..MaxUserSets /\ failures' \in 0..MaxFailures
    BY <1>3, FailingType DEF Power!ReadBefore
  <2>3. before' \in [Setters -> Before]
    BY <1>3, ReadableType DEF PowerPlaces, Power!ReadBefore
  <2>4. QED
    BY <1>1, <1>3, <2>1, <2>2, <2>3 DEF PowerPlaces, Power!ReadBefore
<1>4. ASSUME NEW h \in Setters, Power!SetProfile(h)
      PROVE  PowerPlaces'
  <2>1. powerPc' \in [Setters -> PowerLabels] /\ reply' \in [Setters -> Replies]
    BY <1>4, PowerMoves DEF Power!SetProfile, PowerLabels, Replies
  <2>2. userSets' \in 0..MaxUserSets /\ failures' \in 0..MaxFailures
    BY <1>4, FailingType DEF Power!SetProfile
  <2>3. profile' = target[h] \/ UNCHANGED profile
    BY <1>4 DEF Power!SetProfile, Power!SetTo
  <2>4. profile' \in Power!Modes
    BY <2>3 DEF PowerPlaces, Power!Modes
  <2>5. QED
    BY <1>1, <1>4, <2>1, <2>2, <2>4 DEF PowerPlaces, Power!SetProfile
<1>5. ASSUME NEW h \in Setters, Power!ReadBack(h) \/ Power!ReadCurrent(h)
      PROVE  PowerPlaces'
  <2>1. powerPc' \in [Setters -> PowerLabels] /\ reply' \in [Setters -> Replies]
    BY <1>5, PowerMoves DEF Power!ReadBack, Power!ReadCurrent, PowerLabels, Replies
  <2>2. userSets' \in 0..MaxUserSets /\ failures' \in 0..MaxFailures
    BY <1>5, FailingType DEF Power!ReadBack, Power!ReadCurrent
  <2>3. QED
    BY <1>1, <1>5, <2>1, <2>2 DEF PowerPlaces, Power!ReadBack, Power!ReadCurrent
<1>6. ASSUME NEW h \in Setters, Power!Rollback(h)
      PROVE  PowerPlaces'
  <2>1. powerPc' \in [Setters -> PowerLabels] /\ reply' \in [Setters -> Replies]
    BY <1>6, PowerMoves DEF Power!Rollback, PowerLabels, Replies
  <2>2. userSets' \in 0..MaxUserSets /\ failures' \in 0..MaxFailures
    BY <1>6, FailingType DEF Power!Rollback
  <2>3. profile' = before[h] \/ UNCHANGED profile
    BY <1>6 DEF Power!Rollback, Power!SetTo
  <2>4. profile' \in Power!Modes
    BY <2>3, BeforeModes DEF PowerPlaces
  <2>5. QED
    BY <1>1, <1>6, <2>1, <2>2, <2>4 DEF PowerPlaces, Power!Rollback
<1>7. ASSUME NEW p \in Power!Modes, Power!UserSets(p)
      PROVE  PowerPlaces'
  BY <1>1, <1>7 DEF Power!PowerAssumption, PowerPlaces, Power!UserSets, Power!SetTo
<1>8. QED
  BY <1>2, <1>3, <1>4, <1>5, <1>6, <1>7 DEF Power!Next, Power!Step

LEMMA HistoryStep ==
  ASSUME History, Power!Next
  PROVE  History'
<1>1. \/ UNCHANGED held
      \/ \E p : Power!SetTo(p)
      \/ \E h \in Setters, t \in Profiles : Power!Begin(h, t)
  BY Zenon DEF Power!Next, Power!Step, Power!ReadBefore, Power!SetProfile, Power!ReadBack,
     Power!ReadCurrent, Power!Rollback, Power!UserSets
<1>2. ASSUME NEW p, Power!SetTo(p)
      PROVE  History'
  BY <1>2, Zenon DEF History, Power!SetTo
<1>3. ASSUME NEW h \in Setters, NEW t \in Profiles, Power!Begin(h, t)
      PROVE  History'
  BY <1>3 DEF History, Power!Begin
<1>4. QED
  BY <1>1, <1>2, <1>3 DEF History

(* Every variable keeps its type; on Linux what setPlatformPowerMode rolls  *)
(* back to is always a profile that the bridge knows.                       *)
THEOREM PowerTypeCorrect ==
  ASSUME Power!PowerAssumption
  PROVE  Power!Spec => []Power!TypeOK
<1>1. Power!Init => PowerPlaces
  <2>1. Power!NoProfile \in Profiles
    BY DEF Power!PowerAssumption, Power!NoProfile
  <2>2. QED
    BY <2>1 DEF Power!PowerAssumption, Power!Init, PowerPlaces, Before, Power!Modes, PowerLabels,
       Replies
<1>2. Power!Init => History
  BY Zenon DEF Power!Init, History
<1>3. Power!TypeOK /\ [Power!Next]_(Power!vars) => Power!TypeOK'
  <2>1. PowerPlaces' /\ History' => Power!TypeOK'
    BY Zenon DEF Power!TypeOK, PowerPlaces, History, PowerLabels, Replies, Before
  <2>2. CASE Power!Next
    BY <2>1, <2>2, PowerParts, PowerPlacesStep, HistoryStep
  <2>3. CASE UNCHANGED Power!vars
    BY <2>3 DEF Power!TypeOK, Power!vars, Power!bounds, Power!Modes
  <2>4. QED
    BY <2>2, <2>3
<1>4. QED
  BY <1>1, <1>2, <1>3, PowerParts, PTL DEF Power!Spec

-----------------------------------------------------------------------------
(* Success is never reported for a change that did not happen *)

PowerInv == Power!TypeOK /\ Power!SuccessWasTrue /\ \A h \in Setters : Recorded(h)

(* Whoever sets the profile puts it on the record of every handler.         *)
LEMMA SetToStep ==
  ASSUME PowerInv, NEW p, Power!SetTo(p), UNCHANGED target,
         NEW h \in Setters, powerPc'[h] # "idle" => powerPc[h] # "idle",
         reply'[h] = "SUCCESS" => reply[h] = "SUCCESS"
  PROVE  Recorded(h)' /\ (reply'[h] = "SUCCESS" => held'[h])
<1>1. profile' = p /\ held'[h] = (held[h] \/ p = target[h])
  BY Zenon DEF Power!SetTo
<1>2. reply[h] = "SUCCESS" => held[h]
  BY DEF PowerInv, Power!SuccessWasTrue
<1>3. QED
  BY <1>1, <1>2, Zenon DEF Recorded

(* A step that leaves the profile alone and answers SUCCESS has seen the    *)
(* target in place.                                                         *)
LEMMA ReadStep ==
  ASSUME PowerInv, UNCHANGED <<profile, target, held>>,
         NEW h \in Setters, powerPc'[h] # "idle" => powerPc[h] # "idle",
         reply'[h] = "SUCCESS" => reply[h] = "SUCCESS" \/ (powerPc[h] # "idle"
         /\ profile = target[h])
  PROVE  Recorded(h)' /\ (reply'[h] = "SUCCESS" => held'[h])
<1>1. Recorded(h) /\ (reply[h] = "SUCCESS" => held[h])
  BY DEF PowerInv, Power!SuccessWasTrue
<1>2. QED
  BY <1>1, Zenon DEF Recorded

LEMMA PowerInvStep ==
  ASSUME PowerInv, Power!Next, NEW g \in Setters
  PROVE  Recorded(g)' /\ (reply'[g] = "SUCCESS" => held'[g])
<1>1. PowerPlaces
  BY PowerParts DEF PowerInv
<1>2. ASSUME NEW h \in Setters, NEW t \in Profiles, Power!Begin(h, t)
      PROVE  Recorded(g)' /\ (reply'[g] = "SUCCESS" => held'[g])
  <2>1. CASE g = h
    <3>1. profile' = t => held'[h]
      BY <1>2 DEF PowerInv, Power!TypeOK, Power!Begin
    <3>2. target'[h] = t /\ reply'[h] = "none"
      BY <1>1, <1>2 DEF PowerPlaces, Power!Begin
    <3>3. QED
      BY <2>1, <3>1, <3>2 DEF Recorded
  <2>2. CASE g # h
    <3>1. /\ powerPc'[g] = powerPc[g] /\ target'[g] = target[g] /\ reply'[g] = reply[g]
          /\ profile' = profile
      BY <1>1, <1>2, <2>2 DEF PowerPlaces, Power!Begin
    <3>2. held'[g] = held[g]
      BY <1>2, <2>2 DEF PowerInv, Power!TypeOK, Power!Begin
    <3>3. Recorded(g) /\ (reply[g] = "SUCCESS" => held[g])
      BY DEF PowerInv, Power!SuccessWasTrue
    <3>4. QED
      BY <3>1, <3>2, <3>3 DEF Recorded
  <2>3. QED
    BY <2>1, <2>2
<1>3. ASSUME NEW h \in Setters, Power!ReadBefore(h)
      PROVE  Recorded(g)' /\ (reply'[g] = "SUCCESS" => held'[g])
  <2>1. powerPc[h] # "idle" /\ UNCHANGED <<profile, target, held>>
    BY <1>3 DEF Power!ReadBefore
  <2>2. /\ powerPc'[g] # "idle" => powerPc[g] # "idle"
        /\ reply'[g] = "SUCCESS" => reply[g] = "SUCCESS" \/ (g = h /\ profile = target[h])
    BY <1>1, <1>3, <2>1 DEF PowerPlaces, Power!ReadBefore, Power!Goto, Power!Answer
  <2>3. QED
    BY <2>1, <2>2, ReadStep
<1>4. ASSUME NEW h \in Setters, Power!SetProfile(h)
      PROVE  Recorded(g)' /\ (reply'[g] = "SUCCESS" => held'[g])
  <2>1. powerPc[h] # "idle" /\ UNCHANGED target
    BY <1>4 DEF Power!SetProfile
  <2>2. Power!Goto(h, "readback") \/ Power!Answer(h, "ERROR")
    BY <1>4 DEF Power!SetProfile
  <2>3. /\ powerPc'[g] # "idle" => powerPc[g] # "idle"
        /\ reply'[g] = "SUCCESS" => reply[g] = "SUCCESS"
    BY <1>1, <2>1, <2>2 DEF PowerPlaces, Power!Goto, Power!Answer
  <2>4. Power!SetTo(target[h]) \/ UNCHANGED <<profile, held>>
    BY <1>4 DEF Power!SetProfile
  <2>5. QED
    BY <2>1, <2>3, <2>4, SetToStep, ReadStep
<1>5. ASSUME NEW h \in Setters, Power!ReadBack(h) \/ Power!ReadCurrent(h)
      PROVE  Recorded(g)' /\ (reply'[g] = "SUCCESS" => held'[g])
  <2>1. powerPc[h] # "idle" /\ UNCHANGED <<profile, target, held>>
    BY <1>5 DEF Power!ReadBack, Power!ReadCurrent
  <2>2. /\ powerPc'[g] # "idle" => powerPc[g] # "idle"
        /\ reply'[g] = "SUCCESS" => reply[g] = "SUCCESS" \/ (g = h /\ profile = target[h])
    BY <1>1, <1>5, <2>1 DEF PowerPlaces, Power!ReadBack, Power!ReadCurrent, Power!Confirmed,
       Power!Goto, Power!Answer
  <2>3. QED
    BY <2>1, <2>2, ReadStep
<1>6. ASSUME NEW h \in Setters, Power!Rollback(h)
      PROVE  Recorded(g)' /\ (reply'[g] = "SUCCESS" => held'[g])
  <2>1. powerPc[h] # "idle" /\ UNCHANGED target /\ Power!Answer(h, "ERROR")
    BY <1>6 DEF Power!Rollback
  <2>2. /\ powerPc'[g] # "idle" => powerPc[g] # "idle"
        /\ reply'[g] = "SUCCESS" => reply[g] = "SUCCESS"
    BY <1>1, <2>1 DEF PowerPlaces, Power!Answer
  <2>3. Power!SetTo(before[h]) \/ UNCHANGED <<profile, held>>
    BY <1>6 DEF Power!Rollback
  <2>4. QED
    BY <2>1, <2>2, <2>3, SetToStep, ReadStep
<1>7. ASSUME NEW p \in Power!Modes, Power!UserSets(p)
      PROVE  Recorded(g)' /\ (reply'[g] = "SUCCESS" => held'[g])
  BY <1>7, SetToStep DEF Power!UserSets
<1>8. QED
  BY <1>2, <1>3, <1>4, <1>5, <1>6, <1>7 DEF Power!Next, Power!Step

(* setPlatformPowerMode reports success only if the mode asked for was the  *)
(* active one at some time during the command, whatever other connections,  *)
(* the user and failing or silently ineffective platform calls do.          *)
THEOREM PowerSuccessWasTrue ==
  ASSUME Power!PowerAssumption
  PROVE  Power!Spec => []Power!SuccessWasTrue
<1>1. Power!Init /\ Power!TypeOK => PowerInv
  BY DEF Power!Init, PowerInv, Power!SuccessWasTrue, Recorded
<1>2. PowerInv /\ [Power!Next]_(Power!vars) /\ Power!TypeOK' => PowerInv'
  <2>1. PowerInv /\ Power!Next /\ Power!TypeOK' => PowerInv'
    BY PowerInvStep DEF PowerInv, Power!SuccessWasTrue
  <2>2. PowerInv /\ UNCHANGED Power!vars /\ Power!TypeOK' => PowerInv'
    BY Zenon DEF PowerInv, Power!SuccessWasTrue, Recorded, Power!vars, Power!bounds
  <2>3. QED
    BY <2>1, <2>2
<1>3. PowerInv => Power!SuccessWasTrue
  BY DEF PowerInv
<1>4. QED
  BY <1>1, <1>2, <1>3, PowerTypeCorrect, PTL DEF Power!Spec

-----------------------------------------------------------------------------
(* The condition index of a device (Assessment), for any temperatures,      *)
(* counts and reports, and any width of the build's int.                    *)

IndexInv == evidence \in Index!Evidence /\ Index!Valid(evidence)

(* The evidence f is that of e, or worse.                                   *)
Worse(e, f) ==
  /\ f.device = e.device /\ f.vendor = e.vendor /\ f.samples = e.samples
  /\ e.errors <= f.errors /\ e.throttles <= f.throttles
  /\ f.temperature = Index!Missing <=> e.temperature = Index!Missing
  /\ e.temperature # Index!Missing => e.temperature <= f.temperature

LEMMA Fields ==
  ASSUME Index!AssessmentAssumption, NEW e \in Index!Evidence
  PROVE  /\ e.errors \in Nat /\ e.throttles \in Nat /\ e.samples \in Nat
         /\ e.temperature \in Int /\ e.vendor \in Int
<1>1. Counts \subseteq Nat /\ Degrees \subseteq Int /\ Vendors \subseteq Int
  BY DEF Index!AssessmentAssumption
<1>2. Index!Missing \in Int
  BY DEF Index!Missing
<1> QED BY <1>1, <1>2 DEF Index!Evidence

LEMMA ItWorsens ==
  ASSUME Index!AssessmentAssumption, IndexInv, Index!Next
  PROVE  IndexInv' /\ Worse(evidence, evidence')
<1>0. /\ evidence.errors \in Nat /\ evidence.throttles \in Nat /\ evidence.samples \in Nat
      /\ evidence.temperature \in Int
  BY Fields DEF IndexInv
<1>1. CASE Index!Worsens("errors", Counts)
  BY <1>0, <1>1 DEF Index!Worsens, Index!Evidence, IndexInv, Worse
<1>2. CASE Index!Worsens("throttles", Counts)
  BY <1>0, <1>2 DEF Index!Worsens, Index!Evidence, IndexInv, Worse
<1>3. CASE Index!Worsens("temperature", Degrees)
  <2>1. PICK v \in Degrees : /\ v >= evidence.temperature
                                  /\ evidence' = [evidence EXCEPT !["temperature"] = v]
    BY <1>3 DEF Index!Worsens
  <2>2. evidence.temperature # Index!Missing /\ evidence.temperature \in -20..200
    BY <1>3 DEF Index!Worsens, IndexInv, Index!Valid
  <2>3. v \in Int /\ v # Index!Missing
    BY <2>1, <2>2 DEF Index!AssessmentAssumption, Index!Missing
  <2>4. evidence' \in Index!Evidence
    BY <2>1 DEF IndexInv, Index!Evidence
  <2>5. Worse(evidence, evidence')
    BY <1>0, <2>1, <2>2, <2>3 DEF IndexInv, Index!Evidence, Worse
  <2>6. Index!Valid(evidence')
    BY <1>3 DEF Index!Worsens
  <2> QED BY <2>4, <2>5, <2>6 DEF IndexInv
<1> QED BY <1>1, <1>2, <1>3 DEF Index!Next

(* Below the largest int the product is that of arithmetic.                 *)
LEMMA TimesExact ==
  ASSUME MaxInt \in Nat, NEW a \in Nat, NEW b \in Nat, a * b <= MaxInt
  PROVE  Index!Times(a, b) = a * b
<1> DEFINE m == a * b
<1>1. m \in Nat /\ m <= MaxInt
  OBVIOUS
<1> HIDE DEF m
<1>2. (m + MaxInt + 1) % (2 * (MaxInt + 1)) = m + MaxInt + 1
  BY <1>1
<1>3. ((m + MaxInt + 1) % (2 * (MaxInt + 1))) - (MaxInt + 1) = m
  BY <1>1, <1>2
<1> QED BY <1>3 DEF Index!Times, m

LEMMA Halves ==
  ASSUME NEW a \in Int, NEW b \in Int, a <= b
  PROVE  a \div 2 <= b \div 2
OBVIOUS

(* The temperature's part of the index.                                     *)
LEMMA TemperatureGrows ==
  ASSUME Index!AssessmentAssumption, NEW e \in Index!Evidence, NEW f \in Index!Evidence,
         Worse(e, f)
  PROVE  /\ Index!TemperaturePenalty(e) \in 0..35 /\ Index!TemperaturePenalty(f) \in 0..35
         /\ Index!TemperaturePenalty(e) <= Index!TemperaturePenalty(f)
<1>1. Limit \in Int /\ e.temperature \in Int /\ f.temperature \in Int
  BY Fields DEF Index!AssessmentAssumption
<1>2. Index!Thermal(e) <=> Index!Thermal(f)
  BY DEF Worse, Index!Thermal
<1>3. Index!Thermal(e) => e.temperature <= f.temperature
  BY DEF Worse, Index!Thermal
<1> QED BY <1>1, <1>2, <1>3 DEF Index!TemperaturePenalty

(* The counts' parts of the index, where no product overflows.              *)
LEMMA CountsGrow ==
  ASSUME Index!AssessmentAssumption, NEW e \in Index!Evidence, NEW f \in Index!Evidence,
         Worse(e, f), Index!InRange(f)
  PROVE  /\ Index!ThrottlePenalty(e) \in Nat /\ Index!ThrottlePenalty(f) \in Nat
         /\ Index!ThrottlePenalty(e) <= Index!ThrottlePenalty(f)
         /\ Index!ErrorPenalty(e) \in Nat /\ Index!ErrorPenalty(f) \in Nat
         /\ Index!ErrorPenalty(e) <= Index!ErrorPenalty(f)
<1>1. /\ MaxInt \in Nat /\ e.errors \in Nat /\ e.throttles \in Nat
      /\ f.errors \in Nat /\ f.throttles \in Nat
  BY Fields DEF Index!AssessmentAssumption
<1>2. e.errors <= f.errors /\ e.throttles <= f.throttles /\ f.device = e.device
  BY DEF Worse
<1>3. 20 * f.errors <= MaxInt /\ 5 * f.throttles <= MaxInt
  BY DEF Index!InRange
<1> DEFINE w == IF e.device = "ram" THEN 20 ELSE 10
<1>4. w \in {10, 20}
  OBVIOUS
<1> HIDE DEF w
<1>5. /\ e.throttles * 5 <= MaxInt /\ f.throttles * 5 <= MaxInt
      /\ e.errors * w <= MaxInt /\ f.errors * w <= MaxInt
  BY <1>1, <1>2, <1>3, <1>4
<1>6. /\ Index!Times(e.throttles, 5) = e.throttles * 5
      /\ Index!Times(f.throttles, 5) = f.throttles * 5
  BY <1>1, <1>5, TimesExact
<1>7. Index!Times(e.errors, w) = e.errors * w /\ Index!Times(f.errors, w) = f.errors * w
  BY <1>1, <1>4, <1>5, TimesExact
<1>8. /\ Index!ThrottlePenalty(e) \in Nat /\ Index!ThrottlePenalty(f) \in Nat
      /\ Index!ThrottlePenalty(e) <= Index!ThrottlePenalty(f)
  BY <1>1, <1>2, <1>6 DEF Index!ThrottlePenalty, Index!Lower
<1>9. /\ Index!ErrorPenalty(e) = Index!Lower(e.errors * w, 30)
      /\ Index!ErrorPenalty(f) = Index!Lower(f.errors * w, 30)
  BY <1>2, <1>7 DEF Index!ErrorPenalty, w
<1>10. e.errors * w \in Nat /\ f.errors * w \in Nat /\ e.errors * w <= f.errors * w
  BY <1>1, <1>2, <1>4
<1>11. /\ Index!ErrorPenalty(e) \in Nat /\ Index!ErrorPenalty(f) \in Nat
       /\ Index!ErrorPenalty(e) <= Index!ErrorPenalty(f)
  BY <1>9, <1>10 DEF Index!Lower
<1> QED BY <1>8, <1>11

LEMMA ScoreFalls ==
  ASSUME Index!AssessmentAssumption, NEW e \in Index!Evidence, NEW f \in Index!Evidence,
         Worse(e, f), Index!InRange(f)
  PROVE  Index!Score(e) \in Nat /\ Index!Score(f) <= Index!Score(e)
<1> DEFINE Observed(x) == 100 - Index!TemperaturePenalty(x) - Index!ThrottlePenalty(x)
                            - Index!ErrorPenalty(x)
           Raw(x) == IF x.vendor = Index!Missing THEN Observed(x)
                     ELSE (Observed(x) + x.vendor) \div 2
<1>1. Observed(e) \in Int /\ Observed(f) \in Int /\ Observed(f) <= Observed(e)
  BY TemperatureGrows, CountsGrow
<1>2. Index!Score(e) = IF Raw(e) < 0 THEN 0 ELSE Index!Lower(Raw(e), 100)
  BY DEF Index!Score
<1>3. Index!Score(f) = IF Raw(f) < 0 THEN 0 ELSE Index!Lower(Raw(f), 100)
  BY DEF Index!Score
<1>4. e.vendor \in Int /\ f.vendor = e.vendor
  BY Fields DEF Worse
<1> HIDE DEF Observed
<1>5. Raw(e) \in Int /\ Raw(f) \in Int /\ Raw(f) <= Raw(e)
  BY <1>1, <1>4, Halves
<1> HIDE DEF Raw
<1> QED BY <1>2, <1>3, <1>5 DEF Index!Lower

(* Trouble never improves the condition index of assessment.go, whatever    *)
(* the device and its evidence, as long as no penalty overflows the build's *)
(* int; and an index is never given without a measurement of its kind of    *)
(* device.                                                                  *)
THEOREM IndexStaysHonest ==
  ASSUME Index!AssessmentAssumption
  PROVE  Index!Spec => Index!IndexIsHonest
<1>1. Index!Init => IndexInv
  BY DEF Index!Init, IndexInv
<1>2. IndexInv /\ [Index!Next]_(Index!vars) => IndexInv'
  BY ItWorsens DEF IndexInv, Index!vars
<1>3. IndexInv => Index!Founded
  BY Fields DEF IndexInv, Index!Founded, Index!ConditionIndex, Index!Unfounded,
    Index!RAMUnfounded
<1>4. IndexInv /\ [Index!Next]_(Index!vars) => [Index!NoImprovement]_(Index!vars)
  <2> SUFFICES ASSUME IndexInv, Index!Next, Index!InRange(evidence'),
                      Index!ConditionIndex(evidence) # Index!Missing
               PROVE  Index!ConditionIndex(evidence') <= Index!ConditionIndex(evidence)
    BY DEF Index!NoImprovement
  <2>1. evidence \in Index!Evidence /\ evidence' \in Index!Evidence
        /\ Worse(evidence, evidence')
    BY ItWorsens DEF IndexInv
  <2>2. /\ Index!Score(evidence) \in Nat
        /\ Index!Score(evidence') <= Index!Score(evidence)
    BY <2>1, ScoreFalls
  <2>3. Index!ConditionIndex(evidence) = Index!Score(evidence)
    BY DEF Index!ConditionIndex
  <2>4. Index!ConditionIndex(evidence') \in {Index!Missing, Index!Score(evidence')}
    BY DEF Index!ConditionIndex
  <2> QED BY <2>2, <2>3, <2>4 DEF Index!Missing
<1> QED BY <1>1, <1>2, <1>3, <1>4, PTL DEF Index!Spec, Index!IndexIsHonest

-----------------------------------------------------------------------------
(* The health report and the gate of the fan commands (Health), for any     *)
(* number of sensors, readings and channels.                                *)

(* Every set of natural numbers has a least element.                        *)
LEMMA Least ==
  ASSUME NEW T, T \subseteq Nat, T # {}
  PROVE  \E x \in T : \A y \in T : x <= y
<1> DEFINE Below == {ss \in Nat \X Nat : ss[1] < ss[2]}
<1>1. IsWellFoundedOn(Below, Nat)
  <2>1. OpToRel(<, Nat) = Below
    BY Zenon DEF OpToRel
  <2>2. QED
    BY <2>1, NatLessThanWellFounded, Zenon
<1> HIDE DEF Below
<1>2. PICK x \in T : \A y \in T : ~(<<y, x>> \in Below)
  BY <1>1, WFMin, Zenon
<1>3. ASSUME NEW y \in T
      PROVE  x <= y
  <2>1. ~(y < x)
    BY <1>2 DEF Below
  <2>2. QED
    BY <2>1
<1>4. QED
  BY <1>3

HealthInv ==
  /\ \E n \in Nat : host \in [1..n -> Report!HostSensors]
  /\ vendor \in Readings /\ {late, integrity, minor} \subseteq BOOLEAN

LEMMA HealthInvHolds ==
  ASSUME Report!HealthAssumption
  PROVE  Report!Spec => []HealthInv
<1>1. Report!Init => HealthInv
  <2> SUFFICES ASSUME Report!Init
               PROVE  HealthInv
    OBVIOUS
  <2>1. PICK n \in 0..MaxSensors : host \in [1..n -> Report!HostSensors]
    BY Zenon DEF Report!Init
  <2>2. n \in Nat
    BY DEF Report!HealthAssumption
  <2>3. QED
    BY <2>1, <2>2 DEF Report!Init, HealthInv
<1>2. HealthInv /\ [Report!Next]_(Report!vars) => HealthInv'
  <2> SUFFICES ASSUME HealthInv, [Report!Next]_(Report!vars)
               PROVE  HealthInv'
    OBVIOUS
  <2>1. PICK n \in Nat : host \in [1..n -> Report!HostSensors]
    BY DEF HealthInv
  <2>2. CASE Report!HeatChanges
    <3>1. ASSUME NEW i \in DOMAIN host, NEW t \in Readings,
                 host' = [host EXCEPT ![i].temperature = t]
          PROVE  host' \in [1..n -> Report!HostSensors]
      <4>1. i \in 1..n /\ host[i] \in Report!HostSensors
        BY <2>1
      <4>2. [host[i] EXCEPT !.temperature = t] \in Report!HostSensors
        BY <4>1 DEF Report!HostSensors
      <4>3. QED
        BY <2>1, <3>1, <4>2
    <3>2. host' \in [1..n -> Report!HostSensors]
      BY <2>1, <2>2, <3>1 DEF Report!HeatChanges
    <3>3. QED
      BY <2>2, <3>2 DEF HealthInv, Report!HeatChanges
  <2>3. CASE Report!FanChanges \/ Report!ConditionChanges \/ UNCHANGED Report!vars
    BY <2>3 DEF HealthInv, Report!FanChanges, Report!ConditionChanges, Report!vars
  <2>4. QED
    BY <2>2, <2>3 DEF Report!Next
<1>3. QED
  BY <1>1, <1>2, PTL DEF Report!Spec

(* Of one sensor at most, the first is the last.                            *)
LEMMA OneSensor ==
  ASSUME HealthInv, NEW kind, Report!Cardinality(Report!Matching(kind)) <= 1
  PROVE  \A i, j \in Report!Matching(kind) : i = j
<1>1. \A S : Report!Cardinality(S) = Cardinality(S)
  BY DEF Report!Cardinality, Cardinality
<1>2. PICK n \in Nat : host \in [1..n -> Report!HostSensors]
  BY DEF HealthInv
<1>3. IsFiniteSet(Report!Matching(kind))
  <2>1. IsFiniteSet(1..n)
    BY FS_Interval
  <2>2. Report!Matching(kind) \subseteq 1..n
    BY <1>2 DEF Report!Matching
  <2>3. QED
    BY <2>1, <2>2, FS_Subset
<1>4. Cardinality(Report!Matching(kind)) \in Nat
  BY <1>3, FS_CardinalityType
<1>5. Cardinality(Report!Matching(kind)) = 0 \/ Cardinality(Report!Matching(kind)) = 1
  BY <1>1, <1>4
<1>6. CASE Cardinality(Report!Matching(kind)) = 0
  BY <1>3, <1>6, FS_EmptySet
<1>7. CASE Cardinality(Report!Matching(kind)) = 1
  BY <1>3, <1>7, FS_Singleton
<1>8. QED
  BY <1>5, <1>6, <1>7

LEMMA FirstIsLast ==
  ASSUME HealthInv, NEW kind, \A i, j \in Report!Matching(kind) : i = j
  PROVE  Report!First(kind) = Report!Last(kind)
<1>1. CASE Report!Matching(kind) = {}
  BY <1>1 DEF Report!First, Report!Last
<1>2. CASE Report!Matching(kind) # {}
  <2>1. PICK i : Report!Matching(kind) = {i}
    BY <1>2
  <2>2. i \in Int
    <3>1. PICK n \in Nat : host \in [1..n -> Report!HostSensors]
      BY DEF HealthInv
    <3>2. QED
      BY <2>1, <3>1 DEF Report!Matching
  <2>3. Report!Min({i}) = i /\ Report!Max({i}) = i
    BY <2>2 DEF Report!Min, Report!Max
  <2>4. CASE Report!Usable(host[i].temperature)
    <3>1. {j \in Report!Matching(kind) : Report!Usable(host[j].temperature)} = {i}
      BY <2>1, <2>4
    <3>2. QED
      BY <2>1, <2>3, <2>4, <3>1 DEF Report!First, Report!Last
  <2>5. CASE ~Report!Usable(host[i].temperature)
    <3>1. {j \in Report!Matching(kind) : Report!Usable(host[j].temperature)} = {}
      BY <2>1, <2>5
    <3>2. QED
      BY <2>1, <2>3, <2>5, <3>1 DEF Report!First, Report!Last
  <2>6. QED
    BY <2>4, <2>5
<1>3. QED
  BY <1>1, <1>2

(* What either collector takes for a temperature is none or usable.         *)
LEMMA NoneOrUsable ==
  ASSUME Report!HealthAssumption, HealthInv
  PROVE  /\ \A kind : \/ Report!First(kind) = Report!None
                      \/ Report!First(kind) \in Int /\ Report!Usable(Report!First(kind))
         /\ vendor \in Int
<1>1. PICK n \in Nat : host \in [1..n -> Report!HostSensors]
  BY DEF HealthInv
<1>2. \A i \in 1..n : host[i].temperature \in Int
  BY <1>1 DEF Report!HostSensors, Report!HealthAssumption
<1>3. ASSUME NEW kind, Report!Matching(kind) # {}
      PROVE  host[Report!Min(Report!Matching(kind))].temperature \in Int
  <2>1. Report!Matching(kind) \subseteq Nat
    BY <1>1 DEF Report!Matching
  <2>2. \E x \in Report!Matching(kind) : \A y \in Report!Matching(kind) : x <= y
    BY <1>3, <2>1, Least
  <2>3. Report!Min(Report!Matching(kind)) \in Report!Matching(kind)
    BY <2>2 DEF Report!Min
  <2>4. QED
    BY <1>1, <1>2, <2>3 DEF Report!Matching
<1>4. QED
  BY <1>3 DEF Report!First, Report!HealthAssumption, HealthInv

(* On a machine with one processor sensor, and a graphics processor read    *)
(* through its vendor's tool if at all, both collectors see the same.       *)
LEMMA SameMetrics ==
  ASSUME HealthInv, Report!Cardinality(Report!Matching("cpu")) <= 1,
         Report!Matching("gpu") = {} \/ Report!Usable(vendor), ~late
  PROVE  Report!collectMetrics = Report!collectHardwareControlSafetyMetrics
<1>1. Report!First("cpu") = Report!Last("cpu")
  BY OneSensor, FirstIsLast
<1>2. Report!Matching("gpu") = {} => Report!Last("gpu") = Report!None
  BY DEF Report!Last
<1>3. QED
  BY <1>1, <1>2 DEF Report!collectMetrics, Report!collectHardwareControlSafetyMetrics

LEMMA HealthAgrees ==
  ASSUME Report!HealthAssumption, HealthInv
  PROVE  Report!HealthAgreesWithGate
<1> SUFFICES ASSUME Report!Cardinality(Report!Matching("cpu")) <= 1,
                    Report!Matching("gpu") = {} \/ Report!Usable(vendor), ~late,
                    NEW f \in Report!Controllable
             PROVE  /\ ~Report!GateAllows(f, 99) <=>
                         \/ Report!Overtemperature(Report!collectMetrics)
                         \/ ~Report!collectMetrics.thermal
                    /\ Report!RecoveryAction(Report!collectMetrics) = "emergency-cooling"
                         => Report!GateAllows(f, 100)
  BY DEF Report!HealthAgreesWithGate
<1> DEFINE m == Report!collectMetrics
<1>1. m = Report!collectHardwareControlSafetyMetrics
  BY SameMetrics
<1>2. PICK cpu, gpu : /\ m = Report!Metrics(cpu, gpu)
                      /\ cpu = Report!None \/ (cpu \in Int /\ Report!Usable(cpu))
                      /\ gpu = Report!None \/ (gpu \in Int /\ Report!Usable(gpu))
  BY NoneOrUsable DEF Report!collectMetrics
<1>3. /\ m.cpu = cpu /\ m.gpu = gpu /\ m.channels = Report!Controllable
      /\ m.thermal = (Report!Usable(cpu) \/ Report!Usable(gpu))
  BY <1>2 DEF Report!Metrics
<1> HIDE DEF m
<1>4. cpu \in Int /\ gpu \in Int
  BY <1>2 DEF Report!None
<1>5. Report!validateThermalTelemetry(m) <=> m.thermal
  BY <1>2, <1>3 DEF Report!validateThermalTelemetry, Report!Usable
<1>6. Report!hasCriticalThermalState(m) <=> Report!Overtemperature(m)
  BY <1>3 DEF Report!hasCriticalThermalState, Report!Overtemperature
<1>7. ~Report!GateAllows(f, 99) <=> Report!Overtemperature(m) \/ ~m.thermal
  BY <1>1, <1>3, <1>5, <1>6 DEF Report!GateAllows, m
<1>8. m.thermal => Report!GateAllows(f, 100)
  BY <1>1, <1>3, <1>5 DEF Report!GateAllows, m
<1>9. Report!RecoveryAction(m) = "emergency-cooling" => m.thermal
  BY DEF Report!RecoveryAction
<1>10. QED
  BY <1>7, <1>8, <1>9 DEF m

-----------------------------------------------------------------------------
(* The machine as a whole: a behaviour stays with the part it began with.   *)

InPower == part = "power"
InReport == part = "report"
InIndex == part = "index"

LEMMA PowerPart ==
  /\ HardwareInit /\ InPower => Power!Init
  /\ InPower /\ [HardwareNext]_all => InPower' /\ [Power!Next]_(Power!vars)
  /\ ~InPower /\ [HardwareNext]_all => ~InPower'
BY Zenon DEF InPower, HardwareInit, HardwareNext, all, power, Power!vars, Power!bounds

LEMMA ReportPart ==
  /\ HardwareInit /\ InReport => Report!Init
  /\ InReport /\ [HardwareNext]_all => InReport' /\ [Report!Next]_(Report!vars)
  /\ ~InReport /\ [HardwareNext]_all => ~InReport'
BY Zenon DEF InReport, HardwareInit, HardwareNext, all, report, Report!vars

LEMMA IndexPart ==
  /\ HardwareInit /\ InIndex => Index!Init
  /\ InIndex /\ [HardwareNext]_all => InIndex' /\ [Index!Next]_(Index!vars)
  /\ ~InIndex /\ [HardwareNext]_all => ~InIndex'
BY Zenon DEF InIndex, HardwareInit, HardwareNext, all, Index!vars

(* A power mode is reported as set only if it was active at some time       *)
(* during the command (setPlatformPowerMode).                               *)
THEOREM SuccessWasTrueHolds == HardwareSpec => []SuccessWasTrue
<1>1. Power!Spec => []Power!SuccessWasTrue
  BY PowerSuccessWasTrue, HardwareAssumption
<1>2. (InPower => Power!SuccessWasTrue) => SuccessWasTrue
  BY DEF SuccessWasTrue, InPower
<1>3. QED
  BY <1>1, <1>2, PowerPart, PTL DEF HardwareSpec, Power!Spec

(* The report of "Get Health" and the gate of the fan commands agree on any *)
(* machine with one processor sensor whose graphics processor, if it has    *)
(* one, is read through its vendor's tool in time.                          *)
THEOREM HealthAgreesWithGateHolds == HardwareSpec => []HealthAgreesWithGate
<1>1. Report!Spec => []HealthInv
  BY HealthInvHolds, HardwareAssumption
<1>2. (InReport => HealthInv) => HealthAgreesWithGate
  BY HealthAgrees, HardwareAssumption DEF HealthAgreesWithGate, InReport
<1>3. QED
  BY <1>1, <1>2, ReportPart, PTL DEF HardwareSpec, Report!Spec

(* Worse evidence never improves the condition index (healthycore.Evaluate),*)
(* and none is given without a measurement.                                 *)
THEOREM IndexIsHonestHolds == HardwareSpec => IndexIsHonest
<1> DEFINE Honest == InIndex => Index!Founded
           Step == part = "index" => Index!NoImprovement
<1>1. Index!Spec => []Index!Founded /\ [][Index!NoImprovement]_(Index!vars)
  BY IndexStaysHonest, HardwareAssumption DEF Index!IndexIsHonest
<1>2. Honest <=> (part = "index" => Index!Founded)
  BY DEF InIndex
<1>3. InIndex /\ [HardwareNext]_all /\ [Index!NoImprovement]_(Index!vars) => [Step]_all
  BY Zenon DEF InIndex, HardwareNext, all, Index!vars
<1>4. ~InIndex => [Step]_all
  BY Zenon DEF InIndex
<1> HIDE DEF Step
<1>5. HardwareSpec => []Honest /\ [][Step]_all
  BY <1>1, <1>3, <1>4, IndexPart, PTL DEF HardwareSpec, Index!Spec
<1>6. QED
  BY <1>2, <1>5, PTL DEF IndexIsHonest, Step
===========================================================================
