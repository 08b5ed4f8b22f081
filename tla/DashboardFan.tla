---------------------------- MODULE DashboardFan ----------------------------
(***************************************************************************)
(* Fan automation of the dashboard (gui_dashboard/lib/main.dart): a poll   *)
(* reads the bridge's status once and then acts on it, first for Game Mode *)
(* and then for emergency cooling or the fan curves, one awaited command   *)
(* per channel. Temperatures, the game and the fan channels go on changing *)
(* while a poll acts on what it read. The curves are not evaluated here:   *)
(* a channel's curve, hysteresis, rule and switches ask for any target or  *)
(* for none (see FanCurve and FanController).                              *)
(***************************************************************************)
EXTENDS Integers, Sequences, SequencesExt, FiniteSetsExt

CONSTANTS
  Channels,      \* the supported channels, in the order of the status
  Games,         \* processes that count as games
  GameTarget,    \* the fan value a game's profile asks for
  Targets,       \* values a curve or the user may ask for
  InitialLevel,  \* the value the channels have at first, which others have set
  Readings,      \* temperatures in degrees; 0 is a sensor without a reading
  MaxChanges,    \* bound: changes of a temperature
  MaxGames,      \* bound: starts and ends of games
  MaxFailures,   \* bound: commands that fail
  MaxUser        \* bound: commands of the user

ASSUME DashboardAssumption ==
  /\ Channels \in Seq(ToSet(Channels))
  /\ GameTarget \in 20..100 /\ Targets \subseteq 20..100 /\ InitialLevel \in 0..100
  /\ Readings \subseteq 0..125
  /\ {MaxChanges, MaxGames, MaxFailures, MaxUser} \subseteq Nat

Full == 100
NoGame == "none"
Chans == ToSet(Channels)
Sensors == {"cpu", "gpu"}

VARIABLES
  temp,      \* the sensors
  game,      \* the game that runs, if any
  level,     \* the value each channel has been set to
  status,    \* what the poll read: temperatures, game, channel values
  pc,        \* what the poll is doing
  todo,      \* channels that its loop has not come to
  allOk,     \* whether the loop's commands succeeded so far
  latch,     \* _emergencyCoolingActive
  applied,   \* _activeGameProfileProcess while _gameProfileApplied
  baseline,  \* _preGameFanChannelValues
  used,      \* changes, games, failures and user commands so far
  alarm      \* history: a poll saw a critical temperature, none since saw all cool

vars == <<temp, game, level, status, pc, todo, allOk, latch, applied, baseline, used, alarm>>
environment == <<temp, game>>
session == <<applied, baseline>>

-----------------------------------------------------------------------------
(* Thermal state *)

(* isUsableFanTemperature; the bridge's test agrees with it here.           *)
Usable(t) == t > 0
CriticalThermal(t) == \E s \in Sensors : Usable(t[s]) /\ t[s] >= 95

EmergencyReleaseReached(t) ==
  /\ \E s \in Sensors : Usable(t[s])
  /\ \A s \in Sensors : Usable(t[s]) => t[s] < 92

-----------------------------------------------------------------------------
(* Commands *)

(* What the bridge lets through at this moment (see FanSafety).             *)
Permitted(value) ==
  /\ \E s \in Sensors : Usable(temp[s])
  /\ CriticalThermal(temp) => value >= Full

(* The first guard of _sendCommand.                                         *)
Refuses(value) == latch /\ value < Full

(* A command of channel c and what follows its success and its failure. An  *)
(* answer that is lost leaves the channel set.                              *)
Send(c, value, succeeded, failed) ==
  \/ /\ ~Refuses(value) /\ Permitted(value)
     /\ level' = [level EXCEPT ![c] = value]
     /\ succeeded
     /\ UNCHANGED used
  \/ /\ Refuses(value) \/ ~Permitted(value)
     /\ failed
     /\ UNCHANGED <<level, used>>
  \/ /\ ~Refuses(value)
     /\ used.failures < MaxFailures
     /\ used' = [used EXCEPT !.failures = @ + 1]
     /\ \/ UNCHANGED level
        \/ Permitted(value) /\ level' = [level EXCEPT ![c] = value]
     /\ failed

Goto(phase, ok) == pc' = phase /\ todo' = Channels /\ allOk' = ok

-----------------------------------------------------------------------------
(* _applyAutomaticFanControl: what it does with the status                  *)

(* Mutant: the latch is lifted as soon as nothing is critical.              *)
AutomaticEager(t) ==
  /\ latch' = (latch /\ CriticalThermal(t))
  /\ Goto(IF CriticalThermal(t) THEN "emergency" ELSE "curves", TRUE)

Automatic(t) ==
  /\ latch' = (latch /\ ~EmergencyReleaseReached(t))
  /\ Goto(IF latch' \/ CriticalThermal(t) THEN "emergency" ELSE "curves", TRUE)

EndPoll == pc' = "idle" /\ todo' = <<>> /\ allOk' = TRUE

Step == todo' = Tail(todo) /\ UNCHANGED <<pc, allOk, latch>>
StepFailed == todo' = Tail(todo) /\ allOk' = FALSE /\ UNCHANGED <<pc, latch>>

(* Mutant: a channel at the game's value is taken to be fast enough.        *)
EmergencyStepLenient ==
  /\ pc = "emergency" /\ todo # <<>>
  /\ IF status.level[Head(todo)] >= GameTarget
     THEN Step /\ UNCHANGED <<level, used>>
     ELSE Send(Head(todo), Full, Step, StepFailed)
  /\ UNCHANGED <<environment, status, session, alarm>>

(* _sendEmergencyCoolingTarget: a channel that the status reported at full  *)
(* speed is left alone.                                                     *)
EmergencyStep ==
  /\ pc = "emergency" /\ todo # <<>>
  /\ IF status.level[Head(todo)] = Full
     THEN Step /\ UNCHANGED <<level, used>>
     ELSE Send(Head(todo), Full, Step, StepFailed)
  /\ UNCHANGED <<environment, status, session, alarm>>

EmergencyEnd ==
  /\ pc = "emergency" /\ todo = <<>>
  /\ latch' = (latch \/ allOk)
  /\ EndPoll
  /\ UNCHANGED <<environment, level, status, session, used, alarm>>

(* Mutant: the game's value is not a floor for the curve.                   *)
CurveTargetNoFloor(c, target) == target

(* The game's value is a floor and its session never lowers a channel.      *)
CurveTarget(c, target) ==
  IF applied = NoGame THEN target ELSE Max({target, status.level[c], GameTarget})

CurveStep ==
  /\ pc = "curves" /\ todo # <<>>
  /\ \/ \E target \in Targets :
          Send(Head(todo), CurveTarget(Head(todo), target), Step, Step)
     \/ Step /\ UNCHANGED <<level, used>>
  /\ UNCHANGED <<environment, status, session, alarm>>

CurvesEnd ==
  /\ pc = "curves" /\ todo = <<>>
  /\ EndPoll
  /\ UNCHANGED <<environment, level, status, latch, session, used, alarm>>

-----------------------------------------------------------------------------
(* _applyGameModeProfile *)

Detected == status.game # NoGame

(* No value below 20 is ever to be asked for.                               *)
Baseline(levels) == [c \in Chans |-> Max({20, levels[c]})]

RestoreStep ==
  /\ pc = "restore" /\ todo # <<>>
  /\ Send(Head(todo), baseline[Head(todo)], Step, StepFailed)
  /\ UNCHANGED <<environment, status, session, alarm>>

(* The baseline is kept when one game follows another.                      *)
RestoreEnd ==
  /\ pc = "restore" /\ todo = <<>>
  /\ IF allOk
     THEN /\ applied' = NoGame
          /\ IF Detected
             THEN Goto("apply", TRUE) /\ UNCHANGED latch
             ELSE Automatic(status.temp)
          /\ UNCHANGED baseline
     ELSE Automatic(status.temp) /\ UNCHANGED session
  /\ UNCHANGED <<environment, level, status, used, alarm>>

ApplyStep ==
  /\ pc = "apply" /\ todo # <<>>
  /\ Send(Head(todo), GameTarget, Step, Goto("rollback", TRUE) /\ UNCHANGED latch)
  /\ UNCHANGED <<environment, status, session, alarm>>

ApplyEnd ==
  /\ pc = "apply" /\ todo = <<>>
  /\ applied' = status.game
  /\ Automatic(status.temp)
  /\ UNCHANGED <<environment, level, status, baseline, used, alarm>>

RollbackStep ==
  /\ pc = "rollback" /\ todo # <<>>
  /\ Send(Head(todo), baseline[Head(todo)], Step, Step)
  /\ UNCHANGED <<environment, status, session, alarm>>

RollbackEnd ==
  /\ pc = "rollback" /\ todo = <<>>
  /\ Automatic(status.temp)
  /\ UNCHANGED <<environment, level, status, session, used, alarm>>

(* _refreshMetrics: the status arrives and the poll begins with Game Mode.  *)
Poll ==
  /\ pc = "idle"
  /\ status' = [temp |-> temp, game |-> game, level |-> level]
  /\ alarm' = (CriticalThermal(temp) \/ (alarm /\ ~EmergencyReleaseReached(temp)))
  /\ CASE applied # NoGame /\ game # applied ->
            Goto("restore", TRUE) /\ UNCHANGED <<latch, session>>
       [] applied = NoGame /\ game # NoGame ->
            /\ baseline' = Baseline(level)
            /\ Goto("apply", TRUE)
            /\ UNCHANGED <<latch, applied>>
       [] OTHER ->
            Automatic(temp) /\ UNCHANGED session
  /\ UNCHANGED <<environment, level, used>>

-----------------------------------------------------------------------------
(* The user and the machine *)

(* _applyFanChannelManualTarget; no command is sent while another is.       *)
UserCommand(c, value) ==
  /\ pc = "idle"
  /\ used.user < MaxUser
  /\ ~Refuses(value) /\ Permitted(value)
  /\ level' = [level EXCEPT ![c] = value]
  /\ used' = [used EXCEPT !.user = @ + 1]
  /\ UNCHANGED <<environment, status, pc, todo, allOk, latch, session, alarm>>

TemperatureChanges(s, reading) ==
  /\ used.changes < MaxChanges
  /\ temp' = [temp EXCEPT ![s] = reading]
  /\ temp' # temp
  /\ used' = [used EXCEPT !.changes = @ + 1]
  /\ UNCHANGED <<game, level, status, pc, todo, allOk, latch, session, alarm>>

GameChanges(g) ==
  /\ g # game
  /\ used.games < MaxGames
  /\ game' = g
  /\ used' = [used EXCEPT !.games = @ + 1]
  /\ UNCHANGED <<temp, level, status, pc, todo, allOk, latch, session, alarm>>

-----------------------------------------------------------------------------

Init ==
  /\ temp = [s \in Sensors |-> Min(Readings \ {0})]
  /\ game = NoGame
  /\ level = [c \in Chans |-> InitialLevel]
  /\ status = [temp |-> temp, game |-> game, level |-> level]
  /\ pc = "idle" /\ todo = <<>> /\ allOk = TRUE
  /\ latch = FALSE /\ alarm = FALSE
  /\ applied = NoGame
  /\ baseline = [c \in Chans |-> 20]
  /\ used = [changes |-> 0, games |-> 0, failures |-> 0, user |-> 0]

PollStep ==
  \/ EmergencyStep \/ EmergencyEnd \/ CurveStep \/ CurvesEnd
  \/ RestoreStep \/ RestoreEnd \/ ApplyStep \/ ApplyEnd \/ RollbackStep \/ RollbackEnd

Next ==
  \/ Poll
  \/ PollStep
  \/ \E c \in Chans, value \in Targets : UserCommand(c, value)
  \/ \E s \in Sensors, reading \in Readings : TemperatureChanges(s, reading)
  \/ \E g \in Games \union {NoGame} : GameChanges(g)

Spec == Init /\ [][Next]_vars

(* Polls go on every five seconds and their steps end by timeout.           *)
FairSpec == Spec /\ WF_vars(Poll) /\ WF_vars(PollStep)

-----------------------------------------------------------------------------
(* Properties *)

(* Types of the variables; a game's baseline is never below 20.              *)
TypeOK ==
  /\ temp \in [Sensors -> Readings]
  /\ game \in Games \union {NoGame} /\ applied \in Games \union {NoGame}
  /\ level \in [Chans -> 0..100] /\ baseline \in [Chans -> 20..100]
  /\ status \in [temp : [Sensors -> Readings], game : Games \union {NoGame}, level : [Chans -> 0..100]]
  /\ pc \in {"idle", "emergency", "curves", "restore", "apply", "rollback"}
  /\ IsSuffix(todo, Channels)
  /\ {allOk, latch, alarm} \subseteq BOOLEAN

Lowered == \E c \in Chans : level'[c] < level[c]

(* From the moment every channel was told to go to full speed, neither the  *)
(* curves, nor Game Mode, nor the user lowers a channel, over any number of *)
(* polls, of failed commands and of sensors that come and go, until a poll  *)
(* reads a temperature and reads none of 92 degrees or more.                *)
LatchedUntilCool ==
  [][latch => /\ ~Lowered
              /\ ~latch' => EmergencyReleaseReached(status'.temp)]_vars

(* As long as a poll finds the game whose session is open, automation takes *)
(* no channel below the game's value that was not already below it.         *)
GameIsAFloor ==
  [][pc # "idle" /\ applied # NoGame /\ status.game = applied
       => \A c \in Chans : level'[c] >= Min({level[c], GameTarget})]_vars

(* "emergency cooling ... stays latched until every available valid CPU/GPU *)
(* temperature falls below 92": once a poll saw a critical temperature no   *)
(* channel is lowered until a poll saw them all cool.                       *)
AlarmHolds == [][alarm /\ alarm' => ~Lowered]_vars

(* While the sensors go on reporting a critical temperature and commands    *)
(* stop failing, every channel gets to full speed.                          *)
EmergencyCools ==
  <>[](CriticalThermal(temp)) => <>[](\A c \in Chans : level[c] = Full)
=============================================================================
