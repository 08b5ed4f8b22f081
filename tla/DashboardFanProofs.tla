------------------------- MODULE DashboardFanProofs -------------------------
(***************************************************************************)
(* Theorems about DashboardFan, for any number of channels, games, polls and *)
(* failures.                                                               *)
(***************************************************************************)
EXTENDS DashboardFan, SequenceTheorems, TLAPS

(* Levels are percentages, and no command asks for less than 20.            *)
Values ==
  /\ level \in [Chans -> 0..100]
  /\ baseline \in [Chans -> 20..100]
  /\ status.level \in [Chans -> 0..100]
  /\ todo \in Seq(Chans)

(* The baseline is restored only for a session whose game is gone, and the  *)
(* game's value is applied only when no session is open.                    *)
Sessions ==
  /\ pc = "restore" => applied # NoGame /\ status.game # applied
  /\ pc \in {"apply", "rollback"} => applied = NoGame

LEMMA MaxOfThree ==
  ASSUME NEW a \in 20..100, NEW b \in 0..100, NEW c \in 20..100
  PROVE  Max({a, b, c}) \in 20..100 /\ Max({a, b, c}) >= c
<1>1. \E x \in {a, b, c} : \A y \in {a, b, c} : x >= y
  OBVIOUS
<1>2. /\ Max({a, b, c}) \in {a, b, c}
      /\ \A y \in {a, b, c} : Max({a, b, c}) >= y
  BY <1>1 DEF Max
<1> DEFINE m == Max({a, b, c})
<1>3. m \in {a, b, c} /\ m >= a /\ m >= c
  BY <1>2
<1> HIDE DEF m
<1>4. m \in 20..100 /\ m >= c
  BY <1>3
<1>5. QED
  BY <1>4 DEF m

LEMMA MaxOfTwo ==
  ASSUME NEW b \in 0..100
  PROVE  Max({20, b}) \in 20..100
<1>1. \E x \in {20, b} : \A y \in {20, b} : x >= y
  OBVIOUS
<1>2. Max({20, b}) \in {20, b} /\ \A y \in {20, b} : Max({20, b}) >= y
  BY <1>1 DEF Max
<1>3. QED
  BY <1>2

LEMMA BaselineType ==
  ASSUME NEW levels \in [Chans -> 0..100]
  PROVE  Baseline(levels) \in [Chans -> 20..100]
<1>1. ASSUME NEW c \in Chans
      PROVE  Max({20, levels[c]}) \in 20..100
  BY MaxOfTwo, Zenon
<1>2. QED
  BY <1>1 DEF Baseline

(* What a curve asks for, raised to the game's value while a session is     *)
(* open.                                                                    *)
LEMMA CurveTargetType ==
  ASSUME DashboardAssumption, Values, NEW c \in Chans, NEW target \in Targets
  PROVE  /\ CurveTarget(c, target) \in 20..100
         /\ applied # NoGame => CurveTarget(c, target) >= GameTarget
<1>1. target \in 20..100 /\ GameTarget \in 20..100 /\ status.level[c] \in 0..100
  BY DEF DashboardAssumption, Values
<1>2. /\ Max({target, status.level[c], GameTarget}) \in 20..100
      /\ Max({target, status.level[c], GameTarget}) >= GameTarget
  BY <1>1, MaxOfThree, Zenon
<1>3. QED
  BY <1>1, <1>2, Zenon DEF CurveTarget

LEMMA LevelsType ==
  ASSUME Values
  PROVE  level \in [Chans -> 0..100]
BY Zenon DEF Values

LEMMA Percentages ==
  /\ \A x \in 0..100 : x \in Int /\ ~(x < x)
  /\ \A v \in 20..100 : v \in Int
  /\ \A x \in 0..100, v \in 20..100 : ~(v < 100) => ~(v < x)
OBVIOUS

(* One channel set to another value.                                        *)
LEMMA SetLevel ==
  ASSUME NEW C, NEW f \in [C -> 0..100], NEW c \in C, NEW v \in 20..100
  PROVE  /\ [f EXCEPT ![c] = v] \in [C -> 0..100]
         /\ \A d \in C : [f EXCEPT ![c] = v][d] = IF d = c THEN v ELSE f[d]
OBVIOUS

LEMMA HeadOfTodo ==
  ASSUME Values, todo # <<>>
  PROVE  Head(todo) \in Chans /\ Tail(todo) \in Seq(Chans)
BY HeadTailProperties DEF Values

(* What a step may do to the channels: nothing, or set one of them to a     *)
(* value that the latch lets pass and, in a session that goes on, that is   *)
(* not below the game's.                                                    *)
Command ==
  \E c \in Chans, v \in 20..100 :
    /\ level' = [level EXCEPT ![c] = v]
    /\ ~Refuses(v)
    /\ pc # "idle" /\ applied # NoGame /\ status.game = applied => v >= GameTarget

LEMMA Commands ==
  ASSUME DashboardAssumption, Values, Sessions, [Next]_vars
  PROVE  UNCHANGED level \/ Command
<1>1. GameTarget \in 20..100 /\ Targets \subseteq 20..100
  BY DEF DashboardAssumption
<1>2. CASE EmergencyStep
  <2>1. Head(todo) \in Chans /\ Full \in 20..100 /\ Full >= GameTarget
    BY <1>1, <1>2, HeadOfTodo DEF EmergencyStep, Full
  <2>2. UNCHANGED level \/ (level' = [level EXCEPT ![Head(todo)] = Full] /\ ~Refuses(Full))
    BY <1>2, Zenon DEF EmergencyStep, Send
  <2>3. QED
    BY <2>1, <2>2 DEF Command
<1>3. CASE CurveStep
  <2>1. Head(todo) \in Chans
    BY <1>3, HeadOfTodo DEF CurveStep
  <2>2. UNCHANGED level \/ \E target \in Targets :
          /\ level' = [level EXCEPT ![Head(todo)] = CurveTarget(Head(todo), target)]
          /\ ~Refuses(CurveTarget(Head(todo), target))
    BY <1>3, Zenon DEF CurveStep, Send
  <2>3. QED
    BY <2>1, <2>2, CurveTargetType DEF Command
<1>4. CASE RestoreStep \/ RollbackStep
  <2>1. Head(todo) \in Chans /\ baseline[Head(todo)] \in 20..100
    BY <1>4, HeadOfTodo DEF RestoreStep, RollbackStep, Values
  <2>2. UNCHANGED level \/ /\ level' = [level EXCEPT ![Head(todo)] = baseline[Head(todo)]]
                           /\ ~Refuses(baseline[Head(todo)])
    BY <1>4, Zenon DEF RestoreStep, RollbackStep, Send
  <2>3. ~(applied # NoGame /\ status.game = applied)
    BY <1>4 DEF RestoreStep, RollbackStep, Sessions
  <2>4. QED
    BY <2>1, <2>2, <2>3 DEF Command
<1>5. CASE ApplyStep
  <2>1. Head(todo) \in Chans
    BY <1>5, HeadOfTodo DEF ApplyStep
  <2>2. UNCHANGED level \/ (level' = [level EXCEPT ![Head(todo)] = GameTarget] /\ ~Refuses(GameTarget))
    BY <1>5, Zenon DEF ApplyStep, Send
  <2>3. GameTarget >= GameTarget
    BY <1>1
  <2>4. QED
    BY <1>1, <2>1, <2>2, <2>3, Zenon DEF Command
<1>6. ASSUME NEW c \in Chans, NEW value \in Targets, UserCommand(c, value)
      PROVE  Command
  BY <1>1, <1>6 DEF UserCommand, Command
<1>7. CASE UNCHANGED level
  BY <1>7
<1>8. QED
  BY <1>2, <1>3, <1>4, <1>5, <1>6, <1>7, Zenon DEF Next, PollStep, Poll, EmergencyEnd,
     CurvesEnd, RestoreEnd, ApplyEnd, RollbackEnd, TemperatureChanges,
     GameChanges, vars

LEMMA ValuesStep ==
  ASSUME DashboardAssumption, Values, Sessions, [Next]_vars
  PROVE  Values'
<1>1. level' \in [Chans -> 0..100]
  <2>1. CASE UNCHANGED level
    BY <2>1 DEF Values
  <2>2. CASE Command
    BY <2>2, LevelsType, SetLevel DEF Command
  <2>3. QED
    BY <2>1, <2>2, Commands
<1>2. Channels \in Seq(Chans)
  BY Zenon DEF DashboardAssumption, Chans
<1>3. todo' \in Seq(Chans)
  <2>1. CASE todo' = Channels
    BY <1>2, <2>1
  <2>2. CASE todo' = <<>> \/ UNCHANGED todo
    BY <2>2, EmptySeq DEF Values
  <2>3. CASE todo # <<>> /\ todo' = Tail(todo)
    BY <2>3, HeadOfTodo
  <2>4. QED
    BY <2>1, <2>2, <2>3, Zenon DEF Next, PollStep, Poll, EmergencyStep, EmergencyEnd,
       CurveStep, CurvesEnd, RestoreStep, RestoreEnd, ApplyStep, ApplyEnd,
       RollbackStep, RollbackEnd, Send, Step, StepFailed, EndPoll, Automatic,
       Goto, UserCommand, TemperatureChanges, GameChanges, vars
<1>4. baseline' \in [Chans -> 20..100] /\ status'.level \in [Chans -> 0..100]
  <2>1. CASE Poll
    <3>1. baseline' = baseline \/ baseline' = Baseline(level)
      BY <2>1, Zenon DEF Poll, session
    <3>2. baseline' \in [Chans -> 20..100]
      BY <3>1, BaselineType DEF Values
    <3>3. status'.level = level
      BY <2>1 DEF Poll
    <3>4. QED
      BY <3>2, <3>3 DEF Values
  <2>2. CASE UNCHANGED <<baseline, status>>
    BY <2>2 DEF Values
  <2>3. QED
    BY <2>1, <2>2, Zenon DEF Next, PollStep, EmergencyStep, EmergencyEnd, CurveStep,
       CurvesEnd, RestoreStep, RestoreEnd, ApplyStep, ApplyEnd, RollbackStep,
       RollbackEnd, UserCommand, TemperatureChanges, GameChanges, session, vars
<1>5. QED
  BY <1>1, <1>3, <1>4 DEF Values

LEMMA SessionsStep ==
  ASSUME Sessions, [Next]_vars
  PROVE  Sessions'
<1>1. CASE Poll
  BY <1>1 DEF Poll, Automatic, Goto, session, NoGame, Sessions
<1>2. CASE RestoreEnd
  BY <1>2 DEF RestoreEnd, Automatic, Goto, session, Sessions
<1>3. CASE ApplyStep
  <2>1. UNCHANGED <<applied, status>> /\ pc' \in {pc, "rollback"} /\ pc = "apply"
    BY <1>3, Zenon DEF ApplyStep, Send, Step, Goto, session
  <2>2. QED
    BY <2>1 DEF Sessions
<1>4. ASSUME pc' \in {"idle", "emergency", "curves"}
      PROVE  Sessions'
  BY <1>4 DEF Sessions
<1>5. CASE UNCHANGED <<pc, applied, status>>
  BY <1>5 DEF Sessions
<1>6. CASE ApplyEnd \/ RollbackEnd \/ EmergencyEnd \/ CurvesEnd
  BY <1>4, <1>6 DEF ApplyEnd, RollbackEnd, EmergencyEnd, CurvesEnd, Automatic,
     Goto, EndPoll
<1>7. QED
  BY <1>1, <1>2, <1>3, <1>5, <1>6, Zenon DEF Next, PollStep, EmergencyStep, CurveStep,
     RestoreStep, RollbackStep, Send, Step, StepFailed, UserCommand,
     TemperatureChanges, GameChanges, session, vars

LEMMA AutomationHolds ==
  ASSUME DashboardAssumption
  PROVE  Spec => [](Values /\ Sessions)
<1>1. Init => Values /\ Sessions
  BY EmptySeq DEF Init, DashboardAssumption, Values, Sessions
<1>2. Values /\ Sessions /\ [Next]_vars => (Values /\ Sessions)'
  BY ValuesStep, SessionsStep
<1>3. QED
  BY <1>1, <1>2, PTL DEF Spec

(* Once _emergencyCoolingActive is set, neither the curves, nor Game Mode,  *)
(* nor the user lowers a channel, and it is cleared only by a poll that     *)
(* read a temperature and none of 92 degrees or more: however many          *)
(* channels, polls, failed commands and games there are.                    *)
THEOREM LatchedUntilCoolHolds ==
  ASSUME DashboardAssumption
  PROVE  Spec => LatchedUntilCool
<1> DEFINE Latched ==
      latch => /\ ~Lowered
               /\ ~latch' => EmergencyReleaseReached(status'.temp)
<1>1. Values /\ Sessions /\ [Next]_vars => [Latched]_vars
  <2> SUFFICES ASSUME Values, Sessions, Next, latch
               PROVE  ~Lowered /\ (~latch' => EmergencyReleaseReached(status'.temp))
    OBVIOUS
  <2>1. ~Lowered
    <3>1. CASE UNCHANGED level
      <4>1. \A d \in Chans : level[d] \in 0..100
        BY LevelsType
      <4>2. QED
        BY <3>1, <4>1, Percentages, Zenon DEF Lowered
    <3>2. CASE Command
      <4>1. PICK c \in Chans, v \in 20..100 :
              level' = [level EXCEPT ![c] = v] /\ ~Refuses(v)
        BY <3>2 DEF Command
      <4>2. ~(v < 100)
        BY <4>1, Zenon DEF Refuses, Full
      <4>3. ASSUME NEW d \in Chans
            PROVE  ~(level'[d] < level[d])
        <5>1. level[d] \in 0..100 /\ level'[d] = IF d = c THEN v ELSE level[d]
          BY <4>1, LevelsType, SetLevel
        <5>2. QED
          BY <4>2, <5>1, Percentages, Zenon
      <4>4. QED
        BY <4>3 DEF Lowered
    <3>3. QED
      BY <3>1, <3>2, Commands
  <2>2. ASSUME ~latch'
        PROVE  EmergencyReleaseReached(status'.temp)
    <3>1. CASE Poll
      <4>1. Automatic(temp)
        BY <2>2, <3>1 DEF Poll
      <4>2. status'.temp = temp
        BY <3>1 DEF Poll
      <4>3. QED
        BY <2>2, <4>1, <4>2, Zenon DEF Automatic
    <3>2. CASE Automatic(status.temp) /\ UNCHANGED status
      BY <2>2, <3>2, Zenon DEF Automatic
    <3>3. QED
      BY <2>2, <3>1, <3>2, Zenon DEF Next, PollStep, EmergencyStep, EmergencyEnd,
         CurveStep, CurvesEnd, RestoreStep, RestoreEnd, ApplyStep, ApplyEnd,
         RollbackStep, RollbackEnd, Send, Step, StepFailed, UserCommand,
         TemperatureChanges, GameChanges
  <2>3. QED
    BY <2>1, <2>2
<1> HIDE DEF Latched
<1>2. Spec => [][Latched]_vars
  BY <1>1, AutomationHolds, PTL DEF Spec
<1>3. QED
  BY <1>2 DEF LatchedUntilCool, Latched

LEMMA MinOfTwo ==
  ASSUME NEW a \in Int, NEW b \in Int
  PROVE  Min({a, b}) \in Int /\ a >= Min({a, b}) /\ b >= Min({a, b})
<1>1. \E x \in {a, b} : \A y \in {a, b} : x <= y
  OBVIOUS
<1>2. Min({a, b}) \in {a, b} /\ \A y \in {a, b} : Min({a, b}) <= y
  BY <1>1 DEF Min
<1>3. QED
  BY <1>2

(* While a poll finds the game whose session is open, no step of the        *)
(* automation takes a channel below the game's value that was not already   *)
(* below it: curves and emergency cooling only raise it, and the baseline   *)
(* is restored for no game but one that is gone.                            *)
THEOREM GameIsAFloorHolds ==
  ASSUME DashboardAssumption
  PROVE  Spec => GameIsAFloor
<1> DEFINE Floor ==
      pc # "idle" /\ applied # NoGame /\ status.game = applied
        => \A c \in Chans : level'[c] >= Min({level[c], GameTarget})
<1>1. Values /\ Sessions /\ [Next]_vars => [Floor]_vars
  <2> SUFFICES ASSUME Values, Sessions, Next,
                      pc # "idle", applied # NoGame, status.game = applied, NEW c \in Chans
               PROVE  level'[c] >= Min({level[c], GameTarget})
    OBVIOUS
  <2>1. GameTarget \in Int /\ level[c] \in Int
    <3>1. GameTarget \in 20..100
      BY Zenon DEF DashboardAssumption
    <3>2. GameTarget \in Int
      BY <3>1, Percentages, Zenon
    <3>3. level[c] \in 0..100
      BY LevelsType
    <3>4. QED
      BY <3>2, <3>3, Percentages, Zenon
  <2>2. level'[c] \in Int /\ (level'[c] >= level[c] \/ level'[c] >= GameTarget)
    <3>1. CASE UNCHANGED level
      BY <2>1, <3>1
    <3>2. CASE Command
      <4>1. PICK d \in Chans, v \in 20..100 : level' = [level EXCEPT ![d] = v] /\ v >= GameTarget
        BY <3>2 DEF Command
      <4>2. level'[c] = IF c = d THEN v ELSE level[c]
        BY <4>1, LevelsType, SetLevel
      <4>3. QED
        BY <2>1, <4>1, <4>2
    <3>3. QED
      BY <3>1, <3>2, Commands
  <2>3. /\ Min({level[c], GameTarget}) \in Int
        /\ level[c] >= Min({level[c], GameTarget}) /\ GameTarget >= Min({level[c], GameTarget})
    BY <2>1, MinOfTwo, Zenon
  <2>4. QED
    BY <2>1, <2>2, <2>3
<1> HIDE DEF Floor
<1>2. Spec => [][Floor]_vars
  BY <1>1, AutomationHolds, PTL DEF Spec
<1>3. QED
  BY <1>2 DEF GameIsAFloor, Floor
=============================================================================
