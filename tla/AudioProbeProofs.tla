-------------------------- MODULE AudioProbeProofs --------------------------
(***************************************************************************)
(* Theorems about AudioProbe, for any number of handlers, calls and        *)
(* launches of the probe process: a call of audioProbeControl returns the  *)
(* answer to its own line, a Stop that succeeded has silenced the stream,  *)
(* and the write to the process never waits.                               *)
(***************************************************************************)
EXTENDS AudioProbe, SequenceTheorems, TLAPS

-----------------------------------------------------------------------------
(* Types, in three parts: the callers, the processes, the pipes *)

Results == [call : 0..MaxCalls, status : Statuses \ {"garbled"}]
Requests == [call : 1..MaxCalls, line : Commands]
Answers == [call : 1..MaxCalls, status : Statuses]

(* The line that is written carries the number of a call that was made.     *)
CallersOK ==
  /\ pc \in [Handlers -> {"idle", "lock", "session", "write", "await"}]
  /\ call \in [Handlers -> 0..MaxCalls] /\ calls \in 0..MaxCalls
  /\ command \in [Handlers -> Commands]
  /\ result \in [Handlers -> Results]
  /\ lock \in Handlers \cup {NoOne}
  /\ \A h \in Handlers : pc[h] # "idle" => call[h] # 0

ProcessesOK ==
  /\ session \in 0..launched /\ launched \in 0..MaxProbes
  /\ alive \subseteq 1..launched /\ eof \subseteq 1..launched /\ streaming \subseteq alive

PipesOK ==
  /\ inbox \in [Probes -> Seq(Requests)]
  /\ outbox \in [Probes -> Seq(Answers)]

(* Who is inside holds the lock, and has a session when it writes or waits. *)
Inside(h) == pc[h] \in {"session", "write", "await"}

Exclusive ==
  \A h \in Handlers :
    /\ Inside(h) <=> lock = h
    /\ pc[h] \in {"write", "await"} => session # 0

LEMMA NoAnswerType ==
  ASSUME ProbeAssumption
  PROVE  NoAnswer \in Results
BY DEF NoAnswer, Results, Statuses, ProbeAssumption

(* An answer read from the pipe is a result unless it is garbled.           *)
LEMMA AnswerType ==
  ASSUME ProbeAssumption, ProcessesOK, PipesOK, session # 0, outbox[session] # <<>>
  PROVE  /\ Head(outbox[session]) \in Answers
         /\ Head(outbox[session]).status # "garbled" => Head(outbox[session]) \in Results
<1>1. session \in Probes
  BY DEF ProcessesOK, Probes, ProbeAssumption
<1>2. outbox[session] \in Seq(Answers)
  BY <1>1 DEF PipesOK
<1>3. Head(outbox[session]) \in Answers
  BY <1>2, HeadTailProperties
<1>4. QED
  BY <1>3 DEF Answers, Results

LEMMA ReturnType ==
  ASSUME ProbeAssumption, CallersOK, NEW h \in Handlers, NEW a \in Results, Return(h, a)
  PROVE  CallersOK'
BY DEF CallersOK, Return, Goto

LEMMA CallersStep ==
  ASSUME ProbeAssumption, CallersOK, ProcessesOK, PipesOK, Exclusive, [Next]_vars
  PROVE  CallersOK'
<1>1. ASSUME NEW h \in Handlers, NEW c \in Commands, Call(h, c)
      PROVE  CallersOK'
  BY <1>1, NoAnswerType DEF Call, CallersOK, Goto, ProbeAssumption
<1>2. ASSUME NEW h \in Handlers, Lock(h) \/ HaveSession(h)
      PROVE  CallersOK'
  BY <1>2 DEF Lock, HaveSession, CallersOK, Goto
<1>3. ASSUME NEW h \in Handlers, Launch(h) \/ WriteLine(h)
      PROVE  CallersOK'
  <2>1. CASE Return(h, NoAnswer)
    BY <2>1, NoAnswerType, ReturnType
  <2>2. CASE pc[h] # "idle" /\ Goto(h, "write") /\ UNCHANGED <<call, command, result, calls, lock>>
    BY <2>2 DEF CallersOK, Goto
  <2>3. CASE pc[h] # "idle" /\ Goto(h, "await") /\ UNCHANGED <<call, command, result, calls, lock>>
    BY <2>3 DEF CallersOK, Goto
  <2>4. QED
    BY <1>3, <2>1, <2>2, <2>3 DEF Launch, WriteLine
<1>4. ASSUME NEW h \in Handlers, ReadAnswer(h)
      PROVE  CallersOK'
  <2>1. Return(h, NoAnswer) \/ \E a \in Results : Return(h, a)
    BY <1>4, AnswerType DEF ReadAnswer, Exclusive
  <2>2. QED
    BY <2>1, NoAnswerType, ReturnType
<1>5. ASSUME NEW h \in Handlers, ReadFails(h) \/ Timeout(h)
      PROVE  CallersOK'
  BY <1>5, NoAnswerType, ReturnType DEF ReadFails, Timeout
<1>6. CASE BridgeRestart
  BY <1>6, NoAnswerType DEF BridgeRestart, CallersOK
<1>7. ASSUME UNCHANGED callers, UNCHANGED lock
      PROVE  CallersOK'
  BY <1>7 DEF callers, CallersOK
<1>8. QED
  BY <1>1, <1>2, <1>3, <1>4, <1>5, <1>6, <1>7 DEF Next, Control, Serve, EndOfInput, ProbeCrash, vars

LEMMA ProcessesStep ==
  ASSUME ProbeAssumption, ProcessesOK, [Next]_vars
  PROVE  ProcessesOK'
<1> USE DEF ProcessesOK, ProbeAssumption
<1>1. CASE StopSession
  BY <1>1 DEF StopSession
<1>2. ASSUME UNCHANGED <<session, launched, alive, eof, streaming>>
      PROVE  ProcessesOK'
  BY <1>2
<1>3. ASSUME NEW h \in Handlers, Launch(h)
      PROVE  ProcessesOK'
  <2>1. CASE UNCHANGED <<session, launched, processes>>
    BY <2>1 DEF processes
  <2>2. CASE /\ launched < MaxProbes
             /\ launched' = launched + 1 /\ session' = launched + 1
             /\ alive' = alive \cup {launched + 1}
             /\ UNCHANGED <<eof, streaming>>
    <3>1. launched \in Nat /\ launched + 1 \in 0..MaxProbes /\ 1..launched \subseteq 1..launched + 1
      BY <2>2
    <3>2. session' \in 0..launched' /\ launched' \in 0..MaxProbes
      BY <2>2, <3>1
    <3>3. alive' \subseteq 1..launched' /\ eof' \subseteq 1..launched' /\ streaming' \subseteq alive'
      BY <2>2, <3>1
    <3>4. QED
      BY <3>2, <3>3
  <2>3. QED
    BY <1>3, <2>1, <2>2 DEF Launch
<1>4. ASSUME NEW h \in Handlers, Control(h) \/ \E c \in Commands : Call(h, c)
      PROVE  ProcessesOK'
  <2>1. ASSUME NEW c \in Commands, Call(h, c)
        PROVE  ProcessesOK'
    BY <1>2, <2>1 DEF Call, processes
  <2>2. CASE Lock(h) \/ HaveSession(h)
    BY <1>2, <2>2 DEF Lock, HaveSession, processes
  <2>3. CASE WriteLine(h) \/ ReadAnswer(h)
    BY <1>1, <1>2, <2>3 DEF WriteLine, ReadAnswer
  <2>4. CASE ReadFails(h) \/ Timeout(h)
    BY <1>1, <2>4 DEF ReadFails, Timeout
  <2>5. QED
    BY <1>3, <1>4, <2>1, <2>2, <2>3, <2>4 DEF Control
<1>5. ASSUME NEW p \in Probes, Serve(p)
      PROVE  ProcessesOK'
  BY <1>5 DEF Serve
<1>6. ASSUME NEW p \in Probes, EndOfInput(p) \/ ProbeCrash(p)
      PROVE  ProcessesOK'
  BY <1>6 DEF EndOfInput, ProbeCrash
<1>7. CASE BridgeRestart
  BY <1>7 DEF BridgeRestart
<1>8. QED
  BY <1>2, <1>4, <1>5, <1>6, <1>7 DEF Next, vars, processes

LEMMA PipesStep ==
  ASSUME ProbeAssumption, CallersOK, ProcessesOK, PipesOK, Exclusive, [Next]_vars
  PROVE  PipesOK'
<1>1. ASSUME NEW h \in Handlers, WriteLine(h)
      PROVE  PipesOK'
  <2>1. session \in Probes
    BY <1>1 DEF WriteLine, Exclusive, ProcessesOK, Probes, ProbeAssumption
  <2>2. [call |-> call[h], line |-> command[h]] \in Requests
    BY <1>1 DEF WriteLine, CallersOK, Requests
  <2>3. Append(inbox[session], [call |-> call[h], line |-> command[h]]) \in Seq(Requests)
    BY <2>1, <2>2, AppendProperties DEF PipesOK
  <2>4. QED
    BY <1>1, <2>1, <2>3 DEF WriteLine, StopSession, PipesOK
<1>2. ASSUME NEW h \in Handlers, ReadAnswer(h)
      PROVE  PipesOK'
  <2>1. session \in Probes
    BY <1>2 DEF ReadAnswer, Exclusive, ProcessesOK, Probes, ProbeAssumption
  <2>2. Tail(outbox[session]) \in Seq(Answers)
    BY <1>2, <2>1, HeadTailProperties DEF ReadAnswer, PipesOK
  <2>3. QED
    BY <1>2, <2>1, <2>2 DEF ReadAnswer, StopSession, PipesOK
<1>3. ASSUME NEW p \in Probes, Serve(p)
      PROVE  PipesOK'
  <2>1. Head(inbox[p]) \in Requests /\ Tail(inbox[p]) \in Seq(Requests)
    BY <1>3, HeadTailProperties DEF Serve, PipesOK
  <2>2. \A s \in Statuses : [call |-> Head(inbox[p]).call, status |-> s] \in Answers
    BY <2>1 DEF Requests, Answers
  <2>3. \A a \in Answers : Append(outbox[p], a) \in Seq(Answers)
    BY AppendProperties DEF PipesOK
  <2>4. QED
    BY <1>3, <2>1, <2>2, <2>3 DEF Serve, PipesOK
<1>4. ASSUME UNCHANGED <<inbox, outbox>>
      PROVE  PipesOK'
  BY <1>4 DEF PipesOK
<1>5. QED
  BY <1>1, <1>2, <1>3, <1>4, Zenon DEF Next, Control, Call, Lock, Launch, HaveSession, ReadFails,
     Timeout, StopSession, EndOfInput, ProbeCrash, BridgeRestart, vars, processes

LEMMA ExclusiveStep ==
  ASSUME ProbeAssumption, CallersOK, ProcessesOK, Exclusive, [Next]_vars
  PROVE  Exclusive'
<1> USE DEF Exclusive, Inside, CallersOK, Goto, ProbeAssumption
<1>1. ASSUME NEW h \in Handlers, NEW a, Inside(h), Return(h, a)
      PROVE  Exclusive'
  BY <1>1 DEF Return
<1>2. ASSUME NEW h \in Handlers, NEW c \in Commands, Call(h, c)
      PROVE  Exclusive'
  BY <1>2 DEF Call
<1>3. ASSUME NEW h \in Handlers, Lock(h)
      PROVE  Exclusive'
  BY <1>3 DEF Lock
<1>4. ASSUME NEW h \in Handlers, HaveSession(h)
      PROVE  Exclusive'
  BY <1>4 DEF HaveSession
<1>5. ASSUME NEW h \in Handlers, Launch(h)
      PROVE  Exclusive'
  <2>1. CASE Return(h, NoAnswer)
    BY <1>1, <1>5, <2>1 DEF Launch
  <2>2. CASE session' = launched + 1 /\ Goto(h, "write") /\ UNCHANGED lock
    BY <1>5, <2>2 DEF Launch, ProcessesOK
  <2>3. QED
    BY <1>5, <2>1, <2>2 DEF Launch
<1>6. ASSUME NEW h \in Handlers, WriteLine(h)
      PROVE  Exclusive'
  <2>1. CASE Return(h, NoAnswer)
    BY <1>1, <1>6, <2>1 DEF WriteLine
  <2>2. CASE Goto(h, "await") /\ UNCHANGED <<lock, session>>
    BY <1>6, <2>2 DEF WriteLine
  <2>3. QED
    BY <1>6, <2>1, <2>2 DEF WriteLine
<1>7. ASSUME NEW h \in Handlers, ReadAnswer(h) \/ ReadFails(h) \/ Timeout(h)
      PROVE  Exclusive'
  <2>1. Inside(h) /\ \E a : Return(h, a)
    BY <1>7 DEF ReadAnswer, ReadFails, Timeout
  <2>2. QED
    BY <1>1, <2>1
<1>8. CASE BridgeRestart
  BY <1>8 DEF BridgeRestart
<1>9. ASSUME UNCHANGED <<callers, lock, session>>
      PROVE  Exclusive'
  BY <1>9 DEF callers
<1>10. QED
  BY <1>2, <1>3, <1>4, <1>5, <1>6, <1>7, <1>8, <1>9 DEF Next, Control, Serve, EndOfInput, ProbeCrash,
     vars

-----------------------------------------------------------------------------
(* The pipes of the session *)

(* What the process has been asked and has not answered yet, or has         *)
(* answered and nobody has read.                                            *)
Pending(h) ==
  /\ inbox[session] = <<[call |-> call[h], line |-> command[h]]>>
  /\ outbox[session] = <<>>

Answered(h) ==
  /\ inbox[session] = <<>>
  /\ \E s \in Statuses : outbox[session] = <<[call |-> call[h], status |-> s]>>
  /\ command[h] = "stop" => session \notin streaming

(* Between two calls both pipes of the session are empty, because a call    *)
(* that gives up takes the process with it; a call that waits finds nothing *)
(* in them but what belongs to it. A process that runs and is not the       *)
(* session's has lost its input.                                            *)
InStep ==
  /\ \A p \in Probes : p > launched => inbox[p] = <<>> /\ outbox[p] = <<>>
  /\ session # 0 /\ (\A h \in Handlers : pc[h] # "await")
       => inbox[session] = <<>> /\ outbox[session] = <<>>
  /\ \A h \in Handlers : pc[h] = "await" => Pending(h) \/ Answered(h)
  /\ alive \subseteq eof \cup {session}

ProbeInv == CallersOK /\ ProcessesOK /\ PipesOK /\ Exclusive /\ InStep

(* The session is over.                                                     *)
LEMMA StopKeepsStep ==
  ASSUME ProbeAssumption, ProbeInv, NEW h \in Handlers, NEW a, Inside(h), Return(h, a), StopSession
  PROVE  InStep'
<1>1. \A k \in Handlers : pc'[k] # "await"
  BY DEF ProbeInv, Exclusive, Inside, CallersOK, Return, Goto
<1>2. QED
  BY <1>1 DEF StopSession, ProbeInv, InStep

LEMMA ServeKeepsStep ==
  ASSUME ProbeAssumption, ProbeInv, NEW p \in Probes, Serve(p)
  PROVE  InStep'
<1>1. p <= launched /\ p # 0 /\ launched \in Nat /\ p \in Nat
  BY DEF Serve, ProbeInv, ProcessesOK, Probes
<1>2. PICK s \in Statuses, runs \in BOOLEAN :
        /\ Head(inbox[p]).line = "stop" => ~runs
        /\ streaming' = IF runs THEN streaming \cup {p} ELSE streaming \ {p}
        /\ outbox' = [outbox EXCEPT ![p] = Append(@, [call |-> Head(inbox[p]).call, status |-> s])]
  BY Zenon DEF Serve
<1>3. /\ inbox[p] # <<>> /\ inbox' = [inbox EXCEPT ![p] = Tail(@)]
      /\ UNCHANGED <<pc, call, command, session, launched, alive, eof>>
  BY DEF Serve, callers
<1>4. \A q \in Probes : q > launched => inbox'[q] = <<>> /\ outbox'[q] = <<>>
  BY <1>1, <1>2, <1>3 DEF ProbeInv, PipesOK, InStep, Probes
<1>5. CASE p # session
  <2>1. session # 0 => inbox'[session] = inbox[session] /\ outbox'[session] = outbox[session]
    BY <1>2, <1>3, <1>5 DEF ProbeInv, PipesOK, ProcessesOK, Probes
  <2>2. session \notin streaming => session \notin streaming'
    BY <1>2, <1>5
  <2>3. \A h \in Handlers : pc[h] = "await" => session # 0
    BY DEF ProbeInv, Exclusive
  <2>4. QED
    BY <1>3, <1>4, <2>1, <2>2, <2>3 DEF ProbeInv, InStep, Pending, Answered
<1>6. CASE p = session
  <2>1. PICK h \in Handlers : pc[h] = "await"
    BY <1>1, <1>3, <1>6 DEF ProbeInv, InStep
  <2>2. \A k \in Handlers : pc[k] = "await" => k = h
    BY <2>1 DEF ProbeInv, Exclusive, Inside
  <2>3. Pending(h)
    BY <1>3, <1>6, <2>1 DEF ProbeInv, InStep, Answered
  <2>4. /\ Head(inbox[p]) = [call |-> call[h], line |-> command[h]]
        /\ Tail(inbox[p]) = <<>>
    BY <1>6, <2>3 DEF Pending
  <2>5. inbox'[p] = <<>>
    BY <1>3, <2>4 DEF ProbeInv, PipesOK
  <2>6. outbox'[p] = <<[call |-> call[h], status |-> s]>>
    BY <1>2, <1>6, <2>3, <2>4 DEF Pending, ProbeInv, PipesOK
  <2>7. command[h] = "stop" => p \notin streaming'
    BY <1>2, <2>4
  <2>8. Answered(h)'
    BY <1>3, <1>6, <2>5, <2>6, <2>7 DEF Answered
  <2>9. QED
    BY <1>3, <1>4, <2>1, <2>2, <2>8 DEF ProbeInv, InStep
<1>7. QED
  BY <1>5, <1>6

(* A handler that goes from one place to another, neither of them the wait, *)
(* changes nothing that InStep speaks of.                                   *)
LEMMA MoveKeepsStep ==
  ASSUME ProbeInv, NEW h \in Handlers, NEW step, pc[h] # "await", step # "await", Goto(h, step),
         \A k \in Handlers : pc[k] = "await" => call'[k] = call[k] /\ command'[k] = command[k],
         UNCHANGED <<session, launched, processes>>
  PROVE  InStep'
<1>1. \A k \in Handlers : pc'[k] = "await" <=> pc[k] = "await"
  BY DEF Goto, ProbeInv, CallersOK
<1>2. UNCHANGED <<session, launched, alive, eof, inbox, outbox, streaming>>
  BY DEF processes
<1>3. QED
  BY <1>1, <1>2 DEF ProbeInv, InStep, Pending, Answered

LEMMA LaunchKeepsStep ==
  ASSUME ProbeAssumption, ProbeInv, NEW h \in Handlers, Launch(h)
  PROVE  InStep'
<1>1. CASE Return(h, NoAnswer) /\ UNCHANGED <<session, launched, processes>>
  BY <1>1, MoveKeepsStep DEF Launch, Return
<1>2. CASE /\ launched < MaxProbes
           /\ launched' = launched + 1 /\ session' = launched + 1
           /\ alive' = alive \cup {launched + 1}
           /\ Goto(h, "write")
           /\ UNCHANGED <<call, command, eof, inbox, outbox, streaming>>
  <2>1. launched \in Nat /\ launched + 1 \in Probes /\ launched + 1 > launched
    BY <1>2 DEF ProbeInv, ProcessesOK, Probes, ProbeAssumption
  <2>2. inbox[launched + 1] = <<>> /\ outbox[launched + 1] = <<>>
    BY <2>1 DEF ProbeInv, InStep
  <2>3. \A k \in Handlers : pc'[k] # "await"
    BY <1>2 DEF Launch, ProbeInv, Exclusive, Inside, CallersOK, Goto
  <2>4. alive \subseteq eof
    BY DEF Launch, ProbeInv, InStep, ProcessesOK
  <2>5. \A p \in Probes : p > launched + 1 => inbox[p] = <<>> /\ outbox[p] = <<>>
    BY <2>1 DEF ProbeInv, InStep, Probes
  <2>6. QED
    BY <1>2, <2>2, <2>3, <2>4, <2>5 DEF InStep
<1>3. QED
  BY <1>1, <1>2 DEF Launch

LEMMA WriteKeepsStep ==
  ASSUME ProbeAssumption, ProbeInv, NEW h \in Handlers, WriteLine(h)
  PROVE  InStep'
<1> DEFINE request == [call |-> call[h], line |-> command[h]]
<1>1. Inside(h) /\ session # 0 /\ (\A k \in Handlers : k # h => ~Inside(k))
  BY DEF WriteLine, Inside, ProbeInv, Exclusive
<1>2. CASE Return(h, NoAnswer) /\ StopSession
  BY <1>1, <1>2, StopKeepsStep
<1>3. CASE /\ inbox' = [inbox EXCEPT ![session] = Append(@, request)]
           /\ Goto(h, "await")
           /\ UNCHANGED <<call, command, session, launched, alive, eof, outbox, streaming>>
  <2>1. session \in Probes /\ session <= launched /\ launched \in Nat
    BY <1>1 DEF ProbeInv, ProcessesOK, Probes
  <2>2. inbox[session] = <<>> /\ outbox[session] = <<>>
    BY <1>1 DEF WriteLine, Inside, ProbeInv, InStep
  <2>3. inbox'[session] = <<request>>
    BY <1>3, <2>1, <2>2 DEF ProbeInv, PipesOK
  <2>4. Pending(h)'
    BY <1>3, <2>2, <2>3 DEF Pending
  <2>5. pc'[h] = "await" /\ \A k \in Handlers : k # h => pc'[k] # "await"
    BY <1>1, <1>3 DEF Goto, Inside, ProbeInv, CallersOK
  <2>6. \A p \in Probes : p > launched => inbox'[p] = <<>> /\ outbox[p] = <<>>
    <3>1. \A p \in Probes : p > launched => p # session
      BY <2>1 DEF Probes
    <3>2. \A p \in Probes : p # session => inbox'[p] = inbox[p]
      BY <1>3 DEF ProbeInv, PipesOK
    <3>3. QED
      BY <3>1, <3>2 DEF ProbeInv, InStep
  <2>7. QED
    BY <1>3, <2>4, <2>5, <2>6 DEF ProbeInv, InStep
<1>4. QED
  BY <1>2, <1>3 DEF WriteLine

(* What a call reads is the answer to its line, and the pipes are empty     *)
(* again.                                                                   *)
LEMMA ReadIsOwn ==
  ASSUME ProbeInv, NEW h \in Handlers, ReadAnswer(h)
  PROVE  /\ Head(outbox[session]).call = call[h]
         /\ inbox[session] = <<>> /\ Tail(outbox[session]) = <<>>
         /\ command[h] = "stop" => session \notin streaming
<1>1. Answered(h)
  BY DEF ReadAnswer, ProbeInv, InStep, Pending
<1>2. PICK s \in Statuses : outbox[session] = <<[call |-> call[h], status |-> s]>>
  BY <1>1 DEF Answered
<1>3. QED
  BY <1>1, <1>2 DEF Answered

LEMMA ReadKeepsStep ==
  ASSUME ProbeAssumption, ProbeInv, NEW h \in Handlers, ReadAnswer(h)
  PROVE  InStep'
<1>1. Inside(h) /\ session # 0 /\ (\A k \in Handlers : k # h => ~Inside(k))
  BY DEF ReadAnswer, Inside, ProbeInv, Exclusive
<1>2. CASE Return(h, NoAnswer) /\ StopSession
  BY <1>1, <1>2, StopKeepsStep
<1>3. CASE /\ Return(h, Head(outbox[session]))
           /\ outbox' = [outbox EXCEPT ![session] = Tail(@)]
           /\ UNCHANGED <<session, launched, alive, eof, inbox, streaming>>
  <2>1. session \in Probes /\ session <= launched /\ launched \in Nat
    BY <1>1 DEF ProbeInv, ProcessesOK, Probes
  <2>2. outbox'[session] = <<>> /\ inbox'[session] = <<>>
    BY <1>3, <2>1, ReadIsOwn DEF ProbeInv, PipesOK
  <2>3. \A k \in Handlers : pc'[k] # "await"
    BY <1>1, <1>3 DEF Return, Goto, Inside, ProbeInv, CallersOK
  <2>4. \A p \in Probes : p > launched => inbox[p] = <<>> /\ outbox'[p] = <<>>
    <3>1. \A p \in Probes : p > launched => p # session
      BY <2>1 DEF Probes
    <3>2. \A p \in Probes : p # session => outbox'[p] = outbox[p]
      BY <1>3 DEF ProbeInv, PipesOK
    <3>3. QED
      BY <3>1, <3>2 DEF ProbeInv, InStep
  <2>5. QED
    BY <1>3, <2>2, <2>3, <2>4 DEF ProbeInv, InStep
<1>4. QED
  BY <1>2, <1>3 DEF ReadAnswer

LEMMA InStepStep ==
  ASSUME ProbeAssumption, ProbeInv, [Next]_vars
  PROVE  InStep'
<1>1. ASSUME NEW h \in Handlers, NEW c \in Commands, Call(h, c)
      PROVE  InStep'
  <2>1. \A k \in Handlers : pc[k] = "await" => call'[k] = call[k] /\ command'[k] = command[k]
    BY <1>1 DEF Call, ProbeInv, CallersOK
  <2>2. QED
    BY <1>1, <2>1, MoveKeepsStep DEF Call
<1>2. ASSUME NEW h \in Handlers, Lock(h) \/ HaveSession(h)
      PROVE  InStep'
  BY <1>2, MoveKeepsStep DEF Lock, HaveSession
<1>3. ASSUME NEW h \in Handlers, ReadFails(h) \/ Timeout(h)
      PROVE  InStep'
  BY <1>3, StopKeepsStep DEF ReadFails, Timeout, Inside
<1>4. ASSUME NEW p \in Probes, EndOfInput(p) \/ ProbeCrash(p)
      PROVE  InStep'
  BY <1>4 DEF EndOfInput, ProbeCrash, callers, ProbeInv, InStep, Pending, Answered
<1>5. CASE BridgeRestart
  BY <1>5 DEF BridgeRestart, ProbeInv, InStep
<1>6. CASE UNCHANGED vars
  BY <1>6 DEF vars, callers, processes, ProbeInv, InStep, Pending, Answered
<1>7. QED
  BY <1>1, <1>2, <1>3, <1>4, <1>5, <1>6, LaunchKeepsStep, WriteKeepsStep, ReadKeepsStep,
     ServeKeepsStep DEF Next, Control

LEMMA ProbeInvHolds ==
  ASSUME ProbeAssumption
  PROVE  Spec => []ProbeInv
<1>1. Init => ProbeInv
  BY NoAnswerType DEF Init, ProbeInv, CallersOK, ProcessesOK, PipesOK, Exclusive, Inside, InStep,
     Commands, Probes, ProbeAssumption
<1>2. ProbeInv /\ [Next]_vars => ProbeInv'
  BY CallersStep, ProcessesStep, PipesStep, ExclusiveStep, InStepStep DEF ProbeInv
<1>3. QED
  BY <1>1, <1>2, PTL DEF Spec

-----------------------------------------------------------------------------
(* Theorems *)

(* The variables keep their types: a handler that is inside                 *)
(* audioProbeControl holds the session's lock, a stream runs only in a      *)
(* process that lives.                                                      *)
THEOREM ProbeTypeCorrect ==
  ASSUME ProbeAssumption
  PROVE  Spec => []TypeOK
<1>1. ProbeInv => TypeOK
  BY DEF ProbeInv, CallersOK, ProcessesOK, PipesOK, TypeOK, Results, Requests, Answers
<1>2. QED
  BY <1>1, ProbeInvHolds, PTL

LEMMA OwnAnswerStep ==
  ASSUME ProbeAssumption, ProbeInv, OwnAnswer, [Next]_vars
  PROVE  OwnAnswer'
<1> USE DEF OwnAnswer, ProbeInv, CallersOK
<1>1. ASSUME NEW h \in Handlers, NEW a, Return(h, a), a.call \in {0, call[h]}
      PROVE  OwnAnswer'
  BY <1>1 DEF Return
<1>2. NoAnswer.call = 0
  BY DEF NoAnswer
<1>3. ASSUME NEW h \in Handlers, Control(h)
      PROVE  OwnAnswer'
  <2>1. CASE UNCHANGED <<call, result>>
    BY <2>1
  <2>2. CASE Return(h, NoAnswer)
    BY <1>1, <1>2, <2>2
  <2>3. CASE ReadAnswer(h)
    BY <1>1, <2>2, <2>3, ReadIsOwn DEF ReadAnswer
  <2>4. QED
    BY <1>3, <2>1, <2>2, <2>3 DEF Control, Lock, Launch, HaveSession, WriteLine, ReadFails, Timeout
<1>4. ASSUME NEW h \in Handlers, NEW c \in Commands, Call(h, c)
      PROVE  OwnAnswer'
  BY <1>2, <1>4 DEF Call
<1>5. CASE BridgeRestart
  BY <1>2, <1>5 DEF BridgeRestart
<1>6. CASE UNCHANGED <<call, result>>
  BY <1>6
<1>7. QED
  BY <1>3, <1>4, <1>5, <1>6 DEF Next, Serve, EndOfInput, ProbeCrash, callers, vars

(* audioProbeControl returns the answer to its own line, never the late one *)
(* of a call before it, whatever timed out, died or restarted in between.   *)
THEOREM OwnAnswerHolds ==
  ASSUME ProbeAssumption
  PROVE  Spec => []OwnAnswer
<1>1. Init => OwnAnswer
  BY DEF Init, OwnAnswer, NoAnswer
<1>2. QED
  BY <1>1, OwnAnswerStep, ProbeInvHolds, PTL DEF Spec

(* A Stop that audioProbeControl reports as successful leaves no stream     *)
(* running but in a process that a bridge before this one has left to its   *)
(* end.                                                                     *)
THEOREM StoppedMeansSilentHolds ==
  ASSUME ProbeAssumption
  PROVE  Spec => StoppedMeansSilent
<1> DEFINE Silent ==
      \A h \in Handlers :
        /\ pc[h] = "await" /\ pc'[h] = "idle"
        /\ command[h] = "stop" /\ result'[h].call # 0 /\ result'[h].status = "SUCCESS"
        => streaming' \subseteq eof
<1>1. ProbeInv /\ [Next]_vars => [Silent]_vars
  <2> SUFFICES ASSUME ProbeInv, Next, NEW h \in Handlers,
                      pc[h] = "await", pc'[h] = "idle", command[h] = "stop",
                      result'[h].call # 0
               PROVE  streaming' \subseteq eof
    OBVIOUS
  <2>1. /\ streaming \subseteq eof \cup {session} /\ session # 0
        /\ \A k \in Handlers : k # h => pc[k] \in {"idle", "lock"}
    BY DEF ProbeInv, ProcessesOK, InStep, Exclusive, Inside, CallersOK
  <2>2. NoAnswer.call = 0
    BY DEF NoAnswer
  <2>3. result \in [Handlers -> Results] /\ pc \in [Handlers -> {"idle", "lock", "session", "write", "await"}]
    BY DEF ProbeInv, CallersOK
  <2>4. ~BridgeRestart
    BY <2>2 DEF BridgeRestart
  <2>5. pc' # pc
    OBVIOUS
  <2>6. ASSUME NEW k \in Handlers, k # h, Control(k) \/ \E c \in Commands : Call(k, c)
        PROVE  pc'[h] = pc[h]
    BY <2>1, <2>3, <2>6 DEF Control, Call, Lock, Launch, HaveSession, WriteLine, ReadAnswer, ReadFails,
       Timeout, Goto
  <2>7. Control(h)
    BY <2>4, <2>5, <2>6 DEF Next, Call, Serve, EndOfInput, ProbeCrash, callers
  <2>8. ~Return(h, NoAnswer)
    BY <2>2, <2>3 DEF Return
  <2>9. ReadAnswer(h) /\ UNCHANGED streaming
    BY <2>7, <2>8 DEF Control, Lock, Launch, HaveSession, WriteLine, ReadAnswer, ReadFails, Timeout
  <2>10. session \notin streaming
    BY <2>9, ReadIsOwn
  <2>11. QED
    BY <2>1, <2>9, <2>10
<1> HIDE DEF Silent
<1>2. Spec => [][Silent]_vars
  BY <1>1, ProbeInvHolds, PTL DEF Spec
<1>3. QED
  BY <1>2 DEF StoppedMeansSilent, Silent

(* Whoever is about to write finds room in the pipe.                        *)
WriteFindsRoom == \A h \in Handlers : pc[h] = "write" => Len(inbox[session]) < PipeLines

(* The write of audioProbeControl has no timeout and is made with the lock  *)
(* held; it never waits, as it always finds room in the pipe: the call      *)
(* before it has taken its answer, or its process with it.                  *)
THEOREM WriteFindsRoomHolds ==
  ASSUME ProbeAssumption
  PROVE  Spec => []WriteFindsRoom
<1>1. ProbeInv => WriteFindsRoom
  <2> SUFFICES ASSUME ProbeInv, NEW h \in Handlers, pc[h] = "write"
               PROVE  Len(inbox[session]) < PipeLines
    BY DEF WriteFindsRoom
  <2>1. session # 0 /\ lock = h
    BY DEF ProbeInv, Exclusive, Inside
  <2>2. \A k \in Handlers : pc[k] # "await"
    BY <2>1 DEF ProbeInv, Exclusive, Inside
  <2>3. inbox[session] = <<>>
    BY <2>1, <2>2 DEF ProbeInv, InStep
  <2>4. QED
    BY <2>3 DEF ProbeAssumption
<1>2. QED
  BY <1>1, ProbeInvHolds, PTL
=============================================================================
