----------------------------- MODULE AudioProbe -----------------------------
(***************************************************************************)
(* The native audio session of the bridge: audioProbeControl of            *)
(* bridge_service/src/main.go, called by any number of handlers, and the   *)
(* server loop of audio_core/tools/audio_device_probe.cpp, a process that  *)
(* answers one line per line.  A call is a number; a process is known by   *)
(* its place in the row of those that were launched.  Whether the process  *)
(* hangs is left open: it then simply takes no step.                       *)
(***************************************************************************)
EXTENDS Integers, Sequences, FiniteSets

CONSTANTS
  Handlers,   \* connections of the bridge that control audio
  NoOne,
  PipeLines,  \* lines that fit into the pipe of a process that does not read
  MaxCalls,   \* bound: calls of audioProbeControl
  MaxProbes   \* bound: launches of the process

ASSUME ProbeAssumption ==
  NoOne \notin Handlers /\ PipeLines \in Nat \ {0} /\ MaxCalls \in Nat /\ MaxProbes \in Nat

VARIABLES
  pc, call, command,  \* per handler: place, number and line of its call
  result,             \* per handler: the answer its call returned
  calls,              \* how many calls were made
  lock,               \* audioProbeSessionMu
  session,            \* audioProbeSessionCmd: the process, 0 for nil
  launched,
  alive, eof,         \* processes that run; those whose input was closed
  inbox, outbox,      \* pipes of each process: lines and answers
  streaming           \* processes whose host has a stream running

callers == <<pc, call, command, result, calls>>
processes == <<alive, eof, inbox, outbox, streaming>>
vars == <<callers, lock, session, launched, processes>>

Probes == 1..MaxProbes
Commands == {"start", "stop", "status"}
Statuses == {"SUCCESS", "ERROR", "garbled"}
NoAnswer == [call |-> 0, status |-> "ERROR"]

Goto(h, step) == pc' = [pc EXCEPT ![h] = step]

-----------------------------------------------------------------------------
(* audioProbeControl *)

Call(h, c) ==
  /\ pc[h] = "idle" /\ calls < MaxCalls
  /\ calls' = calls + 1
  /\ call' = [call EXCEPT ![h] = calls + 1]
  /\ command' = [command EXCEPT ![h] = c]
  /\ result' = [result EXCEPT ![h] = NoAnswer]
  /\ Goto(h, "lock")
  /\ UNCHANGED <<lock, session, launched, processes>>

Lock(h) ==
  /\ pc[h] = "lock" /\ lock = NoOne
  /\ lock' = h
  /\ Goto(h, "session")
  /\ UNCHANGED <<call, command, result, calls, session, launched, processes>>

(* The deferred unlock runs with every return.                              *)
Return(h, answer) ==
  /\ result' = [result EXCEPT ![h] = answer]
  /\ lock' = NoOne
  /\ Goto(h, "idle")
  /\ UNCHANGED <<call, command, calls>>

(* stopAudioProbeSessionLocked: input closed, process killed and waited for. *)
StopSession ==
  /\ session' = 0
  /\ alive' = alive \ {session}
  /\ streaming' = streaming \ {session}
  /\ UNCHANGED <<launched, eof, inbox, outbox>>

Launch(h) ==
  /\ pc[h] = "session" /\ session = 0
  /\ \/ /\ launched < MaxProbes
        /\ launched' = launched + 1
        /\ session' = launched + 1
        /\ alive' = alive \cup {launched + 1}
        /\ Goto(h, "write")
        /\ UNCHANGED <<call, command, result, calls, lock, eof, inbox, outbox, streaming>>
     \/ /\ Return(h, NoAnswer)
        /\ UNCHANGED <<session, launched, processes>>

HaveSession(h) ==
  /\ pc[h] = "session" /\ session # 0
  /\ Goto(h, "write")
  /\ UNCHANGED <<call, command, result, calls, lock, session, launched, processes>>

(* The write waits, lock held and without a timeout, while the pipe is full; *)
(* a line to a process that is gone is an error (EPIPE).                    *)
WriteLine(h) ==
  /\ pc[h] = "write"
  /\ \/ /\ session \in alive
        /\ Len(inbox[session]) < PipeLines
        /\ inbox' = [inbox EXCEPT ![session] = Append(@, [call |-> call[h], line |-> command[h]])]
        /\ Goto(h, "await")
        /\ UNCHANGED <<call, command, result, calls, lock, session, launched,
                       alive, eof, outbox, streaming>>
     \/ /\ session \notin alive
        /\ Return(h, NoAnswer)
        /\ StopSession

(* A line arrives in time; one that is too long or no JSON ends the session. *)
ReadAnswer(h) ==
  /\ pc[h] = "await" /\ outbox[session] # <<>>
  /\ LET answer == Head(outbox[session]) IN
     \/ /\ answer.status # "garbled"
        /\ Return(h, answer)
        /\ outbox' = [outbox EXCEPT ![session] = Tail(@)]
        /\ UNCHANGED <<session, launched, alive, eof, inbox, streaming>>
     \/ /\ answer.status = "garbled"
        /\ Return(h, NoAnswer)
        /\ StopSession

(* The process ended before it answered.                                    *)
ReadFails(h) ==
  /\ pc[h] = "await" /\ outbox[session] = <<>> /\ session \notin alive
  /\ Return(h, NoAnswer)
  /\ StopSession

(* Mutant: the session survives a timeout.                                  *)
TimeoutKeepsSession(h) ==
  /\ pc[h] = "await"
  /\ Return(h, NoAnswer)
  /\ UNCHANGED <<session, launched, processes>>

(* Five seconds pass; an answer that arrives at the same moment may lose.   *)
Timeout(h) ==
  /\ pc[h] = "await"
  /\ Return(h, NoAnswer)
  /\ StopSession

-----------------------------------------------------------------------------
(* The process *)

(* handleServerCommand; starting may fail, and always ends an older stream. *)
Serve(p) ==
  /\ p \in alive /\ inbox[p] # <<>>
  /\ LET request == Head(inbox[p]) IN
     \E status \in Statuses, runs \in BOOLEAN :
       /\ request.line = "status" => (runs <=> p \in streaming)
       /\ request.line = "stop" => ~runs
       /\ request.line = "start" => (runs <=> status # "ERROR")
       /\ request.line # "start" => status # "ERROR"
       /\ streaming' = IF runs THEN streaming \cup {p} ELSE streaming \ {p}
       /\ outbox' = [outbox EXCEPT ![p] = Append(@, [call |-> request.call, status |-> status])]
  /\ inbox' = [inbox EXCEPT ![p] = Tail(@)]
  /\ UNCHANGED <<callers, lock, session, launched, alive, eof>>

(* The end of its input ends the server loop, which stops the stream.       *)
EndOfInput(p) ==
  /\ p \in alive \cap eof /\ inbox[p] = <<>>
  /\ alive' = alive \ {p} /\ streaming' = streaming \ {p}
  /\ UNCHANGED <<callers, lock, session, launched, eof, inbox, outbox>>

ProbeCrash(p) ==
  /\ p \in alive
  /\ alive' = alive \ {p} /\ streaming' = streaming \ {p}
  /\ UNCHANGED <<callers, lock, session, launched, eof, inbox, outbox>>

(* The bridge process ends and is started again: every pipe is closed.      *)
BridgeRestart ==
  /\ session # 0
  /\ pc' = [h \in Handlers |-> "idle"]
  /\ result' = [h \in Handlers |-> NoAnswer]
  /\ lock' = NoOne
  /\ session' = 0
  /\ eof' = eof \cup {session}
  /\ UNCHANGED <<call, command, calls, launched, alive, inbox, outbox, streaming>>

-----------------------------------------------------------------------------

Init ==
  /\ pc = [h \in Handlers |-> "idle"]
  /\ call = [h \in Handlers |-> 0]
  /\ command = [h \in Handlers |-> "status"]
  /\ result = [h \in Handlers |-> NoAnswer]
  /\ calls = 0 /\ lock = NoOne /\ session = 0 /\ launched = 0
  /\ alive = {} /\ eof = {} /\ streaming = {}
  /\ inbox = [p \in Probes |-> <<>>] /\ outbox = [p \in Probes |-> <<>>]

Control(h) ==
  \/ Lock(h) \/ Launch(h) \/ HaveSession(h) \/ WriteLine(h)
  \/ ReadAnswer(h) \/ ReadFails(h) \/ Timeout(h)

Next ==
  \/ \E h \in Handlers : Control(h) \/ \E c \in Commands : Call(h, c)
  \/ \E p \in Probes : Serve(p) \/ EndOfInput(p) \/ ProbeCrash(p)
  \/ BridgeRestart

Spec == Init /\ [][Next]_vars

(* Handlers are scheduled, and a Go mutex hands itself to the longest       *)
(* waiter; nothing is assumed of the process.                               *)
FairSpec == Spec /\ \A h \in Handlers : WF_vars(Control(h)) /\ SF_vars(Lock(h))

-----------------------------------------------------------------------------
(* Properties *)

(* Types; the handler that holds the lock is the one inside.                *)
TypeOK ==
  /\ pc \in [Handlers -> {"idle", "lock", "session", "write", "await"}]
  /\ call \in [Handlers -> 0..MaxCalls] /\ calls \in 0..MaxCalls
  /\ command \in [Handlers -> Commands]
  /\ result \in [Handlers -> [call : 0..MaxCalls, status : Statuses \ {"garbled"}]]
  /\ lock \in Handlers \cup {NoOne}
  /\ session \in 0..launched /\ launched \in 0..MaxProbes
  /\ alive \subseteq 1..launched /\ eof \subseteq 1..launched /\ streaming \subseteq alive
  /\ inbox \in [Probes -> Seq([call : 1..MaxCalls, line : Commands])]
  /\ outbox \in [Probes -> Seq([call : 1..MaxCalls, status : Statuses])]

(* A call returns the answer to its own line, never the late one of a call  *)
(* before it, whatever timed out, died or restarted in between.             *)
OwnAnswer == \A h \in Handlers : result[h].call \in {0, call[h]}

(* A Stop that reports success has stopped the stream: none runs but in a   *)
(* process that a bridge before this one has left to its end.               *)
StoppedMeansSilent ==
  [][\A h \in Handlers :
       /\ pc[h] = "await" /\ pc'[h] = "idle"
       /\ command[h] = "stop" /\ result'[h].call # 0 /\ result'[h].status = "SUCCESS"
       => streaming' \subseteq eof]_vars

(* Every call returns, although the lock is held while the line is written  *)
(* and while the process answers, and the process may be slow, hang or die: *)
(* a write never meets a pipe that calls before it have filled.             *)
CallReturns == \A h \in Handlers : pc[h] # "idle" ~> pc[h] = "idle"
=============================================================================
