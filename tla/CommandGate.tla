---------------------------- MODULE CommandGate ----------------------------
(***************************************************************************)
(* The command pipeline of the bridge service: what handleConnection       *)
(* (bridge_service/src/main.go) does with one request line, on every       *)
(* client connection, from the read to the reply.                          *)
(*                                                                         *)
(*   read -> validate -> authenticate -> consume -> panic -> rate          *)
(*        -> dispatch -> apply                                             *)
(*                                                                         *)
(* One step per access to state the handlers share: the replay cache, the  *)
(* integrity flag, the panic file and the clocks.  Two clocks are kept     *)
(* because the code uses two: time.Since(time.UnixMilli(ts)) compares with *)
(* the wall clock, whereas the expiry of a cached nonce is compared on     *)
(* Go's monotonic clock.                                                   *)
(***************************************************************************)
EXTENDS Integers, Sequences, FiniteSets

CONSTANTS
  Conns,           \* connection slots, one handler goroutine each
  Nonces,          \* nonces clients put into commands
  NoNonce,         \* the empty requestNonce of an unbound reply
  Lines,           \* request lines a client may deliver, any number of times
  Skew,            \* commandClockSkew
  MinInterval,     \* minimumCommandInterval
  MaxReplayNonces, \* capacity of the replay cache
  MaxFailures,     \* failures that close a connection (5 in the code)
  MaxClock,        \* bound: last instant of the modelled clocks
  MaxClockSteps,   \* bound: how often the wall clock is set
  MaxTrips,        \* bound: how often panic mode is entered or integrity lost
  MaxReads         \* bound: lines delivered in all

Actions == {"get", "audioStart", "audioStop", "audioStatus", "control"}

(* What a line is to the pipeline: whether it fits the size limit, decodes  *)
(* and passes the static part of validateCommand (form), whether its HMAC   *)
(* is right (hmac), and the fields the later checks read.                 *)
LineType == [form : {"oversize", "malformed", "invalid", "ok"}, nonce : Nonces,
             ts : Int, hmac : {"right", "wrong"}, action : Actions]

ASSUME GateAssumption ==
  /\ NoNonce \notin Nonces
  /\ Lines \subseteq LineType
  /\ Skew \in Nat
  /\ MinInterval \in Nat
  /\ MaxReplayNonces \in Nat
  /\ MaxFailures \in Nat \ {0}
  /\ MaxClock \in Nat
  /\ MaxClockSteps \in Nat
  /\ MaxTrips \in Nat
  /\ MaxReads \in Nat

VARIABLES
  mono, wall,     \* monotonic clock; wall clock
  clockSteps,     \* how often the wall clock was set so far
  replay,         \* replayNonces: expiry of each cached nonce, or Absent
  panic,          \* panicModeActive()
  healthy,        \* bridgeIntegrityHealthy()
  trips,          \* how often the service went fail-closed so far
  reads,          \* how many lines were delivered so far
  pc,             \* where each handler is
  cmd,            \* its command, with when it was checked and its time.Now()
  requestNonce,   \* the nonce its encoder binds replies to
  invalidRequests, authFailures, lastCommandAt,
  acceptLog,      \* history: every nonce accepted, with its times
  reply,          \* history: reply to the last line, until the next one
  late            \* history: control effects of a connection after a trip

clocks   == <<mono, wall, clockSteps>>
trip     == <<panic, healthy, trips>>
shared   == <<clocks, replay, trip, reads>>
counters == <<invalidRequests, authFailures, lastCommandAt>>
history  == <<acceptLog, late>>
handlers == <<pc, cmd, requestNonce, counters, reply, acceptLog>>
vars     == <<shared, handlers, late>>

Absent == -1   \* a nonce that is not in the cache
Never  == -1   \* the zero value of lastCommandAt

Kinds == {"none", "too large", "integrity", "invalid", "auth", "replay",
          "panic", "rate", "SUCCESS", "ERROR"}

(* The scope of cmd ends with the iteration that read it.                   *)
Blank == [form |-> "malformed", nonce |-> NoNonce, ts |-> 0, hmac |-> "wrong",
          action |-> "get", checked |-> 0, now |-> 0]

-----------------------------------------------------------------------------
(* The loop of handleConnection *)

(* Mutant: the binding of the last request is not reset.                    *)
LoopTopStale(c) == requestNonce[c]

(* The requestNonce with which the loop goes into its next iteration.       *)
LoopTop(c) == NoNonce

(* encoder.Encode, the answer to line l: bound to the requestNonce n.  The  *)
(* handler returns when the write fails or when it closes by itself.        *)
Encode(c, kind, n, l, closing) ==
  /\ reply' = [reply EXCEPT ![c] = [kind |-> kind, bound |-> n, nonce |-> l.nonce,
                                    form |-> l.form, action |-> l.action]]
  /\ cmd' = [cmd EXCEPT ![c] = Blank]
  /\ \E written \in BOOLEAN :
       /\ pc' = [pc EXCEPT ![c] = IF written /\ ~closing THEN "read" ELSE "closed"]
       /\ requestNonce' = [requestNonce EXCEPT ![c] =
                             IF written /\ ~closing THEN LoopTop(c) ELSE NoNonce]

Answer(c, kind, closing) == Encode(c, kind, requestNonce[c], cmd[c], closing)

Goto(c, label) ==
  /\ pc' = [pc EXCEPT ![c] = label]
  /\ UNCHANGED <<requestNonce, reply>>

NoReply == [kind |-> "none", bound |-> NoNonce, nonce |-> NoNonce,
            form |-> "malformed", action |-> "get"]

(* A listener slot takes a new connection: fresh counters, fresh encoder.   *)
Connect(c) ==
  /\ pc[c] = "closed"
  /\ Goto(c, "read")
  /\ invalidRequests' = [invalidRequests EXCEPT ![c] = 0]
  /\ authFailures' = [authFailures EXCEPT ![c] = 0]
  /\ lastCommandAt' = [lastCommandAt EXCEPT ![c] = Never]
  /\ UNCHANGED <<shared, cmd, acceptLog, late>>

(* readBoundedRequest fails: end of stream or the 30 s read deadline.       *)
Disconnect(c) ==
  /\ pc[c] = "read"
  /\ pc' = [pc EXCEPT ![c] = "closed"]
  /\ requestNonce' = [requestNonce EXCEPT ![c] = NoNonce]
  /\ UNCHANGED <<shared, cmd, counters, history, reply>>

(* decodeCommandStrict: the command a well-formed line holds.               *)
Decoded(l) == [Blank EXCEPT !.form = l.form, !.nonce = l.nonce, !.ts = l.ts,
                            !.hmac = l.hmac, !.action = l.action]

(* Mutant: the integrity flag is not asked for.                             *)
IntegrityAssumed == TRUE

(* bridgeIntegrityHealthy, asked for every line.                            *)
BridgeIntegrityHealthy == healthy

(* A line arrives.  Size, integrity flag and decoding are settled before    *)
(* the answer can be bound to the nonce of the line.                        *)
Read(c, l) ==
  /\ pc[c] = "read"
  /\ reads < MaxReads
  /\ reads' = reads + 1
  /\ \/ /\ l.form = "oversize"
        /\ Encode(c, "too large", requestNonce[c], l, TRUE)
        /\ UNCHANGED counters
     \/ /\ l.form # "oversize" /\ ~BridgeIntegrityHealthy
        /\ Encode(c, "integrity", requestNonce[c], l, TRUE)
        /\ UNCHANGED counters
     \/ /\ l.form = "malformed" /\ BridgeIntegrityHealthy
        /\ invalidRequests' = [invalidRequests EXCEPT ![c] = @ + 1]
        /\ Encode(c, "invalid", requestNonce[c], l, invalidRequests[c] + 1 >= MaxFailures)
        /\ UNCHANGED <<authFailures, lastCommandAt>>
     \/ /\ l.form \in {"invalid", "ok"} /\ BridgeIntegrityHealthy
        /\ cmd' = [cmd EXCEPT ![c] = Decoded(l)]
        /\ requestNonce' = [requestNonce EXCEPT ![c] = l.nonce]
        /\ pc' = [pc EXCEPT ![c] = "validate"]
        /\ reply' = [reply EXCEPT ![c] = NoReply]
        /\ UNCHANGED counters
  /\ UNCHANGED <<clocks, replay, trip, acceptLog, late>>

(* Mutant: old timestamps are let through longer than nonces are kept.      *)
InWiderWindow(ts) == wall - ts <= Skew + 1 /\ wall - ts >= -Skew

(* The timestamp window of validateCommand, on the wall clock.              *)
InWindow(ts) == wall - ts <= Skew /\ wall - ts >= -Skew

(* One more invalid request, answered with an error.                        *)
RejectInvalid(c, kind) ==
  /\ invalidRequests' = [invalidRequests EXCEPT ![c] = @ + 1]
  /\ Answer(c, kind, invalidRequests[c] + 1 >= MaxFailures)
  /\ UNCHANGED <<authFailures, lastCommandAt>>

Validate(c) ==
  /\ pc[c] = "validate"
  /\ \/ /\ cmd[c].form = "invalid" \/ ~InWindow(cmd[c].ts)
        /\ RejectInvalid(c, "invalid")
     \/ /\ cmd[c].form = "ok" /\ InWindow(cmd[c].ts)
        /\ cmd' = [cmd EXCEPT ![c].checked = mono]
        /\ Goto(c, "authenticate")
        /\ UNCHANGED counters
  /\ UNCHANGED <<shared, history>>

(* authenticateCommand; on success time.Now() is sampled for the next step, *)
(* before replayMu is taken.                                                *)
Authenticate(c) ==
  /\ pc[c] = "authenticate"
  /\ \/ /\ cmd[c].hmac = "wrong"
        /\ authFailures' = [authFailures EXCEPT ![c] = @ + 1]
        /\ Answer(c, "auth", authFailures[c] + 1 >= MaxFailures)
        /\ UNCHANGED <<invalidRequests, lastCommandAt>>
     \/ /\ cmd[c].hmac = "right"
        /\ cmd' = [cmd EXCEPT ![c].now = mono]
        /\ Goto(c, "consume")
        /\ UNCHANGED counters
  /\ UNCHANGED <<shared, history>>

(* Mutant: an entry is dropped at the instant of its expiry.                *)
PurgedTooEarly(t) == [n \in Nonces |-> IF replay[n] # Absent /\ t >= replay[n]
                                       THEN Absent ELSE replay[n]]

(* Mutant: a full cache is emptied to make room.                            *)
PurgedWhenFull(t) ==
  IF Cardinality({n \in Nonces : replay[n] # Absent}) >= MaxReplayNonces
  THEN [n \in Nonces |-> Absent] ELSE replay

(* The cache after consumeCommandNonce dropped what expired before t.       *)
Purged(t) == [n \in Nonces |-> IF replay[n] # Absent /\ t > replay[n]
                               THEN Absent ELSE replay[n]]

Cached(cache) == {n \in Nonces : cache[n] # Absent}

(* A nonce is refused when it is cached or when the cache is saturated.     *)
Refused(n, cache) ==
  n \in Cached(cache) \/ Cardinality(Cached(cache)) >= MaxReplayNonces

(* consumeCommandNonce, under replayMu, with the time sampled earlier.      *)
ConsumeNonce(c) ==
  /\ pc[c] = "consume"
  /\ LET cache == Purged(cmd[c].now)
         nonce == cmd[c].nonce
     IN \/ /\ Refused(nonce, cache)
           /\ replay' = cache
           /\ RejectInvalid(c, "replay")
           /\ UNCHANGED acceptLog
        \/ /\ ~Refused(nonce, cache)
           /\ replay' = [cache EXCEPT ![nonce] = cmd[c].now + Skew]
           /\ acceptLog' = Append(acceptLog, [nonce |-> nonce, ts |-> cmd[c].ts,
                                              checked |-> cmd[c].checked,
                                              now |-> cmd[c].now, at |-> mono])
           /\ invalidRequests' = [invalidRequests EXCEPT ![c] = 0]
           /\ authFailures' = [authFailures EXCEPT ![c] = 0]
           /\ Goto(c, "panic")
           /\ UNCHANGED <<lastCommandAt, cmd>>
  /\ UNCHANGED <<clocks, trip, reads, late>>

(* While the panic file is valid only the read-only actions are let through. *)
ReadOnly(action) == action = "get"

PanicGate(c) ==
  /\ pc[c] = "panic"
  /\ \/ /\ panic /\ ~ReadOnly(cmd[c].action)
        /\ Answer(c, "panic", FALSE)
     \/ /\ ~panic \/ ReadOnly(cmd[c].action)
        /\ Goto(c, "rate")
        /\ UNCHANGED cmd
  /\ UNCHANGED <<shared, counters, history>>

(* The rate limit of one connection; the nonce is already consumed.         *)
TooSoon(c) == lastCommandAt[c] # Never /\ mono - lastCommandAt[c] < MinInterval

RateLimit(c) ==
  /\ pc[c] = "rate"
  /\ \/ /\ TooSoon(c)
        /\ Answer(c, "rate", FALSE)
        /\ UNCHANGED lastCommandAt
     \/ /\ ~TooSoon(c)
        /\ lastCommandAt' = [lastCommandAt EXCEPT ![c] = mono]
        /\ Goto(c, "dispatch")
        /\ UNCHANGED cmd
  /\ UNCHANGED <<shared, invalidRequests, authFailures, history>>

(* Reads and audio commands run to their reply; a control command first     *)
(* takes the second panic check, at the head of executeHardwareCommand.     *)
Dispatch(c) ==
  /\ pc[c] = "dispatch"
  /\ \/ /\ cmd[c].action # "control"
        /\ \E kind \in {"SUCCESS", "ERROR"} : Answer(c, kind, FALSE)
     \/ /\ cmd[c].action = "control" /\ panic
        /\ Answer(c, "ERROR", FALSE)
     \/ /\ cmd[c].action = "control" /\ ~panic
        /\ Goto(c, "apply")
        /\ UNCHANGED cmd
  /\ UNCHANGED <<shared, counters, history>>

Tripped == panic \/ ~healthy

(* Mutant: a command that was carried out falls through to the next read.   *)
ApplySilent(c) ==
  /\ pc[c] = "apply"
  /\ \/ /\ pc' = [pc EXCEPT ![c] = "read"]
        /\ cmd' = [cmd EXCEPT ![c] = Blank]
        /\ requestNonce' = [requestNonce EXCEPT ![c] = LoopTop(c)]
        /\ late' = [late EXCEPT ![c] = IF Tripped THEN @ + 1 ELSE @]
        /\ UNCHANGED reply
     \/ /\ Answer(c, "ERROR", FALSE)
        /\ UNCHANGED late
  /\ UNCHANGED <<shared, counters, acceptLog>>

(* The hardware is changed (or a safety check refuses) and the command is   *)
(* answered.  Safety telemetry is collected between Dispatch and this step. *)
Apply(c) ==
  /\ pc[c] = "apply"
  /\ \/ /\ Answer(c, "SUCCESS", FALSE)
        /\ late' = [late EXCEPT ![c] = IF Tripped THEN @ + 1 ELSE @]
     \/ /\ Answer(c, "ERROR", FALSE)
        /\ UNCHANGED late
  /\ UNCHANGED <<shared, counters, acceptLog>>

-----------------------------------------------------------------------------
(* The environment of the handlers *)

Tick ==
  /\ mono < MaxClock
  /\ mono' = mono + 1
  /\ wall' = wall + 1
  /\ UNCHANGED <<clockSteps, replay, trip, reads, handlers, late>>

(* The operating system sets the wall clock; the monotonic clock goes on.   *)
SetWallClock ==
  /\ clockSteps < MaxClockSteps
  /\ clockSteps' = clockSteps + 1
  /\ wall' \in 0..MaxClock
  /\ UNCHANGED <<mono, replay, trip, reads, handlers, late>>

(* Canary and guardian publish the panic file; the accept loop or a         *)
(* handler of another connection may do it at any moment.                   *)
EnterPanic ==
  /\ ~panic
  /\ trips < MaxTrips
  /\ trips' = trips + 1
  /\ panic' = TRUE
  /\ UNCHANGED <<clocks, replay, healthy, reads, handlers, late>>

(* Trusted recovery removes the panic file while the service runs.          *)
ClearPanic ==
  /\ panic
  /\ panic' = FALSE
  /\ late' = [c \in Conns |-> 0]
  /\ UNCHANGED <<clocks, replay, healthy, trips, reads, handlers>>

(* The integrity monitor reports a violation: never taken back.             *)
IntegrityViolated ==
  /\ healthy
  /\ trips < MaxTrips
  /\ trips' = trips + 1
  /\ healthy' = FALSE
  /\ UNCHANGED <<clocks, replay, panic, reads, handlers, late>>

-----------------------------------------------------------------------------

Init ==
  /\ mono = 0
  /\ wall = 0
  /\ clockSteps = 0
  /\ replay = [n \in Nonces |-> Absent]
  /\ panic = FALSE
  /\ healthy = TRUE
  /\ trips = 0
  /\ reads = 0
  /\ pc = [c \in Conns |-> "closed"]
  /\ cmd = [c \in Conns |-> Blank]
  /\ requestNonce = [c \in Conns |-> NoNonce]
  /\ invalidRequests = [c \in Conns |-> 0]
  /\ authFailures = [c \in Conns |-> 0]
  /\ lastCommandAt = [c \in Conns |-> Never]
  /\ acceptLog = <<>>
  /\ reply = [c \in Conns |-> NoReply]
  /\ late = [c \in Conns |-> 0]

(* The steps by which a handler works off the line it has read.             *)
Handle(c) ==
  \/ Validate(c)
  \/ Authenticate(c)
  \/ ConsumeNonce(c)
  \/ PanicGate(c)
  \/ RateLimit(c)
  \/ Dispatch(c)
  \/ Apply(c)

Next ==
  \/ \E c \in Conns : Connect(c)
  \/ \E c \in Conns : Disconnect(c)
  \/ \E c \in Conns, l \in Lines : Read(c, l)
  \/ \E c \in Conns : Handle(c)
  \/ Tick
  \/ SetWallClock
  \/ EnterPanic
  \/ ClearPanic
  \/ IntegrityViolated

Spec == Init /\ [][Next]_vars

(* Each handler is a goroutine: the scheduler runs it, and every call it    *)
(* makes is bounded by a deadline, so a line it has read is worked off.     *)
FairSpec == Spec /\ \A c \in Conns : WF_vars(Handle(c))

-----------------------------------------------------------------------------
(* Properties *)

Labels == {"closed", "read", "validate", "authenticate", "consume", "panic",
           "rate", "dispatch", "apply"}
Forms == {"oversize", "malformed", "invalid", "ok"}
CmdType == [form : Forms, nonce : Nonces \cup {NoNonce}, ts : Int, hmac : {"right", "wrong"},
            action : Actions, checked : Nat, now : Nat]
AcceptType == [nonce : Nonces, ts : Int, checked : Nat, now : Nat, at : Nat]
ReplyType == [kind : Kinds, bound : Nonces \cup {NoNonce}, nonce : Nonces \cup {NoNonce},
              form : Forms, action : Actions]

(* Every variable of the pipeline keeps its type; a handler that works on a *)
(* line has one with a nonce.                                               *)
TypeOK ==
  /\ mono \in Nat /\ wall \in Int /\ clockSteps \in Nat
  /\ replay \in [Nonces -> Nat \cup {Absent}]
  /\ panic \in BOOLEAN /\ healthy \in BOOLEAN /\ trips \in Nat /\ reads \in Nat
  /\ pc \in [Conns -> Labels]
  /\ cmd \in [Conns -> CmdType]
  /\ \A c \in Conns : pc[c] \notin {"closed", "read"} => cmd[c].nonce \in Nonces
  /\ requestNonce \in [Conns -> Nonces \cup {NoNonce}]
  /\ invalidRequests \in [Conns -> Nat]
  /\ authFailures \in [Conns -> Nat]
  /\ lastCommandAt \in [Conns -> Nat \cup {Never}]
  /\ acceptLog \in Seq(AcceptType)
  /\ reply \in [Conns -> ReplyType]
  /\ late \in [Conns -> Nat]

(* consumeCommandNonce: whatever the interleaving of the handlers, and      *)
(* however long one is held up between time.Now() and the lock, a nonce     *)
(* that was accepted is not accepted again until commandClockSkew has       *)
(* passed since the first handler took its time.                            *)
ReplayWindow ==
  \A i, j \in 1..Len(acceptLog) :
    i < j /\ acceptLog[i].nonce = acceptLog[j].nonce
      => acceptLog[j].at > acceptLog[i].now + Skew

(* The window validateCommand checks and the life of the cache entry fit    *)
(* together: while the wall clock is not set, a nonce is accepted twice     *)
(* only if its timestamp lies ahead of the time of the first acceptance, up *)
(* to the delay of the second handler between timestamp check and cache.    *)
SecondAcceptNeedsClientAhead ==
  clockSteps = 0 =>
    \A i, j \in 1..Len(acceptLog) :
      LET first == acceptLog[i]
          second == acceptLog[j]
      IN i < j /\ first.nonce = second.nonce
           => second.ts + (second.at - second.checked) > first.now

(* "Never evict a still-valid nonce to admit a new one": an entry leaves    *)
(* the cache, or changes, only after it expired.                            *)
NoEarlyEviction ==
  [][\A n \in Nonces : replay[n] # Absent /\ replay'[n] # replay[n]
                          => mono > replay[n]]_vars

(* The replay cache never outgrows maxReplayNonces.                         *)
CacheBounded == Cardinality(Cached(replay)) <= MaxReplayNonces

(* The answer to a line is bound to the nonce of that line, and to none     *)
(* when the line was not decoded: never to an earlier request.              *)
ReplyBinding ==
  \A c \in Conns :
    reply[c].kind # "none" =>
      reply[c].bound = IF reply[c].form \in {"invalid", "ok"} /\ reply[c].kind # "integrity"
                       THEN reply[c].nonce ELSE NoNonce

(* Once panic mode or an integrity violation is there, each connection      *)
(* completes at most the one control command that had passed its checks.    *)
FailClosed == \A c \in Conns : late[c] <= 1

(* "Every accepted command must receive a response": a handler does not get *)
(* back to its next read, and does not close, without having encoded a      *)
(* reply to the line it worked on, and encodes no second one; and one that  *)
(* has read a line does come to its reply. (The Encode may fail: then the   *)
(* handler returns.)                                                        *)
Working(c) == pc[c] \notin {"read", "closed"}
OneAnswerPerLine ==
  [][\A c \in Conns :
       Working(c) =>
         /\ reply[c].kind = "none"
         /\ pc'[c] \in {"read", "closed"} <=> reply'[c].kind # "none"
         /\ reply'[c].kind # "none" => reply'[c].nonce = cmd[c].nonce]_vars
EveryLineAnswered ==
  /\ OneAnswerPerLine
  /\ \A c \in Conns : Working(c) ~> reply[c].kind # "none"
=============================================================================
