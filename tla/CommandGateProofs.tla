------------------------- MODULE CommandGateProofs -------------------------
(***************************************************************************)
(* Theorems about CommandGate, for any number of connections, any set of   *)
(* nonces and request lines, and any value of the limits.                  *)
(***************************************************************************)
EXTENDS CommandGate, FiniteSetTheorems, TLAPS

(* The invariant behind the replay window.  A handler's time.Now() is never *)
(* ahead of the clock; every accepted nonce is either still in the cache    *)
(* with an expiry that covers it, or its skew has passed.                   *)
ReplayInv ==
  /\ TypeOK
  /\ \A c \in Conns : pc[c] = "consume" => cmd[c].now <= mono
  /\ \A i \in 1..Len(acceptLog) :
       \/ mono > acceptLog[i].now + Skew
       \/ /\ replay[acceptLog[i].nonce] # Absent
          /\ replay[acceptLog[i].nonce] >= acceptLog[i].now + Skew
  /\ ReplayWindow

-----------------------------------------------------------------------------

LEMMA EncodeType ==
  ASSUME TypeOK, NEW c \in Conns, NEW kind \in Kinds, NEW n \in Nonces \cup {NoNonce},
         NEW l, l.form \in Forms, l.nonce \in Nonces \cup {NoNonce}, l.action \in Actions,
         NEW closing, Encode(c, kind, n, l, closing)
  PROVE  /\ reply' \in [Conns -> ReplyType]
         /\ cmd' \in [Conns -> CmdType]
         /\ requestNonce' \in [Conns -> Nonces \cup {NoNonce}]
         /\ pc' \in [Conns -> Labels]
         /\ pc'[c] \in {"read", "closed"}
         /\ \A d \in Conns \ {c} : pc'[d] = pc[d] /\ cmd'[d] = cmd[d]
<1>1. Blank \in CmdType
  BY DEF Blank, CmdType, Forms, Actions
<1>2. [kind |-> kind, bound |-> n, nonce |-> l.nonce, form |-> l.form,
       action |-> l.action] \in ReplyType
  BY DEF ReplyType
<1>3. QED
  BY <1>1, <1>2 DEF Encode, TypeOK, LoopTop, Labels

(* The answer to the command a handler works on.                            *)
LEMMA AnswerType ==
  ASSUME TypeOK, NEW c \in Conns, NEW kind \in Kinds, NEW closing,
         Answer(c, kind, closing)
  PROVE  /\ reply' \in [Conns -> ReplyType]
         /\ cmd' \in [Conns -> CmdType]
         /\ requestNonce' \in [Conns -> Nonces \cup {NoNonce}]
         /\ pc' \in [Conns -> Labels]
         /\ pc'[c] \in {"read", "closed"}
         /\ \A d \in Conns \ {c} : pc'[d] = pc[d] /\ cmd'[d] = cmd[d]
<1>1. /\ cmd[c].form \in Forms
      /\ cmd[c].nonce \in Nonces \cup {NoNonce}
      /\ cmd[c].action \in Actions
      /\ requestNonce[c] \in Nonces \cup {NoNonce}
  BY DEF TypeOK, CmdType
<1>2. QED
  BY <1>1, EncodeType DEF Answer

-----------------------------------------------------------------------------

(* A handler notes a time in the command it works on.                       *)
LEMMA StampType ==
  ASSUME TypeOK, NEW c \in Conns,
         \/ cmd' = [cmd EXCEPT ![c].checked = mono]
         \/ cmd' = [cmd EXCEPT ![c].now = mono]
  PROVE  /\ cmd' \in [Conns -> CmdType]
         /\ \A d \in Conns : cmd'[d].nonce = cmd[d].nonce
<1>1. cmd[c] \in CmdType /\ mono \in Nat /\ cmd \in [Conns -> CmdType]
  BY DEF TypeOK
<1>2. /\ [cmd[c] EXCEPT !.checked = mono] \in CmdType
      /\ [cmd[c] EXCEPT !.now = mono] \in CmdType
      /\ [cmd[c] EXCEPT !.checked = mono].nonce = cmd[c].nonce
      /\ [cmd[c] EXCEPT !.now = mono].nonce = cmd[c].nonce
  BY <1>1 DEF CmdType
<1>3. \/ cmd' = [cmd EXCEPT ![c] = [cmd[c] EXCEPT !.checked = mono]]
      \/ cmd' = [cmd EXCEPT ![c] = [cmd[c] EXCEPT !.now = mono]]
  OBVIOUS
<1>4. QED
  BY <1>1, <1>2, <1>3

-----------------------------------------------------------------------------

LEMMA TypeInit == Init => TypeOK
<1> SUFFICES ASSUME Init PROVE TypeOK
  OBVIOUS
<1>1. Blank \in CmdType /\ NoReply \in ReplyType
  BY DEF Blank, NoReply, CmdType, ReplyType, Forms, Kinds, Actions
<1>2. panic \in BOOLEAN /\ healthy \in BOOLEAN
  BY Zenon DEF Init
<1>3. cmd \in [Conns -> CmdType] /\ reply \in [Conns -> ReplyType]
  BY <1>1 DEF Init
<1>4. acceptLog \in Seq(AcceptType)
  BY DEF Init
<1>5. QED
  BY <1>2, <1>3, <1>4 DEF Init, TypeOK, Labels, Absent, Never

(* Every step of the pipeline and of its environment keeps the types.       *)
LEMMA TypeStep == TypeOK /\ [Next]_vars => TypeOK'
<1> SUFFICES ASSUME TypeOK, [Next]_vars PROVE TypeOK'
  OBVIOUS
<1>1. ASSUME NEW c \in Conns, Connect(c) PROVE TypeOK'
  BY <1>1 DEF TypeOK, Connect, Goto, Labels, Never, shared, clocks, trip
<1>2. ASSUME NEW c \in Conns, Disconnect(c) PROVE TypeOK'
  BY <1>2 DEF TypeOK, Disconnect, Labels, shared, clocks, trip, counters, history
<1>3. ASSUME NEW c \in Conns, NEW l \in Lines, Read(c, l) PROVE TypeOK'
  <2>1. /\ l.form \in Forms /\ l.nonce \in Nonces /\ l.ts \in Int
        /\ l.hmac \in {"right", "wrong"} /\ l.action \in Actions
    BY GateAssumption DEF LineType, Forms
  <2>2. /\ UNCHANGED <<mono, wall, clockSteps, replay, panic, healthy, trips, acceptLog, late>>
        /\ reads' = reads + 1
    BY <1>3 DEF Read, clocks, trip
  <2>3. reads' \in Nat
    BY <2>2 DEF TypeOK
  <2>4. ASSUME NEW kind \in Kinds, NEW closing,
               Encode(c, kind, requestNonce[c], l, closing),
               invalidRequests' \in [Conns -> Nat], UNCHANGED <<authFailures, lastCommandAt>>
        PROVE  TypeOK'
    <3>1. requestNonce[c] \in Nonces \cup {NoNonce}
      BY DEF TypeOK
    <3>2. QED
      BY <2>1, <2>2, <2>3, <2>4, <3>1, EncodeType DEF TypeOK
  <2>5. ASSUME cmd' = [cmd EXCEPT ![c] = Decoded(l)],
               requestNonce' = [requestNonce EXCEPT ![c] = l.nonce],
               pc' = [pc EXCEPT ![c] = "validate"],
               reply' = [reply EXCEPT ![c] = NoReply],
               UNCHANGED counters
        PROVE  TypeOK'
    <3>1. NoReply \in ReplyType
      BY DEF NoReply, ReplyType, Kinds, Forms, Actions
    <3>2. Decoded(l) \in CmdType /\ Decoded(l).nonce \in Nonces
      BY <2>1 DEF Decoded, Blank, CmdType
    <3>3. QED
      BY <2>1, <2>2, <2>3, <2>5, <3>1, <3>2 DEF TypeOK, Labels, counters
  <2>6. CASE l.form = "oversize"
    BY <1>3, <2>4, <2>6 DEF Read, Kinds, TypeOK, counters
  <2>7. CASE l.form # "oversize" /\ ~BridgeIntegrityHealthy
    BY <1>3, <2>4, <2>7 DEF Read, Kinds, TypeOK, counters
  <2>8. CASE l.form = "malformed" /\ BridgeIntegrityHealthy
    <3>1. invalidRequests' = [invalidRequests EXCEPT ![c] = @ + 1]
      BY <1>3, <2>8 DEF Read
    <3>2. invalidRequests' \in [Conns -> Nat]
      BY <3>1 DEF TypeOK
    <3>3. QED
      BY <1>3, <2>4, <2>8, <3>2 DEF Read, Kinds
  <2>9. CASE l.form \in {"invalid", "ok"} /\ BridgeIntegrityHealthy
    BY <1>3, <2>5, <2>9 DEF Read
  <2>10. QED
    BY <2>1, <2>6, <2>7, <2>8, <2>9 DEF Forms
<1>4. ASSUME NEW c \in Conns, Validate(c) PROVE TypeOK'
  <2>1. UNCHANGED <<mono, wall, clockSteps, reads, trips, replay, panic, healthy,
                    acceptLog, late>>
    BY <1>4 DEF Validate, shared, clocks, trip, history
  <2>2. CASE RejectInvalid(c, "invalid")
    <3>1. invalidRequests' \in [Conns -> Nat] /\ UNCHANGED <<authFailures, lastCommandAt>>
      BY <2>2 DEF RejectInvalid, TypeOK
    <3>2. "invalid" \in Kinds
      BY DEF Kinds
    <3>3. QED
      BY <2>1, <2>2, <3>1, <3>2, AnswerType DEF RejectInvalid, TypeOK
  <2>3. CASE /\ cmd' = [cmd EXCEPT ![c].checked = mono]
             /\ Goto(c, "authenticate")
             /\ UNCHANGED counters
    BY <1>4, <2>1, <2>3, StampType DEF Validate, Goto, TypeOK, counters, Labels
  <2>4. QED
    BY <1>4, <2>2, <2>3 DEF Validate
<1>5. ASSUME NEW c \in Conns, Authenticate(c) PROVE TypeOK'
  <2>1. UNCHANGED <<mono, wall, clockSteps, reads, trips, replay, panic, healthy,
                    acceptLog, late>>
    BY <1>5 DEF Authenticate, shared, clocks, trip, history
  <2>2. CASE cmd[c].hmac = "wrong"
    <3>1. /\ authFailures' = [authFailures EXCEPT ![c] = @ + 1]
          /\ UNCHANGED <<invalidRequests, lastCommandAt>>
      BY <1>5, <2>2 DEF Authenticate
    <3>2. authFailures' \in [Conns -> Nat]
      BY <3>1 DEF TypeOK
    <3>3. "auth" \in Kinds
      BY DEF Kinds
    <3>4. QED
      BY <1>5, <2>1, <2>2, <3>1, <3>2, <3>3, AnswerType DEF Authenticate, TypeOK
  <2>3. CASE cmd[c].hmac = "right"
    BY <1>5, <2>1, <2>3, StampType DEF Authenticate, Goto, TypeOK, counters, Labels
  <2>4. QED
    BY <1>5, <2>2, <2>3 DEF Authenticate
<1>6. ASSUME NEW c \in Conns, ConsumeNonce(c) PROVE TypeOK'
  <2>1. UNCHANGED <<mono, wall, clockSteps, reads, trips, panic, healthy, late>>
    BY <1>6 DEF ConsumeNonce, clocks, trip
  <2>2. Purged(cmd[c].now) \in [Nonces -> Nat \cup {Absent}]
    BY DEF Purged, TypeOK
  <2>3. CASE Refused(cmd[c].nonce, Purged(cmd[c].now))
    <3>1. /\ RejectInvalid(c, "replay") /\ replay' = Purged(cmd[c].now)
          /\ UNCHANGED acceptLog
      BY <1>6, <2>3 DEF ConsumeNonce
    <3>2. invalidRequests' \in [Conns -> Nat] /\ UNCHANGED <<authFailures, lastCommandAt>>
      BY <3>1 DEF RejectInvalid, TypeOK
    <3>3. "replay" \in Kinds
      BY DEF Kinds
    <3>4. QED
      BY <2>1, <2>2, <3>1, <3>2, <3>3, AnswerType DEF RejectInvalid, TypeOK
  <2>4. CASE ~Refused(cmd[c].nonce, Purged(cmd[c].now))
    <3>1. /\ cmd[c].nonce \in Nonces /\ cmd[c].now \in Nat /\ cmd[c].ts \in Int
          /\ cmd[c].checked \in Nat /\ mono \in Nat
      BY <1>6 DEF TypeOK, ConsumeNonce, CmdType
    <3>2. acceptLog' \in Seq(AcceptType)
      <4>1. [nonce |-> cmd[c].nonce, ts |-> cmd[c].ts, checked |-> cmd[c].checked,
             now |-> cmd[c].now, at |-> mono] \in AcceptType
        BY <3>1 DEF AcceptType
      <4>2. acceptLog \in Seq(AcceptType)
        BY DEF TypeOK
      <4>3. QED
        BY <1>6, <2>4, <4>1, <4>2 DEF ConsumeNonce
    <3>3. replay' \in [Nonces -> Nat \cup {Absent}]
      BY <1>6, <2>2, <2>4, <3>1, GateAssumption DEF ConsumeNonce
    <3>4. /\ invalidRequests' = [invalidRequests EXCEPT ![c] = 0]
          /\ authFailures' = [authFailures EXCEPT ![c] = 0]
          /\ UNCHANGED <<lastCommandAt, cmd>>
          /\ pc' = [pc EXCEPT ![c] = "panic"] /\ UNCHANGED <<requestNonce, reply>>
      BY <1>6, <2>4 DEF ConsumeNonce, Goto
    <3>5. QED
      BY <2>1, <3>1, <3>2, <3>3, <3>4 DEF TypeOK, Labels
  <2>5. QED
    BY <2>3, <2>4
<1>7. ASSUME NEW c \in Conns, PanicGate(c) PROVE TypeOK'
  <2>1. UNCHANGED <<mono, wall, clockSteps, reads, trips, replay, panic, healthy,
                    invalidRequests, authFailures, lastCommandAt, acceptLog, late>>
    BY <1>7 DEF PanicGate, shared, clocks, trip, history, counters
  <2>2. CASE Answer(c, "panic", FALSE)
    BY <2>1, <2>2, AnswerType DEF TypeOK, Kinds
  <2>3. CASE Goto(c, "rate") /\ UNCHANGED cmd
    BY <1>7, <2>1, <2>3 DEF TypeOK, PanicGate, Goto, Labels
  <2>4. QED
    BY <1>7, <2>2, <2>3 DEF PanicGate
<1>8. ASSUME NEW c \in Conns, RateLimit(c) PROVE TypeOK'
  <2>1. UNCHANGED <<mono, wall, clockSteps, reads, trips, replay, panic, healthy,
                    invalidRequests, authFailures, acceptLog, late>>
    BY <1>8 DEF RateLimit, shared, clocks, trip, history
  <2>2. CASE TooSoon(c)
    BY <1>8, <2>1, <2>2, AnswerType DEF TypeOK, RateLimit, Kinds
  <2>3. CASE ~TooSoon(c)
    <3>1. /\ lastCommandAt' = [lastCommandAt EXCEPT ![c] = mono]
          /\ pc' = [pc EXCEPT ![c] = "dispatch"]
          /\ pc[c] = "rate" /\ UNCHANGED <<cmd, requestNonce, reply>>
      BY <1>8, <2>3 DEF RateLimit, Goto
    <3>2. QED
      BY <2>1, <3>1 DEF TypeOK, Labels
  <2>4. QED
    BY <2>2, <2>3
<1>9. ASSUME NEW c \in Conns, Dispatch(c) PROVE TypeOK'
  <2>1. UNCHANGED <<mono, wall, clockSteps, reads, trips, replay, panic, healthy,
                    invalidRequests, authFailures, lastCommandAt, acceptLog, late>>
    BY <1>9 DEF Dispatch, shared, clocks, trip, history, counters
  <2>2. CASE \E kind \in {"SUCCESS", "ERROR"} : Answer(c, kind, FALSE)
    BY <2>1, <2>2, AnswerType DEF TypeOK, Kinds
  <2>3. CASE Goto(c, "apply") /\ UNCHANGED cmd
    BY <1>9, <2>1, <2>3 DEF TypeOK, Dispatch, Goto, Labels
  <2>4. QED
    BY <1>9, <2>2, <2>3 DEF Dispatch
<1>10. ASSUME NEW c \in Conns, Apply(c) PROVE TypeOK'
  <2>1. UNCHANGED <<mono, wall, clockSteps, reads, trips, replay, panic, healthy,
                    invalidRequests, authFailures, lastCommandAt, acceptLog>>
    BY <1>10 DEF Apply, shared, clocks, trip, counters
  <2>2. late' \in [Conns -> Nat]
    <3>1. \/ late' = [late EXCEPT ![c] = IF Tripped THEN late[c] + 1 ELSE late[c]]
          \/ late' = late
      BY <1>10, Zenon DEF Apply
    <3>2. (IF Tripped THEN late[c] + 1 ELSE late[c]) \in Nat
      BY DEF TypeOK
    <3>3. QED
      BY <3>1, <3>2, Zenon DEF TypeOK
  <2>3. \E kind \in Kinds : Answer(c, kind, FALSE)
    BY <1>10 DEF Apply, Kinds
  <2>4. QED
    BY <2>1, <2>2, <2>3, AnswerType DEF TypeOK
<1>11. CASE Tick
  BY <1>11 DEF Tick, TypeOK, trip, handlers, counters
<1>12. CASE SetWallClock
  BY <1>12, GateAssumption DEF SetWallClock, TypeOK, trip, handlers, counters
<1>13. CASE EnterPanic
  <2>1. panic' \in BOOLEAN /\ healthy' \in BOOLEAN
    BY <1>13, Zenon DEF EnterPanic, TypeOK
  <2>2. QED
    BY <1>13, <2>1 DEF EnterPanic, TypeOK, clocks, handlers, counters
<1>14. CASE ClearPanic
  <2>1. panic' \in BOOLEAN /\ healthy' \in BOOLEAN
    BY <1>14, Zenon DEF ClearPanic, TypeOK
  <2>2. QED
    BY <1>14, <2>1 DEF ClearPanic, TypeOK, clocks, handlers, counters
<1>15. CASE IntegrityViolated
  <2>1. panic' \in BOOLEAN /\ healthy' \in BOOLEAN
    BY <1>15, Zenon DEF IntegrityViolated, TypeOK
  <2>2. /\ trips' \in Nat
        /\ UNCHANGED <<clocks, replay, reads, handlers, late>>
    BY <1>15 DEF IntegrityViolated, TypeOK
  <2>3. QED
    BY <2>1, <2>2 DEF TypeOK, clocks, handlers, counters
<1>16. CASE UNCHANGED vars
  BY <1>16 DEF vars, TypeOK, shared, clocks, trip, handlers, counters
<1>17. QED
  BY <1>1, <1>2, <1>3, <1>4, <1>5, <1>6, <1>7, <1>8, <1>9, <1>10, <1>11, <1>12,
     <1>13, <1>14, <1>15, <1>16 DEF Next, Handle

(* Type correctness of the pipeline: no interleaving of the handlers takes  *)
(* the state of handleConnection or of the replay cache out of its types.   *)
THEOREM TypeCorrect == Spec => []TypeOK
<1>1. QED
  BY TypeInit, TypeStep, PTL DEF Spec

-----------------------------------------------------------------------------
(* The replay window *)

(* A step that leaves cache and log alone and does not turn back the clock. *)
LEMMA ReplayQuiet ==
  ASSUME ReplayInv, TypeOK', mono' >= mono, UNCHANGED <<replay, acceptLog>>,
         \A d \in Conns : pc'[d] = "consume" => cmd'[d].now <= mono'
  PROVE  ReplayInv'
<1>1. /\ mono \in Nat /\ mono' \in Nat /\ Skew \in Nat
      /\ \A i \in 1..Len(acceptLog) : acceptLog[i] \in AcceptType
  BY GateAssumption DEF ReplayInv, TypeOK
<1>2. ASSUME NEW i \in 1..Len(acceptLog)
      PROVE  \/ mono' > acceptLog[i].now + Skew
             \/ /\ replay[acceptLog[i].nonce] # Absent
                /\ replay[acceptLog[i].nonce] >= acceptLog[i].now + Skew
  <2>1. acceptLog[i].now \in Nat
    BY <1>1 DEF AcceptType
  <2>2. QED
    BY <1>1, <2>1 DEF ReplayInv
<1>3. QED
  BY <1>2 DEF ReplayInv, ReplayWindow

(* The answer to a command moves the handler back to its loop.              *)
LEMMA ReplayAnswer ==
  ASSUME ReplayInv, TypeOK', NEW c \in Conns, NEW kind \in Kinds, NEW closing,
         Answer(c, kind, closing), mono' = mono, UNCHANGED <<replay, acceptLog>>
  PROVE  ReplayInv'
<1>1. /\ pc'[c] \in {"read", "closed"}
      /\ \A d \in Conns \ {c} : pc'[d] = pc[d] /\ cmd'[d] = cmd[d]
  BY AnswerType DEF ReplayInv
<1>2. mono' >= mono
  BY DEF ReplayInv, TypeOK
<1>3. QED
  BY <1>1, <1>2, ReplayQuiet DEF ReplayInv

(* Only consumeCommandNonce touches the cache: it drops what expired before *)
(* the handler's time and enters the accepted nonce.                        *)
LEMMA ReplayConsume ==
  ASSUME ReplayInv, TypeOK', NEW c \in Conns, ConsumeNonce(c)
  PROVE  /\ ReplayInv'
         /\ \A n \in Nonces : replay[n] # Absent /\ replay'[n] # replay[n] => mono > replay[n]
<1> DEFINE cache == Purged(cmd[c].now)
           nonce == cmd[c].nonce
           entry == [nonce |-> nonce, ts |-> cmd[c].ts, checked |-> cmd[c].checked,
                     now |-> cmd[c].now, at |-> mono]
<1>1. /\ nonce \in Nonces /\ cmd[c].now \in Nat /\ cmd[c].now <= mono
      /\ mono \in Nat /\ Skew \in Nat /\ mono' = mono
  BY GateAssumption DEF ReplayInv, TypeOK, CmdType, ConsumeNonce, clocks
<1>2. \A n \in Nonces : replay[n] = Absent \/ replay[n] \in Nat
  BY DEF ReplayInv, TypeOK
<1>3. \A i \in 1..Len(acceptLog) :
        /\ acceptLog[i].nonce \in Nonces /\ acceptLog[i].now \in Nat
        /\ acceptLog[i].at \in Nat
  <2>1. \A i \in 1..Len(acceptLog) : acceptLog[i] \in AcceptType
    BY DEF ReplayInv, TypeOK
  <2>2. QED
    BY <2>1 DEF AcceptType
<1>4. \A n \in Nonces : \/ cache[n] = replay[n]
                        \/ /\ cache[n] = Absent /\ replay[n] # Absent
                           /\ cmd[c].now > replay[n]
  BY DEF Purged
<1>5. \A n \in Nonces : replay[n] # Absent /\ cache[n] # replay[n] => mono > replay[n]
  BY <1>1, <1>2, <1>4
<1>6. \A i \in 1..Len(acceptLog) :
        \/ mono > acceptLog[i].now + Skew
        \/ /\ cache[acceptLog[i].nonce] # Absent
           /\ cache[acceptLog[i].nonce] >= acceptLog[i].now + Skew
  BY <1>1, <1>2, <1>3, <1>5 DEF ReplayInv
<1>7. \A d \in Conns : pc'[d] = "consume" => cmd'[d].now <= mono'
  <2>1. CASE Refused(nonce, cache)
    <3>1. \A d \in Conns \ {c} : pc'[d] = pc[d] /\ cmd'[d] = cmd[d]
      BY <1>1, <2>1, AnswerType DEF ConsumeNonce, RejectInvalid, Kinds, ReplayInv
    <3>2. pc'[c] \in {"read", "closed"}
      BY <1>1, <2>1, AnswerType DEF ConsumeNonce, RejectInvalid, Kinds, ReplayInv
    <3>3. QED
      BY <1>1, <3>1, <3>2 DEF ReplayInv
  <2>2. CASE ~Refused(nonce, cache)
    <3>1. pc' = [pc EXCEPT ![c] = "panic"] /\ cmd' = cmd
      BY <2>2 DEF ConsumeNonce, Goto
    <3>2. QED
      BY <1>1, <3>1 DEF ReplayInv, TypeOK
  <2>3. QED
    BY <2>1, <2>2
<1>8. CASE Refused(nonce, cache)
  <2>1. replay' = cache /\ acceptLog' = acceptLog
    BY <1>8 DEF ConsumeNonce
  <2> HIDE DEF cache
  <2>2. QED
    BY <1>1, <1>5, <1>6, <1>7, <2>1 DEF ReplayInv, ReplayWindow
<1>9. CASE ~Refused(nonce, cache)
  <2>1. /\ replay' = [cache EXCEPT ![nonce] = cmd[c].now + Skew]
        /\ acceptLog' = Append(acceptLog, entry)
        /\ cache[nonce] = Absent
    BY <1>1, <1>9 DEF ConsumeNonce, Refused, Cached
  <2>2. /\ acceptLog \in Seq(AcceptType) /\ Len(acceptLog') = Len(acceptLog) + 1
        /\ \A i \in 1..Len(acceptLog) : acceptLog'[i] = acceptLog[i]
        /\ acceptLog'[Len(acceptLog) + 1] = entry
        /\ Len(acceptLog) \in Nat
    BY <2>1 DEF ReplayInv, TypeOK
  <2>3. cache \in [Nonces -> Nat \cup {Absent}]
    BY DEF Purged, ReplayInv, TypeOK
  <2>4. entry.nonce = nonce /\ entry.now = cmd[c].now /\ entry.at = mono
    OBVIOUS
  <2> HIDE DEF cache, entry, nonce
  <2>5. \A i \in 1..Len(acceptLog) : acceptLog[i].nonce = nonce => mono > acceptLog[i].now + Skew
    BY <1>6, <2>1
  <2>6. replay'[nonce] = cmd[c].now + Skew /\ \A n \in Nonces \ {nonce} : replay'[n] = cache[n]
    BY <1>1, <2>1, <2>3
  <2>7. \A i \in 1..Len(acceptLog') :
          \/ mono > acceptLog'[i].now + Skew
          \/ /\ replay'[acceptLog'[i].nonce] # Absent
             /\ replay'[acceptLog'[i].nonce] >= acceptLog'[i].now + Skew
    <3>1. ASSUME NEW i \in 1..Len(acceptLog)
          PROVE  \/ mono > acceptLog'[i].now + Skew
                 \/ /\ replay'[acceptLog'[i].nonce] # Absent
                    /\ replay'[acceptLog'[i].nonce] >= acceptLog'[i].now + Skew
      BY <1>3, <1>6, <2>2, <2>5, <2>6
    <3>2. /\ replay'[entry.nonce] # Absent
          /\ replay'[entry.nonce] >= entry.now + Skew
      BY <1>1, <2>4, <2>6 DEF Absent
    <3>3. QED
      BY <2>2, <3>1, <3>2
  <2>8. ReplayWindow'
    <3> SUFFICES ASSUME NEW i \in 1..Len(acceptLog'), NEW j \in 1..Len(acceptLog'),
                        i < j, acceptLog'[i].nonce = acceptLog'[j].nonce
                 PROVE  acceptLog'[j].at > acceptLog'[i].now + Skew
      BY DEF ReplayWindow
    <3>1. CASE j = Len(acceptLog) + 1
      BY <2>2, <2>4, <2>5, <3>1
    <3>2. CASE j \in 1..Len(acceptLog)
      BY <2>2, <3>2 DEF ReplayInv, ReplayWindow
    <3>3. QED
      BY <2>2, <3>1, <3>2
  <2>9. \A n \in Nonces : replay[n] # Absent /\ replay'[n] # replay[n] => mono > replay[n]
    BY <1>1, <1>5, <2>1, <2>6
  <2>10. QED
    BY <1>1, <1>7, <2>7, <2>8, <2>9 DEF ReplayInv
<1>10. QED
  BY <1>8, <1>9

LEMMA ReplayInit == Init => ReplayInv
<1> SUFFICES ASSUME Init PROVE ReplayInv
  OBVIOUS
<1>1. TypeOK
  BY TypeInit
<1>2. Len(acceptLog) = 0 /\ \A c \in Conns : pc[c] = "closed"
  BY DEF Init
<1>3. QED
  BY <1>1, <1>2 DEF ReplayInv, ReplayWindow

(* One step of any handler or of the environment.                           *)
LEMMA ReplayStep == ReplayInv /\ [Next]_vars => ReplayInv'
<1> SUFFICES ASSUME ReplayInv, [Next]_vars PROVE ReplayInv'
  OBVIOUS
<1>1. TypeOK /\ TypeOK' /\ mono \in Nat
  BY TypeStep DEF ReplayInv, TypeOK
<1>2. ASSUME NEW c \in Conns, NEW label \in Labels \ {"consume"},
             UNCHANGED <<mono, replay, acceptLog, cmd>>, pc' = [pc EXCEPT ![c] = label]
      PROVE  ReplayInv'
  <2>1. pc'[c] # "consume" /\ \A d \in Conns \ {c} : pc'[d] = pc[d] /\ cmd'[d] = cmd[d]
    BY <1>1, <1>2 DEF TypeOK
  <2>2. QED
    BY <1>1, <1>2, <2>1, ReplayQuiet DEF ReplayInv
<1>3. ASSUME NEW c \in Conns, Connect(c) PROVE ReplayInv'
  BY <1>2, <1>3 DEF Connect, Goto, Labels, shared, clocks
<1>4. ASSUME NEW c \in Conns, Disconnect(c) PROVE ReplayInv'
  BY <1>2, <1>4 DEF Disconnect, Labels, shared, clocks, history
<1>5. ASSUME NEW c \in Conns, NEW l \in Lines, Read(c, l) PROVE ReplayInv'
  <2>1. UNCHANGED <<mono, replay, acceptLog>>
    BY <1>5 DEF Read, clocks
  <2>2. pc'[c] # "consume" /\ \A d \in Conns \ {c} : pc'[d] = pc[d] /\ cmd'[d] = cmd[d]
    BY <1>1, <1>5 DEF Read, Encode, TypeOK
  <2>3. QED
    BY <1>1, <2>1, <2>2, ReplayQuiet DEF ReplayInv
<1>6. ASSUME NEW c \in Conns, Validate(c) PROVE ReplayInv'
  <2>1. UNCHANGED <<mono, replay, acceptLog>>
    BY <1>6 DEF Validate, shared, clocks, history
  <2>2. CASE RejectInvalid(c, "invalid")
    BY <1>1, <2>1, <2>2, ReplayAnswer DEF RejectInvalid, Kinds
  <2>3. CASE cmd' = [cmd EXCEPT ![c].checked = mono] /\ Goto(c, "authenticate")
    <3>1. pc'[c] # "consume" /\ \A d \in Conns \ {c} : pc'[d] = pc[d] /\ cmd'[d] = cmd[d]
      BY <1>1, <2>3 DEF Goto, TypeOK
    <3>2. QED
      BY <1>1, <2>1, <3>1, ReplayQuiet DEF ReplayInv
  <2>4. QED
    BY <1>6, <2>2, <2>3 DEF Validate
<1>7. ASSUME NEW c \in Conns, Authenticate(c) PROVE ReplayInv'
  <2>1. UNCHANGED <<mono, replay, acceptLog>>
    BY <1>7 DEF Authenticate, shared, clocks, history
  <2>2. CASE cmd[c].hmac = "wrong"
    BY <1>1, <1>7, <2>1, <2>2, ReplayAnswer DEF Authenticate, Kinds
  <2>3. CASE cmd[c].hmac = "right"
    <3>1. cmd' = [cmd EXCEPT ![c].now = mono] /\ pc' = [pc EXCEPT ![c] = "consume"]
      BY <1>7, <2>3 DEF Authenticate, Goto
    <3>2. \A d \in Conns \ {c} : pc'[d] = pc[d] /\ cmd'[d] = cmd[d]
      BY <1>1, <3>1 DEF TypeOK
    <3>3. cmd[c] \in CmdType /\ cmd \in [Conns -> CmdType]
      BY <1>1 DEF TypeOK
    <3>4. cmd'[c].now = mono
      BY <3>1, <3>3 DEF CmdType
    <3>5. QED
      BY <1>1, <2>1, <3>2, <3>4, ReplayQuiet DEF ReplayInv
  <2>4. QED
    BY <1>7, <2>2, <2>3 DEF Authenticate
<1>8. ASSUME NEW c \in Conns, ConsumeNonce(c) PROVE ReplayInv'
  BY <1>1, <1>8, ReplayConsume
<1>9. ASSUME NEW c \in Conns, PanicGate(c) PROVE ReplayInv'
  <2>1. UNCHANGED <<mono, replay, acceptLog>>
    BY <1>9 DEF PanicGate, shared, clocks, history
  <2>2. CASE Answer(c, "panic", FALSE)
    BY <1>1, <2>1, <2>2, ReplayAnswer DEF Kinds
  <2>3. CASE Goto(c, "rate") /\ UNCHANGED cmd
    BY <1>2, <2>1, <2>3 DEF Goto, Labels
  <2>4. QED
    BY <1>9, <2>2, <2>3 DEF PanicGate
<1>10. ASSUME NEW c \in Conns, RateLimit(c) PROVE ReplayInv'
  <2>1. UNCHANGED <<mono, replay, acceptLog>>
    BY <1>10 DEF RateLimit, shared, clocks, history
  <2>2. CASE Answer(c, "rate", FALSE)
    BY <1>1, <2>1, <2>2, ReplayAnswer DEF Kinds
  <2>3. CASE Goto(c, "dispatch") /\ UNCHANGED cmd
    BY <1>2, <2>1, <2>3 DEF Goto, Labels
  <2>4. QED
    BY <1>10, <2>2, <2>3 DEF RateLimit
<1>11. ASSUME NEW c \in Conns, Dispatch(c) PROVE ReplayInv'
  <2>1. UNCHANGED <<mono, replay, acceptLog>>
    BY <1>11 DEF Dispatch, shared, clocks, history
  <2>2. CASE \E kind \in {"SUCCESS", "ERROR"} : Answer(c, kind, FALSE)
    BY <1>1, <2>1, <2>2, ReplayAnswer DEF Kinds
  <2>3. CASE Goto(c, "apply") /\ UNCHANGED cmd
    BY <1>2, <2>1, <2>3 DEF Goto, Labels
  <2>4. QED
    BY <1>11, <2>2, <2>3 DEF Dispatch
<1>12. ASSUME NEW c \in Conns, Apply(c) PROVE ReplayInv'
  <2>1. UNCHANGED <<mono, replay, acceptLog>>
    BY <1>12 DEF Apply, shared, clocks
  <2>2. \E kind \in Kinds : Answer(c, kind, FALSE)
    BY <1>12 DEF Apply, Kinds
  <2>3. QED
    BY <1>1, <2>1, <2>2, ReplayAnswer
<1>13. CASE Tick
  <2>1. mono' = mono + 1 /\ UNCHANGED <<replay, acceptLog, pc, cmd>>
    BY <1>13 DEF Tick, handlers
  <2>2. \A d \in Conns : cmd[d].now \in Nat
    BY <1>1 DEF TypeOK, CmdType
  <2>3. \A d \in Conns : pc'[d] = "consume" => cmd'[d].now <= mono'
    BY <1>1, <2>1, <2>2 DEF ReplayInv
  <2>4. QED
    BY <1>1, <2>1, <2>3, ReplayQuiet
<1>14. CASE SetWallClock \/ EnterPanic \/ ClearPanic \/ IntegrityViolated \/ UNCHANGED vars
  <2>1. UNCHANGED <<mono, replay, acceptLog, pc, cmd>>
    BY <1>14 DEF SetWallClock, EnterPanic, ClearPanic, IntegrityViolated, vars,
                 handlers, shared, clocks
  <2>2. QED
    BY <1>1, <2>1, ReplayQuiet DEF ReplayInv
<1>15. QED
  BY <1>3, <1>4, <1>5, <1>6, <1>7, <1>8, <1>9, <1>10, <1>11, <1>12, <1>13, <1>14
     DEF Next, Handle

LEMMA ReplayInvariant == Spec => []ReplayInv
<1>1. QED
  BY ReplayInit, ReplayStep, PTL DEF Spec

(* consumeCommandNonce: for any number of connections and any delay between *)
(* time.Now() and the lock, the acceptances of one nonce lie further apart  *)
(* than commandClockSkew.                                                   *)
THEOREM ReplayWindowHolds == Spec => []ReplayWindow
<1>1. ReplayInv => ReplayWindow
  BY DEF ReplayInv
<1>2. QED
  BY <1>1, ReplayInvariant, PTL

(* consumeCommandNonce never drops or overwrites an entry that has not      *)
(* expired, whichever handler purges the cache.                             *)
THEOREM NoEarlyEvictionHolds == Spec => NoEarlyEviction
<1> DEFINE Kept == \A n \in Nonces : replay[n] # Absent /\ replay'[n] # replay[n]
                                       => mono > replay[n]
<1>1. ReplayInv /\ [Next]_vars => [Kept]_vars
  <2> SUFFICES ASSUME ReplayInv, Next PROVE Kept
    OBVIOUS
  <2>1. TypeOK'
    BY TypeStep DEF ReplayInv
  <2>2. ASSUME NEW c \in Conns, ConsumeNonce(c) PROVE Kept
    BY <2>1, <2>2, ReplayConsume
  <2>3. ASSUME replay' = replay PROVE Kept
    BY <2>3
  <2>4. QED
    BY <2>2, <2>3 DEF Next, Handle, Connect, Disconnect, Read, Validate, Authenticate,
       PanicGate, RateLimit, Dispatch, Apply, Tick, SetWallClock, EnterPanic, ClearPanic,
       IntegrityViolated, shared
<1>2. QED
  BY <1>1, ReplayInvariant, PTL DEF Spec, NoEarlyEviction

-----------------------------------------------------------------------------
(* The binding of replies *)

(* Between two lines the encoder is bound to nothing, and while a handler   *)
(* works on a line it is bound to the nonce of that line.                   *)
Bound(c) ==
  IF pc[c] \in {"read", "closed"} THEN requestNonce[c] = NoNonce
  ELSE requestNonce[c] = cmd[c].nonce /\ cmd[c].form \in {"invalid", "ok"}

AnswerIsBound(c) ==
  reply[c].kind # "none" =>
    reply[c].bound = IF reply[c].form \in {"invalid", "ok"} /\ reply[c].kind # "integrity"
                     THEN reply[c].nonce ELSE NoNonce

BindingInv == TypeOK /\ \A c \in Conns : Bound(c) /\ AnswerIsBound(c)

(* The handler d takes no step.                                             *)
Aside(d) == /\ pc'[d] = pc[d] /\ cmd'[d] = cmd[d]
            /\ requestNonce'[d] = requestNonce[d] /\ reply'[d] = reply[d]

LEMMA BindingAside ==
  ASSUME BindingInv, NEW c \in Conns,
         \A d \in Conns \ {c} : Aside(d), Bound(c)' /\ AnswerIsBound(c)'
  PROVE  \A d \in Conns : Bound(d)' /\ AnswerIsBound(d)'
BY DEF BindingInv, Aside, Bound, AnswerIsBound

(* encoder.Encode resets the binding, whether the handler goes on or not.   *)
LEMMA BindingEncode ==
  ASSUME BindingInv, NEW c \in Conns, NEW kind, NEW n, NEW l, NEW closing,
         Encode(c, kind, n, l, closing),
         n = IF l.form \in {"invalid", "ok"} /\ kind # "integrity" THEN l.nonce ELSE NoNonce
  PROVE  \A d \in Conns : Bound(d)' /\ AnswerIsBound(d)'
<1>1. /\ pc \in [Conns -> Labels] /\ cmd \in [Conns -> CmdType]
      /\ requestNonce \in [Conns -> Nonces \cup {NoNonce}] /\ reply \in [Conns -> ReplyType]
  BY DEF BindingInv, TypeOK
<1>2. /\ reply' = [reply EXCEPT ![c] = [kind |-> kind, bound |-> n, nonce |-> l.nonce,
                                        form |-> l.form, action |-> l.action]]
      /\ cmd' = [cmd EXCEPT ![c] = Blank]
      /\ pc' = [pc EXCEPT ![c] = "read"] \/ pc' = [pc EXCEPT ![c] = "closed"]
      /\ requestNonce' = [requestNonce EXCEPT ![c] = NoNonce]
  BY DEF Encode, LoopTop
<1>3. \A d \in Conns \ {c} : Aside(d)
  BY <1>1, <1>2 DEF Aside
<1>4. Bound(c)'
  BY <1>1, <1>2 DEF Bound
<1>5. AnswerIsBound(c)'
  BY <1>1, <1>2 DEF AnswerIsBound
<1>6. QED
  BY <1>3, <1>4, <1>5, BindingAside

LEMMA BindingAnswer ==
  ASSUME BindingInv, NEW c \in Conns, NEW kind, NEW closing, Answer(c, kind, closing),
         kind # "integrity", pc[c] \notin {"read", "closed"}
  PROVE  \A d \in Conns : Bound(d)' /\ AnswerIsBound(d)'
<1>1. requestNonce[c] = cmd[c].nonce /\ cmd[c].form \in {"invalid", "ok"}
  BY DEF BindingInv, Bound
<1>2. QED
  BY <1>1, BindingEncode DEF Answer

(* A handler goes on with the same line, perhaps with a time noted.         *)
LEMMA BindingGoto ==
  ASSUME BindingInv, NEW c \in Conns, NEW l \in Labels \ {"read", "closed"}, Goto(c, l),
         pc[c] \notin {"read", "closed"},
         \/ UNCHANGED cmd
         \/ cmd' = [cmd EXCEPT ![c].checked = mono]
         \/ cmd' = [cmd EXCEPT ![c].now = mono]
  PROVE  \A d \in Conns : Bound(d)' /\ AnswerIsBound(d)'
<1>1. pc \in [Conns -> Labels] /\ cmd \in [Conns -> CmdType] /\ cmd[c] \in CmdType
  BY DEF BindingInv, TypeOK
<1>2. pc' = [pc EXCEPT ![c] = l] /\ requestNonce' = requestNonce /\ reply' = reply
  BY DEF Goto
<1>3. /\ [cmd[c] EXCEPT !.checked = mono].nonce = cmd[c].nonce
      /\ [cmd[c] EXCEPT !.checked = mono].form = cmd[c].form
      /\ [cmd[c] EXCEPT !.now = mono].nonce = cmd[c].nonce
      /\ [cmd[c] EXCEPT !.now = mono].form = cmd[c].form
  BY <1>1 DEF CmdType
<1>4. \/ cmd' = cmd
      \/ cmd' = [cmd EXCEPT ![c] = [cmd[c] EXCEPT !.checked = mono]]
      \/ cmd' = [cmd EXCEPT ![c] = [cmd[c] EXCEPT !.now = mono]]
  OBVIOUS
<1>5. cmd'[c].nonce = cmd[c].nonce /\ cmd'[c].form = cmd[c].form
  BY <1>1, <1>3, <1>4
<1>6. \A d \in Conns \ {c} : Aside(d)
  BY <1>1, <1>2, <1>4 DEF Aside
<1>7. Bound(c)'
  BY <1>1, <1>2, <1>5 DEF BindingInv, Bound
<1>8. AnswerIsBound(c)'
  BY <1>2 DEF BindingInv, AnswerIsBound
<1>9. QED
  BY <1>6, <1>7, <1>8, BindingAside

LEMMA BindingRead ==
  ASSUME BindingInv, NEW c \in Conns, NEW l \in Lines, Read(c, l)
  PROVE  \A d \in Conns : Bound(d)' /\ AnswerIsBound(d)'
<1>1. pc[c] = "read" /\ requestNonce[c] = NoNonce
  BY DEF BindingInv, Bound, Read
<1>2. CASE \E closing : Encode(c, "too large", requestNonce[c], l, closing) /\ l.form = "oversize"
  BY <1>1, <1>2, BindingEncode
<1>3. CASE \E closing : Encode(c, "integrity", requestNonce[c], l, closing)
  BY <1>1, <1>3, BindingEncode
<1>4. CASE \E closing : Encode(c, "invalid", requestNonce[c], l, closing) /\ l.form = "malformed"
  BY <1>1, <1>4, BindingEncode
<1>5. CASE /\ l.form \in {"invalid", "ok"}
           /\ cmd' = [cmd EXCEPT ![c] = Decoded(l)]
           /\ requestNonce' = [requestNonce EXCEPT ![c] = l.nonce]
           /\ pc' = [pc EXCEPT ![c] = "validate"]
           /\ reply' = [reply EXCEPT ![c] = NoReply]
  <2>1. /\ pc \in [Conns -> Labels] /\ cmd \in [Conns -> CmdType]
        /\ requestNonce \in [Conns -> Nonces \cup {NoNonce}] /\ reply \in [Conns -> ReplyType]
    BY DEF BindingInv, TypeOK
  <2>2. \A d \in Conns \ {c} : Aside(d)
    BY <1>5, <2>1 DEF Aside
  <2>3. Decoded(l).nonce = l.nonce /\ Decoded(l).form = l.form
    BY DEF Decoded, Blank
  <2>4. Bound(c)'
    BY <1>5, <2>1, <2>3 DEF Bound
  <2>5. AnswerIsBound(c)'
    BY <1>5, <2>1 DEF AnswerIsBound, NoReply
  <2>6. QED
    BY <2>2, <2>4, <2>5, BindingAside
<1>6. QED
  BY <1>2, <1>3, <1>4, <1>5 DEF Read

LEMMA BindingStep == BindingInv /\ [Next]_vars => BindingInv'
<1> SUFFICES ASSUME BindingInv, [Next]_vars PROVE BindingInv'
  OBVIOUS
<1> DEFINE Kept == \A d \in Conns : Bound(d)' /\ AnswerIsBound(d)'
<1>1. TypeOK'
  BY TypeStep DEF BindingInv
<1>2. ASSUME NEW c \in Conns, Connect(c) PROVE Kept
  BY <1>2 DEF BindingInv, TypeOK, Connect, Goto, Bound, AnswerIsBound
<1>3. ASSUME NEW c \in Conns, Disconnect(c) PROVE Kept
  BY <1>3 DEF BindingInv, TypeOK, Disconnect, Bound, AnswerIsBound
<1>4. ASSUME NEW c \in Conns, NEW l \in Lines, Read(c, l) PROVE Kept
  BY <1>4, BindingRead
<1>5. ASSUME NEW c \in Conns, Validate(c) \/ Authenticate(c) PROVE Kept
  BY <1>5, BindingAnswer, BindingGoto DEF Validate, Authenticate, RejectInvalid, Labels
<1>6. ASSUME NEW c \in Conns, ConsumeNonce(c) PROVE Kept
  BY <1>6, BindingAnswer, BindingGoto DEF ConsumeNonce, RejectInvalid, Labels
<1>7. ASSUME NEW c \in Conns, PanicGate(c) \/ RateLimit(c) PROVE Kept
  BY <1>7, BindingAnswer, BindingGoto DEF PanicGate, RateLimit, Labels
<1>8. ASSUME NEW c \in Conns, Dispatch(c) \/ Apply(c) PROVE Kept
  BY <1>8, BindingAnswer, BindingGoto DEF Dispatch, Apply, Labels
<1>9. ASSUME \/ Tick \/ SetWallClock \/ EnterPanic \/ ClearPanic \/ IntegrityViolated
             \/ UNCHANGED vars
      PROVE  Kept
  <2>1. UNCHANGED <<pc, cmd, requestNonce, reply>>
    BY <1>9 DEF Tick, SetWallClock, EnterPanic, ClearPanic, IntegrityViolated, vars, handlers
  <2>2. QED
    BY <2>1 DEF BindingInv, Bound, AnswerIsBound
<1>10. Kept
  BY <1>2, <1>3, <1>4, <1>5, <1>6, <1>7, <1>8, <1>9 DEF Next, Handle
<1>11. QED
  BY <1>1, <1>10 DEF BindingInv

(* The reply to a line carries the nonce of that line, and none when the    *)
(* line was not decoded: the requestNonce of an earlier command never       *)
(* leaks into a later answer of handleConnection.                           *)
THEOREM ReplyBindingHolds == Spec => []ReplyBinding
<1>1. Init => BindingInv
  BY TypeInit DEF Init, BindingInv, Bound, AnswerIsBound, NoReply
<1>2. BindingInv => ReplyBinding
  BY DEF BindingInv, AnswerIsBound, ReplyBinding
<1>3. QED
  BY <1>1, <1>2, BindingStep, PTL DEF Spec

-----------------------------------------------------------------------------
(* One answer per line *)

(* While a handler works on a line it has not answered it.                  *)
UnansweredInv == TypeOK /\ \A c \in Conns : Working(c) => reply[c].kind = "none"

(* What one step does to the answer of the handler d.                       *)
Told(d) ==
  /\ Working(d)' => reply'[d].kind = "none"
  /\ Working(d) =>
       /\ pc'[d] \in {"read", "closed"} <=> reply'[d].kind # "none"
       /\ reply'[d].kind # "none" => reply'[d].nonce = cmd[d].nonce

LEMMA ToldAside ==
  ASSUME UnansweredInv, NEW d \in Conns, pc'[d] = pc[d], reply'[d] = reply[d]
  PROVE  Told(d)
BY DEF UnansweredInv, Told, Working

LEMMA ToldEncode ==
  ASSUME UnansweredInv, NEW c \in Conns, NEW kind, NEW n, NEW l, NEW closing,
         Encode(c, kind, n, l, closing), kind # "none",
         Working(c) => l.nonce = cmd[c].nonce
  PROVE  \A d \in Conns : Told(d)
<1>1. pc \in [Conns -> Labels] /\ reply \in [Conns -> ReplyType]
  BY DEF UnansweredInv, TypeOK
<1>2. /\ reply' = [reply EXCEPT ![c] = [kind |-> kind, bound |-> n, nonce |-> l.nonce,
                                        form |-> l.form, action |-> l.action]]
      /\ pc' = [pc EXCEPT ![c] = "read"] \/ pc' = [pc EXCEPT ![c] = "closed"]
  BY DEF Encode
<1>3. ASSUME NEW d \in Conns, d # c PROVE Told(d)
  BY <1>1, <1>2, <1>3, ToldAside
<1>4. reply'[c].kind = kind /\ reply'[c].nonce = l.nonce /\ pc'[c] \in {"read", "closed"}
  BY <1>1, <1>2
<1>5. Told(c)
  BY <1>4 DEF Told, Working
<1>6. QED
  BY <1>3, <1>5

LEMMA ToldAnswer ==
  ASSUME UnansweredInv, NEW c \in Conns, NEW kind, NEW closing, Answer(c, kind, closing),
         kind # "none"
  PROVE  \A d \in Conns : Told(d)
BY ToldEncode DEF Answer

LEMMA ToldGoto ==
  ASSUME UnansweredInv, NEW c \in Conns, NEW l \in Labels, Goto(c, l),
         IF Working(c) THEN l \notin {"read", "closed"} ELSE l \in {"read", "closed"}
  PROVE  \A d \in Conns : Told(d)
<1>1. pc \in [Conns -> Labels]
  BY DEF UnansweredInv, TypeOK
<1>2. pc' = [pc EXCEPT ![c] = l] /\ reply' = reply
  BY DEF Goto
<1>3. ASSUME NEW d \in Conns, d # c PROVE Told(d)
  BY <1>1, <1>2, <1>3, ToldAside
<1>4. Told(c)
  BY <1>1, <1>2 DEF Told, Working, UnansweredInv
<1>5. QED
  BY <1>3, <1>4

LEMMA ToldRead ==
  ASSUME UnansweredInv, NEW c \in Conns, NEW l \in Lines, Read(c, l)
  PROVE  \A d \in Conns : Told(d)
<1>1. ~Working(c)
  BY DEF Read, Working
<1>2. CASE \E kind \in Kinds \ {"none"} : \E closing :
             Encode(c, kind, requestNonce[c], l, closing)
  BY <1>1, <1>2, ToldEncode
<1>3. CASE /\ pc' = [pc EXCEPT ![c] = "validate"]
           /\ reply' = [reply EXCEPT ![c] = NoReply]
  <2>1. pc \in [Conns -> Labels] /\ reply \in [Conns -> ReplyType]
    BY DEF UnansweredInv, TypeOK
  <2>2. ASSUME NEW d \in Conns, d # c PROVE Told(d)
    BY <1>3, <2>1, <2>2, ToldAside
  <2>3. reply'[c].kind = "none"
    BY <1>3, <2>1 DEF NoReply
  <2>4. QED
    BY <1>1, <2>2, <2>3 DEF Told
<1>4. QED
  BY <1>2, <1>3 DEF Read, Kinds

LEMMA ToldStep == ASSUME UnansweredInv, [Next]_vars PROVE \A d \in Conns : Told(d)
<1> DEFINE AllTold == \A d \in Conns : Told(d)
<1>1. ASSUME NEW c \in Conns, Connect(c) PROVE AllTold
  BY <1>1, ToldGoto DEF Connect, Working, Labels
<1>2. ASSUME NEW c \in Conns, Disconnect(c) PROVE AllTold
  <2>1. pc[c] = "read" /\ pc' = [pc EXCEPT ![c] = "closed"] /\ reply' = reply
    BY <1>2 DEF Disconnect
  <2>2. pc \in [Conns -> Labels]
    BY DEF UnansweredInv, TypeOK
  <2>3. ASSUME NEW d \in Conns, d # c PROVE Told(d)
    BY <2>1, <2>2, <2>3, ToldAside
  <2>4. QED
    BY <2>1, <2>2, <2>3 DEF Told, Working
<1>3. ASSUME NEW c \in Conns, NEW l \in Lines, Read(c, l) PROVE AllTold
  BY <1>3, ToldRead
<1>4. ASSUME NEW c \in Conns, Validate(c) \/ Authenticate(c) PROVE AllTold
  BY <1>4, ToldAnswer, ToldGoto DEF Validate, Authenticate, RejectInvalid, Working, Labels
<1>5. ASSUME NEW c \in Conns, ConsumeNonce(c) PROVE AllTold
  BY <1>5, ToldAnswer, ToldGoto DEF ConsumeNonce, RejectInvalid, Working, Labels
<1>6. ASSUME NEW c \in Conns, PanicGate(c) \/ RateLimit(c) PROVE AllTold
  BY <1>6, ToldAnswer, ToldGoto DEF PanicGate, RateLimit, Working, Labels
<1>7. ASSUME NEW c \in Conns, Dispatch(c) \/ Apply(c) PROVE AllTold
  BY <1>7, ToldAnswer, ToldGoto DEF Dispatch, Apply, Working, Labels
<1>8. ASSUME \/ Tick \/ SetWallClock \/ EnterPanic \/ ClearPanic \/ IntegrityViolated
             \/ UNCHANGED vars
      PROVE  AllTold
  <2>1. pc' = pc /\ reply' = reply
    BY <1>8 DEF Tick, SetWallClock, EnterPanic, ClearPanic, IntegrityViolated, vars, handlers
  <2>2. QED
    BY <2>1, ToldAside
<1>9. QED
  BY <1>1, <1>2, <1>3, <1>4, <1>5, <1>6, <1>7, <1>8 DEF Next, Handle

(* "Every accepted command must receive a response" (main.go:1622): a       *)
(* handler that leaves a line, for the next one or for good, has encoded    *)
(* one reply to it, on every path of handleConnection.                      *)
THEOREM OneAnswerPerLineHolds == Spec => OneAnswerPerLine
<1>1. Init => UnansweredInv
  BY TypeInit DEF Init, UnansweredInv, Working
<1>2. UnansweredInv /\ [Next]_vars => UnansweredInv'
  BY TypeStep, ToldStep DEF UnansweredInv, Told
<1>3. ASSUME UnansweredInv, [Next]_vars
      PROVE  [\A c \in Conns :
                Working(c) =>
                  /\ reply[c].kind = "none"
                  /\ pc'[c] \in {"read", "closed"} <=> reply'[c].kind # "none"
                  /\ reply'[c].kind # "none" => reply'[c].nonce = cmd[c].nonce]_vars
  BY <1>3, ToldStep DEF UnansweredInv, Told
<1>4. QED
  BY <1>1, <1>2, <1>3, PTL DEF Spec, OneAnswerPerLine

-----------------------------------------------------------------------------
(* Fail closed *)

Idle == {"read", "closed"}

(* A connection that has completed a control command since the service went *)
(* fail-closed cannot complete another one: in panic mode it does not get   *)
(* past the check before the hardware, after an integrity violation it does *)
(* not get past the read of its next line.                                  *)
LateOnce(n, p, pan, ok) ==
  n = 0 \/ (n = 1 /\ p # "apply" /\ (pan \/ (~ok /\ p \in Idle)))

LateInv == TypeOK /\ \A c \in Conns : LateOnce(late[c], pc[c], panic, healthy)

LEMMA LateAside ==
  ASSUME LateInv, NEW c \in Conns, UNCHANGED <<panic, healthy, late>>,
         \A d \in Conns \ {c} : pc'[d] = pc[d], LateOnce(late[c], pc'[c], panic, healthy)
  PROVE  \A d \in Conns : LateOnce(late[d], pc[d], panic, healthy)'
<1>1. TAKE d \in Conns
<1>2. CASE d = c
  BY <1>2, Zenon DEF LateOnce
<1>3. CASE d # c
  <2>1. LateOnce(late[d], pc[d], panic, healthy) /\ pc'[d] = pc[d]
    BY <1>3 DEF LateInv
  <2>2. QED
    BY <2>1, Zenon DEF LateOnce
<1>4. QED
  BY <1>2, <1>3

(* An answered handler is back in its loop, or gone.                        *)
LEMMA LateAnswer ==
  ASSUME LateInv, NEW c \in Conns, UNCHANGED <<panic, healthy, late>>,
         \A d \in Conns \ {c} : pc'[d] = pc[d], pc'[c] \in Idle
  PROVE  \A d \in Conns : LateOnce(late[d], pc[d], panic, healthy)'
<1>1. LateOnce(late[c], pc[c], panic, healthy)
  BY DEF LateInv
<1>2. LateOnce(late[c], pc'[c], panic, healthy)
  BY <1>1 DEF LateOnce, Idle
<1>3. QED
  BY <1>2, LateAside

(* A handler on the way to the hardware.                                    *)
LEMMA LateGoto ==
  ASSUME LateInv, NEW c \in Conns, UNCHANGED <<panic, healthy, late>>,
         NEW l, pc' = [pc EXCEPT ![c] = l],
         l \in Idle \/ pc[c] \notin Idle \/ healthy, l = "apply" => ~panic /\ pc[c] \notin Idle
  PROVE  \A d \in Conns : LateOnce(late[d], pc[d], panic, healthy)'
<1>1. LateOnce(late[c], pc[c], panic, healthy)
  BY DEF LateInv
<1>2. pc'[c] = l /\ \A d \in Conns \ {c} : pc'[d] = pc[d]
  BY DEF LateInv, TypeOK
<1>3. LateOnce(late[c], pc'[c], panic, healthy)
  BY <1>1, <1>2, Zenon DEF LateOnce
<1>4. QED
  BY <1>2, <1>3, LateAside

(* The control command that had passed its checks.                          *)
LEMMA LateApply ==
  ASSUME LateInv, NEW c \in Conns, Apply(c)
  PROVE  \A d \in Conns : LateOnce(late[d], pc[d], panic, healthy)'
<1>1. pc[c] = "apply" /\ UNCHANGED <<panic, healthy>>
  BY DEF Apply, shared, trip
<1>2. late[c] = 0
  BY <1>1 DEF LateInv, LateOnce
<1>3. pc'[c] \in Idle /\ \A d \in Conns \ {c} : pc'[d] = pc[d]
  <2>1. \E kind \in Kinds : Answer(c, kind, FALSE)
    BY DEF Apply, Kinds
  <2>2. QED
    BY <2>1, AnswerType DEF LateInv, Idle
<1>4. CASE UNCHANGED late
  BY <1>1, <1>3, <1>4, LateAnswer
<1>5. CASE late' = [late EXCEPT ![c] = IF Tripped THEN late[c] + 1 ELSE late[c]]
  <2>1. late'[c] = (IF Tripped THEN late[c] + 1 ELSE late[c])
        /\ \A d \in Conns \ {c} : late'[d] = late[d]
    BY <1>5, Zenon DEF LateInv, TypeOK
  <2>2. CASE Tripped
    <3>1. late'[c] = 1
      BY <1>2, <2>1, <2>2
    <3>2. panic' \/ ~healthy'
      BY <1>1, <2>2 DEF Tripped
    <3>3. LateOnce(late[c], pc[c], panic, healthy)'
      BY <1>3, <3>1, <3>2 DEF LateOnce, Idle
    <3>4. \A d \in Conns \ {c} : LateOnce(late[d], pc[d], panic, healthy)'
      BY <1>1, <1>3, <2>1 DEF LateInv, LateOnce
    <3>5. QED
      BY <3>3, <3>4
  <2>3. CASE ~Tripped
    <3>1. late'[c] = 0
      BY <1>2, <2>1, <2>3
    <3>2. \A d \in Conns \ {c} : LateOnce(late[d], pc[d], panic, healthy)'
      BY <1>1, <1>3, <2>1 DEF LateInv, LateOnce
    <3>3. QED
      BY <3>1, <3>2 DEF LateOnce
  <2>4. QED
    BY <2>2, <2>3
<1>6. QED
  BY <1>4, <1>5, Zenon DEF Apply

LEMMA LateRead ==
  ASSUME LateInv, NEW c \in Conns, NEW l \in Lines, Read(c, l)
  PROVE  \A d \in Conns : LateOnce(late[d], pc[d], panic, healthy)'
<1>1. UNCHANGED <<panic, healthy, late>>
  BY DEF Read, trip
<1>2. pc \in [Conns -> Labels]
  BY DEF LateInv, TypeOK
<1>3. \/ pc' = [pc EXCEPT ![c] = "read"]
      \/ pc' = [pc EXCEPT ![c] = "closed"]
      \/ pc' = [pc EXCEPT ![c] = "validate"] /\ healthy
  BY DEF Read, Encode, BridgeIntegrityHealthy
<1>4. QED
  BY <1>1, <1>3, LateGoto DEF Idle

LEMMA LateStep == LateInv /\ [Next]_vars => LateInv'
<1> SUFFICES ASSUME LateInv, [Next]_vars PROVE LateInv'
  OBVIOUS
<1> DEFINE Kept == \A d \in Conns : LateOnce(late[d], pc[d], panic, healthy)'
<1>1. TypeOK /\ TypeOK'
  BY TypeStep DEF LateInv
<1>2. ASSUME NEW c \in Conns, Connect(c) \/ Disconnect(c) PROVE Kept
  BY <1>2, LateGoto DEF Connect, Disconnect, Goto, Idle, shared, trip, history
<1>3. ASSUME NEW c \in Conns, NEW l \in Lines, Read(c, l) PROVE Kept
  BY <1>3, LateRead
<1>4. ASSUME NEW c \in Conns, NEW kind \in Kinds, NEW closing, Answer(c, kind, closing),
             UNCHANGED <<panic, healthy, late>>
      PROVE  Kept
  BY <1>1, <1>4, AnswerType, LateAnswer DEF Idle
<1>5. ASSUME NEW c \in Conns, Validate(c) \/ Authenticate(c) PROVE Kept
  <2>1. UNCHANGED <<panic, healthy, late>>
    BY <1>5 DEF Validate, Authenticate, shared, trip, history
  <2>2. CASE \E kind \in Kinds : \E closing : Answer(c, kind, closing)
    BY <1>4, <2>1, <2>2
  <2>3. CASE pc[c] \notin Idle /\ (Goto(c, "authenticate") \/ Goto(c, "consume"))
    BY <2>1, <2>3, LateGoto DEF Goto
  <2>4. QED
    BY <1>5, <2>2, <2>3 DEF Validate, Authenticate, RejectInvalid, Kinds, Idle
<1>6. ASSUME NEW c \in Conns, ConsumeNonce(c) PROVE Kept
  <2>1. UNCHANGED <<panic, healthy, late>>
    BY <1>6 DEF ConsumeNonce, trip
  <2>2. CASE \E kind \in Kinds : \E closing : Answer(c, kind, closing)
    BY <1>4, <2>1, <2>2
  <2>3. CASE pc[c] \notin Idle /\ Goto(c, "panic")
    BY <2>1, <2>3, LateGoto DEF Goto
  <2>4. QED
    BY <1>6, <2>2, <2>3 DEF ConsumeNonce, RejectInvalid, Kinds, Idle
<1>7. ASSUME NEW c \in Conns, PanicGate(c) \/ RateLimit(c) PROVE Kept
  <2>1. UNCHANGED <<panic, healthy, late>>
    BY <1>7 DEF PanicGate, RateLimit, shared, trip, history
  <2>2. CASE \E kind \in Kinds : \E closing : Answer(c, kind, closing)
    BY <1>4, <2>1, <2>2
  <2>3. CASE pc[c] \notin Idle /\ (Goto(c, "rate") \/ Goto(c, "dispatch"))
    BY <2>1, <2>3, LateGoto DEF Goto
  <2>4. QED
    BY <1>7, <2>2, <2>3 DEF PanicGate, RateLimit, Kinds, Idle
<1>8. ASSUME NEW c \in Conns, Dispatch(c) PROVE Kept
  <2>1. UNCHANGED <<panic, healthy, late>>
    BY <1>8 DEF Dispatch, shared, trip, history
  <2>2. CASE \E kind \in Kinds : \E closing : Answer(c, kind, closing)
    BY <1>4, <2>1, <2>2
  <2>3. CASE pc[c] \notin Idle /\ ~panic /\ Goto(c, "apply")
    BY <2>1, <2>3, LateGoto DEF Goto
  <2>4. QED
    BY <1>8, <2>2, <2>3 DEF Dispatch, Kinds, Idle
<1>9. ASSUME Tick \/ SetWallClock \/ UNCHANGED vars PROVE Kept
  <2>1. UNCHANGED <<pc, panic, healthy, late>>
    BY <1>9 DEF Tick, SetWallClock, vars, handlers, shared, trip
  <2>2. QED
    BY <2>1 DEF LateInv, LateOnce
<1>10. ASSUME EnterPanic \/ IntegrityViolated PROVE Kept
  <2>1. UNCHANGED <<pc, late>>
    BY <1>10 DEF EnterPanic, IntegrityViolated, handlers
  <2>2. panic' = TRUE \/ (healthy /\ UNCHANGED panic)
    BY <1>10 DEF EnterPanic, IntegrityViolated
  <2>3. QED
    BY <2>1, <2>2 DEF LateInv, LateOnce
<1>11. ASSUME ClearPanic PROVE Kept
  BY <1>11 DEF ClearPanic, LateOnce
<1>12. Kept
  BY <1>2, <1>3, <1>5, <1>6, <1>7, <1>8, <1>9, <1>10, <1>11, LateApply DEF Next, Handle
<1>13. QED
  BY <1>1, <1>12 DEF LateInv

(* After panic mode or an integrity violation, each connection completes at *)
(* most the one control command that had passed the checks of               *)
(* handleConnection and executeHardwareCommand, for any number of lines     *)
(* sent, reconnects made and trips raised.                                  *)
THEOREM FailClosedHolds == Spec => []FailClosed
<1>1. Init => LateInv
  BY TypeInit DEF Init, LateInv, LateOnce
<1>2. LateInv => FailClosed
  BY DEF LateInv, LateOnce, FailClosed
<1>3. QED
  BY <1>1, <1>2, LateStep, PTL DEF Spec

-----------------------------------------------------------------------------
(* Timestamps and the life of cache entries *)

Checked == {"authenticate", "consume"}

(* While the wall clock is not set it agrees with the monotonic clock, and  *)
(* no command that passed the timestamp check was older than the skew then. *)
FreshInv ==
  clockSteps = 0 =>
    /\ wall = mono
    /\ \A c \in Conns : pc[c] \in Checked => cmd[c].checked - cmd[c].ts <= Skew
    /\ \A i \in 1..Len(acceptLog) : acceptLog[i].checked - acceptLog[i].ts <= Skew

(* A step that leaves clocks and log alone; only a handler that was checked *)
(* before goes on to be one.                                                *)
LEMMA FreshAside ==
  ASSUME FreshInv, UNCHANGED <<mono, wall, clockSteps, acceptLog>>,
         \A d \in Conns : pc'[d] \in Checked =>
            /\ pc[d] \in Checked
            /\ cmd'[d].checked = cmd[d].checked /\ cmd'[d].ts = cmd[d].ts
  PROVE  FreshInv'
BY DEF FreshInv

LEMMA FreshAnswer ==
  ASSUME TypeOK, FreshInv, UNCHANGED <<mono, wall, clockSteps, acceptLog>>,
         NEW c \in Conns, NEW kind \in Kinds, NEW closing, Answer(c, kind, closing)
  PROVE  FreshInv'
<1>1. pc'[c] \in {"read", "closed"} /\ \A d \in Conns \ {c} : pc'[d] = pc[d] /\ cmd'[d] = cmd[d]
  BY AnswerType
<1>2. QED
  BY <1>1, FreshAside DEF Checked

LEMMA FreshValidate ==
  ASSUME TypeOK, FreshInv, NEW c \in Conns, Validate(c)
  PROVE  FreshInv'
<1>1. UNCHANGED <<mono, wall, clockSteps, acceptLog>>
  BY DEF Validate, shared, clocks, history
<1>2. CASE RejectInvalid(c, "invalid")
  BY <1>1, <1>2, FreshAnswer DEF RejectInvalid, Kinds
<1>3. CASE InWindow(cmd[c].ts) /\ cmd' = [cmd EXCEPT ![c].checked = mono] /\ Goto(c, "authenticate")
  <2>1. cmd[c] \in CmdType /\ cmd \in [Conns -> CmdType] /\ pc \in [Conns -> Labels]
    BY DEF TypeOK
  <2>2. cmd'[c].checked = mono /\ cmd'[c].ts = cmd[c].ts
    BY <1>3, <2>1 DEF CmdType
  <2>3. \A d \in Conns \ {c} : pc'[d] = pc[d] /\ cmd'[d] = cmd[d]
    BY <1>3, <2>1 DEF Goto
  <2>4. wall - cmd[c].ts <= Skew
    BY <1>3 DEF InWindow
  <2>5. clockSteps = 0 => cmd'[c].checked - cmd'[c].ts <= Skew
    BY <2>2, <2>4 DEF FreshInv
  <2>6. QED
    BY <1>1, <2>3, <2>5 DEF FreshInv
<1>4. QED
  BY <1>2, <1>3 DEF Validate

LEMMA FreshAuthenticate ==
  ASSUME TypeOK, FreshInv, NEW c \in Conns, Authenticate(c)
  PROVE  FreshInv'
<1>1. UNCHANGED <<mono, wall, clockSteps, acceptLog>>
  BY DEF Authenticate, shared, clocks, history
<1>2. CASE \E closing : Answer(c, "auth", closing)
  BY <1>1, <1>2, FreshAnswer DEF Kinds
<1>3. CASE cmd' = [cmd EXCEPT ![c].now = mono] /\ Goto(c, "consume")
  <2>1. cmd[c] \in CmdType /\ cmd \in [Conns -> CmdType] /\ pc \in [Conns -> Labels]
    BY DEF TypeOK
  <2>2. cmd'[c].checked = cmd[c].checked /\ cmd'[c].ts = cmd[c].ts
    BY <1>3, <2>1 DEF CmdType
  <2>3. \A d \in Conns \ {c} : pc'[d] = pc[d] /\ cmd'[d] = cmd[d]
    BY <1>3, <2>1 DEF Goto
  <2>4. pc[c] \in Checked
    BY DEF Authenticate, Checked
  <2>5. QED
    BY <1>1, <2>2, <2>3, <2>4, FreshAside
<1>4. QED
  BY <1>2, <1>3 DEF Authenticate

LEMMA FreshConsume ==
  ASSUME TypeOK, FreshInv, NEW c \in Conns, ConsumeNonce(c)
  PROVE  FreshInv'
<1>1. UNCHANGED <<mono, wall, clockSteps>>
  BY DEF ConsumeNonce, clocks
<1>2. CASE RejectInvalid(c, "replay") /\ UNCHANGED acceptLog
  BY <1>1, <1>2, FreshAnswer DEF RejectInvalid, Kinds
<1>3. CASE /\ acceptLog' = Append(acceptLog, [nonce |-> cmd[c].nonce, ts |-> cmd[c].ts,
                                              checked |-> cmd[c].checked,
                                              now |-> cmd[c].now, at |-> mono])
           /\ Goto(c, "panic") /\ UNCHANGED cmd
  <2>1. acceptLog \in Seq(AcceptType) /\ pc \in [Conns -> Labels] /\ pc[c] \in Checked
    BY DEF TypeOK, ConsumeNonce, Checked
  <2>2. /\ Len(acceptLog') = Len(acceptLog) + 1 /\ Len(acceptLog) \in Nat
        /\ \A i \in 1..Len(acceptLog) : acceptLog'[i] = acceptLog[i]
        /\ acceptLog'[Len(acceptLog) + 1].checked = cmd[c].checked
        /\ acceptLog'[Len(acceptLog) + 1].ts = cmd[c].ts
    BY <1>3, <2>1
  <2>3. \A d \in Conns : pc'[d] \in Checked => pc[d] \in Checked /\ cmd'[d] = cmd[d]
    BY <1>3, <2>1 DEF Goto, Checked
  <2>4. clockSteps = 0 =>
          \A i \in 1..Len(acceptLog') : acceptLog'[i].checked - acceptLog'[i].ts <= Skew
    BY <2>1, <2>2 DEF FreshInv
  <2>5. QED
    BY <1>1, <2>3, <2>4 DEF FreshInv
<1>4. QED
  BY <1>2, <1>3 DEF ConsumeNonce

LEMMA FreshStep == TypeOK /\ FreshInv /\ [Next]_vars => FreshInv'
<1> SUFFICES ASSUME TypeOK, FreshInv, [Next]_vars PROVE FreshInv'
  OBVIOUS
<1>1. pc \in [Conns -> Labels] /\ cmd \in [Conns -> CmdType]
  BY DEF TypeOK
<1>2. ASSUME NEW c \in Conns, NEW label, label \notin Checked, pc' = [pc EXCEPT ![c] = label],
             UNCHANGED <<mono, wall, clockSteps, acceptLog, cmd>>
      PROVE  FreshInv'
  <2>1. \A d \in Conns : pc'[d] \in Checked => pc'[d] = pc[d]
    BY <1>1, <1>2
  <2>2. QED
    BY <1>2, <2>1, FreshAside
<1>3. ASSUME NEW c \in Conns, Connect(c) \/ Disconnect(c) PROVE FreshInv'
  BY <1>2, <1>3 DEF Connect, Disconnect, Goto, Checked, shared, clocks, history
<1>4. ASSUME NEW c \in Conns, NEW l \in Lines, Read(c, l) PROVE FreshInv'
  <2>1. UNCHANGED <<mono, wall, clockSteps, acceptLog>>
    BY <1>4 DEF Read, clocks
  <2>2. pc'[c] \notin Checked /\ \A d \in Conns \ {c} : pc'[d] = pc[d] /\ cmd'[d] = cmd[d]
    BY <1>1, <1>4 DEF Read, Encode, Checked
  <2>3. QED
    BY <2>1, <2>2, FreshAside
<1>5. ASSUME NEW c \in Conns, PanicGate(c) \/ RateLimit(c) \/ Dispatch(c) \/ Apply(c)
      PROVE  FreshInv'
  <2>1. UNCHANGED <<mono, wall, clockSteps, acceptLog>>
    BY <1>5 DEF PanicGate, RateLimit, Dispatch, Apply, shared, clocks, history
  <2>2. CASE \E kind \in Kinds : Answer(c, kind, FALSE)
    BY <2>1, <2>2, FreshAnswer
  <2>3. CASE UNCHANGED cmd /\ (Goto(c, "rate") \/ Goto(c, "dispatch") \/ Goto(c, "apply"))
    BY <1>2, <2>1, <2>3 DEF Goto, Checked
  <2>4. QED
    BY <1>5, <2>2, <2>3 DEF PanicGate, RateLimit, Dispatch, Apply, Kinds
<1>6. CASE Tick
  <2>1. /\ mono' = mono + 1 /\ wall' = wall + 1
        /\ UNCHANGED <<clockSteps, acceptLog, pc, cmd>>
    BY <1>6 DEF Tick, handlers
  <2>2. QED
    BY <2>1 DEF FreshInv
<1>7. CASE SetWallClock
  <2>1. clockSteps' # 0
    BY <1>7 DEF SetWallClock, TypeOK
  <2>2. QED
    BY <2>1 DEF FreshInv
<1>8. CASE EnterPanic \/ ClearPanic \/ IntegrityViolated \/ UNCHANGED vars
  <2>1. UNCHANGED <<mono, wall, clockSteps, acceptLog, pc, cmd>>
    BY <1>8 DEF EnterPanic, ClearPanic, IntegrityViolated, vars, handlers, shared, clocks
  <2>2. QED
    BY <2>1, FreshAside
<1>9. QED
  BY <1>3, <1>4, <1>5, <1>6, <1>7, <1>8, FreshValidate, FreshAuthenticate, FreshConsume
     DEF Next, Handle

(* validateCommand and consumeCommandNonce fit together: as long as nobody  *)
(* sets the wall clock, a command accepted twice carries a timestamp ahead  *)
(* of its first acceptance, up to the delay of the second handler.          *)
THEOREM SecondAcceptHolds == Spec => []SecondAcceptNeedsClientAhead
<1>1. Init => FreshInv
  BY DEF Init, FreshInv, Checked
<1>2. ReplayInv /\ FreshInv => SecondAcceptNeedsClientAhead
  <2> SUFFICES ASSUME ReplayInv, FreshInv, clockSteps = 0,
                      NEW i \in 1..Len(acceptLog), NEW j \in 1..Len(acceptLog),
                      i < j, acceptLog[i].nonce = acceptLog[j].nonce
               PROVE  acceptLog[j].ts + (acceptLog[j].at - acceptLog[j].checked) > acceptLog[i].now
    BY DEF SecondAcceptNeedsClientAhead
  <2>1. acceptLog[i] \in AcceptType /\ acceptLog[j] \in AcceptType
    BY DEF ReplayInv, TypeOK
  <2>2. /\ acceptLog[i].now \in Nat /\ acceptLog[j].at \in Nat /\ acceptLog[j].checked \in Nat
        /\ acceptLog[j].ts \in Int /\ Skew \in Nat
    BY <2>1, GateAssumption DEF AcceptType
  <2>3. acceptLog[j].at > acceptLog[i].now + Skew
    BY DEF ReplayInv, ReplayWindow
  <2>4. acceptLog[j].checked - acceptLog[j].ts <= Skew
    BY DEF FreshInv
  <2>5. QED
    BY <2>2, <2>3, <2>4
<1>3. QED
  BY <1>1, <1>2, FreshStep, TypeCorrect, ReplayInvariant, PTL DEF Spec

-----------------------------------------------------------------------------
(* The size of the cache *)

CacheInv == IsFiniteSet(Cached(replay)) /\ CacheBounded

(* consumeCommandNonce enters a nonce only below the limit, counted after   *)
(* the expired entries are gone.                                            *)
LEMMA CacheConsume ==
  ASSUME TypeOK, CacheInv, NEW c \in Conns, ConsumeNonce(c)
  PROVE  CacheInv'
<1> DEFINE cache == Purged(cmd[c].now)
           nonce == cmd[c].nonce
<1>1. Cached(cache) \subseteq Cached(replay)
  BY DEF Cached, Purged
<1>2. /\ IsFiniteSet(Cached(cache)) /\ Cardinality(Cached(cache)) <= Cardinality(Cached(replay))
      /\ Cardinality(Cached(cache)) \in Nat /\ Cardinality(Cached(replay)) \in Nat
  BY <1>1, FS_Subset, FS_CardinalityType DEF CacheInv
<1>3. CASE replay' = cache
  BY <1>2, <1>3, GateAssumption DEF CacheInv, CacheBounded
<1>4. CASE replay' = [cache EXCEPT ![nonce] = cmd[c].now + Skew] /\ ~Refused(nonce, cache)
  <2>1. nonce \in Nonces /\ cmd[c].now \in Nat
    BY DEF TypeOK, CmdType, ConsumeNonce
  <2>2. nonce \notin Cached(cache) /\ Cardinality(Cached(cache)) < MaxReplayNonces
    BY <1>2, <1>4, GateAssumption DEF Refused
  <2>3. cache \in [Nonces -> Nat \cup {Absent}]
    BY DEF Purged, TypeOK
  <2>4. Cached(replay') = Cached(cache) \cup {nonce}
    BY <1>4, <2>1, <2>3, GateAssumption DEF Cached, Absent
  <2>5. IsFiniteSet(Cached(replay')) /\ Cardinality(Cached(replay')) = Cardinality(Cached(cache)) + 1
    BY <1>2, <2>2, <2>4, FS_AddElement
  <2>6. QED
    BY <1>2, <2>2, <2>5, GateAssumption DEF CacheInv, CacheBounded
<1>5. QED
  BY <1>3, <1>4 DEF ConsumeNonce

(* replayNonces never outgrows maxReplayNonces, for any number of           *)
(* connections that consume nonces, and for any set of nonces.              *)
THEOREM CacheBoundedHolds == Spec => []CacheBounded
<1>1. Init => CacheInv
  <2>1. Init => Cached(replay) = {}
    BY DEF Init, Cached
  <2>2. QED
    BY <2>1, FS_EmptySet, GateAssumption DEF CacheInv, CacheBounded
<1>2. TypeOK /\ CacheInv /\ [Next]_vars => CacheInv'
  <2> SUFFICES ASSUME TypeOK, CacheInv, [Next]_vars PROVE CacheInv'
    OBVIOUS
  <2>1. ASSUME replay' = replay PROVE CacheInv'
    BY <2>1 DEF CacheInv, CacheBounded
  <2>2. QED
    BY <2>1, CacheConsume DEF Next, Handle, Connect, Disconnect, Read, Validate, Authenticate,
       PanicGate, RateLimit, Dispatch, Apply, Tick, SetWallClock, EnterPanic, ClearPanic,
       IntegrityViolated, shared, vars
<1>3. CacheInv => CacheBounded
  BY DEF CacheInv
<1>4. QED
  BY <1>1, <1>2, <1>3, TypeCorrect, PTL DEF Spec
=============================================================================
