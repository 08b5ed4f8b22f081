------------------------- MODULE BridgeClientProofs -------------------------
(***************************************************************************)
(* Theorems about BridgeClient, for any number of requests and connections.*)
(***************************************************************************)
EXTENDS BridgeClient, SequenceTheorems, TLAPS

Increasing(s) == \A i, j \in 1..Len(s) : i < j => s[i] < s[j]
UpTo(s, n) == \A i \in 1..Len(s) : s[i] \in 1..n
Before(s, t) == \A i \in 1..Len(s), j \in 1..Len(t) : s[i] < t[j]

LEMMA AppendOrdered ==
  ASSUME NEW s \in Seq(Nat), NEW n \in Nat, NEW m \in Nat, m <= n,
         Increasing(s), UpTo(s, n), \A i \in 1..Len(s) : s[i] < m, m # 0
  PROVE  Append(s, m) \in Seq(Nat) /\ Increasing(Append(s, m)) /\ UpTo(Append(s, m), n)
<1>1. /\ Append(s, m) \in Seq(Nat) /\ Len(Append(s, m)) = Len(s) + 1 /\ Len(s) \in Nat
      /\ \A i \in 1..Len(s) : Append(s, m)[i] = s[i]
      /\ Append(s, m)[Len(s) + 1] = m
  BY AppendProperties, LenProperties
<1>2. \A i \in 1..Len(s) : s[i] \in Nat
  BY LenProperties
<1>3. QED
  BY <1>1, <1>2 DEF Increasing, UpTo

LEMMA TailOrdered ==
  ASSUME NEW s \in Seq(Nat), NEW n \in Nat, Increasing(s), UpTo(s, n), s # <<>>
  PROVE  /\ Tail(s) \in Seq(Nat) /\ Increasing(Tail(s)) /\ UpTo(Tail(s), n)
         /\ Head(s) = s[1] /\ Head(s) \in 1..n
         /\ \A i \in 1..Len(Tail(s)) : Head(s) < Tail(s)[i]
<1>1. /\ Tail(s) \in Seq(Nat) /\ Len(Tail(s)) = Len(s) - 1
      /\ \A i \in 1..Len(Tail(s)) : Tail(s)[i] = s[i + 1]
      /\ Len(s) \in Nat \ {0} /\ Head(s) = s[1]
  BY HeadTailProperties, EmptySeq
<1>2. QED
  BY <1>1 DEF Increasing, UpTo

(* Nonces are fresh and lines stay in order: what the client has still to   *)
(* read is older than what the bridge has still to answer, and the request  *)
(* that is awaited is the latest.                                           *)
InOrder ==
  /\ requests \in 0..MaxRequests
  /\ toBridge \in Seq(Nat) /\ Increasing(toBridge) /\ UpTo(toBridge, requests)
  /\ toClient \in Seq(Nat) /\ Increasing(toClient) /\ UpTo(toClient, requests)
  /\ Before(toClient, toBridge)
  /\ awaited \in {None, requests}
  /\ awaited # None => pending

LEMMA EmptyOrdered ==
  ASSUME NEW n
  PROVE  <<>> \in Seq(Nat) /\ Increasing(<<>>) /\ UpTo(<<>>, n)
BY EmptySeq DEF Increasing, UpTo

LEMMA InOrderStep ==
  ASSUME ClientAssumption, InOrder, [Next]_vars
  PROVE  InOrder'
<1>1. requests \in Nat /\ MaxRequests \in Nat
  BY DEF InOrder, ClientAssumption
<1>2. ASSUME UNCHANGED <<requests, toBridge, toClient>>,
             (awaited' = awaited /\ pending' = pending) \/ awaited' = None
      PROVE  InOrder'
  BY <1>2 DEF InOrder
<1>3. CASE ConnectSucceeds
  BY <1>3, EmptyOrdered DEF ConnectSucceeds, InOrder, Before
<1>4. ASSUME NEW socket, WriteAndAwait(socket)
      PROVE  InOrder'
  <2>1. requests' = requests + 1 /\ requests' \in 0..MaxRequests /\ requests' \in Nat /\ toClient' = toClient
    BY <1>1, <1>4 DEF WriteAndAwait
  <2>2. awaited' \in {None, requests'} /\ pending'
    BY <1>4 DEF WriteAndAwait
  <2>3. UpTo(toClient, requests') /\ UpTo(toBridge, requests')
    BY <1>1, <2>1 DEF InOrder, UpTo
  <2>4. CASE toBridge' = toBridge
    BY <2>1, <2>2, <2>3, <2>4 DEF InOrder
  <2>5. CASE toBridge' = Append(toBridge, requests + 1)
    <3>1. \A i \in 1..Len(toBridge) : toBridge[i] < requests + 1
      BY <1>1 DEF InOrder, UpTo
    <3>2. toBridge' \in Seq(Nat) /\ Increasing(toBridge') /\ UpTo(toBridge', requests')
      BY <1>1, <2>1, <2>3, <2>5, <3>1, AppendOrdered DEF InOrder
    <3>3. Before(toClient, toBridge')
      <4>1. /\ Len(toBridge') = Len(toBridge) + 1 /\ Len(toBridge) \in Nat
            /\ \A i \in 1..Len(toBridge) : toBridge'[i] = toBridge[i]
            /\ toBridge'[Len(toBridge) + 1] = requests + 1
        BY <1>1, <2>5, AppendProperties, LenProperties DEF InOrder
      <4>2. \A i \in 1..Len(toClient) : toClient[i] < requests + 1
        BY <1>1 DEF InOrder, UpTo
      <4>3. QED
        BY <4>1, <4>2 DEF InOrder, Before
    <3>4. QED
      BY <2>1, <2>2, <2>3, <3>2, <3>3 DEF InOrder
  <2>6. QED
    BY <1>4, <2>4, <2>5 DEF WriteAndAwait
<1>5. CASE ReplyArrives
  <2>1. Tail(toClient) \in Seq(Nat) /\ Increasing(Tail(toClient)) /\ UpTo(Tail(toClient), requests)
    BY <1>1, <1>5, TailOrdered DEF InOrder, ReplyArrives
  <2>2. Before(Tail(toClient), toBridge)
    <3>1. /\ Len(Tail(toClient)) = Len(toClient) - 1 /\ Len(toClient) \in Nat
          /\ \A i \in 1..Len(Tail(toClient)) : Tail(toClient)[i] = toClient[i + 1]
      BY <1>5, HeadTailProperties, LenProperties DEF InOrder, ReplyArrives
    <3>2. QED
      BY <3>1 DEF InOrder, Before
  <2>3. QED
    BY <1>5, <2>1, <2>2 DEF InOrder, ReplyArrives
<1>6. CASE BridgeAnswers
  <2>1. /\ Tail(toBridge) \in Seq(Nat) /\ Increasing(Tail(toBridge)) /\ UpTo(Tail(toBridge), requests)
        /\ Head(toBridge) = toBridge[1] /\ Head(toBridge) \in 1..requests
        /\ \A i \in 1..Len(Tail(toBridge)) : Head(toBridge) < Tail(toBridge)[i]
    BY <1>1, <1>6, TailOrdered DEF InOrder, BridgeAnswers
  <2>2. /\ Len(Tail(toBridge)) = Len(toBridge) - 1 /\ Len(toBridge) \in Nat \ {0}
        /\ \A i \in 1..Len(Tail(toBridge)) : Tail(toBridge)[i] = toBridge[i + 1]
    BY <1>6, HeadTailProperties, EmptySeq DEF InOrder, BridgeAnswers
  <2>3. \A i \in 1..Len(toClient) : toClient[i] < Head(toBridge)
    BY <2>1, <2>2 DEF InOrder, Before
  <2>4. /\ Append(toClient, Head(toBridge)) \in Seq(Nat)
        /\ Increasing(Append(toClient, Head(toBridge)))
        /\ UpTo(Append(toClient, Head(toBridge)), requests)
    BY <1>1, <2>1, <2>3, AppendOrdered DEF InOrder
  <2>5. Before(Append(toClient, Head(toBridge)), Tail(toBridge))
    <3>1. /\ Len(Append(toClient, Head(toBridge))) = Len(toClient) + 1 /\ Len(toClient) \in Nat
          /\ \A i \in 1..Len(toClient) : Append(toClient, Head(toBridge))[i] = toClient[i]
          /\ Append(toClient, Head(toBridge))[Len(toClient) + 1] = Head(toBridge)
      BY <2>1, AppendProperties, LenProperties DEF InOrder
    <3>2. \A i \in 1..Len(toClient), j \in 1..Len(Tail(toBridge)) : toClient[i] < Tail(toBridge)[j]
      BY <2>2 DEF InOrder, Before
    <3>3. QED
      BY <2>1, <3>1, <3>2 DEF Before
  <2>6. QED
    BY <1>6, <2>1, <2>4, <2>5 DEF InOrder, BridgeAnswers
<1>7. CASE LinkDown
  BY <1>7, EmptyOrdered DEF LinkDown, InOrder, Before
<1>8. QED
  BY <1>2, <1>3, <1>4, <1>5, <1>6, <1>7 DEF Next, Connect, ConnectFails,
     SocketDone, Request, StopBegins, StopWrites, StopGivesUp,
     StreamEnds, Timeout, vars, link

LEMMA InOrderHolds ==
  ASSUME ClientAssumption
  PROVE  Spec => []InOrder
<1>1. Init => InOrder
  BY EmptyOrdered DEF Init, ClientAssumption, None, InOrder, Before
<1>2. QED
  BY <1>1, InOrderStep, PTL DEF Spec

(* The dashboard accepts a reply only while requests and replies are in     *)
(* step: once a request that timed out has left a reply behind, no request  *)
(* of that connection is accepted any more, and none is ever answered by    *)
(* the reply to another.                                                    *)
THEOREM AcceptsOnlyInStepHolds ==
  ASSUME ClientAssumption
  PROVE  Spec => AcceptsOnlyInStep
<1> DEFINE InStep == accepted' # accepted => Lag = 0
<1>1. InOrder /\ [Next]_vars => [InStep]_vars
  <2> SUFFICES ASSUME InOrder, Next, accepted' # accepted
               PROVE  Lag = 0
    OBVIOUS
  <2>1. ReplyArrives
    BY DEF Next, Connect, ConnectSucceeds, ConnectFails, SocketDone,
       Request, StopBegins, StopWrites, StopGivesUp, WriteAndAwait,
       StreamEnds, Timeout, BridgeAnswers, LinkDown
  <2>2. toClient # <<>> /\ pending /\ Head(toClient) = requests
    BY <2>1 DEF ReplyArrives, VerifyBridgeResponse, InOrder
  <2>3. Len(toClient) \in Nat \ {0} /\ Len(toBridge) \in Nat /\ toClient[1] = requests
    BY <2>2, EmptySeq, LenProperties DEF InOrder
  <2>4. Len(toClient) <= 1
    <3>1. SUFFICES ASSUME Len(toClient) >= 2 PROVE FALSE
      BY <2>3
    <3>2. 1 \in 1..Len(toClient) /\ 2 \in 1..Len(toClient)
      BY <2>3, <3>1
    <3>3. QED
      BY <2>3, <3>2 DEF InOrder, Increasing, UpTo
  <2>5. Len(toBridge) <= 0
    <3>1. SUFFICES ASSUME Len(toBridge) >= 1 PROVE FALSE
      BY <2>3
    <3>2. 1 \in 1..Len(toClient) /\ 1 \in 1..Len(toBridge)
      BY <2>3, <3>1
    <3>3. QED
      BY <2>3, <3>2 DEF InOrder, Before, UpTo
  <2>6. Len(toClient) = 1 /\ Len(toBridge) = 0
    BY <2>3, <2>4, <2>5
  <2>7. QED
    BY <2>2, <2>6 DEF Lag
<1> HIDE DEF InStep
<1>2. Spec => [][InStep]_vars
  BY <1>1, InOrderHolds, PTL DEF Spec
<1>3. QED
  BY <1>2 DEF AcceptsOnlyInStep, InStep

LEMMA UpToType ==
  ASSUME NEW s \in Seq(Nat), NEW n \in Nat, UpTo(s, n)
  PROVE  s \in Seq(1..n)
<1>1. s \in [1..Len(s) -> 1..n] /\ Len(s) \in Nat
  <2>1. s \in [1..Len(s) -> Nat] /\ Len(s) \in Nat
    BY LenProperties
  <2>2. QED
    BY <2>1 DEF UpTo
<1>2. QED
  BY <1>1, SeqDef

(* The rest of the types: flags; numbers; what was accepted.                *)
Flags ==
  /\ connecting \in BOOLEAN /\ connected \in BOOLEAN /\ sending \in BOOLEAN
  /\ up \in BOOLEAN /\ pending \in BOOLEAN

Counters ==
  /\ conn \in 0..MaxConnections
  /\ stop \in 0..conn
  /\ accepted \subseteq (1..requests) \X (1..requests)

Busy == sending <=> awaited # None

LEMMA FlagsStep ==
  ASSUME Flags, [Next]_vars
  PROVE  Flags'
<1> USE DEF Flags, link
<1>1. ASSUME NEW socket, WriteAndAwait(socket)
      PROVE  Flags'
  BY <1>1, Zenon DEF WriteAndAwait
<1>2. CASE Connect \/ ConnectSucceeds \/ ConnectFails \/ SocketDone
  BY <1>2, Zenon DEF Connect, ConnectSucceeds, ConnectFails, SocketDone
<1>3. CASE StopBegins \/ StopGivesUp \/ ReplyArrives \/ StreamEnds
           \/ Timeout
  BY <1>3, Zenon DEF StopBegins, StopGivesUp, ReplyArrives, StreamEnds,
     Timeout
<1>4. CASE BridgeAnswers \/ LinkDown \/ UNCHANGED vars
  BY <1>4, Zenon DEF BridgeAnswers, LinkDown, vars
<1>5. QED
  BY <1>1, <1>2, <1>3, <1>4, Zenon DEF Next, Request, StopWrites

LEMMA CountersStep ==
  ASSUME ClientAssumption, InOrder, Counters, [Next]_vars
  PROVE  Counters'
<1>1. requests \in Nat /\ conn \in Nat
  BY DEF InOrder, Counters
<1>2. CASE ReplyArrives
  <2>1. awaited # None => awaited \in 1..requests
    BY <1>1 DEF InOrder, None
  <2>2. QED
    BY <1>1, <1>2, <2>1 DEF ReplyArrives, VerifyBridgeResponse, Counters
<1>3. ASSUME NEW socket, WriteAndAwait(socket), stop' \in 0..conn
      PROVE  Counters'
  <2>1. 1..requests \subseteq 1..requests'
    BY <1>1, <1>3 DEF WriteAndAwait
  <2>2. QED
    BY <1>3, <2>1 DEF WriteAndAwait, Counters
<1>4. CASE Request \/ StopWrites
  BY <1>1, <1>3, <1>4 DEF Request, StopWrites, None, Counters
<1>5. CASE ConnectSucceeds
  BY <1>1, <1>5 DEF ConnectSucceeds, Counters, ClientAssumption
<1>6. CASE StopBegins \/ StopGivesUp
  BY <1>1, <1>6 DEF StopBegins, StopGivesUp, Counters, None, link
<1>7. CASE UNCHANGED <<conn, stop, requests, accepted>>
  BY <1>7 DEF Counters
<1>8. QED
  BY <1>2, <1>4, <1>5, <1>6, <1>7 DEF Next, Connect, ConnectFails,
     SocketDone, StreamEnds, Timeout, BridgeAnswers, LinkDown,
     vars, link

LEMMA BusyStep ==
  ASSUME InOrder, Busy, [Next]_vars
  PROVE  Busy'
<1>1. requests \in Nat
  BY DEF InOrder
<1>2. ASSUME NEW socket, WriteAndAwait(socket)
      PROVE  Busy'
  <2>1. requests + 1 # 0
    BY <1>1
  <2>2. QED
    BY <1>2, <2>1, Zenon DEF WriteAndAwait, Busy, None
<1>3. CASE sending' = FALSE /\ awaited' = None
  BY <1>3, Zenon DEF Busy, None
<1>4. CASE UNCHANGED <<sending, awaited>>
  BY <1>4, Zenon DEF Busy, None
<1>5. QED
  BY <1>2, <1>3, <1>4, Zenon DEF Next, Connect, ConnectSucceeds, ConnectFails,
     SocketDone, Request, StopBegins, StopWrites, StopGivesUp,
     ReplyArrives, StreamEnds, Timeout, BridgeAnswers, LinkDown,
     vars

(* The busy flag of the dashboard is set exactly while a request awaits its *)
(* reply, whatever timed out or was reconnected; lines on their way belong  *)
(* to requests that were written.                                           *)
THEOREM ClientTypeCorrect ==
  ASSUME ClientAssumption
  PROVE  Spec => []TypeOK
<1> DEFINE Inv == Flags /\ Counters /\ Busy
<1>1. Init => Inv
  <2>1. Init => Flags /\ Busy
    BY Zenon DEF Init, Flags, Busy
  <2>2. Init => Counters
    BY DEF Init, ClientAssumption, None, Counters
  <2>3. QED
    BY <2>1, <2>2
<1>2. InOrder /\ Inv /\ [Next]_vars => Inv'
  BY FlagsStep, CountersStep, BusyStep
<1>3. InOrder /\ Inv => TypeOK
  <2> SUFFICES ASSUME InOrder, Inv PROVE TypeOK
    OBVIOUS
  <2>1. toBridge \in Seq(1..requests) /\ toClient \in Seq(1..requests)
    BY UpToType DEF InOrder
  <2>2. requests \in 0..MaxRequests /\ awaited \in 0..requests
    BY DEF InOrder, None
  <2>3. QED
    BY <2>1, <2>2, Zenon DEF TypeOK, Flags, Counters, Busy
<1> HIDE DEF Inv
<1>4. QED
  BY <1>1, <1>2, <1>3, InOrderHolds, PTL DEF Spec
=============================================================================
