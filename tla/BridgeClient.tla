---------------------------- MODULE BridgeClient ----------------------------
(***************************************************************************)
(* The dashboard's end of the command connection (gui_dashboard/lib,       *)
(* main.dart) and the connection itself: requests and replies in order, a  *)
(* bridge that answers every line it reads, timeouts, a lost connection    *)
(* and the reconnection by the polling loop.                               *)
(*                                                                         *)
(* Dart runs one callback at a time; other callbacks come in at an await.  *)
(* One action stands for the code between two awaits.  Replies are read    *)
(* through a StreamIterator: a call of moveNext that timed out stays       *)
(* pending, takes the next line whenever it comes, and makes any further   *)
(* call throw until then.                                                  *)
(***************************************************************************)
EXTENDS Integers, Sequences

CONSTANTS
  MaxRequests,     \* bound: requests written in all
  MaxConnections   \* bound: connections opened in all

ASSUME ClientAssumption == MaxRequests \in Nat /\ MaxConnections \in Nat \ {0}

VARIABLES
  connecting,  \* _connecting
  connected,   \* _isConnected
  sending,     \* _isSending
  conn,        \* the generation of _socket and _responses, 0 before the first
  up,          \* the connection is there on both ends
  toBridge,    \* nonces of the request lines the bridge has still to answer
  toClient,    \* nonces of the reply lines the client has still to read
  pending,     \* a moveNext of the current iterator waits for a line
  awaited,     \* the nonce of the request that awaits this moveNext, or None
  stop,        \* the socket Stop Audio Studio holds while it waits, or None
  requests,    \* how many requests were written so far: nonces are fresh
  accepted     \* history: nonces of the requests whose reply was accepted

None == 0
link == <<conn, up, toBridge, toClient>>
vars == <<connecting, connected, sending, link, pending, awaited, stop, requests, accepted>>

-----------------------------------------------------------------------------
(* _connectToBridge *)

Connect ==
  /\ ~connecting /\ ~connected
  /\ connecting' = TRUE
  /\ UNCHANGED <<connected, sending, link, pending, awaited, stop, requests, accepted>>

(* The socket is open: the old one is destroyed and its iterator cancelled, *)
(* which ends the request that awaited it.                                  *)
ConnectSucceeds ==
  /\ connecting
  /\ conn < MaxConnections
  /\ connecting' = FALSE
  /\ connected' = TRUE
  /\ conn' = conn + 1
  /\ up' = TRUE
  /\ toBridge' = <<>>
  /\ toClient' = <<>>
  /\ pending' = FALSE
  /\ awaited' = None
  /\ sending' = FALSE
  /\ UNCHANGED <<stop, requests, accepted>>

ConnectFails ==
  /\ connecting
  /\ connecting' = FALSE
  /\ connected' = FALSE
  /\ UNCHANGED <<sending, link, pending, awaited, stop, requests, accepted>>

(* socket.done.                                                             *)
SocketDone ==
  /\ connected /\ ~up
  /\ connected' = FALSE
  /\ UNCHANGED <<connecting, sending, link, pending, awaited, stop, requests, accepted>>

-----------------------------------------------------------------------------
(* One request: _sendCommand, _requestBridgeData, _requestAudioStudioControl *)

(* The line is written; if moveNext can be called the request awaits it,    *)
(* otherwise the call throws and the request has failed.                    *)
WriteAndAwait(socket) ==
  /\ requests < MaxRequests
  /\ requests' = requests + 1
  /\ toBridge' = IF socket = conn /\ up THEN Append(toBridge, requests + 1) ELSE toBridge
  /\ sending' = ~pending
  /\ awaited' = IF pending THEN None ELSE requests + 1
  /\ pending' = TRUE
  /\ UNCHANGED <<connecting, connected, conn, up, toClient, accepted>>

Request ==
  /\ connected /\ ~sending
  /\ WriteAndAwait(conn)
  /\ UNCHANGED stop

(* Stop Audio Studio takes the socket first and then waits, for at most six *)
(* seconds, until no other request is sent.                                 *)
StopBegins ==
  /\ connected
  /\ stop = None
  /\ stop' = conn
  /\ UNCHANGED <<connecting, connected, sending, link, pending, awaited, requests, accepted>>

StopWrites ==
  /\ stop # None /\ ~sending
  /\ WriteAndAwait(stop)
  /\ stop' = None

StopGivesUp ==
  /\ stop # None /\ sending
  /\ stop' = None
  /\ UNCHANGED <<connecting, connected, sending, link, pending, awaited, requests, accepted>>

(* Mutant: any authenticated reply will do.                                 *)
AnyReply(nonce) == TRUE

(* _verifyBridgeResponse: the reply is bound to the nonce of the request.   *)
VerifyBridgeResponse(nonce) == nonce = awaited

(* moveNext completes with a line: for the request that awaits it, or for   *)
(* one that timed out long ago, and then the line is dropped.               *)
ReplyArrives ==
  /\ pending
  /\ toClient # <<>>
  /\ pending' = FALSE
  /\ toClient' = Tail(toClient)
  /\ accepted' = IF awaited # None /\ VerifyBridgeResponse(Head(toClient))
                 THEN accepted \cup {<<awaited, Head(toClient)>>} ELSE accepted
  /\ awaited' = None
  /\ sending' = FALSE
  /\ UNCHANGED <<connecting, connected, conn, up, toBridge, stop, requests>>

(* moveNext completes without a line: the stream has ended.                 *)
StreamEnds ==
  /\ pending
  /\ toClient = <<>> /\ ~up
  /\ pending' = FALSE
  /\ awaited' = None
  /\ sending' = FALSE
  /\ UNCHANGED <<connecting, connected, link, stop, requests, accepted>>

(* Mutant: the busy flag is not released when the request times out.        *)
TimeoutStuck ==
  /\ awaited # None
  /\ awaited' = None
  /\ UNCHANGED <<connecting, connected, sending, link, pending, stop, requests, accepted>>

(* The timeout of the request; moveNext stays pending.                      *)
Timeout ==
  /\ awaited # None
  /\ awaited' = None
  /\ sending' = FALSE
  /\ UNCHANGED <<connecting, connected, link, pending, stop, requests, accepted>>

-----------------------------------------------------------------------------
(* The bridge and the connection *)

(* handleConnection answers the lines of a connection one after the other.  *)
BridgeAnswers ==
  /\ up
  /\ toBridge # <<>>
  /\ toBridge' = Tail(toBridge)
  /\ toClient' = Append(toClient, Head(toBridge))
  /\ UNCHANGED <<connecting, connected, sending, conn, up, pending, awaited, stop,
                 requests, accepted>>

(* The connection is lost; replies that are already there can be read.      *)
LinkDown ==
  /\ up
  /\ up' = FALSE
  /\ toBridge' = <<>>
  /\ UNCHANGED <<connecting, connected, sending, conn, toClient, pending, awaited, stop,
                 requests, accepted>>

-----------------------------------------------------------------------------

Init ==
  /\ connecting = FALSE
  /\ connected = FALSE
  /\ sending = FALSE
  /\ conn = 0
  /\ up = FALSE
  /\ toBridge = <<>>
  /\ toClient = <<>>
  /\ pending = FALSE
  /\ awaited = None
  /\ stop = None
  /\ requests = 0
  /\ accepted = {}

Next ==
  \/ Connect
  \/ ConnectSucceeds
  \/ ConnectFails
  \/ SocketDone
  \/ Request
  \/ StopBegins
  \/ StopWrites
  \/ StopGivesUp
  \/ ReplyArrives
  \/ StreamEnds
  \/ Timeout
  \/ BridgeAnswers
  \/ LinkDown

Spec == Init /\ [][Next]_vars

(* Timers fire, the event loop delivers what has completed, and an attempt  *)
(* to connect ends within its own timeout.                                  *)
FairSpec ==
  /\ Spec
  /\ WF_vars(Timeout)
  /\ WF_vars(StopWrites \/ StopGivesUp)
  /\ WF_vars(ConnectSucceeds \/ ConnectFails)

-----------------------------------------------------------------------------
(* Properties *)

(* A request is in flight exactly while the busy flag is set; lines belong  *)
(* to requests that were written.                                           *)
TypeOK ==
  /\ connecting \in BOOLEAN /\ connected \in BOOLEAN /\ sending \in BOOLEAN
  /\ up \in BOOLEAN /\ pending \in BOOLEAN
  /\ conn \in 0..MaxConnections
  /\ toBridge \in Seq(1..requests) /\ toClient \in Seq(1..requests)
  /\ awaited \in 0..requests
  /\ sending <=> awaited # None
  /\ stop \in 0..conn
  /\ requests \in 0..MaxRequests
  /\ accepted \subseteq (1..requests) \X (1..requests)

(* Lines the client has still to see, less the call that waits for one: 0   *)
(* when requests and replies are in step.                                   *)
Lag == Len(toBridge) + Len(toClient) - (IF pending THEN 1 ELSE 0)

(* A request whose timeout overlaps the next one leaves a reply behind that *)
(* nobody awaits, and from then on replies are one behind: on such a        *)
(* connection no request succeeds any more.                                 *)
AcceptsOnlyInStep == [][accepted' # accepted => Lag = 0]_vars

(* The busy flag is always released: no request blocks the ones after it,   *)
(* whatever the bridge does.                                                *)
SendingReleased == sending ~> ~sending
=============================================================================
