----------------------------- MODULE SessionRpc -----------------------------
(***************************************************************************)
(* Requests over direct streams: the client's RpcClient with its pooled     *)
(* connection and its slots, the provider's accept loop with its permits,   *)
(* one stream per request, and the task that handles it.                    *)
(*                                                                          *)
(* A request opens one stream at most and dials at most twice, so <<r, 1>>  *)
(* and <<r, 2>> name the connections it may set up.  A connection that the  *)
(* provider closed is "closing" until its client notices.  Whether a task   *)
(* answers its request is free (Authorization and Admission say more).      *)
(* On a connection for many streams a client may keep others, up to MaxOthers *)
(* at once, open them when it likes, again and again, and be answered or not. *)
(* MaxRpcFaults bounds broken connections and timeouts of calls that would  *)
(* still be answered, together.                                             *)
(***************************************************************************)
EXTENDS Naturals, FiniteSets

CONSTANTS
  Clients,   \* each with an account and a transport key of its own
  Requests,
  ClientOf,  \* [Requests -> Clients]
  Versions,  \* request protocols a provider may know
  MAX_CONNECTIONS, MAX_SESSION_STREAMS,
  MaxOthers, MaxRpcFaults

ASSUME SessionRpcAssumption ==
  /\ IsFiniteSet(Requests) /\ ClientOf \in [Requests -> Clients]
  /\ Versions \subseteq SUBSET {"session/1", "session/2", "direct/1"}
  /\ MAX_CONNECTIONS \in Nat \ {0} /\ MAX_SESSION_STREAMS \in Nat \ {0}
  /\ MaxOthers \in Nat /\ MaxRpcFaults \in Nat

VARIABLES
  speaks,         \* the protocols the provider knows
  direct,         \* the clients that speak direct/1, the others speak sessions
  step,           \* per request: "new", "checkout", "dial", "open", "sent" or "done"
  result,         \* what its caller was told: "none", "reply", "notSent", "uncertain"
  at,             \* the connection it uses
  dials,          \* connections it has set up
  retried,        \* requests that could not open a stream once already
  pooled,         \* per client: the connection kept for the next request
  conn,           \* per connection: "none", "live", "closing" or "closed"
  unheard,        \* connections with a stream that ended unanswered since the last reply
  others,         \* per connection: how many other streams its client has on it
  stream,         \* per request, at the provider: "none", "open", "answered", "over" or "reset"
  spawned,        \* per request: "none", "spawned" or "over"
  replies,        \* requests whose handler has given its reply to the stream
  times_handled,  \* per request: how often the application has carried it out
  rpcFaults

callerVars == <<step, result, at, dials, retried, pooled>>
streamVars == <<conn, unheard, others, stream>>
protocols == <<speaks, direct>>
taskVars == <<spawned, replies, times_handled, protocols>>
rpcVars == <<callerVars, streamVars, taskVars, rpcFaults>>

-----------------------------------------------------------------------------
Connections == Requests \X {1, 2}
NoConnection == <<>>
Owner(k) == ClientOf[k[1]]
Streams(k) == {r \in Requests : at[r] = k /\ stream[r] \in {"open", "answered"}}
OpenStreams(k) == Cardinality(Streams(k)) + others[k]

IsDirect(c) == c \in direct
Supported(c) ==
  IF IsDirect(c) THEN "direct/1" \in speaks
  ELSE "session/1" \in speaks \/ "session/2" \in speaks
\* A session client offers both of its protocols and the provider prefers session/2.
OneRequest(c) == ~IsDirect(c) /\ "session/2" \notin speaks

RpcInit ==
  /\ speaks \in Versions /\ direct \in SUBSET Clients
  /\ step = [r \in Requests |-> "new"] /\ result = [r \in Requests |-> "none"]
  /\ at = [r \in Requests |-> NoConnection] /\ dials = [r \in Requests |-> 0]
  /\ retried = {}
  /\ pooled = [c \in Clients |-> NoConnection]
  /\ conn = [k \in Connections |-> "none"] /\ unheard = {}
  /\ others = [k \in Connections |-> 0]
  /\ stream = [r \in Requests |-> "none"] /\ spawned = [r \in Requests |-> "none"]
  /\ replies = {} /\ times_handled = [r \in Requests |-> 0] /\ rpcFaults = 0

RpcFault == rpcFaults < MaxRpcFaults /\ rpcFaults' = rpcFaults + 1
NoRpcFault == UNCHANGED rpcFaults

-----------------------------------------------------------------------------
(* 1. The client: RpcClient::request.                                      *)

SlotsTaken(c) == {r \in Requests : ClientOf[r] = c /\ step[r] \notin {"new", "done"}}
\* The pool's lock is held while connecting.
Dialing(c) == {r \in Requests : ClientOf[r] = c /\ step[r] = "dial"}

EndRequest(r, outcome) ==
  step' = [step EXCEPT ![r] = "done"] /\ result' = [result EXCEPT ![r] = outcome]

TakeSlot(r) ==
  /\ step[r] = "new" /\ Cardinality(SlotsTaken(ClientOf[r])) < MAX_SESSION_STREAMS
  /\ step' = [step EXCEPT ![r] = "checkout"]
  /\ UNCHANGED <<result, at, dials, retried, pooled, streamVars, taskVars, rpcFaults>>

Reuse(r) ==
  LET k == pooled[ClientOf[r]] IN
  /\ step[r] = "checkout" /\ Dialing(ClientOf[r]) = {}
  /\ k # NoConnection /\ conn[k] # "closed"
  /\ step' = [step EXCEPT ![r] = "open"] /\ at' = [at EXCEPT ![r] = k]
  /\ UNCHANGED <<result, dials, retried, pooled, streamVars, taskVars, rpcFaults>>

\* The pooled connection is closed, or has been idle for too long.
StartDial(r) ==
  /\ step[r] = "checkout" /\ Dialing(ClientOf[r]) = {}
  /\ step' = [step EXCEPT ![r] = "dial"]
  /\ pooled' = [pooled EXCEPT ![ClientOf[r]] = NoConnection]
  /\ UNCHANGED <<result, at, dials, retried, streamVars, taskVars, rpcFaults>>

Permits == {k \in Connections : conn[k] = "live"}

\* The provider refuses a connection past its limit, and a protocol it does not know.
Dial(r) ==
  LET c == ClientOf[r]
      k == <<r, dials[r] + 1>> IN
  /\ step[r] = "dial" /\ Supported(c) /\ Cardinality(Permits) < MAX_CONNECTIONS
  /\ conn' = [conn EXCEPT ![k] = "live"] /\ at' = [at EXCEPT ![r] = k]
  /\ dials' = [dials EXCEPT ![r] = @ + 1]
  /\ pooled' = IF OneRequest(c) THEN pooled ELSE [pooled EXCEPT ![c] = k]
  /\ step' = [step EXCEPT ![r] = "open"]
  /\ UNCHANGED <<result, retried, unheard, others, stream, taskVars, rpcFaults>>

DialFails(r) ==
  /\ step[r] = "dial" /\ EndRequest(r, "notSent")
  /\ IF Supported(ClientOf[r]) /\ Cardinality(Permits) < MAX_CONNECTIONS
     THEN RpcFault ELSE NoRpcFault
  /\ UNCHANGED <<at, dials, retried, pooled, streamVars, taskVars>>

\* QUIC holds back a stream past the limit.  What goes out on a connection that
\* the provider has just closed arrives nowhere.
OpenStream(r) ==
  LET k == at[r] IN
  /\ step[r] = "open" /\ conn[k] \in {"live", "closing"}
  /\ conn[k] = "live" => OpenStreams(k) < MAX_SESSION_STREAMS
  /\ step' = [step EXCEPT ![r] = "sent"]
  /\ stream' = IF conn[k] = "live" THEN [stream EXCEPT ![r] = "open"] ELSE stream
  /\ UNCHANGED <<result, at, dials, retried, pooled, conn, unheard, others, taskVars,
                 rpcFaults>>

Discard(r) == IF pooled[ClientOf[r]] = at[r]
              THEN [pooled EXCEPT ![ClientOf[r]] = NoConnection] ELSE pooled

\* Opening a stream sends nothing, so the request may go to a second connection.
CannotOpen(r) ==
  /\ step[r] = "open" /\ conn[at[r]] = "closed"
  /\ pooled' = Discard(r)
  /\ IF r \in retried
     THEN EndRequest(r, "notSent") /\ UNCHANGED retried
     ELSE /\ step' = [step EXCEPT ![r] = "checkout"] /\ retried' = retried \cup {r}
          /\ UNCHANGED result
  /\ UNCHANGED <<at, dials, streamVars, taskVars, rpcFaults>>

\* The stream's end at the client.  A single-request connection is over with it.
Hear(r, outcome) ==
  /\ step[r] = "sent" /\ EndRequest(r, outcome)
  /\ conn' = IF OneRequest(ClientOf[r]) THEN [conn EXCEPT ![at[r]] = "closed"] ELSE conn
  /\ UNCHANGED <<at, dials, retried, pooled, unheard, others, stream, taskVars, rpcFaults>>

GetReply(r) == stream[r] = "answered" /\ conn[at[r]] = "live" /\ Hear(r, "reply")

LoseReply(r) ==
  /\ step[r] = "sent" /\ (stream[r] = "reset" \/ conn[at[r]] # "live")
  /\ Hear(r, "uncertain")

\* The deadline of the whole request, which covers its wait for a slot.
RequestTimesOut(r) ==
  /\ step[r] # "done"
  /\ EndRequest(r, IF step[r] = "sent" THEN "uncertain" ELSE "notSent")
  /\ RpcFault /\ UNCHANGED <<at, dials, retried, pooled, streamVars, taskVars>>

-----------------------------------------------------------------------------
(* 2. Connections and streams at the provider: serve_session, serve_stream. *)

\* Dropping the set of streams resets those still running.
Reset(k) == [r \in Requests |-> IF r \in Streams(k) THEN "reset" ELSE stream[r]]

Close(k) ==
  /\ conn[k] = "live" /\ conn' = [conn EXCEPT ![k] = "closing"]
  /\ stream' = Reset(k) /\ unheard' = unheard \ {k} /\ others' = [others EXCEPT ![k] = 0]
  /\ UNCHANGED <<callerVars, taskVars>>

CloseIdle(k) == OpenStreams(k) = 0 /\ Close(k) /\ NoRpcFault

CloseUnproductive_WhenEmpty(k) == k \in unheard /\ OpenStreams(k) = 0 /\ Close(k) /\ NoRpcFault

\* "Streams that always time out keep a connection busy without ever being idle, so a
\* connection also closes once it has gone this long without delivering a reply."
CloseUnproductive(k) == k \in unheard /\ Close(k) /\ NoRpcFault

Break(k) == RpcFault /\ Close(k)

ClientNotices(k) ==
  /\ conn[k] = "closing" /\ conn' = [conn EXCEPT ![k] = "closed"]
  /\ UNCHANGED <<callerVars, unheard, others, stream, taskVars, rpcFaults>>

\* The other streams of a client: one opens; one is answered and heard; one ends unanswered.
OthersOpen(k) ==
  /\ conn[k] = "live" /\ ~OneRequest(Owner(k)) /\ OpenStreams(k) < MAX_SESSION_STREAMS
  /\ others[k] < MaxOthers /\ others' = [others EXCEPT ![k] = @ + 1]
  /\ UNCHANGED <<callerVars, conn, unheard, stream, taskVars, rpcFaults>>

OthersEnd(k) ==
  /\ others[k] > 0 /\ others' = [others EXCEPT ![k] = @ - 1]
  /\ UNCHANGED <<callerVars, conn, stream, taskVars, rpcFaults>>

OthersServed(k) == OthersEnd(k) /\ unheard' = unheard \ {k}
OthersFail(k) == OthersEnd(k) /\ unheard' = unheard \cup {k}

\* The request has been read, and goes to the application.
Dispatch(r) ==
  /\ stream[r] = "open" /\ spawned[r] = "none"
  /\ spawned' = [spawned EXCEPT ![r] = "spawned"]
  /\ UNCHANGED <<callerVars, streamVars, replies, times_handled, protocols, rpcFaults>>

\* How a stream ends.  A single-request connection closes behind it.
EndStream(r, as) ==
  /\ stream' = [stream EXCEPT ![r] = as]
  /\ conn' = IF OneRequest(ClientOf[r]) /\ conn[at[r]] = "live"
             THEN [conn EXCEPT ![at[r]] = "closing"] ELSE conn
  /\ UNCHANGED <<callerVars, others, taskVars>>

WriteReply(r) ==
  /\ stream[r] = "open" /\ r \in replies
  /\ stream' = [stream EXCEPT ![r] = "answered"]
  /\ UNCHANGED <<callerVars, conn, unheard, others, taskVars, rpcFaults>>

\* The client has the reply, or has gone and stopped the stream.
Delivered(r) ==
  /\ stream[r] = "answered" /\ conn[at[r]] = "live" /\ step[r] = "done"
  /\ EndStream(r, "over") /\ unheard' = unheard \ {at[r]} /\ NoRpcFault

Busy(r) == spawned[r] = "spawned" \/ (r \in replies /\ stream[r] = "open")

StreamFails_Finish(r) ==
  /\ r \in Streams(at[r])
  /\ EndStream(r, "answered") /\ IF Busy(r) THEN RpcFault ELSE NoRpcFault
  /\ unheard' = IF OneRequest(ClientOf[r]) THEN unheard ELSE unheard \cup {at[r]}

\* The request or the receipt of its reply has not come in time, or the
\* application has dropped it unanswered; or the application takes too long.
StreamFails(r) ==
  /\ r \in Streams(at[r])
  /\ EndStream(r, "reset") /\ IF Busy(r) THEN RpcFault ELSE NoRpcFault
  /\ unheard' = IF OneRequest(ClientOf[r]) THEN unheard ELSE unheard \cup {at[r]}

-----------------------------------------------------------------------------
(* 3. The task of a request: handle_direct_request, handle_session_request. *)

\* The task drops a request that it may not or cannot carry out.
DropTask(r) ==
  /\ spawned[r] = "spawned" /\ spawned' = [spawned EXCEPT ![r] = "over"]
  /\ UNCHANGED <<callerVars, streamVars, replies, times_handled, protocols, rpcFaults>>

\* Its 60 seconds may run out after the request was carried out.
RunTask(r) ==
  /\ spawned[r] = "spawned" /\ spawned' = [spawned EXCEPT ![r] = "over"]
  /\ times_handled' = [times_handled EXCEPT ![r] = @ + 1]
  /\ (replies' = replies \cup {r} /\ NoRpcFault) \/ (RpcFault /\ UNCHANGED replies)
  /\ UNCHANGED <<callerVars, streamVars, protocols>>

ClientStep(r) ==
  \/ TakeSlot(r) \/ Reuse(r) \/ StartDial(r) \/ Dial(r) \/ DialFails(r)
  \/ OpenStream(r) \/ CannotOpen(r) \/ GetReply(r) \/ LoseReply(r)
  \/ RequestTimesOut(r)

StreamStep(r) == Dispatch(r) \/ WriteReply(r) \/ Delivered(r) \/ StreamFails(r)

TaskStep(r) == DropTask(r) \/ RunTask(r)

RpcNext ==
  \/ \E r \in Requests : ClientStep(r) \/ StreamStep(r) \/ TaskStep(r)
  \/ \E k \in Connections :
       \/ CloseIdle(k) \/ CloseUnproductive(k) \/ Break(k) \/ ClientNotices(k)
       \/ OthersOpen(k) \/ OthersServed(k) \/ OthersFail(k)

RpcSpec == RpcInit /\ [][RpcNext]_rpcVars

\* The provider's runtime runs its tasks and timers.  Nothing is assumed of the
\* clients, of the network or of a homeserver.
FairRpcSpec ==
  /\ RpcSpec
  /\ \A r \in Requests :
       WF_rpcVars(StreamFails(r)) /\ WF_rpcVars(WriteReply(r)) /\ WF_rpcVars(TaskStep(r))
  /\ \A k \in Connections :
       WF_rpcVars(CloseIdle(k) \/ CloseUnproductive(k)) /\ WF_rpcVars(OthersFail(k))

-----------------------------------------------------------------------------
(* Properties.                                                             *)

RpcTypeOK ==
  /\ speaks \in Versions /\ direct \subseteq Clients
  /\ step \in [Requests -> {"new", "checkout", "dial", "open", "sent", "done"}]
  /\ result \in [Requests -> {"none", "reply", "notSent", "uncertain"}]
  /\ at \in [Requests -> Connections \cup {NoConnection}]
  /\ dials \in [Requests -> 0..2] /\ retried \subseteq Requests
  /\ pooled \in [Clients -> Connections \cup {NoConnection}]
  /\ conn \in [Connections -> {"none", "live", "closing", "closed"}]
  /\ unheard \subseteq Connections /\ others \in [Connections -> Nat]
  /\ stream \in [Requests -> {"none", "open", "answered", "over", "reset"}]
  /\ spawned \in [Requests -> {"none", "spawned", "over"}]
  /\ replies \subseteq Requests /\ times_handled \in [Requests -> Nat]
  /\ rpcFaults \in 0..MaxRpcFaults

\* What the caller is told is true: NotSent means that the request was not and
\* will not be carried out, so it may go by another transport; a reply means
\* that it was carried out once ("a request is sent at most once"; serve_stream
\* resets a stream that would "read as an empty reply").
ResultIsTrue ==
  \A r \in Requests :
    /\ result[r] = "notSent" =>
         times_handled[r] = 0 /\ spawned[r] = "none" /\ stream[r] = "none"
    /\ result[r] = "reply" => times_handled[r] = 1
    /\ times_handled[r] <= 1

\* A connection gives its permit back unless its client is served again and again: one
\* that sends nothing, stalls its streams, or keeps the connection busy with streams that
\* overlap and end unanswered is closed ("closes once it has gone this long without
\* delivering a reply").  A client that is answered within every such window may keep it.
Served(k) == OthersServed(k) \/ \E r \in Requests : at[r] = k /\ Delivered(r)

PermitsComeBack ==
  \A k \in Connections :
    \/ []<><<Served(k)>>_rpcVars
    \/ conn[k] = "live" ~> conn[k] # "live"
=============================================================================
