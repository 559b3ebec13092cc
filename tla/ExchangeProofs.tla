--------------------------- MODULE ExchangeProofs ---------------------------
(***************************************************************************)
(* Proofs about what the two parties exchange before and beside a swap: a   *)
(* request over a direct stream, the negotiation it belongs to, the         *)
(* contract a payment tool signs, and messages through the homeserver on    *)
(* their way out and in.  Each component has an inductive invariant of its  *)
(* own; their specifications share no variable.                             *)
(***************************************************************************)
EXTENDS Negotiation, SessionRpc, CapExchange, Delivery, Inbox, PollSchedule,
  FiniteSetTheorems, TLAPS

-----------------------------------------------------------------------------
(* 1. Requests over direct streams.                                        *)

\* The parts of the state that a request's outcome is read from.
RpcTypes ==
  /\ step \in [Requests -> {"new", "checkout", "dial", "open", "sent", "done"}]
  /\ result \in [Requests -> {"none", "reply", "notSent", "uncertain"}]
  /\ stream \in [Requests -> {"none", "open", "answered", "over", "reset"}]
  /\ spawned \in [Requests -> {"none", "spawned", "over"}]
  /\ times_handled \in [Requests -> {0, 1}]

\* How far a request has come at both ends.
RequestIsInStep(r) ==
  /\ step[r] \in {"new", "checkout", "dial", "open"} => stream[r] = "none"
  /\ stream[r] = "none" => spawned[r] = "none"
  /\ spawned[r] # "over" => times_handled[r] = 0
  /\ r \in replies => times_handled[r] = 1
  /\ stream[r] = "answered" => r \in replies
  /\ result[r] = "notSent" => step[r] = "done" /\ stream[r] = "none"
  /\ result[r] = "reply" => times_handled[r] = 1

RpcInv == RpcTypes /\ \A r \in Requests : RequestIsInStep(r)

LEMMA RpcStarts == RpcInit => RpcInv
  BY DEF RpcInit, RpcInv, RpcTypes, RequestIsInStep

\* The client, the provider, and the connections between them.
LEMMA RpcClientSteps ==
  ASSUME RpcInv, NEW r \in Requests, ClientStep(r)
  PROVE  RpcInv'
<1> USE DEF RpcInv, RpcTypes, RequestIsInStep, EndRequest, taskVars, streamVars, protocols
<1>1. CASE TakeSlot(r)
  BY <1>1 DEF TakeSlot
<1>2. CASE Reuse(r)
  BY <1>2 DEF Reuse
<1>3. CASE StartDial(r)
  BY <1>3 DEF StartDial
<1>4. CASE Dial(r)
  BY <1>4 DEF Dial
<1>5. CASE DialFails(r)
  BY <1>5 DEF DialFails
<1>6. CASE OpenStream(r)
  BY <1>6 DEF OpenStream
<1>7. CASE CannotOpen(r)
  BY <1>7 DEF CannotOpen
<1>8. CASE GetReply(r)
  BY <1>8 DEF GetReply, Hear
<1>9. CASE LoseReply(r)
  BY <1>9 DEF LoseReply, Hear
<1>10. CASE RequestTimesOut(r)
  BY <1>10 DEF RequestTimesOut
<1> QED
  BY <1>1, <1>2, <1>3, <1>4, <1>5, <1>6, <1>7, <1>8, <1>9, <1>10 DEF ClientStep

LEMMA RpcProviderSteps ==
  ASSUME RpcInv, NEW r \in Requests, StreamStep(r) \/ TaskStep(r)
  PROVE  RpcInv'
<1> USE DEF RpcInv, RpcTypes, RequestIsInStep, callerVars, taskVars,
            streamVars, protocols
<1>1. CASE Dispatch(r)
  BY <1>1 DEF Dispatch
<1>2. CASE WriteReply(r)
  BY <1>2 DEF WriteReply
<1>3. CASE Delivered(r)
  BY <1>3 DEF Delivered, EndStream
<1>4. CASE StreamFails(r)
  BY <1>4 DEF StreamFails, Streams, EndStream
<1>5. CASE DropTask(r)
  BY <1>5 DEF DropTask
<1>6. CASE RunTask(r)
  BY <1>6 DEF RunTask
<1> QED
  BY <1>1, <1>2, <1>3, <1>4, <1>5, <1>6 DEF StreamStep, TaskStep

LEMMA RpcConnectionSteps ==
  ASSUME RpcInv, NEW k \in Connections,
         \/ CloseIdle(k) \/ CloseUnproductive(k)
         \/ Break(k) \/ ClientNotices(k)
         \/ OthersOpen(k) \/ OthersServed(k) \/ OthersFail(k)
  PROVE  RpcInv'
<1> USE DEF RpcInv, RpcTypes, RequestIsInStep, callerVars, taskVars, protocols
<1>1. CASE Close(k)
  BY <1>1 DEF Close, Reset, Streams
<1>2. CASE ClientNotices(k)
  BY <1>2 DEF ClientNotices
<1>3. CASE OthersOpen(k)
  BY <1>3 DEF OthersOpen
<1>4. CASE OthersEnd(k)
  BY <1>4 DEF OthersEnd
<1> QED
  BY <1>1, <1>2, <1>3, <1>4
  DEF CloseIdle, CloseUnproductive, Break, OthersServed, OthersFail

\* Whatever connections break, streams reset and tasks are dropped, a client that has a reply
\* was served, and one told that its request was not sent was not (session_rpc.rs, RpcOutcome).
THEOREM ResultsAreTrue == RpcSpec => []ResultIsTrue
<1>1. RpcInv /\ [RpcNext]_rpcVars => RpcInv'
  <2> SUFFICES ASSUME RpcInv, [RpcNext]_rpcVars PROVE RpcInv'
    OBVIOUS
  <2>1. CASE UNCHANGED rpcVars
    BY <2>1 DEF RpcInv, RpcTypes, RequestIsInStep, rpcVars, callerVars,
                streamVars, taskVars
  <2> QED
    BY <2>1, RpcClientSteps, RpcProviderSteps, RpcConnectionSteps DEF RpcNext
<1>2. RpcInv => ResultIsTrue
  BY DEF RpcInv, RpcTypes, RequestIsInStep, ResultIsTrue
<1> QED
  BY RpcStarts, <1>1, <1>2, PTL DEF RpcSpec

-----------------------------------------------------------------------------
(* 2. One negotiation at a time.                                           *)

Steps == {"off", "recover", "check", "begin", "exchange", "direct", "dm",
          "query", "save", "ack", "validate", "execute"}

\* The steps that work on one swap, and those of them that may ask its provider.
InHand == Steps \ {"off", "recover", "check"}
Exchanging == {"exchange", "direct", "dm", "query"}

IsJob(j) == DOMAIN j = {"quote", "new", "replay", "req", "attempt", "uncertain",
                        "accept", "receipts"}
IsRecord(r) == DOMAIN r = {"state", "started", "accept", "ready"}

\* The shapes that the steps rely on.
NegotiationShape ==
  /\ DOMAIN disk = Quotes /\ (\A q \in Quotes : IsRecord(disk[q])) /\ IsJob(job)
  /\ pc \in Steps /\ (pc \in InHand => job.quote \in Quotes) /\ todo \subseteq Quotes
  /\ swap \in [Quotes -> {"none", "admitting", "pending", "created"}]
  /\ posted \in [Quotes -> {"none", "posted", "working", "handled"}]

\* Only what the record says was started can be at the provider.
StartedFirst ==
  \A q \in Quotes :
    /\ swap[q] # "none" \/ OnItsWay(q) => disk[q].started
    /\ disk[q].started => disk[q].state \in {"open", "done"}

\* The run works on open records, and exchanges only what it has marked.
RunIsInStep ==
  /\ pc # "off" => todo \subseteq Open
  /\ pc \in InHand => disk[job.quote].state = "open"
  /\ pc \in Exchanging => disk[job.quote].started
  /\ (line.kind # "idle") <=> (pc = "direct")

OneOpen == \A q1, q2 \in Open : q1 = q2

NegotiationInv == NegotiationShape /\ StartedFirst /\ RunIsInStep /\ OneOpen

LEMMA NegotiationStarts == Init => NegotiationInv
  BY DEF Init, NegotiationInv, NegotiationShape, StartedFirst, RunIsInStep, OneOpen, Open,
         OnItsWay, InHand, Exchanging, Steps, IsJob, IsRecord, Idle, NoRecord, Stream

\* What came back ends the exchange.
LEMMA AnswersEndExchanges ==
  ASSUME IsJob(job), NEW t, NEW R, NEW v, Accepted(t, R) \/ Refused(v)
  PROVE  /\ IsJob(job') /\ pc' \in {"save", "query", "off", "recover"}
         /\ pc' \in {"save", "query"} => job'.quote = job.quote
         /\ pc' = "query" => job' = job
  BY DEF IsJob, Accepted, Refused, Goto, GiveUp, Idle

\* The run marks a creation in the record before it sends it, and finishes one record before
\* the next.
LEMMA NegotiationKeptRun ==
  ASSUME NegotiationInv, Run
  PROVE  NegotiationInv'
<1> USE DEF NegotiationInv, NegotiationShape, StartedFirst, RunIsInStep, OneOpen, Open,
            OnItsWay, InHand, Exchanging, Steps, IsJob, IsRecord, Goto, GiveUp, Idle, None,
            Stream, mailVars, providerVars, vars, clientVars
<1>1. CASE StartRun
  BY <1>1 DEF StartRun, Unready
<1>2. CASE ResumeUnfinished
  BY <1>2 DEF ResumeUnfinished, Unready, Open
<1>3. CASE EndRun
  BY <1>3 DEF EndRun
<1>4. CASE Crash
  BY <1>4 DEF Crash, HangUp
<1>5. CASE \E q \in Quotes : RetireExpired(q)
  BY <1>5 DEF RetireExpired, NeverSent
<1>6. CASE \E q \in Quotes : RecoverOne(q)
  BY <1>6 DEF RecoverOne, NeverSent
<1>7. CASE \E q \in Quotes : Negotiate(q)
  BY <1>7 DEF Negotiate
<1> QED
  BY <1>1, <1>2, <1>3, <1>4, <1>5, <1>6, <1>7 DEF Run

LEMMA NegotiationKeptCreation ==
  ASSUME NegotiationInv, Creation
  PROVE  NegotiationInv'
<1> USE DEF NegotiationInv, NegotiationShape, StartedFirst, RunIsInStep, OneOpen, Open,
            OnItsWay, InHand, Exchanging, Steps, IsJob, IsRecord, Goto, GiveUp, Idle, None,
            Stream, mailVars, providerVars, vars, clientVars
<1>1. CASE record_creation_started
  BY <1>1 DEF record_creation_started
<1>2. CASE QueryStatus
  BY <1>2 DEF QueryStatus
<1>3. CASE WindowPasses
  BY <1>3 DEF WindowPasses, HangUp
<1>4. CASE record_creation_reply
  BY <1>4 DEF record_creation_reply
<1>5. CASE Acknowledge
  BY <1>5 DEF Acknowledge
<1>6. CASE ValidateAndReady
  BY <1>6 DEF ValidateAndReady
<1>7. CASE Execute
  BY <1>7 DEF Execute
<1> QED
  BY <1>1, <1>2, <1>3, <1>4, <1>5, <1>6, <1>7 DEF Creation

LEMMA NegotiationKeptExchange ==
  ASSUME NegotiationInv, Exchange
  PROVE  NegotiationInv'
<1> USE DEF NegotiationInv, NegotiationShape, StartedFirst, RunIsInStep, OneOpen, Open,
            OnItsWay, InHand, Exchanging, Steps, IsJob, IsRecord, Goto, GiveUp, Idle, None,
            Stream, mailVars, providerVars, vars, clientVars
<1>1. CASE SendDirect
  BY <1>1 DEF SendDirect, UsesDirect
<1>2. CASE DirectNotSent
  BY <1>2 DEF DirectNotSent
<1>3. CASE DirectAnswer
  BY <1>3, AnswersEndExchanges DEF DirectAnswer
<1>4. CASE DirectUncertain
  BY <1>4 DEF DirectUncertain, HangUp
<1>5. CASE NoChannel
  BY <1>5 DEF NoChannel, Unanswered
<1>6. CASE SendDm
  BY <1>6 DEF SendDm
<1>7. CASE DmPoll
  BY <1>7, AnswersEndExchanges DEF DmPoll
<1>8. CASE DmTimeout
  BY <1>8 DEF DmTimeout
<1> QED
  BY <1>1, <1>2, <1>3, <1>4, <1>5, <1>6, <1>7, <1>8 DEF Exchange

LEMMA NegotiationKeptProvider ==
  ASSUME NegotiationInv, Provider \/ \E q \in Quotes : Age(q)
  PROVE  NegotiationInv'
<1> USE DEF NegotiationInv, NegotiationShape, StartedFirst, RunIsInStep, OneOpen, Open,
            OnItsWay, InHand, Exchanging, Steps, IsJob, IsRecord, Goto, GiveUp, Idle, None,
            Stream, mailVars, providerVars, vars, clientVars
<1>1. CASE HandleDirect
  BY <1>1 DEF HandleDirect, Admit, Decision, Answer, Reply
<1>2. CASE StatusDirect
  BY <1>2 DEF StatusDirect, StatusAnswers, Answer, Reply
<1>3. CASE ProviderRestart
  BY <1>3 DEF ProviderRestart
<1>4. CASE \E a \in asked : StatusDm(a)
  BY <1>4 DEF StatusDm
<1>5. CASE \E q \in Quotes : HandleDm(q)
  BY <1>5 DEF HandleDm, Admit
<1>6. CASE \E q \in Quotes : HandleOrphan(q)
  BY <1>6 DEF HandleOrphan, Admit
<1>7. CASE \E q \in Quotes : PersistIntent(q)
  BY <1>7 DEF PersistIntent
<1>8. CASE \E q \in Quotes : CompleteAdmission(q)
  BY <1>8 DEF CompleteAdmission, Notify, Reply
<1>9. CASE \E q \in Quotes : AdmissionFails(q)
  BY <1>9 DEF AdmissionFails, Notify, Reply
<1>10. CASE \E q \in Quotes : Age(q)
  BY <1>10 DEF Age
<1> QED
  BY <1>1, <1>2, <1>3, <1>4, <1>5, <1>6, <1>7, <1>8, <1>9, <1>10 DEF Provider

LEMMA NegotiationHolds == Spec => []NegotiationInv
<1>1. NegotiationInv /\ [Next]_vars => NegotiationInv'
  <2> SUFFICES ASSUME NegotiationInv, [Next]_vars PROVE NegotiationInv'
    OBVIOUS
  <2>1. CASE UNCHANGED vars
    BY <2>1 DEF NegotiationInv, NegotiationShape, StartedFirst, RunIsInStep, OneOpen, Open,
                OnItsWay, vars, clientVars, mailVars, providerVars
  <2> QED
    BY <2>1, NegotiationKeptRun, NegotiationKeptCreation, NegotiationKeptExchange,
       NegotiationKeptProvider DEF Next
<1> QED
  BY NegotiationStarts, <1>1, PTL DEF Spec

\* Through crashes of the client and restarts of the provider, over both channels, no two swaps
\* are in the making for one client: a quote that may still become a swap is on its record, and
\* it begins no other before (negotiate, recover_pending, resume_unfinished).
THEOREM OneAtATime == Spec => []OneSwapAtATime
<1>1. ASSUME NegotiationInv PROVE OneSwapAtATime
  <2> DEFINE held_there == {q \in Quotes : /\ swap[q] # "none" \/ OnItsWay(q)
                                          /\ disk[q].state # "done"}
  <2>1. held_there \subseteq Open
    BY <1>1 DEF NegotiationInv, StartedFirst, Open
  <2>2. CASE held_there = {}
    <3>1. Cardinality(held_there) = 0
      BY <2>2, FS_EmptySet
    <3> QED
      BY <3>1 DEF OneSwapAtATime
  <2>3. CASE held_there # {}
    <3>1. PICK q : q \in held_there
      BY <2>3
    <3>2. held_there = {q}
      BY <1>1, <2>1, <3>1 DEF NegotiationInv, OneOpen
    <3>3. Cardinality(held_there) = 1
      BY <3>2, FS_Singleton
    <3> QED
      BY <3>3 DEF OneSwapAtATime
  <2> QED
    BY <2>2, <2>3
<1> QED
  BY <1>1, NegotiationHolds, PTL

\* Nothing of a quote has gone to its provider or come back.
Untouched(q) ==
  /\ swap[q] = "none" /\ q \notin orphans /\ posted[q] = "none"
  /\ \A r \in mailbox \cup held : r.quote # q
  /\ \A a \in asked : a.quote # q

\* The run's first attempt at a creation, one whose refusal it believes.
FirstAttempt == job.req = "create" /\ ~job.replay /\ ~job.uncertain

UnstartedIsUntouched == \A q \in Quotes : ~disk[q].started => Untouched(q)

\* A refusal that answers the first attempt leaves nothing behind it.
RefusalsAreTrue ==
  LET q == job.quote IN
  /\ pc = "exchange" /\ FirstAttempt => Untouched(q)
  /\ pc = "direct" /\ FirstAttempt =>
       /\ q \notin orphans /\ posted[q] = "none"
       /\ line.kind = "sent" \/ (line.kind = "reject" /\ line.value = "refused")
            => swap[q] = "none"
  /\ pc = "dm" /\ FirstAttempt =>
       /\ q \notin orphans
       /\ \A r \in mailbox \cup held :
            r.quote = q /\ r.value = "refused" => posted[q] = "handled" /\ swap[q] = "none"

MailShape ==
  /\ \A r \in mailbox \cup held : DOMAIN r = {"kind", "quote", "value", "fresh"}
  /\ \A a \in asked : DOMAIN a = {"quote", "fresh"}

DeclineInv == NegotiationInv /\ MailShape /\ UnstartedIsUntouched /\ RefusalsAreTrue

LEMMA DeclineStarts == Init => DeclineInv
  BY NegotiationStarts DEF Init, DeclineInv, MailShape, UnstartedIsUntouched, Untouched, NoRecord,
     RefusalsAreTrue, Replies, Stream

\* A pass over the inbox only takes from it, and ends the exchange or leaves it.
LEMMA PollTakes ==
  ASSUME NegotiationInv, DmPoll
  PROVE  /\ mailbox' \cup held' \subseteq mailbox \cup held
         /\ pc' \in {"save", "query", "off", "recover"} \/ (pc' = pc /\ job' = job)
         /\ UNCHANGED <<disk, line, posted, asked, providerVars>>
<1>1. mailbox' \cup held' \subseteq mailbox \cup held
  BY DEF DmPoll, Batch
<1>2. pc' \in {"save", "query", "off", "recover"} \/ (pc' = pc /\ job' = job)
  BY AnswersEndExchanges DEF DmPoll, Goto, NegotiationInv, NegotiationShape
<1> QED
  BY <1>1, <1>2 DEF DmPoll

\* Every action leaves a quote that was not started alone, and a refusal true.
LEMMA DeclineKeptRun ==
  ASSUME DeclineInv, Run
  PROVE  DeclineInv'
<1>1. NegotiationInv'
  BY NegotiationKeptRun DEF DeclineInv
<1> USE DEF NegotiationInv, NegotiationShape, StartedFirst, RunIsInStep, OneOpen, Open,
            OnItsWay, InHand, Exchanging, Steps, IsJob, IsRecord, Goto, GiveUp, Idle, None,
            Stream, mailVars, providerVars, vars, clientVars,
            DeclineInv, MailShape, UnstartedIsUntouched, Untouched, FirstAttempt, RefusalsAreTrue,
            Stale
<1>2. CASE StartRun
  BY <1>2, <1>1 DEF StartRun, Unready
<1>3. CASE ResumeUnfinished
  BY <1>3, <1>1 DEF ResumeUnfinished, Unready, Open
<1>4. CASE EndRun
  BY <1>4, <1>1 DEF EndRun
<1>5. CASE Crash
  BY <1>5, <1>1 DEF Crash, HangUp
<1>6. CASE \E q \in Quotes : RetireExpired(q)
  BY <1>6, <1>1 DEF RetireExpired, NeverSent
<1>7. CASE \E q \in Quotes : RecoverOne(q)
  BY <1>7, <1>1 DEF RecoverOne, NeverSent
<1>8. CASE \E q \in Quotes : Negotiate(q)
  BY <1>8, <1>1 DEF Negotiate
<1> QED
  BY <1>2, <1>3, <1>4, <1>5, <1>6, <1>7, <1>8 DEF Run

LEMMA DeclineKeptCreation ==
  ASSUME DeclineInv, Creation
  PROVE  DeclineInv'
<1>1. NegotiationInv'
  BY NegotiationKeptCreation DEF DeclineInv
<1> USE DEF NegotiationInv, NegotiationShape, StartedFirst, RunIsInStep, OneOpen, Open,
            OnItsWay, InHand, Exchanging, Steps, IsJob, IsRecord, Goto, GiveUp, Idle, None,
            Stream, mailVars, providerVars, vars, clientVars,
            DeclineInv, MailShape, UnstartedIsUntouched, Untouched, FirstAttempt, RefusalsAreTrue,
            Stale
<1>2. CASE record_creation_started
  BY <1>2, <1>1 DEF record_creation_started
<1>3. CASE QueryStatus
  BY <1>3, <1>1 DEF QueryStatus
<1>4. CASE WindowPasses
  BY <1>4, <1>1 DEF WindowPasses, HangUp
<1>5. CASE record_creation_reply
  BY <1>5, <1>1 DEF record_creation_reply
<1>6. CASE Acknowledge
  BY <1>6, <1>1 DEF Acknowledge
<1>7. CASE ValidateAndReady
  BY <1>7, <1>1 DEF ValidateAndReady
<1>8. CASE Execute
  BY <1>8, <1>1 DEF Execute
<1> QED
  BY <1>2, <1>3, <1>4, <1>5, <1>6, <1>7, <1>8 DEF Creation

LEMMA DeclineKeptExchange ==
  ASSUME DeclineInv, Exchange
  PROVE  DeclineInv'
<1>1. NegotiationInv'
  BY NegotiationKeptExchange DEF DeclineInv
<1> USE DEF NegotiationInv, NegotiationShape, StartedFirst, RunIsInStep, OneOpen, Open,
            OnItsWay, InHand, Exchanging, Steps, IsJob, IsRecord, Goto, GiveUp, Idle, None,
            Stream, mailVars, providerVars, vars, clientVars,
            DeclineInv, MailShape, UnstartedIsUntouched, Untouched, FirstAttempt, RefusalsAreTrue,
            Stale
<1>2. CASE SendDirect
  BY <1>2, <1>1 DEF SendDirect, UsesDirect
<1>3. CASE DirectNotSent
  BY <1>3, <1>1 DEF DirectNotSent
<1>4. CASE DirectAnswer
  BY <1>4, AnswersEndExchanges, <1>1 DEF DirectAnswer
<1>5. CASE DirectUncertain
  BY <1>5, <1>1 DEF DirectUncertain, HangUp
<1>6. CASE NoChannel
  BY <1>6, <1>1 DEF NoChannel, Unanswered
<1>7. CASE SendDm
  BY <1>7, <1>1 DEF SendDm
<1>8. CASE DmPoll
  BY <1>8, PollTakes, <1>1
<1>9. CASE DmTimeout
  BY <1>9, <1>1 DEF DmTimeout
<1> QED
  BY <1>2, <1>3, <1>4, <1>5, <1>6, <1>7, <1>8, <1>9 DEF Exchange

LEMMA DeclineKeptProvider ==
  ASSUME DeclineInv, Provider \/ \E q \in Quotes : Age(q)
  PROVE  DeclineInv'
<1>1. NegotiationInv'
  BY NegotiationKeptProvider DEF DeclineInv
<1> USE DEF NegotiationInv, NegotiationShape, StartedFirst, RunIsInStep, OneOpen, Open,
            OnItsWay, InHand, Exchanging, Steps, IsJob, IsRecord, Goto, GiveUp, Idle, None,
            Stream, mailVars, providerVars, vars, clientVars,
            DeclineInv, MailShape, UnstartedIsUntouched, Untouched, FirstAttempt, RefusalsAreTrue,
            Stale
<1>2. CASE HandleDirect
  BY <1>2, <1>1 DEF HandleDirect, Admit, Decision, Answer, Reply
<1>3. CASE StatusDirect
  BY <1>3, <1>1 DEF StatusDirect, StatusAnswers, Answer, Reply
<1>4. CASE ProviderRestart
  BY <1>4, <1>1 DEF ProviderRestart
<1>5. CASE \E a \in asked : StatusDm(a)
  BY <1>5, <1>1 DEF StatusDm, StatusAnswers, Answer, Reply
<1>6. CASE \E q \in Quotes : HandleDm(q)
  BY <1>6, <1>1 DEF HandleDm, Admit, Decision, Answer, Reply
<1>7. CASE \E q \in Quotes : HandleOrphan(q)
  BY <1>7, <1>1 DEF HandleOrphan, Admit
<1>8. CASE \E q \in Quotes : PersistIntent(q)
  BY <1>8, <1>1 DEF PersistIntent
<1>9. CASE \E q \in Quotes : CompleteAdmission(q)
  BY <1>9, <1>1 DEF CompleteAdmission, Notify, Reply
<1>10. CASE \E q \in Quotes : AdmissionFails(q)
  BY <1>10, <1>1 DEF AdmissionFails, Notify, Reply
<1>11. CASE \E q \in Quotes : Age(q)
  BY <1>11, <1>1 DEF Age
<1> QED
  BY <1>2, <1>3, <1>4, <1>5, <1>6, <1>7, <1>8, <1>9, <1>10, <1>11 DEF Provider

LEMMA DeclineHolds == Spec => []DeclineInv
<1>1. DeclineInv /\ [Next]_vars => DeclineInv'
  <2> SUFFICES ASSUME DeclineInv, [Next]_vars PROVE DeclineInv'
    OBVIOUS
  <2>1. CASE UNCHANGED vars
    BY <2>1 DEF DeclineInv, MailShape, UnstartedIsUntouched, Untouched, FirstAttempt,
                RefusalsAreTrue, NegotiationInv, NegotiationShape, StartedFirst, RunIsInStep,
                OneOpen, Open, OnItsWay, vars, clientVars, mailVars, providerVars
  <2> QED
    BY <2>1, DeclineKeptRun, DeclineKeptCreation, DeclineKeptExchange, DeclineKeptProvider DEF Next
<1> QED
  BY DeclineStarts, <1>1, PTL DEF Spec

LEMMA RefusalsAreRejections ==
  ASSUME NEW r \in Replies, r.value = "refused"
  PROVE  r.kind = "reject"
  BY DEF Replies, Terms, StatusRefusals

\* What tells the caller of a refusal is an answer to the first attempt.
LEMMA RefusedTellsTheFirst ==
  ASSUME NEW v, Refused(v), NEW q \in told' \ told
  PROVE  q = job.quote /\ v = "refused" /\ FirstAttempt
  BY DEF Refused, FirstAttempt, GiveUp, Goto

LEMMA ToldInTruth ==
  ASSUME DeclineInv, [Next]_vars, NEW q \in told' \ told
  PROVE  swap'[q] = "none" /\ ~OnItsWay(q)'
<1>1. CASE DirectAnswer
  <2>1. Refused(line.value) /\ line.kind \notin {"accept", "snapshot"} /\ line \in Replies
    BY <1>1 DEF DirectAnswer, Accepted
  <2>2. q = job.quote /\ line.value = "refused" /\ FirstAttempt
    BY <2>1, RefusedTellsTheFirst
  <2>3. line.kind = "reject"
    BY <2>1, <2>2, RefusalsAreRejections
  <2>4. swap[q] = "none" /\ q \notin orphans /\ posted[q] = "none"
    BY <1>1, <2>2, <2>3 DEF DirectAnswer, DeclineInv, RefusalsAreTrue
  <2> QED
    BY <1>1, <2>4 DEF DirectAnswer, OnItsWay, mailVars, providerVars, Stream
<1>2. CASE DmPoll
  <2>1. PICK r \in Matched : Refused(r.value)
    BY <1>2 DEF DmPoll, Accepted
  <2>2. q = job.quote /\ r.value = "refused" /\ FirstAttempt
    BY <2>1, RefusedTellsTheFirst
  <2>3. r \in mailbox \cup held /\ r.quote = q
    BY <2>2 DEF Matched, Batch, Matches
  <2>4. swap[q] = "none" /\ q \notin orphans /\ posted[q] = "handled"
    BY <1>2, <2>2, <2>3 DEF DmPoll, DeclineInv, RefusalsAreTrue
  <2>5. line.kind = "idle"
    BY <1>2 DEF DmPoll, DeclineInv, NegotiationInv, RunIsInStep
  <2> QED
    BY <1>2, <2>4, <2>5 DEF DmPoll, OnItsWay, providerVars
<1>3. CASE Run \/ Creation
  BY <1>3 DEF Run, Creation, StartRun, ResumeUnfinished, EndRun, Crash, RetireExpired, RecoverOne,
              Negotiate, record_creation_started, QueryStatus, WindowPasses, record_creation_reply,
              Acknowledge, ValidateAndReady, Execute
<1>4. CASE Exchange /\ ~DirectAnswer /\ ~DmPoll
  BY <1>4 DEF Exchange, SendDirect, DirectNotSent, DirectUncertain, NoChannel, Unanswered, SendDm,
              DmTimeout
<1>5. CASE Provider \/ (\E p \in Quotes : Age(p)) \/ UNCHANGED vars
  BY <1>5 DEF Provider, HandleDirect, StatusDirect, ProviderRestart, StatusDm, HandleDm,
              HandleOrphan, PersistIntent, CompleteAdmission, AdmissionFails, Age, vars, clientVars
<1> QED
  BY <1>1, <1>2, <1>3, <1>4, <1>5 DEF Next

\* A refusal that the caller is told of is final: the provider has made no swap of that quote
\* and nothing is on its way that could make one (negotiate.rs, the refusal of a creation that
\* was sent once and never replayed).
THEOREM DeclinesAreTrue == Spec => DeclineIsTrue
<1>1. DeclineInv /\ [Next]_vars
        => [\A q \in told' \ told : swap'[q] = "none" /\ ~OnItsWay(q)']_vars
  BY ToldInTruth
<1> QED
  BY <1>1, DeclineHolds, PTL DEF Spec, DeclineIsTrue

-----------------------------------------------------------------------------
(* 3. Contracts.                                                           *)

\* A contract that is on its way to the client, or that it has taken, is the one
\* that is stored; the stored one does not change.
CapInv ==
  /\ DOMAIN contract = CapQuotes /\ DOMAIN opened = CapQuotes
  /\ \A q \in CapQuotes :
       /\ reply.kind \in {"contract", "status"} /\ reply.quote = q /\ reply.by # Unsigned
            => contract[q] = reply.by
       /\ opened[q] \notin {Unsigned, Plain} => contract[q] = opened[q]

LEMMA CapStarts == CapInit => CapInv
  BY DEF CapInit, CapInv, NoReply

\* A step that answers with neither a contract nor a status.
LEMMA FewerRepliesKeep ==
  ASSUME CapInv, UNCHANGED <<contract, opened>>,
         reply' = reply \/ reply'.kind \notin {"contract", "status"}
  PROVE  CapInv'
  BY DEF CapInv

LEMMA CapClient ==
  ASSUME CapInv, CapClientStep
  PROVE  CapInv'
<1> USE DEF SendCap, Finish, NoReply, engine, client
<1>1. CASE AskQuote
  BY <1>1, FewerRepliesKeep DEF AskQuote
<1>2. CASE \E q \in CapQuotes : SendCommit(q) \/ AskStatus(q)
  BY <1>2, FewerRepliesKeep DEF SendCommit, AskStatus
<1>3. CASE ReceiveQuote
  BY <1>3, FewerRepliesKeep DEF ReceiveQuote
<1>4. CASE ReceiveContract
  BY <1>4 DEF ReceiveContract, CapInv
<1>5. CASE ReceivePlainStatus
  BY <1>5 DEF ReceivePlainStatus, CapInv
<1>6. CASE ReplayDone \/ ReceiveRefusal
  BY <1>6, FewerRepliesKeep DEF ReplayDone, ReceiveRefusal
<1>7. CASE AbandonAsk \/ ClientRestarts
  BY <1>7, FewerRepliesKeep DEF AbandonAsk, ClientRestarts
<1> QED
  BY <1>1, <1>2, <1>3, <1>4, <1>5, <1>6, <1>7 DEF CapClientStep, Receive

LEMMA CapWork ==
  ASSUME CapInv, Work
  PROVE  CapInv'
<1>1. PICK h \in handlers :
        \/ sign_quote(h) \/ NoQuote(h) \/ RefuseCommit(h) \/ ReplaySwap(h)
        \/ take_valid_quote(h) \/ PersistSwap(h) \/ stored_contract(h)
        \/ StoreContract(h) \/ AnswerStatus(h)
  BY DEF Work
<1>2. UNCHANGED opened
  BY DEF Work, client
<1> USE DEF Respond, MoveOn, engine
<1>3. CASE sign_quote(h) \/ NoQuote(h) \/ RefuseCommit(h)
  BY <1>2, <1>3, FewerRepliesKeep DEF sign_quote, NoQuote, RefuseCommit
<1>4. CASE ReplaySwap(h) \/ take_valid_quote(h) \/ PersistSwap(h)
  BY <1>2, <1>4, FewerRepliesKeep DEF ReplaySwap, take_valid_quote, PersistSwap
<1>5. CASE stored_contract(h)
  BY <1>2, <1>5 DEF stored_contract, CapInv
<1>6. CASE StoreContract(h)
  BY <1>2, <1>6 DEF StoreContract, CapInv
<1>7. CASE AnswerStatus(h)
  BY <1>2, <1>7 DEF AnswerStatus, CapInv
<1> QED
  BY <1>1, <1>3, <1>4, <1>5, <1>6, <1>7

LEMMA CapProvider ==
  ASSUME CapInv, CapProviderStep
  PROVE  CapInv'
<1>1. CASE CapAdmissionFails
  BY <1>1, FewerRepliesKeep DEF CapAdmissionFails, Respond, engine, client
<1>2. CASE \E q \in CapQuotes : Lapse(q) \/ EvictQuote(q)
  BY <1>2, FewerRepliesKeep DEF Lapse, EvictQuote, client
<1>3. CASE ProviderRestarts
  BY <1>3, FewerRepliesKeep DEF ProviderRestarts, client
<1> QED
  BY <1>1, <1>2, <1>3, CapWork DEF CapProviderStep

\* The contract a client goes by is the one the provider has stored, through rotations,
\* evictions, lost replies and restarts of either (cap_adapter.rs, stored_contract).
THEOREM ContractsStand == CapSpec => []ContractStands
<1>1. CapInv /\ [CapNext]_capVars => CapInv'
  <2> SUFFICES ASSUME CapInv, [CapNext]_capVars PROVE CapInv'
    OBVIOUS
  <2>1. CASE Keys \/ UNCHANGED capVars
    BY <2>1, FewerRepliesKeep DEF Keys, capVars, engine, client
  <2> QED
    BY <2>1, CapClient, CapProvider DEF CapNext
<1>2. CapInv => ContractStands
  BY DEF CapInv, ContractStands, Unsigned, Plain
<1> QED
  BY CapStarts, <1>1, <1>2, PTL DEF CapSpec

-----------------------------------------------------------------------------
(* 4. Messages at the homeserver.                                          *)

\* What the journal's operations do to the set of its entries.
LEMMA JournalDomains ==
  /\ \A j, r, now, b : DOMAIN MarkFailed(j, r, now, b) = DOMAIN j
  /\ \A j, r, now, b : DOMAIN MarkCleanupFailed(j, r, now, b) = DOMAIN j
  /\ \A j, scope, d : DOMAIN CompleteScope(j, scope, d) = DOMAIN j
  /\ \A j, scope : DOMAIN ReopenScope(j, scope) = DOMAIN j
  /\ \A j, r, now : DOMAIN RetryPublication(j, r, now) = DOMAIN j
  /\ \A j, r, now : DOMAIN RetryCleanup(j, r, now) = DOMAIN j
<1>1. \A j, r, now, b : DOMAIN MarkFailed(j, r, now, b) = DOMAIN j
  BY DEF MarkFailed
<1>2. \A j, r, now, b : DOMAIN MarkCleanupFailed(j, r, now, b) = DOMAIN j
  BY DEF MarkCleanupFailed
<1>3. \A j, scope, d : DOMAIN CompleteScope(j, scope, d) = DOMAIN j
  BY DEF CompleteScope
<1>4. \A j, scope : DOMAIN ReopenScope(j, scope) = DOMAIN j
  BY DEF ReopenScope
<1>5. \A j, r, now : DOMAIN RetryPublication(j, r, now) = DOMAIN j
  BY DEF RetryPublication
<1>6. \A j, r, now : DOMAIN RetryCleanup(j, r, now) = DOMAIN j
  BY DEF RetryCleanup
<1> QED
  BY <1>1, <1>2, <1>3, <1>4, <1>5, <1>6

LEMMA PreparedGrows ==
  ASSUME NEW j, NEW r
  PROVE  DOMAIN j \subseteq DOMAIN Prepared(j, r)
  BY DEF Prepared

\* What is stored, or may be any moment, is on file; one request per resource;
\* memory and file agree until a write fails.
DeliveryInv ==
  /\ task \in [Roles \X Resources -> {"none", "waiting", "sent"}]
  /\ stored \subseteq DOMAIN outboxFile
  /\ \A role \in Publishers, r \in Resources :
       task[<<role, r>>] = "sent" => r \in DOMAIN outboxFile
  /\ \A r \in Resources, a, b \in Roles :
       task[<<a, r>>] = "sent" /\ task[<<b, r>>] = "sent" => a = b
  /\ ~outbox_failed => DOMAIN outbox = DOMAIN outboxFile

LEMMA DeliveryStarts == DeliveryInit => DeliveryInv
  BY DEF DeliveryInit, NoTasks, DeliveryInv, Roles, Publishers

\* No new request, and a file that loses nothing.
LEMMA QuietSteps ==
  ASSUME DeliveryInv, stored' = stored,
         task' \in [Roles \X Resources -> {"none", "waiting", "sent"}],
         \A role \in Roles, r \in Resources :
            task'[<<role, r>>] = "sent" => task[<<role, r>>] = "sent",
         \/ UNCHANGED <<outbox, outboxFile, outbox_failed>>
         \/ \E new : /\ DOMAIN outbox \subseteq DOMAIN new
                     /\ Saved(new) \/ NotSaved(new) \/ NotAttempted
  PROVE  DeliveryInv'
<1>1. CASE UNCHANGED <<outbox, outboxFile, outbox_failed>>
  BY <1>1, Zenon DEF DeliveryInv, Publishers, Roles
<1>2. ASSUME NEW new, DOMAIN outbox \subseteq DOMAIN new,
             Saved(new) \/ NotSaved(new)
      PROVE  DeliveryInv'
  <2>1. DOMAIN outboxFile \subseteq DOMAIN outboxFile'
    BY <1>2 DEF Saved, NotSaved, DeliveryInv
  <2>2. ~outbox_failed' => DOMAIN outbox' = DOMAIN outboxFile'
    BY <1>2 DEF Saved, NotSaved
  <2> QED
    BY <2>1, <2>2 DEF DeliveryInv, Publishers, Roles
<1> QED
  BY <1>1, <1>2 DEF NotAttempted, outboxVars

\* Handlers, drivers and the operator, before and beside a request.
LEMMA SendKeeps ==
  ASSUME DeliveryInv, NEW r \in Resources, Send(r)
  PROVE  DeliveryInv'
<1>1. DOMAIN outbox \subseteq DOMAIN Prepared(outbox, r)
  BY PreparedGrows
<1>2. Saved(Prepared(outbox, r)) \/ NotSaved(Prepared(outbox, r))
  BY DEF Send
<1>3. /\ task' \in [Roles \X Resources -> {"none", "waiting", "sent"}]
      /\ \A role \in Roles, x \in Resources :
           task'[<<role, x>>] = "sent" => task[<<role, x>>] = "sent"
  BY DEF Send, DeliveryInv, Roles, Publishers
<1> QED
  BY <1>1, <1>2, <1>3, QuietSteps DEF Send

LEMMA ResumeKeeps ==
  ASSUME DeliveryInv, NEW r \in Resources, Resume(r)
  PROVE  DeliveryInv'
<1>1. \E new : DOMAIN outbox \subseteq DOMAIN new /\ Attempted(new)
  BY JournalDomains DEF Resume
<1> QED
  BY <1>1, QuietSteps DEF Resume, Attempted, DeliveryInv

\* The workers' passes.
LEMMA RefreshKeeps ==
  ASSUME DeliveryInv, NEW w, Refresh(w)
  PROVE  DeliveryInv'
<1>1. CASE Load(w) \/ Plan(w) \/ CheckReply(w)
  BY <1>1, QuietSteps DEF Load, Plan, CheckReply, outboxVars, DeliveryInv
<1>2. ASSUME NEW new, NEW then, DOMAIN outbox \subseteq DOMAIN new, Saves(w, new, then)
      PROVE  DeliveryInv'
  BY <1>2, QuietSteps DEF Saves, DeliveryInv
<1>3. CASE EnqueueReply(w)
  BY <1>2, <1>3, PreparedGrows, QuietSteps DEF EnqueueReply, outboxVars, DeliveryInv
<1>4. CASE Schedule(w)
  BY <1>2, <1>4, JournalDomains DEF Schedule
<1> QED
  BY <1>1, <1>3, <1>4 DEF Refresh

LEMMA BatchKeeps ==
  ASSUME DeliveryInv, SelectPending \/ SelectCleanup \/ Join
  PROVE  DeliveryInv'
<1>1. /\ task' \in [Roles \X Resources -> {"none", "waiting", "sent"}]
      /\ \A role \in Roles, x \in Resources :
           task'[<<role, x>>] = "sent" => task[<<role, x>>] = "sent"
  BY DEF SelectPending, SelectCleanup, Join, Waiting, DeliveryInv
<1> QED
  BY <1>1, QuietSteps DEF SelectPending, SelectCleanup, Join, outboxVars

\* One request.
LEMMA LockKeeps ==
  ASSUME DeliveryInv, NEW role \in Roles, NEW r \in Resources, Lock(role, r)
  PROVE  DeliveryInv'
<1> DEFINE found == IF StillWanted(role, r) THEN "sent" ELSE "none"
<1>1. /\ task' = [task EXCEPT ![<<role, r>>] = found]
      /\ UNCHANGED <<outbox, outboxFile, outbox_failed, stored>>
  BY DEF Lock, outboxVars
<1>2. found = "sent" => ~outbox_failed /\ r \in DOMAIN outbox
  BY DEF StillWanted, can_publish, can_cleanup
<1>3. \A a \in Roles : task[<<a, r>>] # "sent"
  BY DEF Lock, Unlocked, InFlight
<1>4. found \in {"none", "waiting", "sent"}
  OBVIOUS
<1> HIDE DEF found
<1>5. task \in [Roles \X Resources -> {"none", "waiting", "sent"}]
  BY DEF DeliveryInv
<1>6. task' \in [Roles \X Resources -> {"none", "waiting", "sent"}]
  BY <1>1, <1>4, <1>5
<1>7. \A a \in Roles, x \in Resources :
        task'[<<a, x>>] = IF a = role /\ x = r THEN found ELSE task[<<a, x>>]
  BY <1>1, <1>5
<1>8. \A a \in Publishers, x \in Resources : task'[<<a, x>>] = "sent" => x \in DOMAIN outboxFile'
  BY <1>1, <1>2, <1>7 DEF DeliveryInv, Publishers, Roles
<1>9. \A x \in Resources, a, b \in Roles :
        task'[<<a, x>>] = "sent" /\ task'[<<b, x>>] = "sent" => a = b
  BY <1>3, <1>7 DEF DeliveryInv
<1> QED
  BY <1>1, <1>6, <1>8, <1>9 DEF DeliveryInv

LEMMA AnsweredKeeps ==
  ASSUME DeliveryInv, NEW role \in Roles, NEW r \in Resources,
         task[<<role, r>>] = "sent", task' = [task EXCEPT ![<<role, r>>] = "none"],
         stored' \in {stored, Effect(role, r)},
         role \in Publishers => DOMAIN outboxFile' = DOMAIN outboxFile,
         role \notin Publishers =>
           \/ DOMAIN outboxFile' = DOMAIN outboxFile
           \/ DOMAIN outboxFile' = DOMAIN outboxFile \ {r} /\ stored' = Effect(role, r),
         ~outbox_failed' => DOMAIN outbox' = DOMAIN outboxFile'
  PROVE  DeliveryInv'
<1>1. /\ task' \in [Roles \X Resources -> {"none", "waiting", "sent"}]
      /\ \A a \in Roles, x \in Resources :
           task'[<<a, x>>] = "sent" => task[<<a, x>>] = "sent" /\ (x = r => a # role)
  BY DEF DeliveryInv
<1>2. CASE role \in Publishers
  BY <1>1, <1>2 DEF DeliveryInv, Effect, Roles
<1>3. CASE role \notin Publishers
  <2>1. \A a \in Roles : task'[<<a, r>>] # "sent"
    BY <1>1 DEF DeliveryInv
  <2> QED
    BY <1>1, <1>3, <2>1 DEF DeliveryInv, Effect, Roles
<1> QED
  BY <1>2, <1>3

LEMMA ConcludedDomains ==
  ASSUME NEW role, NEW r
  PROVE  LET new == Concluded(role, r)
         IN  /\ role \in Publishers => DOMAIN new = DOMAIN outbox
             /\ DOMAIN new = DOMAIN outbox \/ DOMAIN new = DOMAIN outbox \ {r}
<1>1. DOMAIN MarkPublished(outbox, r) = DOMAIN outbox
  BY DEF MarkPublished
<1>2. DOMAIN Forget(outbox, r) = DOMAIN outbox \ {r}
  BY DEF Forget, Restrict
<1> QED
  BY <1>1, <1>2 DEF Concluded

LEMMA SucceedKeeps ==
  ASSUME DeliveryInv, NEW role \in Roles, NEW r \in Resources, Succeed(role, r)
  PROVE  DeliveryInv'
<1> DEFINE new == Concluded(role, r)
<1>1. /\ role \in Publishers => DOMAIN new = DOMAIN outbox
      /\ DOMAIN new = DOMAIN outbox \/ DOMAIN new = DOMAIN outbox \ {r}
  BY ConcludedDomains
<1>2. Saved(new) \/ NotSaved(new) \/ NotAttempted
  BY DEF Succeed, Attempted
<1> HIDE DEF new
<1>3. /\ role \in Publishers => DOMAIN outboxFile' = DOMAIN outboxFile
      /\ DOMAIN outboxFile' = DOMAIN outboxFile \/ DOMAIN outboxFile' = DOMAIN outboxFile \ {r}
      /\ ~outbox_failed' => DOMAIN outbox' = DOMAIN outboxFile'
  BY <1>1, <1>2 DEF Saved, NotSaved, NotAttempted, outboxVars, DeliveryInv
<1> QED
  BY <1>3, AnsweredKeeps DEF Succeed

LEMMA FailKeeps ==
  ASSUME DeliveryInv, NEW role \in Roles, NEW r \in Resources, Fail(role, r)
  PROVE  DeliveryInv'
<1>1. \A retryable \in BOOLEAN :
        DOMAIN AfterFailure(role, r, retryable) = DOMAIN outbox
  BY JournalDomains DEF AfterFailure
<1>2. /\ DOMAIN outboxFile' = DOMAIN outboxFile
      /\ ~outbox_failed' => DOMAIN outbox' = DOMAIN outboxFile'
  BY <1>1 DEF Fail, outboxVars, DeliveryInv
<1> QED
  BY <1>2, AnsweredKeeps DEF Fail

LEMMA AbandonKeeps ==
  ASSUME DeliveryInv, NEW r \in Resources, Abandon(r)
  PROVE  DeliveryInv'
  BY DEF Abandon, InFlight, Effect, outboxVars, DeliveryInv, Publishers,
         Roles

LEMMA RestartKeeps ==
  ASSUME DeliveryInv, Restart
  PROVE  DeliveryInv'
<1>1. stored' \subseteq DOMAIN outboxFile
  BY DEF Restart, InFlight, DeliveryInv, Publishers
<1> QED
  BY <1>1 DEF Restart, NoTasks, DeliveryInv, Roles, Publishers

\* No order of sends, passes, failures, crashes and failed writes leaves anything at the
\* homeserver that the file does not own (outbox.rs, send_with_scope, process_outbox).
THEOREM NothingIsOrphaned == DeliverySpec => []NothingOrphaned
<1>1. DeliveryInv /\ [DeliveryNext]_deliveryVars => DeliveryInv'
  <2> SUFFICES ASSUME DeliveryInv, [DeliveryNext]_deliveryVars PROVE DeliveryInv'
    OBVIOUS
  <2>1. CASE Tick \/ Settle \/ Reopen \/ UNCHANGED deliveryVars
    BY <2>1, QuietSteps DEF Tick, Settle, Reopen, deliveryVars, outboxVars, DeliveryInv
  <2> QED
    BY <2>1, SendKeeps, ResumeKeeps, RefreshKeeps, BatchKeeps, LockKeeps, SucceedKeeps, FailKeeps,
       AbandonKeeps, RestartKeeps DEF DeliveryNext
<1>2. DeliveryInv => NothingOrphaned
  BY DEF DeliveryInv, NothingOrphaned
<1> QED
  BY DeliveryStarts, <1>1, <1>2, PTL DEF DeliverySpec

-----------------------------------------------------------------------------
(* 5. The final reply.                                                    *)

\* What FinalReplyKept needs of the entries, for as long as the swap is not reopened:
\* there is one deadline, and until it passes the final reply is on file.
EntryFields == {"published", "attempts", "next_retry_at", "publication_paused",
                "cleanup_after", "cleanup_attempts", "next_cleanup_at", "cleanup_paused"}
Shaped(j) == \A r \in DOMAIN j : DOMAIN j[r] = EntryFields

Kept(j) ==
  \A r \in DOMAIN j : \A d \in j[r].cleanup_after :
    /\ record.settled /\ d = record.since + RECOVERY_GRACE
    /\ clock < d => Final \in DOMAIN j

WorkerShape ==
  /\ DOMAIN worker = Refreshers
  /\ \A w \in Refreshers :
       /\ DOMAIN worker[w] = {"at", "now", "seen", "left"}
       /\ worker[w].now \in Nat /\ worker[w].now <= clock
       /\ worker[w].seen.since \in Nat

\* A pass that will set deadlines has read the settled record, and has seen to the
\* reply unless the deadlines are over.
PassInStep(w) ==
  /\ worker[w].at \in {"reply", "enqueue", "complete"} => worker[w].seen.settled
  /\ reopens = 0 /\ worker[w].seen.settled =>
       record.settled /\ worker[w].seen.since = record.since
  /\ reopens = 0 /\ worker[w].at = "complete" =>
       Final \in DOMAIN outbox \/ Eligible(w) <= clock

FileInv ==
  /\ clock \in Nat /\ reopens \in Nat /\ record.since \in Nat
  /\ Shaped(outbox) /\ Shaped(outboxFile)
  /\ reopens = 0 => Kept(outbox) /\ Kept(outboxFile)

FinalInv == FileInv /\ WorkerShape /\ \A w \in Refreshers : PassInStep(w)

LEMMA FinalStarts == DeliveryInit => FinalInv
  BY DEF DeliveryInit, Running, AllResting, Resting, FinalInv, FileInv, Shaped, Kept,
         WorkerShape, PassInStep

\* A journal that may take the present one's place.
Good(j) ==
  /\ Shaped(j)
  /\ reopens = 0 =>
       /\ Kept(j)
       /\ Final \in DOMAIN outbox => Final \in DOMAIN j \/ record.since + RECOVERY_GRACE <= clock

\* No new deadline and no entry gone.
LEMMA NoDeadlineIsGood ==
  ASSUME FinalInv, NEW j, Shaped(j), DOMAIN outbox \subseteq DOMAIN j,
         \A r \in DOMAIN j : \/ j[r].cleanup_after = {}
                             \/ r \in DOMAIN outbox /\ j[r].cleanup_after = outbox[r].cleanup_after
  PROVE  Good(j)
  BY DEF Good, FinalInv, FileInv, Kept

LEMMA PreparedIsGood ==
  ASSUME FinalInv, NEW r
  PROVE  Good(Prepared(outbox, r))
<1> DEFINE j == Prepared(outbox, r)
<1>1. Shaped(j)
  BY DEF Prepared, NewEntry, FinalInv, FileInv, Shaped, EntryFields
<1>2. DOMAIN outbox \subseteq DOMAIN j
  BY DEF Prepared
<1>3. \A x \in DOMAIN j : \/ j[x].cleanup_after = {}
                          \/ x \in DOMAIN outbox /\ j[x].cleanup_after = outbox[x].cleanup_after
  BY DEF Prepared, NewEntry
<1> HIDE DEF j
<1>4. Good(j)
  BY <1>1, <1>2, <1>3, NoDeadlineIsGood
<1> QED
  BY <1>4 DEF j

LEMMA FailedEntries ==
  ASSUME NEW e, DOMAIN e = EntryFields, NEW a, NEW b, NEW c
  PROVE  LET f == [e EXCEPT !.publication_paused = a]
             g == [e EXCEPT !.publication_paused = a, !.attempts = b, !.next_retry_at = c]
             h == [e EXCEPT !.cleanup_paused = a]
             i == [e EXCEPT !.cleanup_paused = a, !.cleanup_attempts = b, !.next_cleanup_at = c]
         IN  \A k \in {f, g, h, i} : DOMAIN k = EntryFields /\ k.cleanup_after = e.cleanup_after
  BY DEF EntryFields

LEMMA MarksAreGood ==
  ASSUME FinalInv, NEW r, NEW now, NEW b, NEW j,
         \/ j = MarkPublished(outbox, r)
         \/ j = MarkFailed(outbox, r, now, b) \/ j = MarkCleanupFailed(outbox, r, now, b)
         \/ j = RetryPublication(outbox, r, now) \/ j = RetryCleanup(outbox, r, now)
         \/ j = ReopenScope(outbox, r)
  PROVE  Good(j)
<1> SUFFICES /\ DOMAIN j = DOMAIN outbox
             /\ \A x \in DOMAIN j :
                  /\ DOMAIN j[x] = EntryFields
                  /\ j[x].cleanup_after = {} \/ j[x].cleanup_after = outbox[x].cleanup_after
  BY NoDeadlineIsGood DEF Shaped
<1>1. \A x \in DOMAIN outbox : DOMAIN outbox[x] = EntryFields
  BY DEF FinalInv, FileInv, Shaped
<1> USE <1>1 DEF EntryFields
<1>2. CASE j = MarkPublished(outbox, r)
  BY <1>2 DEF MarkPublished
<1>3. CASE j = MarkFailed(outbox, r, now, b)
  BY <1>3, FailedEntries DEF MarkFailed
<1>4. CASE j = MarkCleanupFailed(outbox, r, now, b)
  BY <1>4, FailedEntries DEF MarkCleanupFailed
<1>5. CASE j = RetryPublication(outbox, r, now)
  BY <1>5 DEF RetryPublication
<1>6. CASE j = RetryCleanup(outbox, r, now)
  BY <1>6 DEF RetryCleanup
<1>7. CASE j = ReopenScope(outbox, r)
  BY <1>7 DEF ReopenScope
<1> QED
  BY <1>2, <1>3, <1>4, <1>5, <1>6, <1>7

\* A deletion comes after the one deadline.
LEMMA ForgottenIsGood ==
  ASSUME FinalInv, NEW r, NEW now \in Nat, now <= clock,
         MayForget(outbox, r, now)
  PROVE  Good(Forget(outbox, r))
<1> DEFINE j == Forget(outbox, r)
<1>1. DOMAIN j = DOMAIN outbox \ {r} /\ \A x \in DOMAIN j : j[x] = outbox[x]
  BY DEF Forget, Restrict
<1> HIDE DEF j
<1>2. Shaped(j)
  BY <1>1 DEF FinalInv, FileInv, Shaped
<1>3. ASSUME r \in DOMAIN outbox PROVE Good(j)
  <2>1. PICK d \in outbox[r].cleanup_after : d <= now
    BY <1>3 DEF MayForget, cleanup_due
  <2>2. reopens = 0 => record.since + RECOVERY_GRACE <= clock
    <3>1. reopens = 0 => d = record.since + RECOVERY_GRACE
      BY <1>3, <2>1 DEF FinalInv, FileInv, Kept
    <3> QED
      BY <2>1, <3>1, DeliveryAssumption DEF FinalInv, FileInv
  <2>3. reopens = 0 => Kept(j)
    BY <1>1, <2>2, DeliveryAssumption DEF FinalInv, FileInv, Kept
  <2> QED
    BY <1>2, <2>2, <2>3 DEF Good
<1>4. ASSUME r \notin DOMAIN outbox PROVE Good(j)
  BY <1>1, <1>2, <1>4 DEF Good, FinalInv, FileInv, Kept
<1> QED
  BY <1>3, <1>4 DEF j

\* A pass sets the one deadline, with the reply on file until then.
LEMMA CompletedIsGood ==
  ASSUME FinalInv, NEW w \in Refreshers, worker[w].at = "complete", NEW scope
  PROVE  Good(CompleteScope(outbox, scope, Eligible(w)))
<1> DEFINE D == Eligible(w)
           j == CompleteScope(outbox, scope, D)
<1>1. /\ DOMAIN j = DOMAIN outbox
      /\ \A x \in DOMAIN j :
           /\ DOMAIN j[x] = EntryFields
           /\ j[x].cleanup_after = {D} \/ j[x].cleanup_after = outbox[x].cleanup_after
  BY DEF CompleteScope, FinalInv, FileInv, Shaped, EntryFields
<1>2. reopens = 0 => /\ record.settled /\ D = record.since + RECOVERY_GRACE
                     /\ Final \in DOMAIN outbox \/ D <= clock
  BY DEF FinalInv, PassInStep, Eligible
<1> HIDE DEF j, D
<1>3. reopens = 0 => Kept(j)
  BY <1>1, <1>2, DeliveryAssumption DEF FinalInv, FileInv, Kept
<1> QED
  BY <1>1, <1>3 DEF Good, Shaped, j, D

\* Such a journal is saved, or not.
Written(new) ==
  \/ outbox' = new /\ outboxFile' = new
  \/ UNCHANGED outbox /\ outboxFile' \in {outboxFile, new}

ReplyStays ==
  reopens = 0 /\ Final \in DOMAIN outbox =>
    Final \in DOMAIN outbox' \/ record.since + RECOVERY_GRACE <= clock

LEMMA GoodIsWritten ==
  ASSUME FinalInv, NEW new, Good(new), UNCHANGED swapVars, Written(new)
  PROVE  FileInv' /\ ReplyStays
  BY DEF Written, ReplyStays, swapVars, Good, FinalInv, FileInv, Shaped, Kept

LEMMA NothingIsWritten ==
  ASSUME FinalInv, UNCHANGED swapVars, UNCHANGED outboxVars
  PROVE  FileInv' /\ ReplyStays
  BY DEF ReplyStays, swapVars, outboxVars, FinalInv, FileInv, Shaped, Kept

LEMMA Attempts ==
  ASSUME NEW new, Saved(new) \/ NotSaved(new)
  PROVE  Written(new)
  BY DEF Saved, NotSaved, Written

\* What was seen to stays seen to.
LEMMA PassesStayInStep ==
  ASSUME FinalInv, UNCHANGED swapVars, FileInv', ReplyStays,
         DOMAIN worker' = Refreshers,
         \A w \in Refreshers :
           \/ worker'[w] = worker[w]
           \/ /\ DOMAIN worker'[w] = {"at", "now", "seen", "left"}
              /\ worker'[w].now \in Nat /\ worker'[w].now <= clock
              /\ worker'[w].seen.since \in Nat
              /\ worker'[w].at \in {"reply", "enqueue", "complete"} => worker'[w].seen.settled
              /\ reopens = 0 /\ worker'[w].seen.settled =>
                   record.settled /\ worker'[w].seen.since = record.since
              /\ reopens = 0 /\ worker'[w].at = "complete" =>
                   \/ Final \in DOMAIN outbox'
                   \/ worker'[w].seen.since + RECOVERY_GRACE <= clock
  PROVE  FinalInv'
<1>1. WorkerShape'
  BY DEF FinalInv, WorkerShape, swapVars
<1>2. ASSUME NEW w \in Refreshers PROVE PassInStep(w)'
  BY <1>2 DEF FinalInv, PassInStep, ReplyStays, swapVars, Eligible
<1> QED
  BY <1>1, <1>2 DEF FinalInv

LEMMA WritesKeepFinal ==
  ASSUME FinalInv, UNCHANGED swapVars, UNCHANGED worker,
         UNCHANGED outboxVars \/ \E new : Good(new) /\ Written(new)
  PROVE  FinalInv'
<1>1. FileInv' /\ ReplyStays
  BY GoodIsWritten, NothingIsWritten
<1> QED
  BY <1>1, PassesStayInStep DEF FinalInv, WorkerShape

LEMMA SwapKeepsFinal ==
  ASSUME FinalInv, Tick \/ Settle \/ Reopen
  PROVE  FinalInv'
<1> USE DeliveryAssumption DEF FinalInv, FileInv, Shaped, Kept, WorkerShape, PassInStep,
                               Eligible, outboxVars
<1>1. CASE Tick
  BY <1>1 DEF Tick
<1>2. CASE Settle
  BY <1>2 DEF Settle
<1>3. CASE Reopen
  BY <1>3 DEF Reopen, Running
<1> QED
  BY <1>1, <1>2, <1>3

LEMMA RequestsKeepFinal ==
  ASSUME FinalInv, NEW role \in Roles, NEW r \in Resources,
         \/ Send(r) \/ Abandon(r) \/ Resume(r)
         \/ Lock(role, r) \/ Succeed(role, r) \/ Fail(role, r)
  PROVE  FinalInv'
<1>1. CASE Send(r)
  BY <1>1, PreparedIsGood, Attempts, WritesKeepFinal DEF Send
<1>2. CASE Abandon(r) \/ Lock(role, r)
  BY <1>2, WritesKeepFinal DEF Abandon, Lock
<1>3. CASE Resume(r)
  <2>1. PICK new : Good(new) /\ Attempted(new)
    BY <1>3, MarksAreGood DEF Resume
  <2> QED
    BY <1>3, <2>1, Attempts, WritesKeepFinal DEF Resume, Attempted, NotAttempted
<1>4. CASE Succeed(role, r)
  <2>1. Good(Concluded(role, r))
    <3>1. Good(outbox)
      BY DEF FinalInv, FileInv, Good
    <3>2. Good(MarkPublished(outbox, r))
      BY MarksAreGood
    <3>3. BatchTime \in Nat /\ BatchTime <= clock
      BY DeliveryAssumption DEF BatchTime, FinalInv, WorkerShape
    <3>4. MayForget(outbox, r, BatchTime) => Good(Forget(outbox, r))
      BY <3>3, ForgottenIsGood
    <3> QED
      BY <3>1, <3>2, <3>4 DEF Concluded
  <2> QED
    BY <1>4, <2>1, Attempts, WritesKeepFinal DEF Succeed, Attempted, NotAttempted
<1>5. CASE Fail(role, r)
  <2>1. \A b \in BOOLEAN : Good(AfterFailure(role, r, b))
    BY MarksAreGood DEF AfterFailure
  <2>2. UNCHANGED outboxVars \/ \E new : Good(new) /\ Written(new)
    BY <1>5, <2>1 DEF Fail, Written
  <2> QED
    BY <1>5, <2>2, WritesKeepFinal DEF Fail
<1> QED
  BY <1>1, <1>2, <1>3, <1>4, <1>5

LEMMA RestartKeepsFinal ==
  ASSUME FinalInv, Restart
  PROVE  FinalInv'
<1>1. FileInv'
  BY DEF FinalInv, FileInv, Shaped, Kept, Restart, swapVars
<1>2. WorkerShape' /\ \A w \in Refreshers : PassInStep(w)'
  BY DEF FinalInv, FileInv, WorkerShape, PassInStep, Restart, swapVars, AllResting,
         Resting, Running
<1> QED
  BY <1>1, <1>2 DEF FinalInv

\* A pass goes to a step at which it owes nothing.
FreeToGo(w, s) ==
  /\ DOMAIN s = {"at", "now", "seen", "left"}
  /\ s.now \in Nat /\ s.now <= clock
  /\ s.seen = Running /\ s.at \notin {"reply", "enqueue", "complete"}

LEMMA FreeSteps ==
  ASSUME FinalInv, NEW w \in Refreshers
  PROVE  FreeToGo(w, Resting) /\ FreeToGo(w, Refreshed(w))
  BY DEF FinalInv, FileInv, WorkerShape, FreeToGo, Resting, Refreshed, Running

LEMMA FreeKeepsFinal ==
  ASSUME FinalInv, UNCHANGED swapVars, FileInv', ReplyStays, NEW w \in Refreshers, NEW s,
         FreeToGo(w, s), Proceed(w, s)
  PROVE  FinalInv'
<1>1. DOMAIN worker' = Refreshers /\ worker'[w] = s
      /\ \A v \in Refreshers \ {w} : worker'[v] = worker[v]
  BY DEF Proceed, FinalInv, WorkerShape
<1> QED
  BY <1>1, PassesStayInStep DEF FreeToGo, Running
\* A pass goes on to a step at which what it owes has been seen to.
LEMMA PassMovesOn ==
  ASSUME FinalInv, UNCHANGED swapVars, FileInv', ReplyStays, NEW w \in Refreshers, NEW a, NEW l,
         Proceed(w, [worker[w] EXCEPT !.at = a, !.left = l]),
         a \in {"reply", "enqueue", "complete"} => worker[w].seen.settled,
         reopens = 0 /\ a = "complete" => Final \in DOMAIN outbox' \/ Eligible(w) <= clock
  PROVE  FinalInv'
<1> DEFINE s == [worker[w] EXCEPT !.at = a, !.left = l]
<1>1. DOMAIN worker' = Refreshers /\ worker'[w] = s
      /\ \A v \in Refreshers \ {w} : worker'[v] = worker[v]
  BY DEF Proceed, FinalInv, WorkerShape
<1>2. /\ DOMAIN s = {"at", "now", "seen", "left"} /\ s.at = a
      /\ s.now = worker[w].now /\ s.seen = worker[w].seen
  BY DEF FinalInv, WorkerShape
<1> HIDE DEF s
<1>3. /\ worker[w].now \in Nat /\ worker[w].now <= clock /\ worker[w].seen.since \in Nat
      /\ reopens = 0 /\ worker[w].seen.settled =>
           record.settled /\ worker[w].seen.since = record.since
  BY DEF FinalInv, WorkerShape, PassInStep
<1> QED
  BY <1>1, <1>2, <1>3, PassesStayInStep DEF Eligible

LEMMA PassMovesAt ==
  ASSUME FinalInv, UNCHANGED swapVars, FileInv', ReplyStays, NEW w \in Refreshers, NEW a,
         Proceed(w, [worker[w] EXCEPT !.at = a]),
         a \in {"reply", "enqueue", "complete"} => worker[w].seen.settled,
         reopens = 0 /\ a = "complete" => Final \in DOMAIN outbox' \/ Eligible(w) <= clock
  PROVE  FinalInv'
<1>1. [worker[w] EXCEPT !.at = a] = [worker[w] EXCEPT !.at = a, !.left = worker[w].left]
  BY DEF FinalInv, WorkerShape
<1>2. Proceed(w, [worker[w] EXCEPT !.at = a, !.left = worker[w].left])
  BY <1>1
<1> QED
  BY <1>2, PassMovesOn

LEMMA LoadKeepsFinal ==
  ASSUME FinalInv, NEW w \in Refreshers, Load(w)
  PROVE  FinalInv'
<1>1. FileInv' /\ ReplyStays /\ UNCHANGED swapVars
  BY NothingIsWritten DEF Load
<1>2. DOMAIN worker' = Refreshers
      /\ worker'[w] = [at |-> "loaded", now |-> clock, seen |-> record, left |-> <<>>]
      /\ \A v \in Refreshers \ {w} : worker'[v] = worker[v]
  BY DEF Load, Proceed, Resting, FinalInv, WorkerShape
<1> QED
  BY <1>1, <1>2, PassesStayInStep DEF FinalInv, FileInv

LEMMA PlanKeepsFinal ==
  ASSUME FinalInv, NEW w \in Refreshers, Plan(w)
  PROVE  FinalInv'
<1>1. FileInv' /\ ReplyStays /\ UNCHANGED swapVars
  BY NothingIsWritten DEF Plan
<1>2. CASE \E s \in {Resting, Refreshed(w)} : Proceed(w, s)
  BY <1>1, <1>2, FreeSteps, FreeKeepsFinal
<1>3. CASE Proceed(w, [worker[w] EXCEPT !.at = Course(w), !.left = DeliveryScopes])
  <2>1. /\ Course(w) \in {"reply", "enqueue", "complete"} => worker[w].seen.settled
        /\ Course(w) = "complete" => Eligible(w) <= clock
    BY DeliveryAssumption DEF Course, Eligible, FinalInv, FileInv, WorkerShape
  <2> QED
    BY <1>1, <1>3, <2>1, PassMovesOn
<1> QED
  BY <1>2, <1>3 DEF Plan

LEMMA CheckKeepsFinal ==
  ASSUME FinalInv, NEW w \in Refreshers, CheckReply(w)
  PROVE  FinalInv'
<1>1. FileInv' /\ ReplyStays /\ UNCHANGED swapVars /\ UNCHANGED outbox
  BY NothingIsWritten DEF CheckReply, outboxVars
<1>2. worker[w].seen.settled
  BY DEF CheckReply, FinalInv, PassInStep
<1>3. CASE Proceed(w, Resting)
  BY <1>1, <1>3, FreeSteps, FreeKeepsFinal
<1>4. CASE Proceed(w, [worker[w] EXCEPT !.at = "enqueue"])
  BY <1>1, <1>2, <1>4, PassMovesAt
<1>5. ASSUME has_completed_scope(outbox, ScopeOf[Final]), reopens = 0
      PROVE  Final \in DOMAIN outbox \/ Eligible(w) <= clock
  <2>1. PICK r \in DOMAIN outbox : outbox[r].cleanup_after # {}
    BY <1>5 DEF has_completed_scope, InScope
  <2>2. PICK d \in outbox[r].cleanup_after : TRUE
    BY <2>1
  <2>3. d = record.since + RECOVERY_GRACE /\ (clock < d => Final \in DOMAIN outbox)
    BY <1>5, <2>2 DEF FinalInv, FileInv, Kept
  <2>4. d = Eligible(w)
    BY <1>2, <1>5, <2>3 DEF FinalInv, PassInStep, Eligible
  <2>5. CASE clock < d
    BY <2>3, <2>5
  <2>6. CASE ~(clock < d)
    BY <2>3, <2>4, <2>6, DeliveryAssumption DEF FinalInv, FileInv
  <2> QED
    BY <2>5, <2>6
<1>6. CASE has_completed_scope(outbox, ScopeOf[Final])
           /\ Proceed(w, [worker[w] EXCEPT !.at = "complete"])
  BY <1>1, <1>2, <1>5, <1>6, PassMovesAt
<1> QED
  BY <1>3, <1>4, <1>6 DEF CheckReply

\* What a pass saves.
LEMMA SavesKeepFinal ==
  ASSUME FinalInv, NEW w \in Refreshers, NEW new, Good(new), NEW then, Saves(w, new, then),
         Proceed(w, then) /\ outbox' = new /\ FileInv' /\ ReplyStays /\ UNCHANGED swapVars
           => FinalInv'
  PROVE  FinalInv'
<1>1. FileInv' /\ ReplyStays /\ UNCHANGED swapVars
  BY Attempts, GoodIsWritten, NothingIsWritten DEF Saves, NotAttempted
<1>2. CASE Proceed(w, Resting)
  BY <1>1, <1>2, FreeSteps, FreeKeepsFinal
<1>3. CASE Proceed(w, then) /\ outbox' = new
  BY <1>1, <1>3
<1> QED
  BY <1>2, <1>3 DEF Saves, Saved

LEMMA EnqueueKeepsFinal ==
  ASSUME FinalInv, NEW w \in Refreshers, EnqueueReply(w)
  PROVE  FinalInv'
<1>1. CASE Proceed(w, Resting) /\ UNCHANGED <<swapVars, outboxVars>>
  BY <1>1, NothingIsWritten, FreeSteps, FreeKeepsFinal
<1> DEFINE new == Prepared(outbox, Final)
           then == [worker[w] EXCEPT !.at = "complete"]
<1>2. Good(new) /\ Final \in DOMAIN new
  BY PreparedIsGood DEF Prepared
<1>3. worker[w].seen.settled
  BY DEF FinalInv, EnqueueReply, PassInStep
<1> HIDE DEF new, then
<1>4. CASE Saves(w, new, then)
  <2>1. Proceed(w, then) /\ outbox' = new /\ FileInv' /\ ReplyStays /\ UNCHANGED swapVars
          => FinalInv'
    BY <1>2, <1>3, PassMovesAt DEF then
  <2> QED
    BY <1>2, <1>4, <2>1, SavesKeepFinal
<1> QED
  BY <1>1, <1>4 DEF EnqueueReply, new, then

LEMMA ScheduleKeepsFinal ==
  ASSUME FinalInv, NEW w \in Refreshers, Schedule(w)
  PROVE  FinalInv'
<1> DEFINE scope == Head(worker[w].left)
           new == IF worker[w].at = "reopen" THEN ReopenScope(outbox, scope)
                  ELSE CompleteScope(outbox, scope, Eligible(w))
           then == IF Len(worker[w].left) = 1 THEN Refreshed(w)
                   ELSE [worker[w] EXCEPT !.left = Tail(@)]
<1>1. Good(new)
  BY MarksAreGood, CompletedIsGood DEF Schedule
<1>2. \/ then = Refreshed(w)
      \/ then = [worker[w] EXCEPT !.at = worker[w].at, !.left = Tail(worker[w].left)]
  BY DEF FinalInv, WorkerShape
<1>3. Saves(w, new, then)
  BY DEF Schedule
<1> HIDE DEF new, then
<1>4. ASSUME Proceed(w, then), outbox' = new, FileInv', ReplyStays, UNCHANGED swapVars
      PROVE  FinalInv'
  <2>1. CASE then = Refreshed(w)
    BY <1>4, <2>1, FreeSteps, FreeKeepsFinal
  <2>2. CASE then = [worker[w] EXCEPT !.at = worker[w].at, !.left = Tail(worker[w].left)]
    <3>1. worker[w].at \in {"reply", "enqueue", "complete"} => worker[w].seen.settled
      BY DEF FinalInv, PassInStep
    <3>2. reopens = 0 /\ worker[w].at = "complete" =>
            Final \in DOMAIN outbox' \/ Eligible(w) <= clock
      BY <1>4 DEF ReplyStays, FinalInv, PassInStep, Eligible
    <3> QED
      BY <1>4, <2>2, <3>1, <3>2, PassMovesOn
  <2> QED
    BY <1>2, <2>1, <2>2
<1> QED
  BY <1>1, <1>3, <1>4, SavesKeepFinal

LEMMA BatchKeepsFinal ==
  ASSUME FinalInv, SelectPending \/ SelectCleanup \/ Join
  PROVE  FinalInv'
<1>1. FileInv' /\ ReplyStays /\ UNCHANGED swapVars
  BY NothingIsWritten DEF SelectPending, SelectCleanup, Join
<1> DEFINE w == "delivery"
<1>2. w \in Refreshers
  BY DeliveryAssumption
<1>3. CASE Proceed(w, Resting)
  BY <1>1, <1>2, <1>3, FreeSteps, FreeKeepsFinal
<1>4. ASSUME NEW a \in {"select", "join"}, Proceed(w, [worker[w] EXCEPT !.at = a])
      PROVE  FinalInv'
  BY <1>1, <1>2, <1>4, PassMovesAt
<1> QED
  BY <1>3, <1>4 DEF SelectPending, SelectCleanup, Join

\* As long as the swap does not reopen, an acceptance that is to be deleted later has the final
\* reply beside it, whoever refreshes the retention and wherever a crash falls
\* (schedule_retention).
THEOREM FinalRepliesAreKept == DeliverySpec => []FinalReplyKept
<1>1. FinalInv /\ [DeliveryNext]_deliveryVars => FinalInv'
  <2> SUFFICES ASSUME FinalInv, [DeliveryNext]_deliveryVars PROVE FinalInv'
    OBVIOUS
  <2>1. CASE UNCHANGED deliveryVars
    BY <2>1, WritesKeepFinal DEF deliveryVars
  <2>2. ASSUME NEW w \in Refreshers, Refresh(w) PROVE FinalInv'
    BY <2>2, LoadKeepsFinal, PlanKeepsFinal, CheckKeepsFinal, EnqueueKeepsFinal, ScheduleKeepsFinal
       DEF Refresh
  <2>3. CASE \E r \in Resources : Send(r) \/ Abandon(r) \/ Resume(r)
    BY <2>3, RequestsKeepFinal DEF Roles
  <2> QED
    BY <2>1, <2>2, <2>3, SwapKeepsFinal, RestartKeepsFinal, BatchKeepsFinal, RequestsKeepFinal
       DEF DeliveryNext
<1>2. FinalInv => FinalReplyKept
  BY DEF FinalInv, FileInv, Kept, FinalReplyKept
<1> QED
  BY FinalStarts, <1>1, <1>2, PTL DEF DeliverySpec

-----------------------------------------------------------------------------
(* 6. Messages received.                                                   *)

JournalParts == {"registered", "acknowledged", "pending"}

\* Nothing leaves for good that was not carried out; a receipt that awaits its
\* acknowledgement has been.
InboxInv ==
  /\ DOMAIN journal = JournalParts /\ DOMAIN journalFile = JournalParts
  /\ journal.acknowledged \subseteq handled \cup Unhandleable
  /\ journalFile.acknowledged \subseteq handled \cup Unhandleable
  /\ done \subseteq handled

LEMMA InboxStarts == InboxInit => InboxInv
  BY DEF InboxInit, InboxInv, JournalParts

\* A journal that loses nothing is written, or is not.
LEMMA JournalWritten ==
  ASSUME InboxInv, NEW next, DOMAIN next = JournalParts,
         next.acknowledged \subseteq handled \cup Unhandleable,
         JournalSaved(next) \/ JournalNotSaved(next), UNCHANGED handled, done' \subseteq done
  PROVE  InboxInv'
  BY DEF InboxInv, JournalSaved, JournalNotSaved

LEMMA JournalKept ==
  ASSUME InboxInv, KeepJournal, UNCHANGED handled, done' \subseteq done
  PROVE  InboxInv'
  BY DEF InboxInv, KeepJournal

LEMMA DeliveryKeepsInbox ==
  ASSUME InboxInv, NEW p, Deliver(p), UNCHANGED <<handled, done>>
  PROVE  InboxInv'
<1> DEFINE bad == Free(p) \cap Invalid
           next == Acknowledged(bad)
<1>1. DOMAIN next = JournalParts /\ next.acknowledged = journal.acknowledged \cup bad
  BY DEF Acknowledged, JournalParts, InboxInv
<1>2. JournalSaved(next) \/ JournalNotSaved(next) \/ KeepJournal
  BY DEF Deliver
<1>3. bad \subseteq Unhandleable
  BY DEF Unhandleable
<1> HIDE DEF next, bad
<1>4. next.acknowledged \subseteq handled \cup Unhandleable
  BY <1>1, <1>3 DEF InboxInv
<1> QED
  BY <1>1, <1>2, <1>4, JournalWritten, JournalKept

\* The client, the doorbell and evictions.
LEMMA PeersKeepInbox ==
  ASSUME InboxInv, NEW p,
         \/ Publish(p) \/ Ring(p) \/ TrackPeer(p) \/ EvictPeer(p) \/ ForgetPeer(p)
         \/ OthersRing \/ OthersAreEvicted
  PROVE  InboxInv'
<1>1. CASE Publish(p) \/ OthersRing \/ OthersAreEvicted
  BY <1>1 DEF Publish, OthersRing, OthersAreEvicted, processVars, InboxInv
<1>2. CASE TrackPeer(p) \/ ForgetPeer(p)
  BY <1>2, JournalKept DEF TrackPeer, ForgetPeer, worldVars
<1>3. \A s : DOMAIN [journal EXCEPT !.registered = s] = JournalParts
             /\ [journal EXCEPT !.registered = s].acknowledged \subseteq handled \cup Unhandleable
  BY DEF InboxInv, JournalParts
<1>4. CASE Ring(p) \/ EvictPeer(p)
  <2>1. UNCHANGED <<handled, done>>
        /\ \E s : \/ JournalSaved([journal EXCEPT !.registered = s])
                  \/ JournalNotSaved([journal EXCEPT !.registered = s])
    BY <1>4 DEF Ring, EvictPeer, worldVars
  <2> QED
    BY <1>3, <2>1, JournalWritten
<1> QED
  BY <1>1, <1>2, <1>4

\* A read.
LEMMA ReadsKeepInbox ==
  ASSUME InboxInv, NEW p,
         \/ StartRead(p) \/ Discover(p) \/ Retrieve(p) \/ DeliverRead(p) \/ ReadFails(p)
  PROVE  InboxInv'
<1>1. CASE StartRead(p) \/ DeliverRead(p)
  BY <1>1, DeliveryKeepsInbox DEF StartRead, DeliverRead, worldVars
<1>2. CASE Discover(p) \/ ReadFails(p)
  BY <1>2, JournalKept DEF Discover, ReadFails, worldVars
<1>3. CASE Retrieve(p)
  <2> DEFINE next == Remembered(p, reads[p].selected)
  <2>1. /\ DOMAIN next = JournalParts
        /\ next.acknowledged \subseteq journal.acknowledged \cup Bodyless
    BY DEF Remembered, InboxInv, JournalParts
  <2>2. JournalSaved(next) \/ JournalNotSaved(next) \/ KeepJournal
    BY <1>3 DEF Retrieve
  <2> HIDE DEF next
  <2>3. next.acknowledged \subseteq handled \cup Unhandleable
    BY <2>1 DEF InboxInv, Unhandleable
  <2>4. UNCHANGED <<handled, done>>
    BY <1>3 DEF Retrieve, worldVars
  <2> QED
    BY <2>1, <2>2, <2>3, <2>4, JournalWritten, JournalKept
<1> QED
  BY <1>1, <1>2, <1>3

\* A worker, and a restart.
LEMMA WorkersKeepInbox ==
  ASSUME InboxInv, NEW p,
         \/ StartHandler(p) \/ Handle(p) \/ HandlerFails(p) \/ AcknowledgeReceipt(p)
  PROVE  InboxInv'
<1>1. CASE Handle(p)
  BY <1>1 DEF Handle, KeepJournal, InboxInv
<1>2. CASE StartHandler(p) \/ HandlerFails(p)
  BY <1>2, JournalKept DEF StartHandler, HandlerFails, Drop, worldVars
<1>3. CASE AcknowledgeReceipt(p)
  <2> DEFINE m == Head(queue[p])
             next == Acknowledged({m})
  <2>1. m \in handled /\ UNCHANGED handled /\ done' \subseteq done
    BY <1>3 DEF AcknowledgeReceipt, MayAcknowledge, Drop, InboxInv, worldVars
  <2>2. DOMAIN next = JournalParts /\ next.acknowledged = journal.acknowledged \cup {m}
    BY DEF Acknowledged, InboxInv, JournalParts
  <2>3. JournalSaved(next) \/ JournalNotSaved(next) \/ KeepJournal
    BY <1>3 DEF AcknowledgeReceipt
  <2> HIDE DEF next, m
  <2>4. next.acknowledged \subseteq handled \cup Unhandleable
    BY <2>1, <2>2 DEF InboxInv
  <2> QED
    BY <2>1, <2>2, <2>3, <2>4, JournalWritten, JournalKept
<1> QED
  BY <1>1, <1>2, <1>3

LEMMA RestartKeepsInbox ==
  ASSUME InboxInv, RestartInbox
  PROVE  InboxInv'
  BY DEF RestartInbox, InboxInv, worldVars

\* Whatever writes fail and wherever the process stops, a message that is acknowledged in
\* memory or on the disk has been carried out, or can never be (journal.rs, Receipt).
THEOREM AcknowledgedWasHandled == InboxSpec => []AcknowledgedMeansHandled
<1>1. InboxInv /\ [InboxNext]_inboxVars => InboxInv'
  <2> SUFFICES ASSUME InboxInv, [InboxNext]_inboxVars PROVE InboxInv'
    OBVIOUS
  <2>1. CASE UNCHANGED inboxVars
    BY <2>1 DEF inboxVars, worldVars, processVars, InboxInv
  <2> QED
    BY <2>1, PeersKeepInbox, ReadsKeepInbox, WorkersKeepInbox, RestartKeepsInbox DEF InboxNext
<1>2. InboxInv => AcknowledgedMeansHandled
  BY DEF InboxInv, AcknowledgedMeansHandled
<1> QED
  BY InboxStarts, <1>1, <1>2, PTL DEF InboxSpec

-----------------------------------------------------------------------------
(* 7. The schedule of polls.                                               *)

USE DEF Stretched

PeerPolls == [in : BOOLEAN, due : Nat, timeout_streak : Nat, ends : Nat, woken : BOOLEAN]
Turns == [woken : Nat, overdue : Nat]

PollTypeOK ==
  /\ instant \in Nat \ {0} /\ listed \subseteq Polled
  /\ waker \in [woken : SUBSET Polled, notified : BOOLEAN]
  /\ poll \in [Polled -> PeerPolls]
  /\ due \in [woken : Seq(Polled), overdue : Seq(Polled), free : Nat, stretched : Nat,
              skipped : BOOLEAN]
  /\ refresh \in [at : Nat, now : BOOLEAN]
  /\ woken_turn \in BOOLEAN
  /\ passed \in [Polled -> Turns]

\* Every doorbell of a peer that is still listed is remembered.
OwedInv ==
  /\ \A p \in owed : p \in listed /\ (p \in waker.woken \/ poll[p].woken)
  /\ \A p \in Polled : poll[p].woken => poll[p].in

\* A woken peer may have been passed once more than it should where the next turn is a
\* woken peer's, and an overdue one where the next is an overdue peer's.
InTurn(p) ==
  IF poll[p].woken
  THEN passed[p].overdue <= passed[p].woken + (IF woken_turn THEN 1 ELSE 0)
  ELSE passed[p].woken <= passed[p].overdue + (IF woken_turn THEN 0 ELSE 1)

TurnsInv ==
  \A p \in Polled : IF Ready(poll, p) THEN InTurn(p) ELSE passed[p] = NoTurns

\* Until a peer is skipped, one that may start has its place in the launch, or there are
\* as many ahead of it as there are slots.
PlaceInv ==
  loop = "launch" /\ ~due.skipped =>
    \A p \in Polled : Ready(poll, p) =>
      \/ \E i \in DOMAIN Line(p) : Line(p)[i] = p
      \/ Len(Line(p)) >= due.free

PollInv == PollTypeOK /\ OwedInv /\ TurnsInv /\ PlaceInv

\* How many members of S come before s.
Below(s, S, R) == {t \in S : <<t, s>> \in R}
Rank(s, S, R) == Cardinality(Below(s, S, R))

\* In a finite set with a strict total order, the members have the ranks 0, 1, 2 and so on.
LEMMA Ranks ==
  ASSUME NEW S, IsFiniteSet(S), NEW R,
         \A s \in S : <<s, s>> \notin R,
         \A s, t \in S : s # t => <<s, t>> \in R \/ <<t, s>> \in R,
         \A s, t, u \in S : <<s, t>> \in R /\ <<t, u>> \in R => <<s, u>> \in R
  PROVE  /\ Cardinality(S) \in Nat
         /\ \A s \in S : Rank(s, S, R) \in 0..(Cardinality(S) - 1)
         /\ \A k \in 0..(Cardinality(S) - 1) : \E s \in S : Rank(s, S, R) = k
         /\ \A s, t \in S : Rank(s, S, R) = Rank(t, S, R) => s = t
<1> DEFINE n == Cardinality(S)
           f == [s \in S |-> Rank(s, S, R)]
<1>1. n \in Nat
  BY FS_CardinalityType
<1>2. ASSUME NEW s \in S PROVE IsFiniteSet(Below(s, S, R)) /\ Rank(s, S, R) \in 0..(n - 1)
  <2>1. Below(s, S, R) \in SUBSET S /\ s \in S /\ s \notin Below(s, S, R)
    BY DEF Below
  <2>2. IsFiniteSet(Below(s, S, R)) /\ Rank(s, S, R) \in Nat /\ Rank(s, S, R) <= n /\ Rank(s, S, R) # n
    BY <2>1, FS_Subset, FS_CardinalityType DEF Rank
  <2> QED
    BY <1>1, <2>2
<1>3. ASSUME NEW s \in S, NEW t \in S, <<s, t>> \in R PROVE Rank(s, S, R) # Rank(t, S, R)
  <2>1. Below(s, S, R) \in SUBSET Below(t, S, R) /\ s \in Below(t, S, R) /\ s \notin Below(s, S, R)
    BY <1>3 DEF Below
  <2> QED
    BY <1>2, <2>1, FS_Subset DEF Rank
<1>4. \A s, t \in S : s # t => Rank(s, S, R) # Rank(t, S, R)
  BY <1>3
<1>5. f \in Injection(S, 0..(n - 1))
  BY <1>2, <1>4 DEF Injection, IsInjective
<1>6. IsFiniteSet(0..(n - 1)) /\ Cardinality(0..(n - 1)) = n
  <2> HIDE DEF n
  <2>1. 0 \in Int /\ n - 1 \in Int
    BY <1>1
  <2> QED
    BY <1>1, <2>1, FS_Interval
<1>7. f \in Surjection(S, 0..(n - 1))
  BY <1>5, <1>6, FS_Injection
<1>8. \A k \in 0..(n - 1) : \E s \in S : Rank(s, S, R) = k
  BY <1>7 DEF Surjection
<1> QED
  BY <1>1, <1>2, <1>4, <1>8

\* A finite set of numbers has a least one.
LEMMA LeastOf ==
  ASSUME NEW S \in SUBSET Nat, IsFiniteSet(S), S # {}
  PROVE  \E t \in S : \A u \in S : t <= u
<1> DEFINE R == {x \in Nat \X Nat : x[1] < x[2]}
<1>1. \A s, t \in S : <<s, t>> \in R <=> s < t
  OBVIOUS
<1>2. \A s \in S : s \in Nat
  OBVIOUS
<1> HIDE DEF R
<1>3. /\ \A s \in S : <<s, s>> \notin R
      /\ \A s, t \in S : s # t => <<s, t>> \in R \/ <<t, s>> \in R
      /\ \A s, t, u \in S : <<s, t>> \in R /\ <<t, u>> \in R => <<s, u>> \in R
  BY <1>1, <1>2
<1>4. Cardinality(S) \in Nat /\ Cardinality(S) # 0
  BY FS_CardinalityType, FS_EmptySet
<1>5. PICK s \in S : Rank(s, S, R) = 0
  <2>1. \A k \in 0..(Cardinality(S) - 1) : \E s \in S : Rank(s, S, R) = k
    BY <1>3, Ranks
  <2>2. 0 \in 0..(Cardinality(S) - 1)
    BY <1>4
  <2> QED
    BY <2>1, <2>2
<1>6. Below(s, S, R) = {}
  <2>1. Below(s, S, R) \in SUBSET S
    BY DEF Below
  <2>2. IsFiniteSet(Below(s, S, R))
    BY <2>1, FS_Subset
  <2> QED
    BY <1>5, <2>2, FS_EmptySet DEF Rank
<1>7. \A u \in S : ~(u < s)
  BY <1>1, <1>6 DEF Below
<1> QED
  BY <1>2, <1>7

\* earliest has no more than n places, and leaves a peer out only when they are all taken.
LEMMA EarliestFacts ==
  ASSUME NEW entries \in [Polled -> PeerPolls], NEW S \in SUBSET Polled, NEW n \in Nat
  PROVE  LET row == earliest(S, entries, n)
         IN  /\ row \in Seq(Polled)
             /\ \A p \in S : (\E i \in DOMAIN row : row[i] = p) \/ Len(row) >= n
<1> DEFINE R == {x \in Polled \X Polled : Sooner(x[1], x[2], entries)}
           c == Cardinality(S)
           m == IF n < c THEN n ELSE c
           row == earliest(S, entries, n)
<1>1. \A a, b \in Polled : <<a, b>> \in R <=> Sooner(a, b, entries)
  OBVIOUS
<1>2. \A a \in Polled : a \in Nat /\ entries[a].due \in Nat
  BY PollAssumption DEF PeerPolls
<1> HIDE DEF R
<1>3. IsFiniteSet(S)
  BY PollAssumption, FS_Subset
<1>4. /\ \A a \in S : <<a, a>> \notin R
      /\ \A a, b \in S : a # b => <<a, b>> \in R \/ <<b, a>> \in R
      /\ \A a, b, d \in S : <<a, b>> \in R /\ <<b, d>> \in R => <<a, d>> \in R
  BY <1>1, <1>2 DEF Sooner
<1>5. /\ c \in Nat /\ \A p \in S : Rank(p, S, R) \in 0..(c - 1)
      /\ \A k \in 0..(c - 1) : \E p \in S : Rank(p, S, R) = k
      /\ \A p, q \in S : Rank(p, S, R) = Rank(q, S, R) => p = q
  BY <1>3, <1>4, Ranks
<1>6. \A p \in S : Below(p, S, R) = Ahead(p, S, entries)
  BY <1>1 DEF Ahead, Below
<1>7. \A p \in S : Rank(p, S, R) = Cardinality(Ahead(p, S, entries))
  BY <1>6 DEF Rank
<1>8. m \in Nat /\ m <= n /\ m <= c
  BY <1>5
<1>9. ASSUME NEW i \in 1..m PROVE row[i] \in S /\ Rank(row[i], S, R) = i - 1
  <2>1. PICK p \in S : Rank(p, S, R) = i - 1
    BY <1>5, <1>8
  <2>2. row[i] = CHOOSE x \in S : Cardinality(Ahead(x, S, entries)) = i - 1
    BY DEF earliest
  <2>3. row[i] \in S /\ Cardinality(Ahead(row[i], S, entries)) = i - 1
    BY <1>7, <2>1, <2>2
  <2> QED
    BY <1>7, <2>3
<1>10. row \in [1..m -> Polled] /\ DOMAIN row = 1..m
  BY <1>9 DEF earliest
<1>11. row \in Seq(Polled) /\ Len(row) = m
  BY <1>8, <1>10
<1>12. ASSUME NEW p \in S, ~(m >= n) PROVE \E i \in 1..m : row[i] = p
  <2>1. m = c /\ Rank(p, S, R) + 1 \in 1..m
    BY <1>5, <1>12
  <2>2. row[Rank(p, S, R) + 1] \in S /\ Rank(row[Rank(p, S, R) + 1], S, R) = Rank(p, S, R)
    BY <1>5, <1>9, <2>1
  <2>3. row[Rank(p, S, R) + 1] = p
    BY <1>5, <2>2
  <2> QED
    BY <2>1, <2>3
<1> QED
  BY <1>10, <1>11, <1>12

\* Slots are counted in numbers.
LEMMA SlotFacts ==
  /\ \A entries \in [Polled -> PeerPolls] : stretched_slots_free(entries) \in Nat
  /\ Cardinality(in_flight) \in Nat
<1>1. \A E \in SUBSET Polled : Cardinality(E) \in Nat
  BY PollAssumption, FS_Subset, FS_CardinalityType
<1>2. \A a, b \in Nat : Less(a, b) \in Nat /\ Most(a, b) \in Nat
  BY DEF Less, Most
<1>3. max_in_flight \div 2 \in Nat /\ 1 \in Nat
  BY PollAssumption
<1>4. Most(1, max_in_flight \div 2) \in Nat
  BY <1>2, <1>3
<1>5. ASSUME NEW entries \in [Polled -> PeerPolls] PROVE stretched_slots_free(entries) \in Nat
  <2>1. {p \in Polled : entries[p].ends > 0 /\ Stretched(entries[p])} \in SUBSET Polled
    OBVIOUS
  <2> QED
    BY <1>1, <1>2, <1>4, <2>1 DEF stretched_slots_free
<1>6. in_flight \in SUBSET Polled
  BY DEF in_flight
<1> QED
  BY <1>1, <1>5, <1>6

LEMMA DeadlineType ==
  ASSUME NEW streak \in Nat
  PROVE  poll_deadline(streak) \in Nat
<1>1. \A k \in 1..6 : <<1, 2, 4, 8, 16, 32>>[k] \in Nat
  OBVIOUS
<1>2. PICK n \in Nat : poll_deadline(streak) = poll_timeout * n
  <2>1. CASE streak < 6
    BY <1>1, <2>1 DEF poll_deadline
  <2>2. CASE ~(streak < 6)
    BY <2>2 DEF poll_deadline
  <2> QED
    BY <2>1, <2>2
<1> QED
  BY <1>2, PollAssumption

\* With no more stretched polls in flight than before, no fewer of their slots are free.
LEMMA SlotsFreed ==
  ASSUME NEW old \in [Polled -> PeerPolls], NEW new \in [Polled -> PeerPolls],
         \A p \in Polled :
           new[p].ends > 0 /\ Stretched(new[p]) => old[p].ends > 0 /\ Stretched(old[p]),
         stretched_slots_free(new) = 0
  PROVE  stretched_slots_free(old) = 0
<1> DEFINE A == {p \in Polled : old[p].ends > 0 /\ Stretched(old[p])}
           B == {p \in Polled : new[p].ends > 0 /\ Stretched(new[p])}
           most == Most(1, max_in_flight \div 2)
<1>1. B \in SUBSET A /\ A \in SUBSET Polled
  OBVIOUS
<1>2. IsFiniteSet(A) /\ IsFiniteSet(B) /\ Cardinality(B) <= Cardinality(A)
      /\ Cardinality(A) \in Nat /\ Cardinality(B) \in Nat
  BY <1>1, PollAssumption, FS_Subset, FS_CardinalityType
<1>3. most \in Nat
  BY PollAssumption DEF Most
<1>4. stretched_slots_free(old) = Less(Cardinality(A), most)
      /\ stretched_slots_free(new) = Less(Cardinality(B), most)
  BY DEF stretched_slots_free
<1> HIDE DEF A, B, most
<1> QED
  BY <1>2, <1>3, <1>4 DEF Less

\* A peer that may start still may when others' polls end, when time passes.
LEMMA StillReady ==
  ASSUME NEW old \in [Polled -> PeerPolls], NEW new \in [Polled -> PeerPolls], NEW p \in Polled,
         \A q \in Polled :
           new[q].ends > 0 /\ Stretched(new[q]) => old[q].ends > 0 /\ Stretched(old[q]),
         new[p] = old[p], Ready(old, p)
  PROVE  Ready(new, p)
  BY SlotsFreed DEF Ready

LEMMA PollStarts == PollInit => PollInv
<1> SUFFICES ASSUME PollInit PROVE PollInv
  OBVIOUS
<1>1. NoPeerPoll \in PeerPolls /\ NoTurns \in Turns
  BY DEF NoPeerPoll, NoTurns, PeerPolls, Turns
<1>2. NoneDue \in [woken : Seq(Polled), overdue : Seq(Polled), free : Nat, stretched : Nat,
                    skipped : BOOLEAN]
  BY DEF NoneDue
<1>3. PollTypeOK
  BY <1>1, <1>2 DEF PollInit, PollTypeOK
<1>4. \A p \in Polled : ~Ready(poll, p) /\ passed[p] = NoTurns /\ ~poll[p].woken
  BY DEF PollInit, Ready, NoPeerPoll
<1> QED
  BY <1>3, <1>4 DEF PollInit, PollInv, OwedInv, TurnsInv, PlaceInv

\* Steps that move no poll.
LEMMA TurnsKept ==
  ASSUME PollInv, UNCHANGED <<instant, poll, passed, woken_turn>>
  PROVE  TurnsInv'
  BY DEF PollInv, TurnsInv, InTurn, Ready, stretched_slots_free

\* The peer set, timers, and a caller that comes and goes.
LEMMA OthersKeepPoll ==
  ASSUME PollInv,
         \/ \E p \in Polled : register_peer(p) \/ forget_peer(p)
         \/ Launched \/ Timer \/ Notified \/ Cancel \/ recv
  PROVE  PollInv'
<1>1. UNCHANGED <<instant, poll, passed, woken_turn>> /\ loop' # "launch"
  BY DEF register_peer, forget_peer, Await, Launched, Timer, Notified, Cancel, recv
<1>2. CASE \E p \in Polled : register_peer(p) \/ forget_peer(p)
  <2>1. PICK p \in Polled : register_peer(p) \/ forget_peer(p)
    BY <1>2
  <2>2. listed' \subseteq Polled
    BY <2>1 DEF PollInv, PollTypeOK, register_peer, forget_peer
  <2>3. waker \in [woken : SUBSET Polled, notified : BOOLEAN]
    BY DEF PollInv, PollTypeOK
  <2>4. waker' = [woken |-> waker.woken \cup {p}, notified |-> TRUE]
        \/ waker' = [waker EXCEPT !.notified = TRUE]
    BY <2>1 DEF register_peer, forget_peer
  <2>5. waker' \in [woken : SUBSET Polled, notified : BOOLEAN]
    <3>1. waker.woken \cup {p} \in SUBSET Polled
      BY <2>3
    <3>2. [woken |-> waker.woken \cup {p}, notified |-> TRUE]
            \in [woken : SUBSET Polled, notified : BOOLEAN]
      BY <3>1
    <3>3. [waker EXCEPT !.notified = TRUE] \in [woken : SUBSET Polled, notified : BOOLEAN]
      BY <2>3
    <3> QED
      BY <2>4, <3>2, <3>3
  <2>6. UNCHANGED <<due, refresh>>
    BY <2>1 DEF register_peer, forget_peer
  <2>7. PollTypeOK'
    BY <1>1, <2>2, <2>5, <2>6 DEF PollInv, PollTypeOK
  <2>8. OwedInv'
    BY <1>2 DEF PollInv, PollTypeOK, OwedInv, register_peer, forget_peer
  <2> QED
    BY <1>1, <2>7, <2>8, TurnsKept DEF PollInv, PlaceInv
<1>3. CASE Launched \/ Timer \/ Notified \/ Cancel \/ recv
  <2>1. due' = due \/ due' = NoneDue
    BY <1>3 DEF Launched, Timer, Notified, Cancel, recv
  <2>2. NoneDue \in [woken : Seq(Polled), overdue : Seq(Polled), free : Nat, stretched : Nat,
                      skipped : BOOLEAN]
    BY DEF NoneDue
  <2>3. UNCHANGED <<listed, owed>> /\ waker'.woken = waker.woken
        /\ waker' \in [woken : SUBSET Polled, notified : BOOLEAN]
        /\ refresh' \in [at : Nat, now : BOOLEAN]
    BY <1>3 DEF Launched, Timer, Notified, Cancel, recv, PollInv, PollTypeOK
  <2>4. PollTypeOK'
    BY <1>1, <2>1, <2>2, <2>3 DEF PollInv, PollTypeOK
  <2>5. OwedInv'
    BY <1>1, <2>3 DEF PollInv, OwedInv
  <2> QED
    BY <1>1, <2>4, <2>5, TurnsKept DEF PollInv, PlaceInv
<1> QED
  BY <1>2, <1>3

\* Time passes: who could start still can, and who can only now has not been passed yet.
LEMMA InstantKeepsPoll ==
  ASSUME PollInv, Instant
  PROVE  PollInv'
<1>1. instant' = instant + 1 /\ instant \in Nat /\ loop # "launch" /\ loop' = loop
      /\ UNCHANGED <<listed, waker, poll, due, refresh, woken_turn, passed, owed>>
  BY DEF Instant, Rests, PollInv, PollTypeOK
<1>2. PollTypeOK' /\ OwedInv'
  BY <1>1 DEF PollInv, PollTypeOK, OwedInv
<1>3. TurnsInv'
  <2> SUFFICES ASSUME NEW p \in Polled
               PROVE  IF Ready(poll, p)' THEN InTurn(p)' ELSE passed'[p] = NoTurns
    BY <1>1 DEF TurnsInv
  <2>1. InTurn(p)' <=> InTurn(p)
    BY <1>1 DEF InTurn
  <2>2. Ready(poll, p) => Ready(poll, p)'
    <3>1. poll[p].due \in Nat
      BY DEF PollInv, PollTypeOK, PeerPolls
    <3> QED
      BY <1>1, <3>1 DEF Ready, stretched_slots_free
  <2>3. passed[p] = NoTurns => InTurn(p)
    BY DEF InTurn, NoTurns
  <2> QED
    BY <1>1, <2>1, <2>2, <2>3 DEF PollInv, TurnsInv
<1> QED
  BY <1>1, <1>2, <1>3 DEF PollInv, PlaceInv

\* A poll ends: its slot is free, for a stretched one too.
LEMMA CompleteKeepsPoll ==
  ASSUME PollInv, NEW p \in Polled, NEW outcome \in {"messages", "none", "failed", "timeout"},
         complete(p, outcome)
  PROVE  PollInv'
<1>1. PICK interval \in Intervals :
        poll' = [poll EXCEPT ![p].ends = 0,
                   ![p].due = IF poll[p].woken THEN instant ELSE instant + interval,
                   ![p].timeout_streak = IF outcome = "failed" THEN @
                                         ELSE IF outcome = "timeout" THEN @ + 1 ELSE 0]
  BY DEF complete
<1>2. interval \in Nat
  BY PollAssumption
<1>3. poll \in [Polled -> PeerPolls] /\ poll[p] \in PeerPolls
  BY DEF PollInv, PollTypeOK
<1> DEFINE entry == [[[poll[p] EXCEPT !.ends = 0]
                        EXCEPT !.due = IF poll[p].woken THEN instant ELSE instant + interval]
                        EXCEPT !.timeout_streak =
                                 IF outcome = "failed" THEN poll[p].timeout_streak
                                 ELSE IF outcome = "timeout" THEN poll[p].timeout_streak + 1
                                 ELSE 0]
<1>4. entry \in PeerPolls /\ entry.ends = 0 /\ entry.woken = poll[p].woken /\ entry.in = poll[p].in
  <2> DEFINE later == IF poll[p].woken THEN instant ELSE instant + interval
             longer == IF outcome = "failed" THEN poll[p].timeout_streak
                       ELSE IF outcome = "timeout" THEN poll[p].timeout_streak + 1 ELSE 0
  <2>1. later \in Nat
    BY <1>2 DEF PollInv, PollTypeOK
  <2>2. longer \in Nat
    BY <1>3 DEF PeerPolls
  <2>3. entry = [[[poll[p] EXCEPT !.ends = 0] EXCEPT !.due = later] EXCEPT !.timeout_streak = longer]
    OBVIOUS
  <2> HIDE DEF entry, later, longer
  <2> QED
    BY <1>3, <2>1, <2>2, <2>3 DEF PeerPolls
<1>5. poll' = [poll EXCEPT ![p] = entry]
  BY <1>1, <1>3 DEF PeerPolls
<1> HIDE DEF entry
<1>6. poll' \in [Polled -> PeerPolls] /\ poll'[p] = entry
      /\ \A q \in Polled : q # p => poll'[q] = poll[q]
  BY <1>3, <1>4, <1>5
<1>7. passed' = [passed EXCEPT ![p] = NoTurns] /\ loop' # "launch"
      /\ UNCHANGED <<instant, listed, waker, due, refresh, woken_turn, owed>>
  BY DEF complete
<1>8. NoTurns \in Turns
  BY DEF NoTurns, Turns
<1>9. PollTypeOK'
  BY <1>6, <1>7, <1>8 DEF PollInv, PollTypeOK
<1>10. \A q \in Polled : poll'[q].woken = poll[q].woken /\ poll'[q].in = poll[q].in
  BY <1>4, <1>6
<1>11. OwedInv'
  BY <1>7, <1>10 DEF PollInv, PollTypeOK, OwedInv
<1>12. TurnsInv'
  <2> SUFFICES ASSUME NEW q \in Polled
               PROVE  IF Ready(poll, q)' THEN InTurn(q)' ELSE passed'[q] = NoTurns
    BY DEF TurnsInv
  <2>1. passed \in [Polled -> Turns]
    BY DEF PollInv, PollTypeOK
  <2>2. CASE q = p
    <3>1. passed'[q] = NoTurns
      BY <1>7, <2>1, <2>2
    <3> QED
      BY <3>1 DEF InTurn, NoTurns
  <2>3. CASE q # p
    <3>1. passed'[q] = passed[q] /\ poll'[q] = poll[q]
      BY <1>6, <1>7, <2>1, <2>3
    <3>2. \A x \in Polled : poll'[x].ends > 0 /\ Stretched(poll'[x])
            => poll[x].ends > 0 /\ Stretched(poll[x])
      BY <1>4, <1>6
    <3>3. Ready(poll, q) => Ready(poll', q)
      BY <1>3, <1>6, <3>1, <3>2, StillReady
    <3>4. Ready(poll', q) <=> Ready(poll, q)'
      BY <1>7 DEF Ready, stretched_slots_free
    <3>5. InTurn(q)' <=> InTurn(q)
      BY <1>7, <3>1 DEF InTurn
    <3>6. passed[q] = NoTurns => InTurn(q)
      BY DEF InTurn, NoTurns
    <3> QED
      BY <3>1, <3>3, <3>4, <3>5, <3>6 DEF PollInv, TurnsInv
  <2> QED
    BY <2>2, <2>3
<1> QED
  BY <1>7, <1>9, <1>11, <1>12 DEF PollInv, PlaceInv

\* The top of the loop: doorbells are told to their entries, and the peers that may start
\* are lined up.
LEMMA TurnKeepsPoll ==
  ASSUME PollInv, Turn
  PROVE  PollInv'
<1> DEFINE again == refresh.now \/ waker.woken # {} \/ instant >= refresh.at
           listing == IF again THEN Relisted ELSE poll
           entries == [p \in Polled |-> Woken(listing[p], p)]
           free == Less(Cardinality(in_flight), max_in_flight)
           ready == {p \in Polled : Ready(entries, p)}
           woken == earliest({p \in ready : entries[p].woken}, entries, free)
           overdue == earliest({p \in ready : ~entries[p].woken}, entries, free)
<1>1. /\ poll' = entries
      /\ refresh' = IF again THEN [at |-> instant + PEER_REFRESH, now |-> FALSE] ELSE refresh
      /\ due' = [woken |-> woken, overdue |-> overdue, free |-> free,
                 stretched |-> stretched_slots_free(entries), skipped |-> FALSE]
      /\ passed' = [p \in Polled |->
                      IF Ready(poll, p) /\ poll[p].woken = entries[p].woken /\ p \in ready
                      THEN passed[p] ELSE NoTurns]
      /\ waker' = [waker EXCEPT !.woken = {}] /\ loop' = "launch"
      /\ UNCHANGED <<instant, listed, woken_turn, owed>>
  BY DEF Turn
<1>2. poll \in [Polled -> PeerPolls] /\ instant \in Nat
      /\ waker \in [woken : SUBSET Polled, notified : BOOLEAN]
  BY DEF PollInv, PollTypeOK
<1>3. listing \in [Polled -> PeerPolls]
  <2>1. NewPeerPoll \in PeerPolls /\ NoPeerPoll \in PeerPolls
    BY <1>2 DEF NewPeerPoll, NoPeerPoll, PeerPolls
  <2> QED
    BY <1>2, <2>1 DEF Relisted
<1>4. \A p \in Polled :
        /\ Woken(listing[p], p) \in PeerPolls
        /\ Woken(listing[p], p).in = listing[p].in
        /\ Woken(listing[p], p).woken = (listing[p].woken \/ (p \in waker.woken /\ listing[p].in))
  <2> SUFFICES ASSUME NEW p \in Polled, NEW entry \in PeerPolls
               PROVE  /\ Woken(entry, p) \in PeerPolls
                      /\ Woken(entry, p).in = entry.in
                      /\ Woken(entry, p).woken = (entry.woken \/ (p \in waker.woken /\ entry.in))
    BY <1>3
  <2>1. [[entry EXCEPT !.woken = TRUE] EXCEPT !.due = IF entry.ends = 0 THEN instant ELSE entry.due]
          = [entry EXCEPT !.woken = TRUE, !.due = IF entry.ends = 0 THEN instant ELSE @]
    BY DEF PeerPolls
  <2>2. (IF entry.ends = 0 THEN instant ELSE entry.due) \in Nat
    BY <1>2 DEF PeerPolls
  <2> QED
    BY <2>1, <2>2 DEF Woken, PeerPolls
<1>5. \A p \in Polled : listing[p].woken => listing[p].in
  BY DEF PollInv, OwedInv, Relisted, NewPeerPoll, NoPeerPoll
<1>6. \A p \in owed : /\ p \in Polled
                      /\ listing[p].woken \/ (p \in waker.woken /\ listing[p].in)
  <2> SUFFICES ASSUME NEW p \in owed
               PROVE  p \in Polled /\ (listing[p].woken \/ (p \in waker.woken /\ listing[p].in))
    OBVIOUS
  <2>1. p \in listed /\ p \in Polled /\ (p \in waker.woken \/ poll[p].woken)
    BY DEF PollInv, PollTypeOK, OwedInv
  <2>2. CASE p \in waker.woken
    <3>1. listing[p].in
      BY <2>1, <2>2 DEF Relisted, NewPeerPoll
    <3> QED
      BY <2>1, <2>2, <3>1
  <2>3. CASE poll[p].woken
    <3>1. listing[p] = poll[p]
      BY <2>1, <2>3 DEF Relisted, PollInv, OwedInv
    <3> QED
      BY <2>1, <2>3, <3>1
  <2> QED
    BY <2>1, <2>2, <2>3
<1>7. entries \in [Polled -> PeerPolls]
      /\ \A p \in Polled : /\ entries[p].in = listing[p].in
                           /\ entries[p].woken = (listing[p].woken \/ (p \in waker.woken /\ listing[p].in))
  BY <1>4
<1>8. PollTypeOK'
  <2> HIDE DEF entries
  <2>1. free \in Nat /\ stretched_slots_free(entries) \in Nat
    BY <1>7, SlotFacts, PollAssumption DEF Less
  <2>2. woken \in Seq(Polled) /\ overdue \in Seq(Polled)
    <3>1. {p \in ready : entries[p].woken} \in SUBSET Polled
          /\ {p \in ready : ~entries[p].woken} \in SUBSET Polled
      OBVIOUS
    <3> QED
      BY <1>7, <2>1, <3>1, EarliestFacts
  <2>3. refresh' \in [at : Nat, now : BOOLEAN]
    BY <1>1, <1>2, PollAssumption DEF PollInv, PollTypeOK
  <2>4. waker' \in [woken : SUBSET Polled, notified : BOOLEAN]
    BY <1>1, <1>2
  <2>5. passed' \in [Polled -> Turns]
    BY <1>1 DEF PollInv, PollTypeOK, NoTurns, Turns
  <2>6. due' \in [woken : Seq(Polled), overdue : Seq(Polled), free : Nat, stretched : Nat,
                  skipped : BOOLEAN]
    <3> HIDE DEF free, woken, overdue
    <3> QED
      BY <1>1, <2>1, <2>2
  <2> QED
    BY <1>1, <1>7, <2>3, <2>4, <2>5, <2>6 DEF PollInv, PollTypeOK
<1>9. OwedInv'
  <2> HIDE DEF entries, listing
  <2> QED
    BY <1>1, <1>5, <1>6, <1>7 DEF PollInv, OwedInv
<1>10. TurnsInv'
  <2> HIDE DEF entries
  <2> SUFFICES ASSUME NEW p \in Polled
               PROVE  IF Ready(poll, p)' THEN InTurn(p)' ELSE passed'[p] = NoTurns
    BY DEF TurnsInv
  <2>1. p \in ready <=> Ready(poll, p)'
    BY <1>1 DEF Ready, stretched_slots_free
  <2>2. CASE Ready(poll, p) /\ poll[p].woken = entries[p].woken /\ p \in ready
    <3>1. passed'[p] = passed[p] /\ poll'[p].woken = poll[p].woken
      BY <1>1, <2>2
    <3> QED
      BY <1>1, <2>1, <2>2, <3>1 DEF PollInv, TurnsInv, InTurn
  <2>3. CASE ~(Ready(poll, p) /\ poll[p].woken = entries[p].woken /\ p \in ready)
    <3>1. passed'[p] = NoTurns
      BY <1>1, <2>3
    <3> QED
      BY <3>1 DEF InTurn, NoTurns
  <2> QED
    BY <2>2, <2>3
<1>11. PlaceInv'
  <2> HIDE DEF entries
  <2> SUFFICES ASSUME NEW p \in Polled, Ready(poll, p)'
               PROVE  (\/ \E i \in DOMAIN Line(p) : Line(p)[i] = p
                       \/ Len(Line(p)) >= due.free)'
    BY DEF PlaceInv
  <2>1. p \in ready
    BY <1>1 DEF Ready, stretched_slots_free
  <2>2. free \in Nat
    BY SlotFacts, PollAssumption DEF Less
  <2>3. CASE entries[p].woken
    <3>1. {q \in ready : entries[q].woken} \in SUBSET Polled
          /\ p \in {q \in ready : entries[q].woken}
      BY <2>1, <2>3
    <3>2. (\E i \in DOMAIN woken : woken[i] = p) \/ Len(woken) >= free
      BY <1>7, <2>2, <3>1, EarliestFacts
    <3>3. Line(p)' = woken /\ due'.free = free
      BY <1>1, <2>3 DEF Line
    <3> HIDE DEF woken, free
    <3> QED
      BY <3>2, <3>3
  <2>4. CASE ~entries[p].woken
    <3>1. {q \in ready : ~entries[q].woken} \in SUBSET Polled
          /\ p \in {q \in ready : ~entries[q].woken}
      BY <2>1, <2>4
    <3>2. (\E i \in DOMAIN overdue : overdue[i] = p) \/ Len(overdue) >= free
      BY <1>7, <2>2, <3>1, EarliestFacts
    <3>3. Line(p)' = overdue /\ due'.free = free
      BY <1>1, <2>4 DEF Line
    <3> HIDE DEF overdue, free
    <3> QED
      BY <3>2, <3>3
  <2> QED
    BY <2>3, <2>4
<1> QED
  BY <1>8, <1>9, <1>10, <1>11 DEF PollInv

\* A slot is given, or the peer whose turn it is is skipped.
LEMMA LaunchKeepsPoll ==
  ASSUME PollInv, Launch
  PROVE  PollInv'
<1> DEFINE take_woken == (woken_turn /\ due.woken # <<>>) \/ due.overdue = <<>>
           row == IF take_woken THEN due.woken ELSE due.overdue
           p == Head(row)
           skipped == Stretched(poll[p]) /\ due.stretched = 0
           rest == IF take_woken THEN [due EXCEPT !.woken = Tail(@)]
                   ELSE [due EXCEPT !.overdue = Tail(@)]
           entry == [[poll[p] EXCEPT !.woken = FALSE]
                       EXCEPT !.ends = instant + poll_deadline(poll[p].timeout_streak)]
<1>1. /\ loop = "launch" /\ due.free > 0 /\ due.woken \o due.overdue # <<>>
      /\ IF skipped
         THEN due' = [rest EXCEPT !.skipped = TRUE] /\ UNCHANGED <<poll, woken_turn, owed>>
         ELSE /\ Starts(p, take_woken)
              /\ due' = [rest EXCEPT !.free = @ - 1,
                                     !.stretched = IF Stretched(poll[p]) THEN @ - 1 ELSE @]
      /\ passed' = [q \in Polled |->
           IF ~Ready(poll', q) \/ CutOff(q)' THEN NoTurns
           ELSE IF skipped THEN passed[q]
           ELSE IF take_woken THEN [passed[q] EXCEPT !.woken = @ + 1]
           ELSE [passed[q] EXCEPT !.overdue = @ + 1]]
      /\ UNCHANGED <<instant, listed, waker, loop, refresh>>
  BY DEF Launch
<1>2. /\ poll \in [Polled -> PeerPolls] /\ passed \in [Polled -> Turns] /\ instant \in Nat
      /\ due.woken \in Seq(Polled) /\ due.overdue \in Seq(Polled)
      /\ due.free \in Nat /\ due.stretched \in Nat /\ due.skipped \in BOOLEAN
      /\ woken_turn \in BOOLEAN /\ instant > 0
  BY DEF PollInv, PollTypeOK
<1>3. row \in Seq(Polled) /\ row # <<>>
  <2>1. due.woken # <<>> \/ due.overdue # <<>>
    BY <1>1, <1>2
  <2> QED
    BY <1>2, <2>1
<1> HIDE DEF row
<1>4. p \in Polled /\ Tail(row) \in Seq(Polled) /\ Len(Tail(row)) = Len(row) - 1
      /\ Len(row) \in Nat \ {0}
      /\ \A q : (\E i \in DOMAIN row : row[i] = q)
                => q = p \/ \E i \in DOMAIN Tail(row) : Tail(row)[i] = q
  <2>1. Len(row) \in Nat \ {0} /\ Tail(row) \in Seq(Polled) /\ Len(Tail(row)) = Len(row) - 1
        /\ DOMAIN row = 1..Len(row) /\ DOMAIN Tail(row) = 1..(Len(row) - 1)
    BY <1>3
  <2>2. p = row[1] /\ p \in Polled
    BY <1>3
  <2>3. ASSUME NEW i \in 1..Len(row), i # 1 PROVE i - 1 \in DOMAIN Tail(row) /\ Tail(row)[i - 1] = row[i]
    BY <1>3, <2>1, <2>3
  <2> QED
    BY <2>1, <2>2, <2>3
<1> HIDE DEF p
<1>5. due' \in [woken : Seq(Polled), overdue : Seq(Polled), free : Nat, stretched : Nat,
                skipped : BOOLEAN]
      /\ due'.skipped = (skipped \/ due.skipped)
      /\ due'.free = (IF skipped THEN due.free ELSE due.free - 1)
      /\ due'.woken = (IF take_woken THEN Tail(row) ELSE due.woken)
      /\ due'.overdue = (IF take_woken THEN due.overdue ELSE Tail(row))
  <2>1. due \in [woken : Seq(Polled), overdue : Seq(Polled), free : Nat, stretched : Nat,
                 skipped : BOOLEAN]
    BY DEF PollInv, PollTypeOK
  <2>2. /\ rest \in [woken : Seq(Polled), overdue : Seq(Polled), free : Nat, stretched : Nat,
                     skipped : BOOLEAN]
        /\ rest.woken = (IF take_woken THEN Tail(row) ELSE due.woken)
        /\ rest.overdue = (IF take_woken THEN due.overdue ELSE Tail(row))
        /\ rest.free = due.free /\ rest.stretched = due.stretched /\ rest.skipped = due.skipped
    BY <1>4, <2>1 DEF row
  <2>3. Stretched(poll[p]) \in BOOLEAN
    BY <1>2, <1>4 DEF PeerPolls
  <2> HIDE DEF rest, take_woken
  <2>4. CASE skipped
    BY <1>1, <2>2, <2>4
  <2>5. CASE ~skipped
    <3> DEFINE left == IF Stretched(poll[p]) THEN rest.stretched - 1 ELSE rest.stretched
    <3>1. rest.free - 1 \in Nat /\ left \in Nat
      BY <1>1, <1>2, <2>2, <2>3, <2>5
    <3>2. due' = [[rest EXCEPT !.free = rest.free - 1] EXCEPT !.stretched = left]
      BY <1>1, <2>2, <2>5
    <3> HIDE DEF left
    <3> QED
      BY <2>2, <2>5, <3>1, <3>2
  <2> QED
    BY <2>4, <2>5
<1>6. ASSUME ~skipped
      PROVE  /\ poll' = [poll EXCEPT ![p] = entry] /\ entry \in PeerPolls /\ entry.ends > 0
             /\ ~entry.woken /\ entry.in = poll[p].in /\ entry.timeout_streak = poll[p].timeout_streak
             /\ woken_turn' = ~take_woken /\ owed' = owed \ {p}
  <2> DEFINE ends == instant + poll_deadline(poll[p].timeout_streak)
  <2>1. Starts(p, take_woken)
    BY <1>1, <1>6
  <2>2. poll[p] \in PeerPolls
    BY <1>2, <1>4
  <2>3. ends \in Nat /\ ends > 0
    <3>1. poll_deadline(poll[p].timeout_streak) \in Nat
      BY <2>2, DeadlineType DEF PeerPolls
    <3> QED
      BY <1>2, <3>1
  <2>4. poll' = [poll EXCEPT ![p].woken = FALSE, ![p].ends = ends]
    BY <2>1 DEF Starts
  <2>5. entry = [[poll[p] EXCEPT !.woken = FALSE] EXCEPT !.ends = ends]
    OBVIOUS
  <2> HIDE DEF ends, entry
  <2>6. poll' = [poll EXCEPT ![p] = entry]
    BY <1>2, <2>2, <2>4, <2>5 DEF PeerPolls
  <2>7. entry \in PeerPolls /\ entry.ends > 0
        /\ ~entry.woken /\ entry.in = poll[p].in /\ entry.timeout_streak = poll[p].timeout_streak
    BY <2>2, <2>3, <2>5 DEF PeerPolls
  <2> QED
    BY <2>1, <2>6, <2>7 DEF Starts, NextTurn
<1> HIDE DEF entry
<1>7. poll' \in [Polled -> PeerPolls] /\ \A q \in Polled : q # p => poll'[q] = poll[q]
  BY <1>1, <1>2, <1>4, <1>6
<1>8. woken_turn' \in BOOLEAN /\ poll'[p].in = poll[p].in
  BY <1>1, <1>2, <1>4, <1>6
<1>9. passed' \in [Polled -> Turns]
  <2> HIDE DEF skipped, take_woken
  <2>1. \A turns \in Turns : /\ [turns EXCEPT !.woken = @ + 1] \in Turns
                            /\ [turns EXCEPT !.overdue = @ + 1] \in Turns
    BY DEF Turns
  <2>2. NoTurns \in Turns
    BY DEF NoTurns, Turns
  <2> QED
    BY <1>1, <1>2, <2>1, <2>2
<1>10. PollTypeOK'
  BY <1>1, <1>5, <1>7, <1>8, <1>9 DEF PollInv, PollTypeOK
<1>11. OwedInv'
  <2>1. CASE skipped
    BY <1>1, <2>1 DEF PollInv, OwedInv
  <2>2. CASE ~skipped
    <3>1. poll'[p].woken = FALSE /\ owed' = owed \ {p}
      BY <1>2, <1>4, <1>6, <2>2
    <3>2. \A q \in owed' : q \in owed /\ q \in Polled /\ poll'[q] = poll[q]
      BY <1>7, <3>1 DEF PollInv, PollTypeOK, OwedInv
    <3> HIDE DEF skipped, rest
    <3>3. \A q \in owed' : q \in listed' /\ (q \in waker'.woken \/ poll'[q].woken)
      BY <1>1, <3>2 DEF PollInv, OwedInv
    <3> QED
      BY <1>7, <3>1, <3>3 DEF PollInv, OwedInv
  <2> QED
    BY <2>1, <2>2
\* Who may start when a poll has been launched could have before.
<1>12. ASSUME NEW q \in Polled, Ready(poll, q)'
       PROVE  /\ Ready(poll, q) /\ Ready(poll', q) /\ InTurn(q)
              /\ poll'[q] = poll[q] /\ (~skipped => q # p)
  <2>1. Ready(poll', q)
    BY <1>1, <1>12 DEF Ready, stretched_slots_free
  <2>2. CASE skipped
    BY <1>1, <2>1, <2>2 DEF PollInv, TurnsInv
  <2>3. CASE ~skipped
    <3>1. poll'[p].ends > 0 /\ poll'[p].timeout_streak = poll[p].timeout_streak /\ q # p
      BY <1>2, <1>4, <1>6, <2>1, <2>3 DEF Ready
    <3>2. \A x \in Polled : poll[x].ends > 0 /\ Stretched(poll[x])
                           => poll'[x].ends > 0 /\ Stretched(poll'[x])
      BY <1>7, <3>1
    <3>3. poll[q] = poll'[q]
      BY <1>7, <3>1
    <3>4. Ready(poll, q)
      BY <1>2, <1>7, <2>1, <3>2, <3>3, StillReady
    <3> QED
      BY <2>1, <3>1, <3>3, <3>4 DEF PollInv, TurnsInv
  <2> QED
    BY <2>2, <2>3
\* Nobody of a kind is left waiting where a peer of the other kind is taken out of turn,
\* unless one was skipped and the others have no place.
<1>13. ASSUME NEW q \in Polled, Ready(poll, q)', ~CutOff(q)' PROVE Line(q) # <<>>
  <2> SUFFICES ASSUME Line(q) = <<>> PROVE FALSE
    OBVIOUS
  <2>1. poll'[q].woken = poll[q].woken /\ Ready(poll, q)
    BY <1>12, <1>13
  <2>2. Line(q)' = <<>>
    BY <1>3, <1>5, <2>1 DEF Line, row
  <2>3. ~due'.skipped
    BY <1>13, <2>2 DEF CutOff
  <2>4. ~due.skipped
    BY <1>5, <2>3
  <2>5. ~(\E i \in DOMAIN Line(q) : Line(q)[i] = q) /\ Len(Line(q)) = 0
    OBVIOUS
  <2> QED
    BY <1>1, <1>2, <2>1, <2>4, <2>5 DEF PollInv, PlaceInv
<1>14. TurnsInv'
  <2> SUFFICES ASSUME NEW q \in Polled
               PROVE  IF Ready(poll, q)' THEN InTurn(q)' ELSE passed'[q] = NoTurns
    BY DEF TurnsInv
  <2>1. Ready(poll, q)' <=> Ready(poll', q)
    BY <1>1 DEF Ready, stretched_slots_free
  <2>2. CASE ~Ready(poll, q)' \/ CutOff(q)'
    <3>1. passed'[q] = NoTurns
      BY <1>1, <2>1, <2>2
    <3> QED
      BY <3>1 DEF InTurn, NoTurns
  <2>3. CASE Ready(poll, q)' /\ ~CutOff(q)'
    <3> HIDE DEF skipped, rest
    <3>1. InTurn(q) /\ poll'[q].woken = poll[q].woken /\ Line(q) # <<>> /\ passed[q] \in Turns
      BY <1>2, <1>12, <1>13, <2>3
    <3>2. passed'[q] = IF skipped THEN passed[q]
                       ELSE IF take_woken THEN [passed[q] EXCEPT !.woken = @ + 1]
                       ELSE [passed[q] EXCEPT !.overdue = @ + 1]
      BY <1>1, <2>1, <2>3
    <3>3. CASE skipped
      <4>1. woken_turn' = woken_turn /\ passed'[q] = passed[q]
        BY <1>1, <3>2, <3>3
      <4> QED
        BY <2>3, <3>1, <4>1 DEF InTurn
    <3>4. CASE ~skipped
      <4>1. woken_turn' = ~take_woken
        BY <1>6, <3>4
      <4>2. CASE take_woken
        <5>1. /\ passed'[q].woken = passed[q].woken + 1 /\ passed'[q].overdue = passed[q].overdue
              /\ passed[q].woken \in Nat /\ passed[q].overdue \in Nat
          BY <3>1, <3>2, <3>4, <4>2 DEF Turns
        <5>2. ~poll[q].woken => woken_turn
          BY <3>1, <4>2 DEF Line
        <5>3. woken_turn' = FALSE
          BY <4>1, <4>2
        <5> QED
          BY <2>3, <3>1, <5>1, <5>2, <5>3 DEF InTurn
      <4>3. CASE ~take_woken
        <5>1. /\ passed'[q].overdue = passed[q].overdue + 1 /\ passed'[q].woken = passed[q].woken
              /\ passed[q].woken \in Nat /\ passed[q].overdue \in Nat
          BY <3>1, <3>2, <3>4, <4>3 DEF Turns
        <5>2. poll[q].woken => ~woken_turn
          BY <3>1, <4>3 DEF Line
        <5>3. woken_turn' = TRUE
          BY <4>1, <4>3
        <5> QED
          BY <2>3, <3>1, <5>1, <5>2, <5>3 DEF InTurn
      <4> QED
        BY <4>2, <4>3
    <3> QED
      BY <3>3, <3>4
  <2> QED
    BY <2>2, <2>3
<1>15. PlaceInv'
  <2> SUFFICES ASSUME ~due'.skipped, NEW q \in Polled, Ready(poll, q)'
               PROVE  (\E i \in DOMAIN Line(q)' : Line(q)'[i] = q) \/ Len(Line(q)') >= due'.free
    BY DEF PlaceInv
  <2>1. ~skipped /\ ~due.skipped /\ due'.free = due.free - 1
    BY <1>5
  <2>2. Ready(poll, q) /\ poll'[q].woken = poll[q].woken /\ q # p
    BY <1>12, <2>1
  <2>3. (\E i \in DOMAIN Line(q) : Line(q)[i] = q) \/ Len(Line(q)) >= due.free
    BY <1>1, <2>1, <2>2 DEF PollInv, PlaceInv
  <2>4. (Line(q) = row /\ Line(q)' = Tail(row)) \/ Line(q)' = Line(q)
    BY <1>5, <2>2 DEF Line, row
  <2> HIDE DEF skipped, rest, take_woken
  <2>5. CASE Line(q) = row /\ Line(q)' = Tail(row)
    <3>1. CASE \E i \in DOMAIN row : row[i] = q
      BY <1>4, <2>2, <2>5, <3>1
    <3>2. CASE Len(row) >= due.free
      <4>1. Len(Tail(row)) >= due.free - 1
        BY <1>2, <1>4, <3>2
      <4> QED
        BY <2>1, <2>5, <4>1
    <3> QED
      BY <2>3, <2>5, <3>1, <3>2
  <2>6. CASE Line(q)' = Line(q)
    <3>1. Len(Line(q)) \in Nat
      BY <1>2 DEF Line
    <3> QED
      BY <1>2, <2>1, <2>3, <2>6, <3>1
  <2> QED
    BY <2>4, <2>5, <2>6
<1> QED
  BY <1>10, <1>11, <1>14, <1>15 DEF PollInv

\* While the loop rests, no peer that may start is due.
LEMMA NobodyWaits ==
  ASSUME PollInv, Rests, Cardinality(in_flight) < max_in_flight, NEW p \in Polled
  PROVE  ~Ready(poll, p)
<1> DEFINE blocked == stretched_slots_free(poll) = 0
           waiting == {q \in Polled : poll[q].in /\ poll[q].ends = 0 /\ ~(blocked /\ Stretched(poll[q]))}
           dues == {poll[q].due : q \in waiting}
           T == dues \cup {refresh.at}
           f == [q \in waiting |-> poll[q].due]
<1>1. \A q \in Polled : poll[q].due \in Nat
  BY DEF PollInv, PollTypeOK, PeerPolls
<1>2. IsFiniteSet(dues)
  <2>1. IsFiniteSet(waiting)
    BY PollAssumption, FS_Subset
  <2>2. f \in Surjection(waiting, dues)
    BY DEF Surjection
  <2> QED
    BY <2>1, <2>2, FS_Surjection
<1>3. T \in SUBSET Nat /\ IsFiniteSet(T) /\ T # {}
  <2>1. IsFiniteSet({refresh.at})
    BY FS_Singleton
  <2>2. IsFiniteSet(T)
    BY <1>2, <2>1, FS_Union
  <2>3. dues \in SUBSET Nat /\ refresh.at \in Nat
    BY <1>1 DEF PollInv, PollTypeOK
  <2> QED
    BY <2>2, <2>3
<1>4. wake_at = CHOOSE t \in T : \A u \in T : t <= u
  BY DEF wake_at
<1>5. \A u \in T : wake_at <= u
  BY <1>3, <1>4, LeastOf
<1>6. instant < wake_at /\ instant \in Nat
  BY DEF Rests, PollInv, PollTypeOK
<1>7. wake_at \in Nat
  BY <1>3, <1>4, LeastOf
<1> SUFFICES ASSUME Ready(poll, p) PROVE FALSE
  OBVIOUS
<1>8. p \in waiting /\ poll[p].due <= instant
  BY DEF Ready
<1>9. poll[p].due \in T
  BY <1>8
<1> HIDE DEF T, waiting
<1>10. wake_at <= poll[p].due
  BY <1>5, <1>9
<1>11. poll[p].due \in Nat
  BY <1>1
<1> QED
  BY <1>6, <1>7, <1>8, <1>10, <1>11

\* However peers are woken, evicted and polled, and whenever the caller is away, a doorbell
\* is followed by a poll, neither kind of peer passes the other by, and no slot stays free
\* while a peer that may start is due (poll.rs, launch and recv).
THEOREM PeersTakeTurns == PollSpec => []EveryPeerHasItsTurn
<1>1. PollInv /\ [PollNext]_pollVars => PollInv'
  <2> SUFFICES ASSUME PollInv, [PollNext]_pollVars PROVE PollInv'
    OBVIOUS
  <2>1. CASE UNCHANGED pollVars
    <3>1. PollTypeOK' /\ OwedInv'
      BY <2>1 DEF pollVars, PollInv, PollTypeOK, OwedInv
    <3>2. PlaceInv'
      BY <2>1 DEF pollVars, PollInv, PlaceInv, Line, Ready, stretched_slots_free
    <3> QED
      BY <2>1, <3>1, <3>2, TurnsKept DEF pollVars, PollInv
  <2> QED
    BY <2>1, OthersKeepPoll, InstantKeepsPoll, CompleteKeepsPoll, TurnKeepsPoll, LaunchKeepsPoll
       DEF PollNext
<1>2. PollInv => EveryPeerHasItsTurn
  <2> SUFFICES ASSUME PollInv PROVE EveryPeerHasItsTurn
    OBVIOUS
  <2>1. \A p \in owed : p \in waker.woken \/ poll[p].woken
    BY DEF PollInv, OwedInv
  <2>2. ASSUME NEW p \in Polled, Ready(poll, p)
        PROVE  IF poll[p].woken THEN passed[p].overdue <= passed[p].woken + 1
               ELSE passed[p].woken <= passed[p].overdue + 1
    <3>1. InTurn(p) /\ passed[p] \in Turns
      BY <2>2 DEF PollInv, PollTypeOK, TurnsInv
    <3> QED
      BY <3>1 DEF InTurn, Turns
  <2> QED
    BY <2>1, <2>2, NobodyWaits DEF EveryPeerHasItsTurn
<1> QED
  BY PollStarts, <1>1, <1>2, PTL DEF PollSpec
=============================================================================
