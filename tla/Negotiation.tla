---------------------------- MODULE Negotiation ----------------------------
(***************************************************************************)
(* How a client comes by its swaps with one provider: the run of the        *)
(* client's program (recover_pending, resume, maintenance aside, then one   *)
(* new negotiation), the Negotiator's exchange over a direct stream and     *)
(* over DMs, creation, the recovery of a creation that may have gone        *)
(* through, the DM channel's inbox and receipts, and the record's steps     *)
(* towards execution, against a provider that admits swaps.                 *)
(*                                                                          *)
(* A swap is named by its quote.  Execution is one step, Resume or Execute; *)
(* ReverseClient and SubmarineClient are what it stands for.  The saved     *)
(* request is written once with the record, so it has no field of its own.  *)
(* MaxFaults bounds crashes, failed writes, broken streams, lost answers    *)
(* and a provider that changes its answer together.                         *)
(***************************************************************************)
EXTENDS Naturals, FiniteSets

CONSTANTS
  Quotes,     \* quotes the client may ask for, one after another
  Modes,      \* Negotiation settings the client may have: "auto", "iroh", "dm"
  MaxFaults   \* bound: faults in one behaviour

ASSUME NegotiationAssumption ==
  /\ IsFiniteSet(Quotes) /\ Quotes # {} /\ MaxFaults \in Nat
  /\ Modes \subseteq {"auto", "iroh", "dm"} /\ Modes # {}

VARIABLES
  disk,     \* per quote: the client's record
  age,      \* per quote: 0, 1 once it has expired, 2 once an acceptance of it
            \* leaves no time to execute
  mode,     \* the client's transport setting
  pc,       \* the run's position, "off" between runs
  job,      \* what the run is doing: its swap, whether the run began it or
            \* found it, whether its creation is a replay, what it sent, how
            \* often, and what came back
  todo,     \* records recover_pending has not come to yet
  preferred,\* the direct channel has not been found unavailable in this run
  line,     \* the direct stream: "idle", "sent", "working", "lost" or the answer
  mailbox,  \* DM replies the provider has published and nobody has fetched
  held,     \* DM replies in the client's receive journal, not acknowledged
  swap,     \* per quote, at the provider: "none", "admitting" in a handler,
            \* "pending" once its intent is on disk, "created"
  spent,    \* quotes a creation has redeemed
  orphans,  \* creation requests of broken streams, not yet handled
  posted,   \* per quote: the creation request as a DM resource: "none",
            \* "posted", "working" or "handled"
  asked,    \* status queries sent as DMs and not answered yet
  told,     \* quotes whose creation was refused to the caller for good
  faults

clientVars == <<disk, mode, pc, job, todo, preferred, told>>
mailVars == <<mailbox, held, posted, asked>>
providerVars == <<swap, spent, orphans>>
vars == <<age, clientVars, line, mailVars, providerVars, faults>>

-----------------------------------------------------------------------------
Terms == {"agreed", "changed"}

\* "internal": the start failed, maybe after its intent was saved.
Refusals == {"refused", "internal", "pending"}
\* not_found and pending are answers to believe once the window is over.
StatusRefusals == {"not_found", "denied"}

Replies == [kind : {"accept", "snapshot"}, quote : Quotes, value : Terms,
            fresh : BOOLEAN]
           \cup [kind : {"reject"}, quote : Quotes, value : Refusals,
                 fresh : BOOLEAN]
           \cup [kind : {"status"}, quote : Quotes, value : StatusRefusals,
                 fresh : BOOLEAN]

Stream(kind) == [kind |-> kind]
Reply(kind, q, value) == [kind |-> kind, quote |-> q, value |-> value, fresh |-> TRUE]

NoRecord == [state |-> "none", started |-> FALSE, accept |-> "none",
             ready |-> FALSE]
Records == [state : {"none", "open", "expired", "done"}, started : BOOLEAN,
            accept : Terms \cup {"none"}, ready : BOOLEAN]

None == "none"
Idle == [quote |-> None, new |-> FALSE, replay |-> FALSE, req |-> "create",
         attempt |-> 1, uncertain |-> FALSE, accept |-> "none",
         receipts |-> {}]

Open == {q \in Quotes : disk[q].state = "open"}
Unready == {q \in Open : ~disk[q].ready}

Init ==
  /\ disk = [q \in Quotes |-> NoRecord] /\ age = [q \in Quotes |-> 0]
  /\ mode \in Modes /\ pc = "off" /\ job = Idle /\ todo = {}
  /\ preferred = TRUE /\ line = Stream("idle") /\ mailbox = {} /\ held = {}
  /\ swap = [q \in Quotes |-> "none"] /\ spent = {} /\ orphans = {}
  /\ posted = [q \in Quotes |-> "none"] /\ asked = {}
  /\ told = {} /\ faults = 0

Fault == faults < MaxFaults /\ faults' = faults + 1
NoFault == UNCHANGED faults

\* The run goes to a step of the swap in hand with what it now knows of it.
Goto(step, known) == pc' = step /\ job' = known

\* The stream is dropped; a creation on it may still be handled.
HangUp ==
  /\ line' = Stream("idle")
  /\ orphans' = IF line.kind = "sent" /\ job.req = "create"
                THEN orphans \cup {job.quote} ELSE orphans

\* This swap cannot be settled now: a recovery goes on to the next record, a
\* new negotiation ends the run with an error.
GiveUp == Goto(IF job.new THEN "off" ELSE "recover", Idle)

-----------------------------------------------------------------------------
(* 1. run: recover_pending, resume, and one new negotiation.               *)

StartRun ==
  /\ pc = "off" /\ UNCHANGED mode
  /\ Goto("recover", Idle) /\ todo' = Unready
  /\ preferred' = TRUE /\ line' = Stream("idle")
  /\ UNCHANGED <<age, disk, told, mailVars, providerVars, faults>>

NeverSent(q) == ~disk[q].started /\ disk[q].accept = "none"

\* An expired quote that was never sent is retired.
RetireExpired(q) ==
  /\ pc = "recover" /\ q \in todo /\ NeverSent(q) /\ age[q] > 0
  /\ todo' = todo \ {q}
  /\ disk' = [disk EXCEPT ![q].state = "expired"]
  /\ UNCHANGED <<age, mode, pc, job, preferred, told, line, mailVars,
                 providerVars, faults>>

\* recover_one: a saved acceptance is validated again, anything else replayed.
RecoverOne(q) ==
  /\ pc = "recover" /\ q \in todo /\ ~(NeverSent(q) /\ age[q] > 0)
  /\ todo' = todo \ {q}
  /\ Goto(IF disk[q].accept # "none" THEN "validate" ELSE "begin",
          [Idle EXCEPT !.quote = q, !.accept = disk[q].accept])
  /\ UNCHANGED <<age, disk, mode, preferred, told, line, mailVars,
                 providerVars, faults>>

\* Every record that is ready is driven to its end, unless something fails.
ResumeUnfinished ==
  /\ pc = "recover" /\ todo = {} /\ Goto("check", Idle)
  /\ \/ disk' = [q \in Quotes |-> IF q \in Open \ Unready
                                  THEN [disk[q] EXCEPT !.state = "done"]
                                  ELSE disk[q]]
        /\ NoFault
     \/ Fault /\ UNCHANGED disk
  /\ UNCHANGED <<age, mode, todo, preferred, told, line, mailVars, providerVars>>

\* Mutant: a creation that could not be recovered does not stop a new one.
Negotiate_Unresolved(q) ==
  /\ pc = "check" /\ disk[q].state = "none"
  /\ disk' = [disk EXCEPT ![q].state = "open"]
  /\ Goto("begin", [Idle EXCEPT !.quote = q, !.new = TRUE])
  /\ UNCHANGED <<age, mode, todo, preferred, told, line, mailVars,
                 providerVars, faults>>

\* Nothing may be left unfinished; then a quote, and the complete intent.
Negotiate(q) ==
  /\ pc = "check" /\ Open = {} /\ disk[q].state = "none"
  /\ disk' = [disk EXCEPT ![q].state = "open"]
  /\ Goto("begin", [Idle EXCEPT !.quote = q, !.new = TRUE])
  /\ UNCHANGED <<age, mode, todo, preferred, told, line, mailVars,
                 providerVars, faults>>

\* Unfinished swaps, nothing to ask for, or no quote to be had.
EndRun ==
  /\ pc = "check" /\ Goto("off", Idle)
  /\ IF Open = {} /\ \E q \in Quotes : disk[q].state = "none"
     THEN Fault ELSE NoFault
  /\ UNCHANGED <<age, disk, mode, todo, preferred, told, line, mailVars,
                 providerVars>>

Crash ==
  /\ pc # "off" /\ Fault /\ Goto("off", Idle)
  /\ HangUp
  /\ UNCHANGED <<age, disk, mode, todo, preferred, told, mailVars, swap, spent>>

-----------------------------------------------------------------------------
(* 2. Creation: create, recover_creation and recover.                      *)

\* record_creation_started: on disk before the request goes anywhere.
record_creation_started ==
  LET q == job.quote IN
  /\ pc = "begin"
  /\ \/ /\ disk' = [disk EXCEPT ![q].started = TRUE] /\ NoFault
        /\ Goto("exchange", [job EXCEPT !.replay = disk[q].started])
     \/ Fault /\ GiveUp /\ UNCHANGED disk
  /\ UNCHANGED <<age, mode, todo, preferred, told, line, mailVars, providerVars>>

\* What create, recover_creation and recover make of the answer to their
\* exchange.  A definite refusal of a first creation is believed.
Accepted(terms, receipts) ==
  /\ Goto("save", [job EXCEPT !.accept = terms, !.receipts = receipts])
  /\ UNCHANGED told

\* Mutant: a refusal is believed although an earlier attempt may have arrived.
Refused_Certain(value) ==
  IF job.req = "create" /\ ~job.replay /\ value # "pending"
  THEN /\ GiveUp
       /\ told' = IF value = "refused" THEN told \cup {job.quote} ELSE told
  ELSE /\ Goto("query", job) /\ UNCHANGED told

Refused(value) ==
  IF job.req = "create" /\ ~job.replay /\ ~job.uncertain /\ value # "pending"
  THEN /\ GiveUp
       /\ told' = IF value = "refused" THEN told \cup {job.quote} ELSE told
  ELSE IF value = "denied" THEN GiveUp /\ UNCHANGED told
  ELSE Goto("query", job) /\ UNCHANGED told

\* No reply: a creation that surely was not sent fails, all else is looked up.
Unanswered ==
  /\ IF job.req = "create" /\ ~job.replay /\ ~job.uncertain THEN GiveUp
     ELSE Goto("query", job)
  /\ UNCHANGED told

Stale(S) == {[r EXCEPT !.fresh = FALSE] : r \in S}

\* recover asks anew; answers to earlier queries are no longer the answer.
QueryStatus ==
  /\ pc = "query"
  /\ Goto("exchange", [job EXCEPT !.req = "status", !.attempt = 1,
                                  !.uncertain = FALSE])
  /\ preferred' = TRUE
  /\ mailbox' = Stale(mailbox) /\ held' = Stale(held) /\ asked' = Stale(asked)
  /\ UNCHANGED <<age, disk, mode, todo, told, line, posted,
                 providerVars, faults>>

\* RECOVERY_WINDOW, or the deadline of the whole negotiation, has passed.  It
\* leaves time for one answered query unless something is at fault.
WindowPasses ==
  /\ GiveUp /\ HangUp
  /\ \/ pc = "query" /\ job.req = "status" /\ NoFault
     \/ pc \in {"direct", "dm"} /\ Fault
  /\ UNCHANGED <<age, disk, mode, todo, preferred, told, mailVars, swap, spent>>

-----------------------------------------------------------------------------
(* 3. The Negotiator's exchange.                                           *)

UsesDirect == mode # "dm" /\ preferred /\ job.attempt <= 2
UsesDm == mode # "iroh"

SendDirect ==
  /\ pc = "exchange" /\ UsesDirect /\ Goto("direct", job) /\ line' = Stream("sent")
  /\ UNCHANGED <<age, disk, mode, todo, preferred, told, mailVars,
                 providerVars, faults>>

\* Refused before anything was sent: not tried again in this run.
DirectNotSent ==
  /\ pc = "exchange" /\ UsesDirect /\ Fault /\ preferred' = FALSE
  /\ UNCHANGED <<age, disk, mode, pc, job, todo, told, line, mailVars,
                 providerVars>>

DirectAnswer ==
  /\ pc = "direct" /\ line \in Replies /\ line' = Stream("idle")
  /\ IF line.kind \in {"accept", "snapshot"} THEN Accepted(line.value, {})
     ELSE Refused(line.value)
  /\ UNCHANGED <<age, disk, mode, todo, preferred, mailVars, providerVars,
                 faults>>

\* The stream breaks or its answer cannot be read: one resend, then DMs.
DirectUncertain ==
  /\ pc = "direct" /\ HangUp
  /\ IF line.kind = "lost" THEN NoFault ELSE Fault
  /\ Goto("exchange", [job EXCEPT !.attempt = @ + 1, !.uncertain = TRUE])
  /\ UNCHANGED <<age, disk, mode, todo, preferred, told, mailVars, swap, spent>>

NoChannel ==
  /\ pc = "exchange" /\ ~UsesDirect /\ ~UsesDm /\ Unanswered
  /\ UNCHANGED <<age, disk, mode, todo, preferred, line, mailVars,
                 providerVars, faults>>

\* send_with_scope: the same creation is the same resource, sent once.
SendDm ==
  /\ pc = "exchange" /\ ~UsesDirect /\ UsesDm /\ Goto("dm", job)
  /\ IF job.req = "status" THEN /\ asked' = asked \cup {[quote |-> job.quote, fresh |-> TRUE]}
          /\ UNCHANGED posted
     ELSE /\ posted' = [posted EXCEPT ![job.quote] =
                          IF @ = "none" THEN "posted" ELSE @]
          /\ UNCHANGED asked
  /\ UNCHANGED <<age, disk, mode, todo, preferred, told, line, mailbox, held,
                 providerVars, faults>>

ReadOnly(r) == r.kind \in {"reject", "status"}

\* Mutant: a creation is answered by an acceptance only.
Matches_OwnKind(r) ==
  /\ r.quote = job.quote
  /\ IF job.req = "create" THEN r.kind \in {"accept", "reject"}
     ELSE r.kind \in {"snapshot", "status"} /\ r.fresh

\* An earlier status reply can recover this exact creation after a crash.
Matches(r) ==
  /\ r.quote = job.quote
  /\ IF job.req = "create" THEN r.kind \in {"accept", "reject", "snapshot"}
     ELSE r.kind \in {"snapshot", "status"} /\ r.fresh

recorded_acceptance(r) ==
  r.kind \in {"accept", "snapshot"} /\ disk[r.quote].accept = r.value

\* Pending work is delivered before anything new is looked for.
Batch == IF held # {} THEN held ELSE mailbox
Matched == {r \in Batch : Matches(r)}
Creations(S) == {r \in S : ~ReadOnly(r)}

\* Receipts acknowledged on the spot: read-only replies, and an acceptance that
\* is on record already.
Settled == {r \in Batch : ReadOnly(r)
                            \/ (~Matches(r) /\ recorded_acceptance(r))}

\* One pass over the inbox.  A creation reply nobody asked for is never
\* discarded: the exchange fails, and the reply stays.
DmPoll ==
  /\ pc = "dm" /\ Batch # {}
  /\ held' = Batch \ Settled
  /\ mailbox' = IF held # {} THEN mailbox ELSE {}
  /\ \/ \E a \in Creations(Matched) :
          /\ \A b \in Creations(Matched) : b.value = a.value
          /\ Accepted(a.value, Creations(Matched))
     \/ /\ Creations(Matched) = {}
        /\ \E r \in Matched : Refused(r.value)
     \/ /\ Cardinality({r.value : r \in Creations(Matched)}) > 1
        /\ Goto("query", job) /\ UNCHANGED told
     \/ /\ Matched = {} /\ held' # {}
        /\ Goto("query", job) /\ UNCHANGED told
     \/ /\ Matched = {} /\ held' = {} /\ UNCHANGED <<pc, job, told>>
  /\ UNCHANGED <<age, disk, mode, todo, preferred, line, posted, asked,
                 providerVars, faults>>

\* The reply timeout.  It is no fault where no reply is on its way.
DmTimeout ==
  /\ pc = "dm" /\ Goto("query", job)
  /\ IF job.req = "create" /\ posted[job.quote] = "handled" /\ Matched = {}
     THEN NoFault ELSE Fault
  /\ UNCHANGED <<age, disk, mode, todo, preferred, told, line, mailVars,
                 providerVars>>

-----------------------------------------------------------------------------
(* 4. The acceptance.                                                      *)

\* The complete reply is saved before its receipt is acknowledged; a saved
\* acceptance does not change.
record_creation_reply ==
  LET q == job.quote IN
  /\ pc = "save"
  /\ \/ /\ disk[q].accept \in {"none", job.accept}
        /\ disk' = [disk EXCEPT ![q].accept = job.accept]
        /\ Goto("ack", job) /\ NoFault
     \/ /\ disk[q].accept \notin {"none", job.accept}
        /\ GiveUp /\ UNCHANGED disk /\ NoFault
     \/ Fault /\ GiveUp /\ UNCHANGED disk
  /\ UNCHANGED <<age, mode, todo, preferred, told, line, mailVars, providerVars>>

Acknowledge ==
  /\ pc = "ack"
  /\ \/ /\ held' = held \ job.receipts
        /\ Goto("validate", job) /\ NoFault
     \/ Fault /\ GiveUp /\ UNCHANGED held
  /\ UNCHANGED <<age, disk, mode, todo, preferred, told, line, mailbox, posted,
                 asked, providerVars>>

\* The contract, the invoice and the time left are checked, then record_accept.
ValidateAndReady ==
  LET q == job.quote IN
  /\ pc = "validate"
  /\ IF job.accept = "agreed" /\ age[q] < 2
     THEN \/ /\ disk' = [disk EXCEPT ![q].ready = TRUE] /\ NoFault
             /\ Goto(IF job.new THEN "execute" ELSE "recover",
                     IF job.new THEN job ELSE Idle)
          \/ Fault /\ GiveUp /\ UNCHANGED disk
     ELSE GiveUp /\ UNCHANGED disk /\ NoFault
  /\ UNCHANGED <<age, mode, todo, preferred, told, line, mailVars, providerVars>>

\* The driver runs the swap to its end, or fails and leaves the record.
Execute ==
  /\ pc = "execute" /\ Goto("off", Idle)
  /\ \/ disk' = [disk EXCEPT ![job.quote].state = "done"] /\ NoFault
     \/ Fault /\ UNCHANGED disk
  /\ UNCHANGED <<age, mode, todo, preferred, told, line, mailVars, providerVars>>

-----------------------------------------------------------------------------
(* 5. The provider and the clock.                                          *)

\* How an honest provider answers, and, as a fault, a changed acceptance.
Answer(q, kind) ==
  {Reply(kind, q, "agreed")}
    \cup (IF faults < MaxFaults THEN {Reply(kind, q, "changed")} ELSE {})
Charge(r) == IF r.value \in {"changed", "denied"} THEN Fault ELSE NoFault

\* A creation request is replayed or refused at once, or admitted.  A refusal,
\* for want of capacity, say, does not spend the quote.
Decision(q) ==
  CASE swap[q] = "created" -> Answer(q, "accept")
    [] swap[q] \in {"admitting", "pending"} -> {Reply("reject", q, "pending")}
    [] OTHER -> {Reply("reject", q, "refused")}

Admit(q) ==
  /\ swap[q] = "none" /\ q \notin spent /\ age[q] = 0
  /\ swap' = [swap EXCEPT ![q] = "admitting"] /\ spent' = spent \cup {q}

HandleDirect ==
  /\ line.kind = "sent" /\ job.req = "create"
  /\ \/ \E r \in Decision(job.quote) :
          line' = r /\ Charge(r) /\ UNCHANGED <<swap, spent>>
     \/ Admit(job.quote) /\ line' = Stream("working") /\ NoFault
  /\ UNCHANGED <<age, clientVars, mailVars, orphans>>

HandleDm(q) ==
  /\ posted[q] = "posted"
  /\ \/ \E r \in Decision(q) :
          /\ mailbox' = mailbox \cup {r} /\ Charge(r)
          /\ posted' = [posted EXCEPT ![q] = "handled"]
          /\ UNCHANGED <<swap, spent>>
     \/ /\ Admit(q) /\ NoFault
        /\ posted' = [posted EXCEPT ![q] = "working"] /\ UNCHANGED mailbox
  /\ UNCHANGED <<age, clientVars, line, held, asked, orphans>>

\* A request whose stream has gone is handled all the same, or dropped.
HandleOrphan(q) ==
  /\ q \in orphans /\ orphans' = orphans \ {q}
  /\ Admit(q) \/ UNCHANGED <<swap, spent>>
  /\ UNCHANGED <<age, clientVars, line, mailVars, faults>>

\* Whoever waits for the admission of q is answered.
Notify(q, r) ==
  /\ line' = IF line.kind = "working" /\ job.quote = q THEN r ELSE line
  /\ IF posted[q] = "working"
     THEN /\ mailbox' = mailbox \cup {r}
          /\ posted' = [posted EXCEPT ![q] = "handled"]
     ELSE UNCHANGED <<mailbox, posted>>

PersistIntent(q) ==
  /\ swap[q] = "admitting" /\ swap' = [swap EXCEPT ![q] = "pending"]
  /\ UNCHANGED <<age, clientVars, line, mailVars, spent, orphans, faults>>

\* The admission is completed by its handler, or after a restart.
CompleteAdmission(q) ==
  /\ swap[q] = "pending" /\ swap' = [swap EXCEPT ![q] = "created"]
  /\ Notify(q, Reply("accept", q, "agreed"))
  /\ UNCHANGED <<age, clientVars, held, asked, spent, orphans, faults>>

\* The start fails: before the intent is saved nothing is left of it, after
\* that the intent stays, to be completed later.
AdmissionFails(q) ==
  /\ Fault /\ swap[q] \in {"admitting", "pending"}
  /\ swap' = [swap EXCEPT ![q] = IF @ = "admitting" THEN "none" ELSE @]
  /\ Notify(q, Reply("reject", q, "internal"))
  /\ UNCHANGED <<age, clientVars, held, asked, spent, orphans>>

\* The answers to a status query by quote; "denied" when it fails to answer.
StatusAnswers(q) ==
  (IF swap[q] = "created" THEN Answer(q, "snapshot")
   ELSE {Reply("status", q, "not_found")})
  \cup (IF faults < MaxFaults THEN {Reply("status", q, "denied")} ELSE {})

StatusDirect ==
  /\ line.kind = "sent" /\ job.req = "status"
  /\ \E r \in StatusAnswers(job.quote) : line' = r /\ Charge(r)
  /\ UNCHANGED <<age, clientVars, mailVars, providerVars>>

StatusDm(a) ==
  /\ a \in asked /\ asked' = asked \ {a}
  /\ \E r \in StatusAnswers(a.quote) :
        mailbox' = mailbox \cup {[r EXCEPT !.fresh = a.fresh]} /\ Charge(r)
  /\ UNCHANGED <<age, clientVars, line, held, posted, providerVars>>

\* The process stops and starts: quotes are forgotten, an admission that is not
\* on disk is gone, streams break, and a DM not settled is delivered again.
ProviderRestart ==
  /\ Fault
  /\ swap' = [q \in Quotes |-> IF swap[q] = "admitting" THEN "none" ELSE swap[q]]
  /\ spent' = spent \cup {q \in Quotes : disk[q].state # "none"}
  /\ line' = IF line.kind = "idle" THEN line ELSE Stream("lost")
  /\ orphans' = {}
  /\ posted' = [q \in Quotes |-> IF posted[q] = "working" THEN "posted"
                                 ELSE posted[q]]
  /\ UNCHANGED <<age, clientVars, mailbox, held, asked>>

Age(q) ==
  /\ disk[q].state = "open" /\ age[q] < 2 /\ age' = [age EXCEPT ![q] = @ + 1]
  /\ UNCHANGED <<clientVars, line, mailVars, providerVars, faults>>

-----------------------------------------------------------------------------
Run ==
  \/ StartRun \/ ResumeUnfinished \/ EndRun \/ Crash
  \/ \E q \in Quotes : RetireExpired(q) \/ RecoverOne(q) \/ Negotiate(q)

Creation ==
  \/ record_creation_started \/ QueryStatus \/ WindowPasses
  \/ record_creation_reply \/ Acknowledge \/ ValidateAndReady \/ Execute

Exchange ==
  \/ SendDirect \/ DirectNotSent \/ DirectAnswer \/ DirectUncertain
  \/ NoChannel \/ SendDm \/ DmPoll \/ DmTimeout

Provider ==
  \/ HandleDirect \/ StatusDirect \/ ProviderRestart
  \/ \E a \in asked : StatusDm(a)
  \/ \E q \in Quotes :
       \/ HandleDm(q) \/ HandleOrphan(q) \/ PersistIntent(q)
       \/ CompleteAdmission(q) \/ AdmissionFails(q)

Next == Run \/ Creation \/ Exchange \/ Provider \/ \E q \in Quotes : Age(q)

Spec == Init /\ [][Next]_vars

\* The program runs on and is started again; the deadline of a recovery that
\* asks again and again passes; the provider answers and completes what it
\* began.  Nothing is owed to faults.
Fairness ==
  /\ WF_vars(StartRun \/ ResumeUnfinished \/ EndRun
             \/ \E q \in Quotes : RetireExpired(q) \/ RecoverOne(q))
  /\ SF_vars(\E q \in Quotes : Negotiate(q))
  /\ WF_vars(record_creation_started \/ QueryStatus \/ record_creation_reply
             \/ Acknowledge \/ ValidateAndReady \/ Execute)
  /\ SF_vars(WindowPasses)
  /\ WF_vars(SendDirect \/ DirectAnswer \/ NoChannel \/ SendDm \/ DmPoll)
  /\ WF_vars(DmTimeout) /\ WF_vars(DirectUncertain)
  /\ WF_vars(HandleDirect) /\ WF_vars(StatusDirect)
  /\ WF_vars(\E a \in asked : StatusDm(a))
  /\ \A q \in Quotes : /\ WF_vars(HandleDm(q)) /\ WF_vars(PersistIntent(q))
                       /\ WF_vars(CompleteAdmission(q)) /\ WF_vars(HandleOrphan(q))

FairSpec == Spec /\ Fairness

-----------------------------------------------------------------------------
\* Type invariant; a stream is in use exactly while an exchange waits on it.
TypeOK ==
  /\ disk \in [Quotes -> Records] /\ age \in [Quotes -> 0..2] /\ mode \in Modes
  /\ pc \in {"off", "recover", "check", "begin", "exchange", "direct", "dm",
            "query", "save", "ack", "validate", "execute"}
  /\ job \in [quote : Quotes \cup {None}, new : BOOLEAN, replay : BOOLEAN,
              req : {"create", "status"}, attempt : 1..3, uncertain : BOOLEAN,
              accept : Terms \cup {"none"}, receipts : SUBSET Replies]
  /\ todo \subseteq Quotes /\ preferred \in BOOLEAN
  /\ line \in {Stream(k) : k \in {"idle", "sent", "working", "lost"}} \cup Replies
  /\ (line.kind # "idle") <=> (pc = "direct")
  /\ mailbox \subseteq Replies /\ held \subseteq Replies
  /\ swap \in [Quotes -> {"none", "admitting", "pending", "created"}]
  /\ spent \subseteq Quotes /\ orphans \subseteq Quotes /\ told \subseteq Quotes
  /\ posted \in [Quotes -> {"none", "posted", "working", "handled"}]
  /\ asked \subseteq [quote : Quotes, fresh : BOOLEAN] /\ faults \in 0..MaxFaults

OnItsWay(q) ==
  \/ q \in orphans \/ posted[q] \in {"posted", "working"}
  \/ line.kind \in {"sent", "working"} /\ job.req = "create" /\ job.quote = q

\* However requests, answers and runs are lost or repeated, the provider holds,
\* or can still come to hold, at most one swap the client has not finished.
OneSwapAtATime ==
  Cardinality({q \in Quotes : /\ swap[q] # "none" \/ OnItsWay(q)
                              /\ disk[q].state # "done"}) <= 1

\* A refusal handed to the caller is true: the provider holds no swap for the
\* quote and no request of it is still on its way there.
DeclineIsTrue ==
  [][\A q \in told' \ told : swap'[q] = "none" /\ ~OnItsWay(q)']_vars

\* A swap the provider has created reaches the client's record in the end,
\* unless the provider has sent terms over DMs that differ from those recorded:
\* such a reply is never discarded and holds up every later exchange.
CreatedIsRecorded ==
  \A q \in Quotes :
    swap[q] = "created" ~> \/ disk[q].accept # "none"
                          \/ \E r \in held \cup mailbox : r.value = "changed"
=============================================================================
