------------------------------ MODULE Delivery ------------------------------
(***************************************************************************)
(* The messages a provider owes the peer of one swap, from the outbox's    *)
(* file to the homeserver and back out of both: the foreground sends of    *)
(* handlers and drivers, the delivery worker that keeps retention in step  *)
(* with the swap's record and then runs a batch of publications and        *)
(* deletions, the record pruner that does the first half of that too, and  *)
(* the swap that ends, reopens and ends again meanwhile.                   *)
(*                                                                         *)
(* One action is one step between two awaits or two holds of the         *)
(* outbox's lock, a look at has_dm_history included in the step that     *)
(* acts on it.  A request that fails, is dropped or is cut off by a      *)
(* crash may or may not have taken effect at the homeserver; once given  *)
(* up it does not any more.                                              *)
(* Bounds: MAX_CLOCK, MAX_FAULTS, MAX_REOPENS and FAILURES_UNTIL.        *)
(***************************************************************************)
EXTENDS Outbox, Sequences

CONSTANTS
  Accept, Final,   \* the acceptance and the final reply; the other resources
                   \* are claimable hints
  DeliveryScopes,  \* delivery_scopes: the swap's scopes, in the code's order
  RECOVERY_GRACE,
  Refreshers,      \* the tasks that call refresh_retention: "delivery", and
                   \* "pruner" where it is looked at
  MAX_CLOCK,       \* bound: the last instant
  MAX_FAULTS,      \* bound: failed requests, failed writes, dropped handlers
                   \* and crashes together
  MAX_REOPENS,     \* bound: how often the ended swap is reopened
  FAILURES_UNTIL   \* bound: requests fail before this instant, which leaves
                   \* time for another attempt

ASSUME DeliveryAssumption ==
  /\ Accept \in Resources /\ Final \in Resources /\ Accept # Final
  /\ DeliveryScopes \in Seq(Scopes)
  /\ "delivery" \in Refreshers /\ Refreshers \subseteq {"delivery", "pruner"}
  /\ RECOVERY_GRACE \in Nat /\ MAX_CLOCK \in Nat
  /\ MAX_FAULTS \in Nat /\ MAX_REOPENS \in Nat /\ FAILURES_UNTIL \in Nat

VARIABLES
  clock,
  record,      \* the swap's record in the store: whether it is settled, and
               \* since when (updated_at_unix)
  reopens,
  outbox,      \* State.journal, in memory
  outboxFile,  \* the journal file
  outbox_failed,
  stored,      \* resources at the homeserver
  task,        \* per role and resource: waiting for the resource's lock, its
               \* request sent, or none
  worker,      \* per refresher: its position, the time and the record its pass
               \* began with, and the scopes it has left
  deliveryFaults

outboxVars == <<outbox, outboxFile, outbox_failed>>
swapVars   == <<clock, record, reopens>>
deliveryVars == <<swapVars, outboxVars, stored, task, worker, deliveryFaults>>

\* A sender is a handler or a driver; the other two are the worker's.
Publishers == {"sender", "publisher"}
Roles == Publishers \cup {"cleaner"}

NoTasks == [t \in Roles \X Resources |-> "none"]

Running == [settled |-> FALSE, since |-> 0]

Resting == [at |-> "rest", now |-> 0, seen |-> Running, left |-> <<>>]

AllResting == [w \in Refreshers |-> Resting]

\* The time the delivery worker's batch was begun.
BatchTime == worker["delivery"].now

DeliveryInit ==
  /\ clock = 0 /\ record = Running /\ reopens = 0
  /\ outbox = <<>> /\ outboxFile = <<>> /\ outbox_failed = FALSE
  /\ stored = {} /\ task = NoTasks /\ worker = AllResting /\ deliveryFaults = 0

-----------------------------------------------------------------------------
(* The outbox's file.                                                      *)

\* update: to the disk first.
Saved(new) ==
  /\ ~outbox_failed /\ outbox' = new /\ outboxFile' = new
  /\ UNCHANGED <<outbox_failed, deliveryFaults>>

\* The write fails, before or after its rename.
NotSaved(new) ==
  /\ ~outbox_failed /\ new # outbox /\ deliveryFaults < MAX_FAULTS
  /\ outbox_failed' = TRUE /\ outboxFile' \in {outboxFile, new} /\ UNCHANGED outbox
  /\ deliveryFaults' = deliveryFaults + 1

NotAttempted == outbox_failed /\ UNCHANGED <<outboxVars, deliveryFaults>>

\* The outcome of an update that its caller does not act on.
Attempted(new) == Saved(new) \/ NotSaved(new) \/ NotAttempted

-----------------------------------------------------------------------------
(* The swap.                                                               *)

Tick ==
  /\ clock < MAX_CLOCK /\ clock' = clock + 1
  /\ UNCHANGED <<record, reopens, outboxVars, stored, task, worker, deliveryFaults>>

\* A safe terminal outcome reaches the store; its grace ends within the bound.
Settle ==
  /\ ~record.settled /\ clock + RECOVERY_GRACE <= MAX_CLOCK
  /\ record' = [settled |-> TRUE, since |-> clock]
  /\ UNCHANGED <<clock, reopens, outboxVars, stored, task, worker, deliveryFaults>>

\* A reorg or a recovery makes the swap active again.
Reopen ==
  /\ record.settled /\ reopens < MAX_REOPENS
  /\ record' = Running /\ reopens' = reopens + 1
  /\ UNCHANGED <<clock, outboxVars, stored, task, worker, deliveryFaults>>

has_dm_history ==
  \E i \in DOMAIN DeliveryScopes : has_scope(outbox, DeliveryScopes[i])

\* An acceptance is replayed to whoever asks again; the final reply, once there
\* is one, and the hints go to a peer whose swap began over messages.
MaySend(r) ==
  r = Accept \/ (has_dm_history /\ (r = Final => record.settled))

\* send_with_scope up to the resource's lock.
Send(r) ==
  /\ task[<<"sender", r>>] = "none" /\ ~outbox_failed
  /\ MaySend(r) /\ MayPrepare(outbox, r)
  /\ LET new == Prepared(outbox, r)
     IN \/ Saved(new) /\ task' = [task EXCEPT ![<<"sender", r>>] = "waiting"]
        \/ NotSaved(new) /\ UNCHANGED task
  /\ UNCHANGED <<swapVars, stored, worker>>

-----------------------------------------------------------------------------
(* One request, publish_saved or a deletion of process_outbox.             *)

InFlight(role) == {r \in Resources : task[<<role, r>>] = "sent"}

Unlocked(r) == \A role \in Roles : r \notin InFlight(role)

\* Under the lock the journal is asked again, with the time it is for a
\* publication and with the time the batch was begun for a deletion.
StillWanted_Unchecked(role, r) ==
  /\ ~outbox_failed
  /\ IF role \in Publishers THEN TRUE
                            ELSE can_cleanup(outbox, r, BatchTime)

StillWanted(role, r) ==
  /\ ~outbox_failed
  /\ IF role \in Publishers THEN can_publish(outbox, r, clock)
                            ELSE can_cleanup(outbox, r, BatchTime)

Lock(role, r) ==
  /\ task[<<role, r>>] = "waiting" /\ Unlocked(r)
  /\ role = "sender" \/ worker["delivery"].at = "join"
  /\ task' = [task EXCEPT ![<<role, r>>] = IF StillWanted(role, r) THEN "sent"
                                                               ELSE "none"]
  /\ UNCHANGED <<swapVars, outboxVars, stored, worker, deliveryFaults>>

\* What a request does at the homeserver.
Effect(role, r) == IF role \in Publishers THEN stored \cup {r} ELSE stored \ {r}

\* mark_published or remove_deleted, which refuses what is not due any more.
Concluded(role, r) ==
  IF role \in Publishers
  THEN IF r \in DOMAIN outbox THEN MarkPublished(outbox, r) ELSE outbox
  ELSE IF MayForget(outbox, r, BatchTime) THEN Forget(outbox, r) ELSE outbox

Succeed(role, r) ==
  /\ task[<<role, r>>] = "sent" /\ task' = [task EXCEPT ![<<role, r>>] = "none"]
  /\ stored' = Effect(role, r) /\ Attempted(Concluded(role, r))
  /\ UNCHANGED <<swapVars, worker>>

\* mark_failed or mark_cleanup_failed.
AfterFailure(role, r, retryable) ==
  IF role \in Publishers THEN MarkFailed(outbox, r, clock, retryable)
  ELSE MarkCleanupFailed(outbox, r, BatchTime, retryable)

\* An error or a timeout, whether or not the request took effect; saving that
\* may fail with it.
Fail(role, r) ==
  /\ task[<<role, r>>] = "sent" /\ stored' \in {stored, Effect(role, r)}
  /\ deliveryFaults < MAX_FAULTS /\ clock < FAILURES_UNTIL
  /\ task' = [task EXCEPT ![<<role, r>>] = "none"] /\ deliveryFaults' = deliveryFaults + 1
  /\ \/ \E retryable \in BOOLEAN :
          LET new == AfterFailure(role, r, retryable)
          IN /\ ~outbox_failed
             /\ \/ outbox' = new /\ outboxFile' = new /\ UNCHANGED outbox_failed
                \/ /\ new # outbox /\ outboxFile' \in {outboxFile, new}
                   /\ outbox_failed' = TRUE /\ UNCHANGED outbox
     \/ outbox_failed /\ UNCHANGED outboxVars
  /\ UNCHANGED <<swapVars, worker>>

\* A handler that ran out of its time is dropped where it stands.
Abandon(r) ==
  /\ task[<<"sender", r>>] # "none" /\ deliveryFaults < MAX_FAULTS
  /\ task' = [task EXCEPT ![<<"sender", r>>] = "none"] /\ deliveryFaults' = deliveryFaults + 1
  /\ \/ UNCHANGED stored
     \/ r \in InFlight("sender") /\ stored' = Effect("sender", r)
  /\ UNCHANGED <<swapVars, outboxVars, worker>>

-----------------------------------------------------------------------------
(* refresh_retention, then process_outbox if it is the delivery worker's.  *)

Proceed(w, state) == worker' = [worker EXCEPT ![w] = state]

Load(w) ==
  /\ worker[w].at = "rest"
  /\ Proceed(w, [Resting EXCEPT !.at = "loaded", !.now = clock, !.seen = record])
  /\ UNCHANGED <<swapVars, outboxVars, stored, task, deliveryFaults>>

\* The retention is in step: the delivery worker goes on to its batch.
Refreshed(w) ==
  IF w = "delivery"
  THEN [Resting EXCEPT !.at = "process", !.now = worker[w].now]
  ELSE Resting

Eligible(w) == worker[w].seen.since + RECOVERY_GRACE

\* schedule_retention: only a swap with messages of its own, by what its
\* record said, and with a reply only while that can still be read.
Course_NoReply(w) ==
  IF ~worker[w].seen.settled THEN "reopen" ELSE "complete"

Course_OnlyInGrace(w) ==
  IF ~worker[w].seen.settled THEN "reopen"
  ELSE IF worker[w].now < Eligible(w) THEN "reply" ELSE "process"

Course(w) ==
  IF ~worker[w].seen.settled THEN "reopen"
  ELSE IF worker[w].now < Eligible(w) THEN "reply" ELSE "complete"

Plan(w) ==
  /\ worker[w].at = "loaded"
  /\ Proceed(w, IF outbox_failed THEN Resting
             ELSE IF ~has_dm_history THEN Refreshed(w)
             ELSE [worker[w] EXCEPT !.at = Course(w), !.left = DeliveryScopes])
  /\ UNCHANGED <<swapVars, outboxVars, stored, task, deliveryFaults>>

\* A pass that cannot save ends there.
Saves(w, new, then) ==
  /\ \/ Saved(new) /\ Proceed(w, then)
     \/ NotSaved(new) /\ Proceed(w, Resting)
     \/ NotAttempted /\ Proceed(w, Resting)
  /\ UNCHANGED <<swapVars, stored, task>>

\* The final reply a crash may have kept from being prepared.
CheckReply(w) ==
  /\ worker[w].at = "reply"
  /\ Proceed(w, IF outbox_failed THEN Resting
             ELSE IF has_completed_scope(outbox, ScopeOf[Final])
                  THEN [worker[w] EXCEPT !.at = "complete"]
                  ELSE [worker[w] EXCEPT !.at = "enqueue"])
  /\ UNCHANGED <<swapVars, outboxVars, stored, task, deliveryFaults>>

EnqueueReply(w) ==
  /\ worker[w].at = "enqueue"
  /\ IF MayPrepare(outbox, Final)
     THEN Saves(w, Prepared(outbox, Final),
                [worker[w] EXCEPT !.at = "complete"])
     ELSE /\ Proceed(w, Resting)
          /\ UNCHANGED <<swapVars, outboxVars, stored, task, deliveryFaults>>

\* complete_scope or reopen_scope, scope after scope.
Schedule(w) ==
  /\ worker[w].at \in {"reopen", "complete"} /\ worker[w].left # <<>>
  /\ LET scope == Head(worker[w].left)
     IN Saves(w,
              IF worker[w].at = "reopen" THEN ReopenScope(outbox, scope)
              ELSE CompleteScope(outbox, scope, Eligible(w)),
              IF Len(worker[w].left) = 1 THEN Refreshed(w)
              ELSE [worker[w] EXCEPT !.left = Tail(@)])

\* process_outbox: the batch of publications is chosen, then that of deletions;
\* the two are run side by side.
Waiting(role, batch) ==
  task' = [t \in Roles \X Resources |->
             IF t[1] = role /\ t[2] \in batch THEN "waiting" ELSE task[t]]

SelectPending ==
  /\ worker["delivery"].at = "process"
  /\ IF outbox_failed THEN Proceed("delivery", Resting) /\ UNCHANGED task
     ELSE /\ Proceed("delivery", [worker["delivery"] EXCEPT !.at = "select"])
          /\ \E pending \in due_pending(outbox, BatchTime) :
               Waiting("publisher", pending)
  /\ UNCHANGED <<swapVars, outboxVars, stored, deliveryFaults>>

SelectCleanup ==
  /\ worker["delivery"].at = "select"
  /\ IF outbox_failed
     THEN /\ Proceed("delivery", Resting)
          /\ task' = [t \in Roles \X Resources |->
                        IF t[1] = "publisher" THEN "none" ELSE task[t]]
     ELSE /\ Proceed("delivery", [worker["delivery"] EXCEPT !.at = "join"])
          /\ \E eligible \in eligible_cleanup(outbox, BatchTime) :
               Waiting("cleaner", eligible)
  /\ UNCHANGED <<swapVars, outboxVars, stored, deliveryFaults>>

Join ==
  /\ worker["delivery"].at = "join"
  /\ \A r \in Resources :
       task[<<"publisher", r>>] = "none" /\ task[<<"cleaner", r>>] = "none"
  /\ Proceed("delivery", Resting)
  /\ UNCHANGED <<swapVars, outboxVars, stored, task, deliveryFaults>>

-----------------------------------------------------------------------------
(* The operator.                                                           *)

\* retry_outbox, by an operator who has seen to what paused the entry.
Resume(r) ==
  /\ r \in DOMAIN outbox
  /\ \/ /\ outbox[r].publication_paused
        /\ MayRetryPublication(outbox, r, clock)
        /\ Attempted(RetryPublication(outbox, r, clock))
     \/ /\ outbox[r].cleanup_paused /\ MayRetryCleanup(outbox, r)
        /\ Attempted(RetryCleanup(outbox, r, clock))
  /\ UNCHANGED <<swapVars, stored, task, worker>>

\* A crash, or the restart that a failed write calls for.
Restart ==
  /\ \/ outbox_failed /\ UNCHANGED deliveryFaults
     \/ ~outbox_failed /\ deliveryFaults < MAX_FAULTS /\ deliveryFaults' = deliveryFaults + 1
  /\ \E put \in SUBSET (InFlight("sender") \cup InFlight("publisher")),
        del \in SUBSET InFlight("cleaner") : stored' = (stored \cup put) \ del
  /\ outbox' = outboxFile /\ outbox_failed' = FALSE
  /\ task' = NoTasks /\ worker' = AllResting
  /\ UNCHANGED <<swapVars, outboxFile>>

Refresh(w) ==
  Load(w) \/ Plan(w) \/ CheckReply(w) \/ EnqueueReply(w) \/ Schedule(w)

DeliveryStep == Refresh("delivery") \/ SelectPending \/ SelectCleanup \/ Join

DeliveryNext ==
  \/ Tick \/ Settle \/ Reopen \/ Restart
  \/ SelectPending \/ SelectCleanup \/ Join
  \/ \E w \in Refreshers : Refresh(w)
  \/ \E r \in Resources : Send(r) \/ Abandon(r) \/ Resume(r)
  \/ \E role \in Roles, r \in Resources :
       Lock(role, r) \/ Succeed(role, r) \/ Fail(role, r)

\* Time passes, the worker's loop runs, a request is answered in the end, and
\* whoever waits for a resource has its turn (tokio's Mutex is first come,
\* first served).
DeliveryFairness ==
  /\ WF_deliveryVars(Tick) /\ WF_deliveryVars(DeliveryStep)
  /\ \A r \in Resources :
       /\ SF_deliveryVars(Lock("publisher", r)) /\ SF_deliveryVars(Lock("cleaner", r))
       /\ WF_deliveryVars(\E role \in Roles : Succeed(role, r))

DeliverySpec == DeliveryInit /\ [][DeliveryNext]_deliveryVars

FairDeliverySpec == DeliverySpec /\ DeliveryFairness

-----------------------------------------------------------------------------
(* Properties.                                                             *)

\* The types of the state; a resource has one request under way at most.
DeliveryTypeOK ==
  /\ clock \in 0..MAX_CLOCK /\ reopens \in 0..MAX_REOPENS
  /\ deliveryFaults \in 0..MAX_FAULTS
  /\ record \in [settled : BOOLEAN, since : 0..MAX_CLOCK]
  /\ IsJournal(outbox) /\ IsJournal(outboxFile) /\ outbox_failed \in BOOLEAN
  /\ stored \subseteq Resources
  /\ task \in [Roles \X Resources -> {"none", "waiting", "sent"}]
  /\ \A r \in Resources :
       Cardinality({role \in Roles : r \in InFlight(role)}) <= 1
  /\ \A w \in Refreshers :
       worker[w].at \in {"rest", "loaded", "reply", "enqueue", "reopen",
                        "complete", "process", "select", "join"}

\* Nothing is left at the homeserver that the file does not own: no step of
\* any sender, worker or crash, and no failed write, leaves a resource there
\* that nobody will ever delete (outbox.rs, "Reserve encrypted bytes before
\* I/O"; transports.md:219, a PUT does not recreate what was deleted).
NothingOrphaned == stored \subseteq DOMAIN outboxFile

\* An acceptance whose deletion is set for later has the final reply next to
\* it on file: whoever comes back within the grace finds both, though a crash
\* may have swallowed the reply (schedule_retention recreates it).  A swap that
\* reopens is left out: its record can change after the worker has read it.
FinalReplyKept ==
  reopens = 0 /\ Accept \in DOMAIN outboxFile =>
    \A d \in outboxFile[Accept].cleanup_after : clock < d => Final \in DOMAIN outboxFile

Stuck(r) == outbox_failed \/ (r \in DOMAIN outbox
                             /\ (outbox[r].publication_paused
                                 \/ outbox[r].cleanup_paused))

\* Whatever is on record gets to the homeserver in spite of failures, dropped
\* handlers and crashes, unless its cleanup comes first or an operator is
\* needed: no message waits to be sent for good (due_pending, process_outbox).
PreparedIsPublished ==
  \A r \in Resources :
    []<>(\/ r \notin DOMAIN outbox \/ outbox[r].published
         \/ Stuck(r) \/ cleanup_due(outbox[r], clock))

\* The messages of a swap that has ended for good are deleted in the end, at
\* the homeserver and in the file: none is left behind there for good
\* (schedule_retention, process_outbox).
SettledIsCleaned ==
  \A r \in Resources :
    []<>(record.settled => r \notin DOMAIN outboxFile \cup stored \/ Stuck(r))
=============================================================================
