------------------------------- MODULE Inbox -------------------------------
(***************************************************************************)
(* How a provider receives DMs: a client publishes requests and rings the   *)
(* doorbell, the provider registers the peer, polls it, saves what it reads *)
(* in the receive journal, leases it to the peer's worker, and acknowledges *)
(* it once the handler is done; peers with nothing going on are evicted.    *)
(* Workers share the permits of their handlers and one limit on what is     *)
(* queued; other peers ("strangers") hold registrations of their own.       *)
(*                                                                          *)
(* The journal is written whole: a write that fails may or may not have     *)
(* reached the disk, and stops the journal until the process is restarted.  *)
(* The poll schedule is reduced to its fairness.  MaxInboxFaults bounds     *)
(* crashes, failed writes, reads and handlers, together; MaxEvictions       *)
(* bounds evictions, MaxStrangers the strangers.                            *)
(***************************************************************************)
EXTENDS Naturals, FiniteSets, Sequences, SequencesExt

CONSTANTS
  Peers, Messages,
  Sender,             \* [Messages -> Peers]
  Invalid,            \* messages that do not parse
  Bodyless,           \* resources whose body holds no message
  Admissions,         \* requests for a swap, whose handlers need no permit
  MAX_REGISTERED_PEERS, MAX_PENDING, MAX_PENDING_PER_PEER,
  per_peer_capacity,  \* messages a worker's queue holds
  capacity,           \* messages all workers have together, queued or being handled
  max_handlers,
  MaxInboxFaults, MaxEvictions, MaxStrangers

ASSUME InboxAssumption ==
  /\ IsFiniteSet(Messages) /\ Sender \in [Messages -> Peers]
  /\ Invalid \subseteq Messages /\ Bodyless \subseteq Messages /\ Admissions \subseteq Messages
  /\ MAX_REGISTERED_PEERS \in Nat /\ capacity \in Nat \ {0} /\ max_handlers \in Nat \ {0}
  /\ MAX_PENDING \in Nat \ {0} /\ MAX_PENDING_PER_PEER \in Nat \ {0}
  /\ per_peer_capacity \in Nat \ {0} /\ MaxInboxFaults \in Nat /\ MaxEvictions \in Nat
  /\ MaxStrangers \in Nat

VARIABLES
  published,    \* messages in their senders' storage
  journalFile,  \* the receive journal: peers registered, messages acknowledged
                \* and messages pending
  journal,      \* the same in memory
  write_failed,
  peers,        \* PeerSet: the peers polled
  ringing,      \* doorbells whose peer is in the journal, not yet in PeerSet
  evicting,     \* evictions whose peer is out of the journal, not yet of PeerSet
  reads,        \* per peer: "idle", "listing", or the messages selected
  leases,       \* messages leased to a receipt
  queue,        \* per peer: its worker's messages
  handling,     \* messages whose handler is running
  done,         \* messages whose handler has returned and awaits the receipt
  handled,      \* messages a handler has carried out
  strangers,    \* registrations of other peers
  inboxFaults, evictions

processVars == <<peers, ringing, evicting, reads, leases, queue, handling, done>>
worldVars == <<published, handled, strangers, evictions>>
inboxVars == <<worldVars, journalFile, journal, write_failed, processVars, inboxFaults>>

From(p) == {m \in Messages : Sender[m] = p}
Pending(p) == journal.pending \cap From(p)
Listing == [step |-> "listing", selected |-> {}]
Delivering == [step |-> "delivering", selected |-> {}]
NoRead == [step |-> "idle", selected |-> {}]

InboxInit ==
  /\ published = {} /\ handled = {} /\ strangers = 0 /\ inboxFaults = 0 /\ evictions = 0
  /\ journal = [registered |-> {}, acknowledged |-> {}, pending |-> {}]
  /\ journalFile = journal /\ write_failed = FALSE
  /\ peers = {} /\ ringing = {} /\ evicting = {}
  /\ reads = [p \in Peers |-> NoRead] /\ leases = {}
  /\ queue = [p \in Peers |-> <<>>] 
  /\ handling = {} /\ done = {}

InboxFault == inboxFaults < MaxInboxFaults /\ inboxFaults' = inboxFaults + 1
NoInboxFault == UNCHANGED inboxFaults

-----------------------------------------------------------------------------
(* 1. The journal.                                                         *)

JournalSaved(next) ==
  journal' = next /\ journalFile' = next /\ UNCHANGED write_failed /\ NoInboxFault

\* The rename may have happened before the directory could be synced.
JournalNotSaved(next) ==
  /\ InboxFault /\ write_failed' = TRUE /\ UNCHANGED journal
  /\ journalFile' = journalFile \/ journalFile' = next

KeepJournal == UNCHANGED <<journal, journalFile, write_failed>>

\* registered: also a peer that only has messages pending counts.
Registered == journal.registered \cup {Sender[m] : m \in journal.pending}
JournalFull == Cardinality(Registered) + strangers >= MAX_REGISTERED_PEERS

available(p) ==
  LET left(cap, n) == IF n < cap THEN cap - n ELSE 0
      total == left(MAX_PENDING, Cardinality(journal.pending))
      ofPeer == left(MAX_PENDING_PER_PEER, Cardinality(Pending(p)))
  IN  IF total < ofPeer THEN total ELSE ofPeer

\* remember: what has no message is acknowledged at once; of the rest, what is new, as
\* far as there is room for it now.
Room(p, new) ==
  IF Cardinality(new) <= available(p) THEN new
  ELSE CHOOSE S \in SUBSET new : Cardinality(S) = available(p)

Remembered(p, received) ==
  LET new == received \ (journal.acknowledged \cup journal.pending) IN
  [journal EXCEPT !.acknowledged = @ \cup (new \cap Bodyless),
                  !.pending = @ \cup Room(p, new \ Bodyless)]

Acknowledged(ids) ==
  [journal EXCEPT !.acknowledged = @ \cup ids, !.pending = @ \ ids]

-----------------------------------------------------------------------------
(* 2. The client, the doorbell and evictions.                              *)

\* A sender's messages are alike, so they come in one order.
Publish(p) ==
  /\ From(p) \ published # {}
  /\ published' = published \cup {CHOOSE m \in From(p) : m \notin published}
  /\ UNCHANGED <<journalFile, journal, write_failed, processVars, handled, strangers,
                 inboxFaults, evictions>>

AwaitsAnswer(p) == \E m \in From(p) : m \in published \ handled

\* Mutant: a peer that is registered already is not looked at again.
MayRing_New(p) ==
  AwaitsAnswer(p) /\ p \notin ringing /\ ~write_failed /\ p \notin journal.registered

MayRing(p) == AwaitsAnswer(p) /\ p \notin ringing /\ ~write_failed

\* A client rings whenever it sends, and sends again what is not answered.
\* register_peer: the journal first, which refuses a new peer when it is full.
Ring(p) ==
  /\ MayRing(p) /\ (p \in journal.registered \/ ~JournalFull)
  /\ LET next == [journal EXCEPT !.registered = @ \cup {p}] IN
     \/ JournalSaved(next) /\ ringing' = ringing \cup {p}
     \/ p \notin journal.registered /\ JournalNotSaved(next) /\ UNCHANGED ringing
  /\ UNCHANGED <<worldVars, peers, evicting, reads, leases, queue, handling, done>>

\* Other peers are registered and evicted as well.
OthersRing ==
  /\ ~write_failed /\ ~JournalFull /\ strangers < MaxStrangers /\ strangers' = strangers + 1
  /\ UNCHANGED <<published, handled, evictions, journalFile, journal, write_failed, processVars,
                 inboxFaults>>
OthersAreEvicted ==
  /\ ~write_failed /\ strangers > 0 /\ strangers' = strangers - 1
  /\ UNCHANGED <<published, handled, evictions, journalFile, journal, write_failed, processVars,
                 inboxFaults>>

\* Then the poll set, which wakes the scheduler.
TrackPeer(p) ==
  /\ p \in ringing /\ ringing' = ringing \ {p} /\ peers' = peers \cup {p}
  /\ KeepJournal
  /\ UNCHANGED <<worldVars, evicting, reads, leases, queue, handling, done, inboxFaults>>

\* The peer has no active swap left, or was idle for long: first the journal.
EvictPeer(p) ==
  /\ evictions < MaxEvictions /\ evictions' = evictions + 1
  /\ p \in peers /\ p \notin evicting /\ ~write_failed
  /\ reads[p] = NoRead /\ Pending(p) = {}
  /\ LET next == [journal EXCEPT !.registered = @ \ {p}] IN
     \/ JournalSaved(next) /\ evicting' = evicting \cup {p}
     \/ JournalNotSaved(next) /\ UNCHANGED evicting
  /\ UNCHANGED <<published, handled, strangers, peers, ringing, reads, leases, queue, handling,
                 done>>

\* Then the poll set.
ForgetPeer(p) ==
  /\ p \in evicting /\ evicting' = evicting \ {p} /\ peers' = peers \ {p}
  /\ KeepJournal
  /\ UNCHANGED <<worldVars, ringing, reads, leases, queue, handling, done, inboxFaults>>

-----------------------------------------------------------------------------
(* 3. Inboxes::read.                                                       *)

Free(p) == Pending(p) \ leases
Held(p) == Free(p) \ Invalid

\* What the dispatcher has room for: the worker's queue and the limit of them all.  A
\* message is leased for as long as it is queued or being handled.
Places(p) ==
  LET ofPeer == IF queue[p] = <<>> THEN per_peer_capacity
                ELSE per_peer_capacity + 1 - Len(queue[p])
      ofAll == IF Cardinality(leases) < capacity THEN capacity - Cardinality(leases) ELSE 0
  IN  IF ofAll < ofPeer THEN ofAll ELSE ofPeer

\* deliver, and dispatch: invalid messages are acknowledged (one after another, joined
\* here), the others leased and queued in their order; those for which there is no place
\* are dropped with their leases.
Deliver(p) ==
  LET batch == SetToSeq(Held(p))
      taken == SubSeq(batch, 1, IF Len(batch) < Places(p) THEN Len(batch) ELSE Places(p))
      next == Acknowledged(Free(p) \cap Invalid)
  IN  \/ /\ (IF next = journal THEN NoInboxFault /\ KeepJournal ELSE JournalSaved(next))
         /\ queue' = [queue EXCEPT ![p] = @ \o taken]
         /\ leases' = leases \cup ToSet(taken)
      \/ next # journal /\ JournalNotSaved(next) /\ UNCHANGED <<queue, leases>>

\* Pending work is resumed before anything new is looked for.
StartRead(p) ==
  /\ p \in peers /\ p \in journal.registered /\ reads[p] = NoRead /\ ~write_failed
  /\ Deliver(p)
  /\ reads' = IF Held(p) = {} /\ ~write_failed' /\ available(p)' > 0
              THEN [reads EXCEPT ![p] = Listing] ELSE reads
  /\ UNCHANGED <<worldVars, peers, ringing, evicting, handling, done>>

\* discover and retrieve: some of what is listed and neither acknowledged nor pending.
\* Pages and bodies may be lacking.
Discover(p) ==
  /\ reads[p].step = "listing"
  /\ LET new == (published \cap From(p)) \ (journal.acknowledged \cup journal.pending)
     IN  \/ new = {} /\ reads' = [reads EXCEPT ![p] = NoRead]
         \/ \E S \in SUBSET new \ {{}} :
              /\ Cardinality(S) <= MAX_PENDING_PER_PEER
              /\ reads' = [reads EXCEPT ![p] = [step |-> "retrieving", selected |-> S]]
  /\ KeepJournal
  /\ UNCHANGED <<worldVars, peers, ringing, evicting, leases, queue, handling, done, inboxFaults>>

\* What was read is saved before any of it is delivered.
Retrieve(p) ==
  /\ reads[p].step = "retrieving" /\ ~write_failed
  /\ LET next == Remembered(p, reads[p].selected) IN
     \/ /\ (IF next = journal THEN NoInboxFault /\ KeepJournal ELSE JournalSaved(next))
        /\ reads' = [reads EXCEPT ![p] = Delivering]
     \/ next # journal /\ JournalNotSaved(next) /\ reads' = [reads EXCEPT ![p] = NoRead]
  /\ UNCHANGED <<worldVars, peers, ringing, evicting, leases, queue, handling, done>>

DeliverRead(p) ==
  /\ reads[p] = Delivering /\ ~write_failed
  /\ Deliver(p) /\ reads' = [reads EXCEPT ![p] = NoRead]
  /\ UNCHANGED <<worldVars, peers, ringing, evicting, handling, done>>

\* The read fails, or its deadline passes and it is dropped.
ReadFails(p) ==
  /\ reads[p] # NoRead /\ reads' = [reads EXCEPT ![p] = NoRead]
  /\ IF write_failed THEN NoInboxFault ELSE InboxFault
  /\ KeepJournal
  /\ UNCHANGED <<worldVars, peers, ringing, evicting, leases, queue, handling, done>>

-----------------------------------------------------------------------------
(* 4. The workers.                                                         *)

\* "Waiting on it must not consume every general handler slot": an admission has its own
\* lock, every other handler needs a permit, which it keeps until it is done.
StartHandler(p) ==
  /\ queue[p] # <<>> /\ Head(queue[p]) \notin handling
  /\ Head(queue[p]) \in Admissions \/ Cardinality(handling \ Admissions) < max_handlers
  /\ handling' = handling \cup {Head(queue[p])}
  /\ KeepJournal
  /\ UNCHANGED <<worldVars, peers, ringing, evicting, reads, leases, queue, done, inboxFaults>>

InHandler(p) == queue[p] # <<>> /\ Head(queue[p]) \in handling \ done

\* The handler has carried the message out.
Handle(p) ==
  /\ InHandler(p)
  /\ handled' = handled \cup {Head(queue[p])}
  /\ done' = done \cup {Head(queue[p])}
  /\ KeepJournal
  /\ UNCHANGED <<published, strangers, evictions, peers, ringing, evicting, reads, leases, queue,
                 handling, inboxFaults>>

\* The receipt is dropped and its lease with it.
Drop(p) ==
  /\ queue' = [queue EXCEPT ![p] = Tail(@)]
  /\ leases' = leases \ {Head(queue[p])}
  /\ handling' = handling \ {Head(queue[p])} /\ done' = done \ {Head(queue[p])}

\* An error is unfinished work: the message stays pending.
HandlerFails(p) ==
  /\ InHandler(p) /\ InboxFault /\ Drop(p)
  /\ KeepJournal
  /\ UNCHANGED <<worldVars, peers, ringing, evicting, reads>>

\* Mutant: the receipt is acknowledged as the handler starts.
MayAcknowledge_AtOnce(p) == queue[p] # <<>> /\ Head(queue[p]) \in handling

MayAcknowledge(p) == queue[p] # <<>> /\ Head(queue[p]) \in done

\* Receipt::acknowledge, then the receipt goes.
AcknowledgeReceipt(p) ==
  /\ MayAcknowledge(p) /\ Drop(p)
  /\ LET next == Acknowledged({Head(queue[p])}) IN
     \/ ~write_failed /\ (JournalSaved(next) \/ JournalNotSaved(next))
     \/ write_failed /\ NoInboxFault /\ KeepJournal
  /\ UNCHANGED <<worldVars, peers, ringing, evicting, reads>>

-----------------------------------------------------------------------------
(* 5. Restart.  A journal that could not be saved needs one to recover.    *)

RestartInbox ==
  /\ IF write_failed THEN NoInboxFault ELSE InboxFault
  /\ journal' = journalFile /\ write_failed' = FALSE /\ UNCHANGED journalFile
  /\ peers' = journalFile.registered \cup {Sender[m] : m \in journalFile.pending}
  /\ ringing' = {} /\ evicting' = {} /\ leases' = {} /\ handling' = {} /\ done' = {}
  /\ reads' = [p \in Peers |-> NoRead] /\ queue' = [p \in Peers |-> <<>>]
  /\ UNCHANGED worldVars

InboxNext ==
  \/ RestartInbox \/ OthersRing \/ OthersAreEvicted
  \/ \E p \in Peers :
       \/ Publish(p) \/ Ring(p) \/ TrackPeer(p) \/ EvictPeer(p) \/ ForgetPeer(p)
       \/ StartRead(p) \/ Discover(p) \/ Retrieve(p) \/ DeliverRead(p) \/ ReadFails(p)
       \/ StartHandler(p) \/ Handle(p) \/ HandlerFails(p) \/ AcknowledgeReceipt(p)

InboxSpec == InboxInit /\ [][InboxNext]_inboxVars

\* The scheduler gives every peer its turns, its polls end, the handlers run,
\* and a process whose journal has failed is restarted.
ProviderFairness ==
  /\ WF_inboxVars(write_failed /\ RestartInbox)
  /\ \A p \in Peers :
       /\ WF_inboxVars(TrackPeer(p) \/ ForgetPeer(p)) /\ WF_inboxVars(StartRead(p))
       /\ WF_inboxVars(Discover(p) \/ Retrieve(p) \/ DeliverRead(p)
                       \/ (write_failed /\ ReadFails(p)))
       /\ WF_inboxVars(StartHandler(p) \/ Handle(p) \/ AcknowledgeReceipt(p))

ProviderSpec == InboxSpec /\ ProviderFairness

\* A client that gets no answer rings again.
FairInboxSpec == ProviderSpec /\ \A p \in Peers : SF_inboxVars(Ring(p))

-----------------------------------------------------------------------------
Journals == [registered : SUBSET Peers, acknowledged : SUBSET Messages,
             pending : SUBSET Messages]

\* Type invariant.
InboxTypeOK ==
  /\ published \subseteq Messages /\ journalFile \in Journals /\ journal \in Journals
  /\ write_failed \in BOOLEAN /\ peers \subseteq Peers /\ ringing \subseteq Peers
  /\ evicting \subseteq Peers
  /\ reads \in [Peers -> [step : {"idle", "listing", "retrieving", "delivering"},
                          selected : SUBSET Messages]]
  /\ leases \subseteq Messages /\ queue \in [Peers -> Seq(Messages)]
  /\ handling \subseteq Messages /\ done \subseteq Messages /\ handled \subseteq Messages
  /\ strangers \in Nat
  /\ inboxFaults \in 0..MaxInboxFaults /\ evictions \in 0..MaxEvictions

Unhandleable == Invalid \cup Bodyless

\* journal.rs: "A failed write cannot acknowledge work": whatever fails, only a
\* message that was carried out, or can never be, leaves the inbox for good.
AcknowledgedMeansHandled ==
  journalFile.acknowledged \cup journal.acknowledged \subseteq handled \cup Unhandleable

\* A published request is carried out in the end, if its client rings again as
\* long as it gets no answer, unless the journal is always full of other peers when it does
\* ("receive peer capacity reached").
PublishedIsHandled ==
  \A m \in Messages \ Unhandleable :
    \/ <>[](Sender[m] \notin journal.registered /\ JournalFull)
    \/ m \in published ~> m \in handled
=============================================================================
