----------------------------- MODULE PollSchedule -----------------------------
(***************************************************************************)
(* When each peer of the poll set is polled (PeerInbox of                    *)
(* pubky-transport/src/poll.rs): one task that waits in recv, launches polls *)
(* into a bounded number of slots, woken peers and overdue ones in turn, and *)
(* gives every peer a new due time as its poll ends, while doorbells wake    *)
(* peers, registrations and evictions change the set, and the caller may be  *)
(* away with a batch, or drop recv, at any moment.                           *)
(*                                                                          *)
(* Peers are numbers, to order those that are due at the same instant.  What *)
(* a poll reads is Inbox; here it has messages, has none, fails or times     *)
(* out.  An interval, whatever backoff and jitter made it, is one of         *)
(* Intervals.  MaxInstant bounds the clock, MaxBells the doorbells.          *)
(***************************************************************************)
EXTENDS Naturals, Sequences, FiniteSets

CONSTANTS
  Polled,          \* peers
  max_in_flight,
  poll_timeout,    \* a poll's base deadline, doubled with every timeout in a row
  Intervals,
  PEER_REFRESH,
  MaxInstant, MaxBells

ASSUME PollAssumption ==
  /\ IsFiniteSet(Polled) /\ Polled \subseteq Nat /\ Intervals \subseteq Nat
  /\ max_in_flight \in Nat \ {0} /\ poll_timeout \in Nat /\ PEER_REFRESH \in Nat

VARIABLES
  instant,
  listed,    \* the peer set
  waker,     \* peers woken, and whether a notification waits
  poll,      \* per peer: its entry
  loop,      \* recv: "turn", "launch", "wait", or "away" when it is not being called
  due,       \* the woken and the overdue peers of this launch, the slots they may take, and
             \* whether one of them has been skipped
  refresh,   \* when the peer set is read next, and whether it is read at once
  woken_turn,\* the next free slot goes to a woken peer
  passed,    \* per peer: turns of woken peers and of overdue ones since it stood in line
  owed,      \* peers whose doorbell has rung since their last poll began
  rung

pollVars == <<instant, listed, waker, poll, loop, due, refresh, woken_turn, passed, owed, rung>>

-----------------------------------------------------------------------------
\* ends = 0: no poll of the peer is in flight.
NewPeerPoll == [in |-> TRUE, due |-> instant, timeout_streak |-> 0, ends |-> 0, woken |-> FALSE]
NoPeerPoll == [in |-> FALSE, due |-> 0, timeout_streak |-> 0, ends |-> 0, woken |-> FALSE]
NoneDue == [woken |-> <<>>, overdue |-> <<>>, free |-> 0, stretched |-> 0, skipped |-> FALSE]
NoTurns == [woken |-> 0, overdue |-> 0]

\* A peer whose last poll has timed out runs on a stretched deadline.
Stretched(entry) == entry.timeout_streak > 0
poll_deadline(streak) == poll_timeout * (IF streak < 6 THEN <<1, 2, 4, 8, 16, 32>>[streak + 1] ELSE 64)

in_flight == {p \in Polled : poll[p].ends > 0}
Less(a, b) == IF a < b THEN b - a ELSE 0
Most(a, b) == IF a < b THEN b ELSE a

\* Polls on a stretched deadline may hold only half the slots.
stretched_slots_free(entries) ==
  Less(Cardinality({p \in Polled : entries[p].ends > 0 /\ Stretched(entries[p])}),
       Most(1, max_in_flight \div 2))

\* A due peer that may start.
Ready(entries, p) ==
  /\ entries[p].in /\ entries[p].ends = 0 /\ entries[p].due <= instant
  /\ ~(Stretched(entries[p]) /\ stretched_slots_free(entries) = 0)

\* A first run, or one whose journal names them all.
PollInit ==
  /\ instant = 1 /\ listed \in {{}, Polled} /\ waker = [woken |-> {}, notified |-> FALSE]
  /\ poll = [p \in Polled |-> NoPeerPoll] /\ loop = "turn" /\ due = NoneDue
  /\ refresh = [at |-> 1, now |-> TRUE] /\ woken_turn = TRUE
  /\ passed = [p \in Polled |-> NoTurns] /\ owed = {} /\ rung = 0

-----------------------------------------------------------------------------
(* 1. The peer set.  A turn of the loop has no await and reads the set and   *)
(* the waker once, so what others do meanwhile is done before or after it.   *)

Await == loop \in {"wait", "away"}

\* register_peer: into the set, then the scheduler is woken.
register_peer(p) ==
  /\ Await /\ rung < MaxBells /\ rung' = rung + 1
  /\ listed' = listed \cup {p} /\ owed' = owed \cup {p}
  /\ waker' = [woken |-> waker.woken \cup {p}, notified |-> TRUE]
  /\ UNCHANGED <<instant, poll, loop, due, refresh, woken_turn, passed>>

\* The scheduler is told that the set has changed.
forget_peer(p) ==
  /\ Await /\ p \in listed /\ listed' = listed \ {p} /\ owed' = owed \ {p}
  /\ waker' = [waker EXCEPT !.notified = TRUE]
  /\ UNCHANGED <<instant, poll, loop, due, refresh, woken_turn, passed, rung>>

-----------------------------------------------------------------------------
(* 2. recv.                                                                *)

\* "A peer removed mid-poll keeps its entry until that poll completes."
Relisted ==
  [p \in Polled |->
     IF p \in listed THEN IF poll[p].in THEN poll[p] ELSE NewPeerPoll
     ELSE IF poll[p].ends > 0 THEN poll[p] ELSE NoPeerPoll]

\* A doorbell drops what the peer had built up, also while its poll is in flight.
Woken(entry, p) ==
  IF p \in waker.woken /\ entry.in
  THEN [entry EXCEPT !.woken = TRUE, !.due = IF entry.ends = 0 THEN instant ELSE @]
  ELSE entry

\* The n peers that have been due the longest, in that order: each has its place by how
\* many of them come before it.
Sooner(a, b, entries) ==
  entries[a].due < entries[b].due \/ (entries[a].due = entries[b].due /\ a < b)
Ahead(p, S, entries) == {q \in S : Sooner(q, p, entries)}
earliest(S, entries, n) ==
  [i \in 1..(IF n < Cardinality(S) THEN n ELSE Cardinality(S)) |->
     CHOOSE p \in S : Cardinality(Ahead(p, S, entries)) = i - 1]

\* The top of the loop, and the choice of who may start.
Turn ==
  /\ loop = "turn" /\ waker' = [waker EXCEPT !.woken = {}]
  /\ LET again == refresh.now \/ waker.woken # {} \/ instant >= refresh.at
         listing == IF again THEN Relisted ELSE poll
         entries == [p \in Polled |-> Woken(listing[p], p)]
         free == Less(Cardinality(in_flight), max_in_flight)
         ready == {p \in Polled : Ready(entries, p)}
     IN /\ poll' = entries
        /\ refresh' = IF again THEN [at |-> instant + PEER_REFRESH, now |-> FALSE] ELSE refresh
        /\ due' = [woken |-> earliest({p \in ready : entries[p].woken}, entries, free),
                   overdue |-> earliest({p \in ready : ~entries[p].woken}, entries, free),
                   free |-> free, stretched |-> stretched_slots_free(entries),
                   skipped |-> FALSE]
        /\ passed' = [p \in Polled |->
                        IF Ready(poll, p) /\ poll[p].woken = entries[p].woken /\ p \in ready
                        THEN passed[p] ELSE NoTurns]
  /\ loop' = "launch"
  /\ UNCHANGED <<instant, listed, woken_turn, owed, rung>>

NextTurn_Always(take_woken) == TRUE

NextTurn(take_woken) == ~take_woken

Starts(p, take_woken) ==
  /\ poll' = [poll EXCEPT ![p].woken = FALSE,
                         ![p].ends = instant + poll_deadline(poll[p].timeout_streak)]
  /\ woken_turn' = NextTurn(take_woken) /\ owed' = owed \ {p}

\* Only the earliest have a place in a launch: when those of a kind are skipped, the rest
\* of that kind lose their turns in it.
Line(p) == IF poll[p].woken THEN due.woken ELSE due.overdue
CutOff(p) == due.skipped /\ \A i \in DOMAIN Line(p) : Line(p)[i] # p

\* "Slots alternate between woken and overdue peers, longest-overdue first within each."
Launch ==
  LET take_woken == (woken_turn /\ due.woken # <<>>) \/ due.overdue = <<>>
      p == Head(IF take_woken THEN due.woken ELSE due.overdue)
      skipped == Stretched(poll[p]) /\ due.stretched = 0
      rest == IF take_woken THEN [due EXCEPT !.woken = Tail(@)] ELSE [due EXCEPT !.overdue = Tail(@)]
  IN
  /\ loop = "launch" /\ due.free > 0 /\ due.woken \o due.overdue # <<>>
  /\ IF skipped
     THEN due' = [rest EXCEPT !.skipped = TRUE] /\ UNCHANGED <<poll, woken_turn, owed>>
     ELSE /\ Starts(p, take_woken)
          /\ due' = [rest EXCEPT !.free = @ - 1,
                                 !.stretched = IF Stretched(poll[p]) THEN @ - 1 ELSE @]
  /\ passed' = [q \in Polled |->
       IF ~Ready(poll', q) \/ CutOff(q)' THEN NoTurns
       ELSE IF skipped THEN passed[q]
       ELSE IF take_woken THEN [passed[q] EXCEPT !.woken = @ + 1]
       ELSE [passed[q] EXCEPT !.overdue = @ + 1]]
  /\ UNCHANGED <<instant, listed, waker, loop, refresh, rung>>

Launched ==
  /\ loop = "launch" /\ (due.free = 0 \/ due.woken \o due.overdue = <<>>)
  /\ loop' = "wait" /\ due' = NoneDue
  /\ UNCHANGED <<instant, listed, waker, poll, refresh, woken_turn, passed, owed, rung>>

\* Due peers that could not start are waiting on a slot, which only a completion frees.
wake_at ==
  LET blocked == stretched_slots_free(poll) = 0
      waiting == {p \in Polled : poll[p].in /\ poll[p].ends = 0 /\ ~(blocked /\ Stretched(poll[p]))}
      dues == IF Cardinality(in_flight) < max_in_flight THEN {poll[p].due : p \in waiting} ELSE {}
  IN CHOOSE t \in dues \cup {refresh.at} : \A u \in dues \cup {refresh.at} : t <= u

Timer ==
  /\ loop = "wait" /\ instant >= wake_at /\ loop' = "turn"
  /\ UNCHANGED <<instant, listed, waker, poll, due, refresh, woken_turn, passed, owed, rung>>

Notified ==
  /\ loop = "wait" /\ waker.notified /\ loop' = "turn"
  /\ waker' = [waker EXCEPT !.notified = FALSE] /\ refresh' = [refresh EXCEPT !.now = TRUE]
  /\ UNCHANGED <<instant, listed, poll, due, woken_turn, passed, owed, rung>>

\* A poll ends while recv waits.  A deadline that passes while the caller is away is
\* noticed when it is back, unless the answer is there by then.
complete(p, outcome) ==
  /\ loop = "wait" /\ poll[p].ends > 0 /\ (outcome = "timeout" => instant >= poll[p].ends)
  /\ \E interval \in Intervals :
       poll' = [poll EXCEPT ![p].ends = 0,
                  ![p].due = IF poll[p].woken THEN instant ELSE instant + interval,
                  ![p].timeout_streak = IF outcome = "failed" THEN @
                                        ELSE IF outcome = "timeout" THEN @ + 1 ELSE 0]
  /\ loop' = IF outcome = "messages" THEN "away" ELSE "turn"
  /\ passed' = [passed EXCEPT ![p] = NoTurns]
  /\ UNCHANGED <<instant, listed, waker, due, refresh, woken_turn, owed, rung>>

\* "Cancel-safe": a caller that drops recv, and calls it again.
Cancel ==
  /\ loop = "wait" /\ loop' = "away"
  /\ UNCHANGED <<instant, listed, waker, poll, due, refresh, woken_turn, passed, owed, rung>>
recv ==
  /\ loop = "away" /\ loop' = "turn"
  /\ UNCHANGED <<instant, listed, waker, poll, due, refresh, woken_turn, passed, owed, rung>>

\* The loop is done with an instant before the next.
Rests ==
  /\ loop = "wait" /\ instant < wake_at /\ ~waker.notified
  /\ \A p \in in_flight : instant < poll[p].ends
Instant ==
  /\ instant < MaxInstant /\ instant' = instant + 1 /\ (Rests \/ loop = "away")
  /\ UNCHANGED <<listed, waker, poll, loop, due, refresh, woken_turn, passed, owed, rung>>

PollNext ==
  \/ \E p \in Polled :
       \/ register_peer(p) \/ forget_peer(p)
       \/ \E outcome \in {"messages", "none", "failed", "timeout"} : complete(p, outcome)
  \/ Turn \/ Launch \/ Launched \/ Timer \/ Notified \/ Cancel \/ recv \/ Instant

PollSpec == PollInit /\ [][PollNext]_pollVars

-----------------------------------------------------------------------------
(* Properties.                                                             *)

\* A doorbell is followed by a poll that began after it, and waits behind at most one
\* overdue peer more than woken ones have had their turn; peers that keep being woken
\* pass an overdue one no more often either; and no slot stays free over time while a
\* peer that may start is due.  A peer's turns are counted from its last launch that had
\* no place for it because stretched peers of its kind took them all and were skipped.
EveryPeerHasItsTurn ==
  /\ \A p \in owed : p \in waker.woken \/ poll[p].woken
  /\ \A p \in Polled : Ready(poll, p) =>
       IF poll[p].woken THEN passed[p].overdue <= passed[p].woken + 1
       ELSE passed[p].woken <= passed[p].overdue + 1
  /\ Rests /\ Cardinality(in_flight) < max_in_flight => \A p \in Polled : ~Ready(poll, p)
=============================================================================
