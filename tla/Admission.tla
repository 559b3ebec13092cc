----------------------------- MODULE Admission -----------------------------
(***************************************************************************)
(* How a swap comes to exist: the quote book, the SwapRequest handlers and *)
(* their creation lock, start_reverse and start_submarine up to the spawn, *)
(* recovery of an unfinished admission, resume_swaps after a restart, and  *)
(* the reservation and funding claim a swap holds until its driver ends.   *)
(*                                                                         *)
(* A swap is named by the quote it is created from.  One action is one     *)
(* step between two awaits.  A driver is what this module needs of it: it  *)
(* may fund a reverse swap once and it ends.  Failures and crashes need no *)
(* bound: every counter here is bounded by the limits.                     *)
(***************************************************************************)
EXTENDS RiskManager

CONSTANTS
  Reverse,     \* the swaps that are reverse swaps; the others are submarine
  Handlers,    \* SwapRequest handlers that may run at the same time
  Resumer,     \* the startup task, resume_swaps
  Hashes,      \* payment hashes
  MAX_TRACKED_QUOTES,
  None,        \* no task, no swap, no hash
  Balances     \* what the wallet may be able to spend at first

ASSUME AdmissionAssumption ==
  /\ Reverse \subseteq Swaps /\ MAX_TRACKED_QUOTES \in Nat \ {0}
  /\ Balances \subseteq Nat
  /\ Resumer \notin Handlers /\ None \notin Handlers \cup {Resumer}
  /\ None \notin Swaps /\ None \notin Hashes

VARIABLES
  signed,   \* unexpired quotes this provider issued
  book,     \* QuoteBook.quotes
  redeemed, \* QuoteBook.redeemed
  lookups,  \* restore_quote calls that found no record for their quote
  creation, \* the task that holds AdmissionLocks.creation, or None
  task,     \* per task: its position, its swap, the hash it was asked for,
            \* whether it recovers an intent, and the balance it read
  risk,     \* RiskManager.inner
  disk,     \* per swap: the record in the store
  drivers,  \* per swap: driver tasks
  calling,  \* swaps whose driver has written its intent and is about to fund
  sent,     \* swaps whose HTLC funding has left the wallet
  over,     \* swaps a driver has brought to an end
  balance,  \* what the wallet can spend
  overdrawn, \* a history: since no other swap had a claim, the most that has left the
            \* wallet between an admission's reading of it and the claim it decides
  mode,     \* the daemon: "down", "restoring", "resuming" or "serving"
  todo      \* records resume_swaps has not come to yet

bookVars   == <<signed, book, redeemed, lookups>>
driverVars == <<drivers, calling, sent, over, balance, overdrawn>>
modeVars   == <<mode, todo>>
vars == <<bookVars, creation, task, risk, disk, driverVars, modeVars>>

Tasks == Handlers \cup {Resumer}

Idle == [pc |-> "idle", swap |-> None, hash |-> None,
         recovering |-> FALSE, available |-> 0]

Positions == {"idle", "take", "recover", "balance", "claim", "persist",
              "invoice", "complete", "spawn"}

TaskStates == [pc : Positions, swap : Swaps \cup {None},
               hash : Hashes \cup {None}, recovering : BOOLEAN, available : Nat]

NoRecord == [state |-> "none", begun |-> FALSE, hash |-> None]

Records == [state : {"none", "pending", "accepted", "ended"},
            begun : BOOLEAN, hash : Hashes \cup {None}]

Active == {s \in Swaps : disk[s].state \in {"pending", "accepted"}}

awaits_funding(s) == s \in Reverse /\ ~disk[s].begun

Init ==
  /\ signed = {} /\ book = {} /\ redeemed = {} /\ lookups = {}
  /\ creation = None /\ task = [t \in Tasks |-> Idle]
  /\ risk = NewRiskManager
  /\ disk = [s \in Swaps |-> NoRecord]
  /\ drivers = [s \in Swaps |-> 0]
  /\ calling = {} /\ sent = {} /\ over = {} /\ balance \in Balances
  /\ overdrawn = 0
  /\ mode = "serving" /\ todo = {}

-----------------------------------------------------------------------------
(* The quote book.                                                         *)

\* QuoteBook::insert: a full book gives up its oldest quote, whichever it is.
Inserted(s) ==
  IF Cardinality(book) < MAX_TRACKED_QUOTES \/ s \in book
  THEN {book \cup {s}}
  ELSE {(book \ {oldest}) \cup {s} : oldest \in book}

\* A QuoteRequest that the counters would admit; a quote id is never reused.
IssueQuote(s) ==
  /\ mode = "serving" /\ s \notin signed /\ s \notin redeemed
  /\ s \notin lookups /\ disk[s].state = "none"
  /\ \A t \in Tasks : task[t].swap # s
  /\ admissible(risk, s)
  /\ signed' = signed \cup {s} /\ book' \in Inserted(s)
  /\ UNCHANGED <<redeemed, lookups, creation, task, risk, disk, driverVars,
                 modeVars>>

\* Time passes: prune drops it from both maps before either is looked at.
ExpireQuote(s) ==
  /\ s \in signed /\ signed' = signed \ {s}
  /\ book' = book \ {s} /\ redeemed' = redeemed \ {s}
  /\ UNCHANGED <<lookups, creation, task, risk, disk, driverVars, modeVars>>

\* restore_quote up to the store: a commit with a signed quote the book does
\* not hold and the store has no swap for.
LookUpQuote(s) ==
  /\ mode = "serving" /\ s \in signed \ book /\ disk[s].state = "none"
  /\ lookups' = lookups \cup {s}
  /\ UNCHANGED <<signed, book, redeemed, creation, task, risk, disk,
                 driverVars, modeVars>>

TakeBackQuote_Redeemed(s) ==
  /\ s \in lookups
  /\ lookups' \in {lookups, lookups \ {s}}
  /\ book' \in IF s \in signed THEN Inserted(s) ELSE {book}
  /\ UNCHANGED <<signed, redeemed, creation, task, risk, disk, driverVars,
                 modeVars>>

\* QuoteBook::restore.  Another commit for the same quote may still be on its
\* way.  A quote that has expired meanwhile is pruned before it can be taken.
TakeBackQuote(s) ==
  /\ s \in lookups
  /\ lookups' \in {lookups, lookups \ {s}}
  /\ book' \in IF s \in signed \ redeemed THEN Inserted(s) ELSE {book}
  /\ UNCHANGED <<signed, redeemed, creation, task, risk, disk, driverVars,
                 modeVars>>

-----------------------------------------------------------------------------
(* The SwapRequest handler.                                                *)

Goto(t, pc) == task' = [task EXCEPT ![t].pc = pc]

\* The handler returns or is dropped, and with it everything it holds: the
\* creation lock and, once it has one, the reservation.
Done(t) ==
  /\ task' = [task EXCEPT ![t] = Idle]
  /\ creation' = IF creation = t THEN None ELSE creation

HasGuard(t) == task[t].pc \notin {"idle", "take", "recover"}

Dropped(t) == IF HasGuard(t) THEN Release(risk, task[t].swap) ELSE risk

\* handle_message under the creation lock: replay_record finds no record and
\* no other reverse swap has the hash, or it finds an unfinished intent.  A
\* finished one is only answered, and a refused request changes nothing.
ReplayOrStart(h, s, x) ==
  \/ /\ disk[s].state = "none"
     /\ s \in Reverse => \A r \in Reverse : disk[r].hash # x
     /\ task' = [task EXCEPT ![h] = [Idle EXCEPT !.pc = "take", !.swap = s,
                                                 !.hash = x]]
  \/ /\ disk[s].state = "pending" /\ disk[s].hash = x
     /\ task' = [task EXCEPT ![h] = [Idle EXCEPT !.pc = "recover", !.swap = s,
                                                 !.hash = x,
                                                 !.recovering = TRUE]]

Request(h, s, x) ==
  /\ mode = "serving" /\ creation = None /\ task[h].pc = "idle"
  /\ ReplayOrStart(h, s, x)
  /\ creation' = h
  /\ UNCHANGED <<bookVars, risk, disk, driverVars, modeVars>>

\* take_valid_quote, then reserve_for_swap's reservation.
TakeAndReserve(h) ==
  LET s == task[h].swap IN
  /\ task[h].pc = "take" /\ s \in book
  /\ book' = book \ {s} /\ redeemed' = redeemed \cup {s}
  /\ IF Admits(risk, s, "New")
     THEN /\ risk' = Reserve(risk, s, "New")
          /\ Goto(h, IF s \in Reverse THEN "balance" ELSE "complete")
          /\ UNCHANGED creation
     ELSE Done(h) /\ UNCHANGED risk
  /\ UNCHANGED <<signed, lookups, disk, driverVars, modeVars>>

\* reserve_pending, for a record that is still unfinished when it is read
\* again: by recover_pending_admission, or by resume_swaps.
ReservePending(t) ==
  LET s == task[t].swap IN
  /\ task[t].pc = "recover"
  /\ IF disk[s].state = "pending" /\ Admits(risk, s, "Pending")
     THEN /\ risk' = Reserve(risk, s, "Pending")
          /\ Goto(t, "balance") /\ UNCHANGED creation
     ELSE Done(t) /\ UNCHANGED risk
  /\ UNCHANGED <<bookVars, disk, driverVars, modeVars>>

\* check_funding_balance: the wallet is asked outside the manager's lock ...
ReadBalance(t) ==
  /\ task[t].pc = "balance"
  /\ task' = [task EXCEPT ![t].pc = "claim", ![t].available = balance]
  /\ UNCHANGED <<bookVars, creation, risk, disk, driverVars, modeVars>>

\* ... and the answer is compared and claimed under it: "a preflight, not a
\* guarantee", for a driver may have spent from the wallet since.
Claim(t) ==
  LET s == task[t].swap
      missing == SaturatingMinus(task[t].available, balance) IN
  /\ task[t].pc = "claim" /\ Covers(risk, s, task[t].available)
  /\ risk' = ClaimFunding(risk, {s})
  /\ Goto(t, IF task[t].recovering THEN "invoice" ELSE "persist")
  /\ overdrawn' = IF missing > overdrawn \/ risk.funding_claims \subseteq {s}
                  THEN missing ELSE overdrawn
  /\ UNCHANGED <<bookVars, creation, disk, drivers, calling, sent, over, balance,
                 modeVars>>

\* start_reverse: the durable intent, before the invoice exists.
PersistIntent(h) ==
  LET s == task[h].swap IN
  /\ task[h].pc = "persist"
  /\ disk' = [disk EXCEPT ![s] = [NoRecord EXCEPT !.state = "pending",
                                                  !.hash = task[h].hash]]
  /\ Goto(h, "invoice")
  /\ UNCHANGED <<bookVars, creation, risk, driverVars, modeVars>>

\* complete_invoice_intent: the invoice is created, or found by the lookup.
CreateHoldInvoice(t) ==
  /\ task[t].pc = "invoice" /\ Goto(t, "complete")
  /\ UNCHANGED <<bookVars, creation, risk, disk, driverVars, modeVars>>

\* The completed record; for a submarine swap, the only one.
PersistAccepted(t) ==
  LET s == task[t].swap IN
  /\ task[t].pc = "complete"
  /\ disk' = [disk EXCEPT ![s].state = "accepted", ![s].hash = task[t].hash]
  /\ Goto(t, "spawn")
  /\ UNCHANGED <<bookVars, creation, risk, driverVars, modeVars>>

\* The acceptance goes out, or fails to, and the driver takes the guard.
Spawn(t) ==
  /\ task[t].pc = "spawn"
  /\ drivers' = [drivers EXCEPT ![task[t].swap] = @ + 1]
  /\ Done(t)
  /\ UNCHANGED <<bookVars, risk, disk, calling, sent, over, balance, overdrawn,
                 modeVars>>

Fails_Replying(t) ==
  /\ task[t].pc # "idle"
  /\ risk' = Dropped(t) /\ Done(t)
  /\ UNCHANGED <<bookVars, disk, driverVars, modeVars>>

\* A call or a write fails, the quote is gone, the wallet does not cover the
\* claim, or the stream's 60 seconds are over while the handler awaits.  A
\* stream's reply does not await, so nothing comes between "complete" and the
\* driver of an accepted record.
Fails(t) ==
  /\ task[t].pc \notin {"idle", "spawn"}
  /\ risk' = Dropped(t) /\ Done(t)
  /\ UNCHANGED <<bookVars, disk, driverVars, modeVars>>

-----------------------------------------------------------------------------
(* A reverse swap's driver spends from the wallet once; every driver ends.  *)

\* funding_intent: written before the call, or the driver stops.  A swap that
\* was brought to an end has its invoice cancelled, and is not funded any more.
FundingIntent(s) ==
  /\ drivers[s] > 0 /\ awaits_funding(s) /\ s \notin over
  /\ disk' = [disk EXCEPT ![s].begun = TRUE]
  /\ calling' = calling \cup {s}
  /\ UNCHANGED <<bookVars, creation, task, risk, drivers, sent, over, balance,
                 overdrawn, modeVars>>

\* The wallet broadcasts, or refuses: either way the call is over.
FundHtlc(s) ==
  /\ s \in calling /\ calling' = calling \ {s}
  /\ \/ /\ balance >= ClaimOf[s]
        /\ sent' = sent \cup {s} /\ balance' = balance - ClaimOf[s]
     \/ UNCHANGED <<sent, balance>>
  /\ UNCHANGED <<bookVars, creation, task, risk, disk, drivers, over, overdrawn,
                 modeVars>>

\* funded: whether or not the outpoint reaches the record, which already says
\* that the funding was begun, the claim ends.
Funded(s) ==
  /\ drivers[s] > 0 /\ s \in sent /\ s \in risk.funding_claims
  /\ risk' = FundingSettled(risk, s)
  /\ UNCHANGED <<bookVars, creation, task, disk, driverVars, modeVars>>

\* set_terminal, a write that may fail, and the end of the task with its guard.
DriverEnds(s) ==
  /\ drivers[s] > 0 /\ s \notin calling
  /\ over' = over \cup {s}
  /\ \/ disk' = [disk EXCEPT ![s].state = "ended"]
     \/ UNCHANGED disk
  /\ drivers' = [drivers EXCEPT ![s] = @ - 1]
  /\ risk' = Release(risk, s)
  /\ UNCHANGED <<bookVars, creation, task, calling, sent, balance, overdrawn,
                 modeVars>>

-----------------------------------------------------------------------------
(* The process dies, and resume_swaps.                                     *)

Crash ==
  /\ mode # "down" /\ mode' = "down" /\ todo' = {}
  /\ book' = {} /\ redeemed' = {} /\ lookups' = {}
  /\ creation' = None /\ task' = [t \in Tasks |-> Idle]
  /\ risk' = NewRiskManager
  /\ drivers' = [s \in Swaps |-> 0] /\ calling' = {}
  /\ UNCHANGED <<signed, disk, sent, over, balance, overdrawn>>

Restart ==
  /\ mode = "down" /\ mode' = "restoring" /\ todo' = Active
  /\ UNCHANGED <<bookVars, creation, task, risk, disk, driverVars>>

Accepted(S) == {s \in S : disk[s].state = "accepted"}

\* restore: one record at a time, whatever the limits say.
RestoreReservation(s) ==
  /\ mode = "restoring" /\ s \in Accepted(todo) \ risk.reservations
  /\ risk' = IF Admits(risk, s, "Funded") THEN Reserve(risk, s, "Funded")
                                          ELSE risk
  /\ UNCHANGED <<bookVars, creation, task, disk, driverVars, modeVars>>

RestoreFundingClaims_Forgotten ==
  /\ mode = "restoring" /\ Accepted(todo) \subseteq risk.reservations
  /\ mode' = "resuming"
  /\ UNCHANGED <<bookVars, creation, task, risk, disk, driverVars, todo>>

\* restore_funding_claim, before any unfinished admission is looked at.
RestoreFundingClaims ==
  /\ mode = "restoring" /\ Accepted(todo) \subseteq risk.reservations
  /\ risk' = ClaimFunding(risk, {s \in Accepted(todo) : awaits_funding(s)})
  /\ mode' = "resuming"
  /\ UNCHANGED <<bookVars, creation, task, disk, driverVars, todo>>

ResumeAccepted(s) ==
  /\ mode = "resuming" /\ task[Resumer].pc = "idle" /\ s \in Accepted(todo)
  /\ drivers' = [drivers EXCEPT ![s] = @ + 1] /\ todo' = todo \ {s}
  /\ UNCHANGED <<bookVars, creation, task, risk, disk, calling, sent, over,
                 balance, overdrawn, mode>>

\* An unfinished admission goes the way of a redelivered request; when it
\* fails it is left for one.
ResumePending(s) ==
  /\ mode = "resuming" /\ task[Resumer].pc = "idle"
  /\ s \in todo \ Accepted(todo) /\ todo' = todo \ {s}
  /\ task' = [task EXCEPT ![Resumer] =
       [Idle EXCEPT !.pc = "recover", !.swap = s, !.hash = disk[s].hash,
                    !.recovering = TRUE]]
  /\ UNCHANGED <<bookVars, creation, risk, disk, driverVars, mode>>

Serve ==
  /\ mode = "resuming" /\ todo = {} /\ task[Resumer].pc = "idle"
  /\ mode' = "serving"
  /\ UNCHANGED <<bookVars, creation, task, risk, disk, driverVars, todo>>

\* An hour after a start it no longer counts.
HourPasses(p) ==
  /\ risk.recent_starts[p] > 0
  /\ risk' = [risk EXCEPT !.recent_starts[p] = @ - 1]
  /\ UNCHANGED <<bookVars, creation, task, disk, driverVars, modeVars>>

-----------------------------------------------------------------------------
Next ==
  \/ \E s \in Swaps :
       \/ IssueQuote(s) \/ ExpireQuote(s)
       \/ LookUpQuote(s) \/ TakeBackQuote(s)
       \/ \E h \in Handlers, x \in (IF s \in Reverse THEN Hashes ELSE {None}) :
            Request(h, s, x)
       \/ FundingIntent(s) \/ FundHtlc(s) \/ Funded(s) \/ DriverEnds(s)
       \/ RestoreReservation(s) \/ ResumeAccepted(s) \/ ResumePending(s)
  \/ \E h \in Handlers : TakeAndReserve(h) \/ PersistIntent(h)
  \/ \E t \in Tasks :
       \/ ReservePending(t) \/ ReadBalance(t) \/ Claim(t)
       \/ CreateHoldInvoice(t) \/ PersistAccepted(t) \/ Spawn(t) \/ Fails(t)
  \/ \E p \in Peers : HourPasses(p)
  \/ Crash \/ Restart \/ RestoreFundingClaims \/ Serve

Spec == Init /\ [][Next]_vars

-----------------------------------------------------------------------------
(* Properties.                                                             *)

\* Every variable holds a value of its kind, and a swap has one driver at most.
TypeOK ==
  /\ signed \subseteq Swaps /\ book \subseteq Swaps /\ redeemed \subseteq Swaps
  /\ lookups \subseteq Swaps
  /\ creation \in Handlers \cup {None}
  /\ task \in [Tasks -> TaskStates]
  /\ risk \in Inner
  /\ disk \in [Swaps -> Records]
  /\ drivers \in [Swaps -> 0..1]
  /\ calling \subseteq Reverse /\ sent \subseteq Reverse /\ over \subseteq Swaps
  /\ balance \in Nat /\ overdrawn \in Nat
  /\ mode \in {"down", "restoring", "resuming", "serving"}
  /\ todo \subseteq Swaps

\* Swaps somebody may be out of money on: accepted, and not brought to an end.
Live == {s \in Swaps : disk[s].state = "accepted" /\ s \notin over}

\* "The driver runs whether or not the acceptance arrived" (start_reverse):
\* while the daemon serves, every live swap has exactly one driver and the
\* reservation that goes with it, or a handler about to hand them over.
LiveSwapIsDriven ==
  mode = "serving" => \A s \in Live :
    /\ s \in risk.reservations
    /\ drivers[s] = 1 \/ \E t \in Tasks : task[t].pc = "spawn" /\ task[t].swap = s

\* "Exposure is a property of the swaps that exist, not of this process's
\* uptime" (restore): what the live swaps add up to is under every ceiling,
\* whatever crashed in between.
ExposureIsBounded ==
  LET Of(p) == {s \in Live : PeerOf[s] = p}
  IN  /\ Total(AmountOf, Live) <= max_total_exposure_sat
      /\ Cardinality(Live) <= max_concurrent_swaps
      /\ \A p \in Peers : /\ Total(AmountOf, Of(p)) <= max_exposure_per_peer_sat
                          /\ Cardinality(Of(p)) <= max_concurrent_per_peer

\* A reverse swap takes the client's payment before it funds, so when it comes
\* to fund, the wallet must still have the coins of every live swap that has
\* not funded yet, and the reserve (claim_funding).  It may be short, but only
\* by what one admission did not see leave the wallet before its claim: however
\* many admissions, fundings and restarts there were, the shortfalls do not add up.
WalletCovers ==
  LET owed == {s \in Live : awaits_funding(s)} \cup calling
  IN  owed # {} => Total(ClaimOf, owed) + min_onchain_reserve_sat <= balance + overdrawn

\* "One Lightning payment hash cannot fund multiple reverse contracts"
\* (ensure_reverse_hash_available), two handlers at once included.
OneSwapPerHash ==
  \A r, s \in Reverse : r # s /\ disk[r].state # "none" =>
                          disk[r].hash # disk[s].hash

\* A quote is single-use (take_valid_quote): the book never offers one that a
\* request has redeemed in this run or that a swap was created from, signed
\* copies that come back included (#103).
QuoteIsSingleUse ==
  \A s \in book : /\ s \notin redeemed /\ disk[s].state = "none"
                  /\ \A t \in Tasks : task[t].swap = s => task[t].pc = "take"
=============================================================================
