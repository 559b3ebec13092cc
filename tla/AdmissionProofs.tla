-------------------------- MODULE AdmissionProofs --------------------------
(***************************************************************************)
(* Safety of admissions for any number of swaps, handlers and hashes, any  *)
(* limits, and any number of failures and crashes.                         *)
(***************************************************************************)
EXTENDS Admission, FiniteSetTheorems, TLAPS

(* What the operations on the accounting return.                           *)

\* A reservation adds one swap, and the counters stay numbers.
LEMMA ReserveFacts ==
  ASSUME NEW r \in Inner, NEW s \in Swaps, NEW m
  PROVE  /\ Reserve(r, s, m) \in Inner
         /\ Reserve(r, s, m).reservations = r.reservations \cup {s}
<1>1. PeerOf[s] \in Peers /\ AmountOf[s] \in Nat
  BY RiskAssumption
<1> DEFINE p == PeerOf[s]
<1>2. /\ [r.committed_sat EXCEPT ![p] = @ + AmountOf[s]] \in [Peers -> Nat]
      /\ [r.in_flight EXCEPT ![p] = @ + 1] \in [Peers -> Nat]
      /\ [r.recent_starts EXCEPT ![p] = IF m = "New" THEN @ + 1 ELSE @]
           \in [Peers -> Nat]
  BY <1>1 DEF Inner
<1>3. r.reservations \cup {s} \subseteq Swaps /\ r.total_in_flight + 1 \in Nat
        /\ r.total_committed_sat + AmountOf[s] \in Nat
  BY <1>1 DEF Inner
<1>4. CASE m = "New"
  BY <1>1, <1>2, <1>3, <1>4 DEF Reserve, Inner
<1>5. CASE m # "New"
  BY <1>1, <1>2, <1>3, <1>5 DEF Reserve, Inner
<1> QED
  BY <1>4, <1>5

\* A release takes away one swap and its claim.
LEMMA ReleaseFacts ==
  ASSUME NEW r \in Inner, NEW s \in Swaps
  PROVE  /\ Release(r, s) \in Inner
         /\ Release(r, s).reservations = r.reservations \ {s}
<1>1. PeerOf[s] \in Peers /\ AmountOf[s] \in Nat
  BY RiskAssumption
<1> DEFINE p == PeerOf[s]
<1>2. \A a, b \in Nat : SaturatingMinus(a, b) \in Nat
  BY DEF SaturatingMinus
<1>3. /\ [r.committed_sat EXCEPT ![p] = SaturatingMinus(@, AmountOf[s])]
           \in [Peers -> Nat]
      /\ [r.in_flight EXCEPT ![p] = SaturatingMinus(@, 1)] \in [Peers -> Nat]
      /\ SaturatingMinus(r.total_committed_sat, AmountOf[s]) \in Nat
      /\ SaturatingMinus(r.total_in_flight, 1) \in Nat
  BY <1>1, <1>2 DEF Inner
<1>4. r.funding_claims \ {s} \subseteq Swaps /\ r.reservations \ {s} \subseteq Swaps
  BY DEF Inner
<1>5. CASE s \notin r.reservations
  BY <1>4, <1>5 DEF Release, Inner
<1>6. CASE s \in r.reservations
  BY <1>3, <1>4, <1>6 DEF Release, Inner
<1> QED
  BY <1>5, <1>6

\* Claims do not touch the reservations.
LEMMA ClaimFacts ==
  ASSUME NEW r \in Inner, NEW s \in Swaps, NEW S \in SUBSET Swaps
  PROVE  /\ ClaimFunding(r, S) \in Inner
         /\ ClaimFunding(r, S).reservations = r.reservations
         /\ FundingSettled(r, s) \in Inner
         /\ FundingSettled(r, s).reservations = r.reservations
  BY DEF ClaimFunding, FundingSettled, Inner

\* The accounting of a process that has just started.
LEMMA NewFacts == NewRiskManager \in Inner /\ NewRiskManager.reservations = {}
  BY DEF NewRiskManager, Inner

-----------------------------------------------------------------------------
(* The inductive invariant.                                                *)

\* A handler runs only under the creation lock and only while the daemon
\* serves; the startup pass only while it resumes, on a record it has taken
\* from its list.
LocksHeld ==
  /\ \A h \in Handlers : task[h].pc # "idle" => creation = h /\ mode = "serving"
  /\ task[Resumer].pc # "idle" => mode = "resuming"
                                  /\ task[Resumer].swap \notin todo

\* A task whose swap has no record yet, and one whose swap has an intent.
Unrecorded(t) ==
  /\ ~task[t].recovering
  /\ \/ task[t].pc \in {"take", "balance", "claim", "persist"}
     \/ task[t].pc = "complete" /\ task[t].swap \notin Reverse

WithIntent(t) ==
  \/ task[t].pc = "invoice"
  \/ task[t].pc \in {"recover", "balance", "claim"} /\ task[t].recovering
  \/ task[t].pc = "complete" /\ task[t].swap \in Reverse

\* What a running task knows of its swap.
TaskFits(t) ==
  LET s == task[t].swap IN
  /\ s \in Swaps
  /\ IF s \in Reverse THEN task[t].hash \in Hashes ELSE task[t].hash = None
  /\ Unrecorded(t) \/ WithIntent(t) \/ task[t].pc = "spawn"
  /\ Unrecorded(t) => /\ disk[s] = NoRecord
                      /\ \A r \in Reverse : disk[r].hash # task[t].hash
                           \/ s \notin Reverse
  /\ WithIntent(t) => disk[s].state = "pending" /\ disk[s].hash = task[t].hash
  /\ task[t].pc = "spawn" => disk[s].state = "accepted"
  /\ task[t].pc \in {"balance", "claim", "persist", "invoice"} => s \in Reverse
  /\ HasGuard(t) => s \in risk.reservations /\ drivers[s] = 0

TasksFit == \A t \in Tasks : IF task[t].pc = "idle" THEN task[t] = Idle
                                                    ELSE TaskFits(t)

RecordsFit ==
  \A s \in Swaps :
    /\ disk[s].state = "none" => disk[s] = NoRecord
    /\ disk[s].state # "none" /\ s \in Reverse => disk[s].hash \in Hashes
    /\ disk[s].state = "pending" => s \in Reverse

\* A driver holds its swap's reservation, and startup has not yet to start it.
DriversFit ==
  \A s \in Swaps : drivers[s] = 1 =>
    /\ s \in risk.reservations /\ disk[s].state = "accepted" /\ s \notin todo
    /\ mode \in {"resuming", "serving"}

TodoFits ==
  /\ mode \in {"down", "serving"} => todo = {}
  /\ \A s \in todo : disk[s].state \in {"pending", "accepted"}
  /\ mode = "resuming" => Accepted(todo) \subseteq risk.reservations

\* A live swap is driven, or startup still has it on its list.
LiveFits ==
  mode # "down" => \A s \in Live :
    \/ s \in todo
    \/ /\ s \in risk.reservations
       /\ drivers[s] = 1 \/ \E t \in Tasks : task[t].pc = "spawn" /\ task[t].swap = s

\* A quote that may still be offered has no record; one that a task has taken
\* is redeemed, expired, or on record.
QuotesFit ==
  /\ book \subseteq signed \ redeemed
  /\ \A s \in signed \ redeemed :
       /\ s \in book \cup lookups => disk[s].state = "none"
       /\ (\E t \in Tasks : task[t].swap = s /\ task[t].pc # "take") =>
            disk[s].state # "none"

IInv == /\ TypeOK /\ LocksHeld /\ TasksFit /\ RecordsFit /\ DriversFit
        /\ TodoFits /\ LiveFits /\ OneSwapPerHash /\ QuotesFit

\* It holds at first.
LEMMA InvInit == Init => IInv
<1> SUFFICES ASSUME Init PROVE IInv
  OBVIOUS
<1>1. Idle \in TaskStates
  BY DEF Idle, Positions, TaskStates
<1>2. NoRecord \in Records
  BY DEF NoRecord, Records
<1>3. TypeOK
  <2>1. task \in [Tasks -> TaskStates]
    BY <1>1 DEF Init
  <2>2. disk \in [Swaps -> Records] /\ risk \in Inner
    BY <1>2, NewFacts DEF Init
  <2>3. drivers \in [Swaps -> 0..1] /\ balance \in Nat /\ overdrawn \in Nat
    BY AdmissionAssumption DEF Init
  <2> QED
    BY <2>1, <2>2, <2>3 DEF Init, TypeOK
<1>4. LocksHeld /\ TasksFit
  BY DEF Init, LocksHeld, TasksFit, Tasks, Idle
<1>5. /\ \A s \in Swaps : disk[s] = NoRecord /\ disk[s].state = "none"
      /\ mode = "serving" /\ todo = {} /\ \A s \in Swaps : drivers[s] = 0
  BY DEF Init, NoRecord
<1>6. RecordsFit /\ DriversFit /\ TodoFits /\ LiveFits /\ OneSwapPerHash
  BY <1>5, AdmissionAssumption
     DEF RecordsFit, DriversFit, TodoFits, LiveFits, Live, OneSwapPerHash
<1>7. QuotesFit
  BY DEF Init, QuotesFit
<1> QED
  BY <1>3, <1>4, <1>6, <1>7 DEF IInv

-----------------------------------------------------------------------------
(* Every step preserves it.                                                *)

\* An idle task has no swap.
LEMMA IdleFacts == /\ Idle.pc = "idle" /\ Idle.swap = None /\ Idle \in TaskStates
                   /\ ~Idle.recovering
  BY DEF Idle, TaskStates, Positions

\* The locks let one task run at a time.
LEMMA Alone ==
  ASSUME IInv, NEW t \in Tasks, task[t].pc # "idle", NEW u \in Tasks, u # t
  PROVE  task[u] = Idle /\ task[u].pc = "idle" /\ task[u].swap = None
<1> SUFFICES ASSUME task[u].pc # "idle" PROVE FALSE
  BY IdleFacts DEF IInv, TasksFit
<1>1. CASE t \in Handlers /\ u \in Handlers
  BY <1>1 DEF IInv, LocksHeld
<1>2. CASE t = Resumer \/ u = Resumer
  BY <1>2 DEF IInv, LocksHeld, Tasks
<1> QED
  BY <1>1, <1>2 DEF Tasks

\* What depends on the tasks, the accounting, the records and the drivers.
CoreInv == /\ LocksHeld /\ TasksFit /\ RecordsFit /\ DriversFit
           /\ TodoFits /\ LiveFits /\ OneSwapPerHash

\* The quote book moves, and nothing that CoreInv is about does.
LEMMA CoreStutters ==
  ASSUME CoreInv, UNCHANGED <<creation, task, risk, disk, driverVars, modeVars>>
  PROVE  CoreInv'
<1> USE DEF driverVars, modeVars
<1>1. LocksHeld' /\ RecordsFit' /\ OneSwapPerHash'
  BY DEF CoreInv, LocksHeld, RecordsFit, OneSwapPerHash
<1>2. TasksFit'
  BY DEF CoreInv, TasksFit, TaskFits, Unrecorded, WithIntent, HasGuard
<1>3. DriversFit' /\ TodoFits' /\ LiveFits'
  BY DEF CoreInv, DriversFit, TodoFits, LiveFits, Live, Accepted
<1> QED
  BY <1>1, <1>2, <1>3 DEF CoreInv

\* Issuing, expiring and taking back quotes.
LEMMA QuoteStep ==
  ASSUME IInv, NEW s \in Swaps,
         IssueQuote(s) \/ ExpireQuote(s) \/ LookUpQuote(s) \/ TakeBackQuote(s)
  PROVE  IInv'
<1>1. UNCHANGED <<creation, task, risk, disk, driverVars, modeVars>>
  BY DEF IssueQuote, ExpireQuote, LookUpQuote, TakeBackQuote
<1>2. CoreInv'
  BY <1>1, CoreStutters DEF IInv, CoreInv
<1>3. \A b \in Inserted(s) : b \subseteq book \cup {s}
  BY DEF Inserted
<1>4. /\ signed' \subseteq Swaps /\ book' \subseteq Swaps
      /\ redeemed' \subseteq Swaps /\ lookups' \subseteq Swaps
  BY <1>3 DEF IInv, TypeOK, IssueQuote, ExpireQuote, LookUpQuote, TakeBackQuote
<1>5. TypeOK'
  BY <1>1, <1>4 DEF IInv, TypeOK, driverVars, modeVars
<1>6. QuotesFit'
  <2> USE DEF QuotesFit
  <2>1. CASE IssueQuote(s)
    BY <2>1, <1>3 DEF IInv, IssueQuote
  <2>2. CASE ExpireQuote(s)
    BY <2>2 DEF IInv, ExpireQuote
  <2>3. CASE LookUpQuote(s)
    BY <2>3 DEF IInv, LookUpQuote
  <2>4. CASE TakeBackQuote(s)
    BY <2>4, <1>3 DEF IInv, TakeBackQuote
  <2> QED
    BY <2>1, <2>2, <2>3, <2>4
<1> QED
  BY <1>2, <1>5, <1>6 DEF IInv, CoreInv

\* A running task moves on, or stops: only what it knows of its own swap has to
\* be shown again.
LEMMA TaskMoves ==
  ASSUME IInv, NEW t \in Tasks, task[t].pc # "idle",
         UNCHANGED <<mode, todo>>,
         \A u \in Tasks \ {t} : task'[u] = task[u],
         \/ task'[t] = Idle
         \/ /\ task'[t].swap = task[t].swap /\ task'[t].pc # "idle"
            /\ creation' = creation /\ TaskFits(t)'
  PROVE  LocksHeld' /\ TasksFit'
<1>1. \A u \in Tasks \ {t} : task'[u] = Idle /\ task'[u].pc = "idle"
  BY Alone
<1>2. LocksHeld'
  BY <1>1, IdleFacts, AdmissionAssumption DEF IInv, LocksHeld, Tasks
<1>3. TasksFit'
  BY <1>1, IdleFacts DEF TasksFit
<1> QED
  BY <1>2, <1>3

\* The handler asks the wallet, and creates the invoice: nothing else moves.
LEMMA AwaitStep ==
  ASSUME IInv, NEW t \in Tasks, ReadBalance(t) \/ CreateHoldInvoice(t)
  PROVE  IInv'
<1> DEFINE s == task[t].swap
<1>1. /\ task[t].pc \in {"balance", "invoice"} /\ task \in [Tasks -> TaskStates]
      /\ UNCHANGED <<bookVars, creation, risk, disk, driverVars, modeVars>>
  BY DEF IInv, TypeOK, ReadBalance, CreateHoldInvoice, Goto
<1>2. /\ task' \in [Tasks -> TaskStates]
      /\ \A u \in Tasks \ {t} : task'[u] = task[u]
      /\ task'[t].swap = s /\ task'[t].hash = task[t].hash
      /\ task'[t].recovering = task[t].recovering
      /\ task[t].pc = "balance" => task'[t].pc = "claim"
      /\ task[t].pc = "invoice" => task'[t].pc = "complete"
  BY <1>1 DEF IInv, TypeOK, ReadBalance, CreateHoldInvoice, Goto, TaskStates,
              Positions
<1>3. TaskFits(t)
  BY <1>1 DEF IInv, TasksFit
<1>4. TaskFits(t)'
  BY <1>1, <1>2, <1>3
     DEF TaskFits, Unrecorded, WithIntent, HasGuard, driverVars
<1>5. LocksHeld' /\ TasksFit'
  BY <1>1, <1>2, <1>4, TaskMoves DEF modeVars
<1>6. RecordsFit' /\ OneSwapPerHash' /\ DriversFit' /\ TodoFits'
  BY <1>1 DEF IInv, RecordsFit, OneSwapPerHash, DriversFit, TodoFits, Accepted,
              driverVars, modeVars
<1>7. LiveFits'
  BY <1>1, <1>2 DEF IInv, LiveFits, Live, driverVars, modeVars
<1>8. QuotesFit'
  BY <1>1, <1>2 DEF IInv, QuotesFit, bookVars
<1>9. TypeOK'
  BY <1>1, <1>2 DEF IInv, TypeOK, bookVars, driverVars, modeVars
<1> QED
  BY <1>5, <1>6, <1>7, <1>8, <1>9 DEF IInv

\* The claim on the wallet.
LEMMA ClaimStep ==
  ASSUME IInv, NEW t \in Tasks, Claim(t)
  PROVE  IInv'
<1> DEFINE s == task[t].swap
<1>1. /\ task[t].pc = "claim" /\ task \in [Tasks -> TaskStates]
      /\ risk' = ClaimFunding(risk, {s})
      /\ UNCHANGED <<bookVars, creation, disk, drivers, calling, sent, over, balance,
                     modeVars>>
  BY DEF IInv, TypeOK, Claim
<1>2. TaskFits(t) /\ s \in Swaps
  BY <1>1 DEF IInv, TasksFit, TaskFits
<1>3. risk' \in Inner /\ risk'.reservations = risk.reservations
  BY <1>1, <1>2, ClaimFacts DEF IInv, TypeOK
<1>4. /\ task' \in [Tasks -> TaskStates]
      /\ \A u \in Tasks \ {t} : task'[u] = task[u]
      /\ task'[t].swap = s /\ task'[t].hash = task[t].hash
      /\ task'[t].recovering = task[t].recovering
      /\ task'[t].pc = IF task[t].recovering THEN "invoice" ELSE "persist"
  BY <1>1 DEF Claim, Goto, TaskStates, Positions
<1>5. TaskFits(t)'
  BY <1>1, <1>2, <1>3, <1>4
     DEF TaskFits, Unrecorded, WithIntent, HasGuard, driverVars
<1>6. LocksHeld' /\ TasksFit'
  BY <1>1, <1>4, <1>5, TaskMoves DEF modeVars
<1>7. RecordsFit' /\ OneSwapPerHash' /\ DriversFit' /\ TodoFits'
  BY <1>1, <1>3 DEF IInv, RecordsFit, OneSwapPerHash, DriversFit, TodoFits,
                    Accepted, driverVars, modeVars
<1>8. LiveFits'
  BY <1>1, <1>3, <1>4 DEF IInv, LiveFits, Live, driverVars, modeVars
<1>9. QuotesFit'
  BY <1>1, <1>4 DEF IInv, QuotesFit, bookVars
<1>10. overdrawn' \in Nat
  <2>1. task[t].available \in Nat /\ balance \in Nat /\ overdrawn \in Nat
    BY <1>1 DEF IInv, TypeOK, TaskStates
  <2>2. overdrawn' \in {overdrawn, SaturatingMinus(task[t].available, balance)}
    BY DEF Claim
  <2> QED
    BY <2>1, <2>2 DEF SaturatingMinus
<1>11. TypeOK'
  BY <1>1, <1>3, <1>4, <1>10 DEF IInv, TypeOK, bookVars, driverVars, modeVars
<1> QED
  BY <1>6, <1>7, <1>8, <1>9, <1>11 DEF IInv

\* The two writes of an admission: the intent, and the accepted record.
LEMMA PersistStep ==
  ASSUME IInv, NEW t \in Tasks, PersistIntent(t) \/ PersistAccepted(t)
  PROVE  IInv'
<1> DEFINE s == task[t].swap
           n == disk'[s]
<1>1. /\ task[t].pc \in {"persist", "complete"} /\ task \in [Tasks -> TaskStates]
      /\ disk \in [Swaps -> Records]
      /\ UNCHANGED <<bookVars, creation, risk, driverVars, modeVars>>
  BY DEF IInv, TypeOK, PersistIntent, PersistAccepted
<1>2. TaskFits(t) /\ s \in Swaps
  BY <1>1 DEF IInv, TasksFit, TaskFits
<1>3. /\ task' \in [Tasks -> TaskStates]
      /\ \A u \in Tasks \ {t} : task'[u] = task[u]
      /\ task'[t].swap = s /\ task'[t].hash = task[t].hash
      /\ task'[t].recovering = task[t].recovering
      /\ task[t].pc = "persist" => task'[t].pc = "invoice"
      /\ task[t].pc = "complete" => task'[t].pc = "spawn"
  BY <1>1 DEF PersistIntent, PersistAccepted, Goto, TaskStates, Positions
<1>4. /\ disk' \in [Swaps -> Records] /\ \A r \in Swaps \ {s} : disk'[r] = disk[r]
      /\ n.hash = task[t].hash
      /\ task[t].pc = "persist" => n.state = "pending"
      /\ task[t].pc = "complete" => n.state = "accepted"
  <2>1. task[t].hash \in Hashes \cup {None} /\ disk[s] \in Records
    BY <1>1, <1>2 DEF TaskStates
  <2>2. CASE PersistIntent(t)
    BY <2>1, <2>2, <1>1, <1>2 DEF PersistIntent, NoRecord, Records
  <2>3. CASE PersistAccepted(t)
    <3>1. [[disk[s] EXCEPT !.state = "accepted"] EXCEPT !.hash = task[t].hash]
            \in Records
      BY <2>1 DEF Records
    <3>2. disk' = [disk EXCEPT ![s] = [[disk[s] EXCEPT !.state = "accepted"]
                                                EXCEPT !.hash = task[t].hash]]
      BY <2>3, <1>1, <1>2 DEF PersistAccepted
    <3> QED
      BY <2>1, <2>3, <3>1, <3>2, <1>1, <1>2 DEF PersistAccepted, Records
  <2> QED
    BY <2>2, <2>3
<1>5. TaskFits(t)'
  BY <1>1, <1>2, <1>3, <1>4
     DEF TaskFits, Unrecorded, WithIntent, HasGuard, driverVars
<1>6. LocksHeld' /\ TasksFit'
  BY <1>1, <1>3, <1>5, TaskMoves DEF modeVars
<1>7. RecordsFit'
  BY <1>2, <1>1, <1>4 DEF IInv, RecordsFit, TaskFits, Unrecorded, WithIntent
<1>8. OneSwapPerHash'
  <2>1. s \in Reverse => \A r \in Reverse \ {s} : disk[r].hash # task[t].hash
    BY <1>1, <1>2, AdmissionAssumption
       DEF IInv, OneSwapPerHash, TaskFits, Unrecorded, WithIntent
  <2> QED
    BY <2>1, <1>2, <1>4, AdmissionAssumption DEF IInv, OneSwapPerHash
<1>9. DriversFit' /\ s \in risk.reservations /\ drivers[s] = 0
  <2>1. s \in risk.reservations /\ drivers[s] = 0
    BY <1>1, <1>2 DEF TaskFits, HasGuard
  <2> QED
    BY <2>1, <1>1, <1>4 DEF IInv, DriversFit, driverVars, modeVars
<1>10. TodoFits'
  BY <1>1, <1>4, <1>9 DEF IInv, TypeOK, TodoFits, Accepted, modeVars
<1>11. LiveFits'
  BY <1>1, <1>2, <1>3, <1>4, <1>9 DEF IInv, LiveFits, Live, driverVars, modeVars
<1>12. QuotesFit'
  <2>1. signed \subseteq Swaps /\ \A r \in Swaps \ {s} : disk'[r] = disk[r]
    BY <1>4 DEF IInv, TypeOK
  <2>2. s \notin (book \cup lookups) \cap (signed \ redeemed) /\ n.state # "none"
    BY <1>1, <1>2, <1>4 DEF IInv, QuotesFit, TaskFits, Unrecorded, WithIntent
  <2> QED
    BY <2>1, <2>2, <1>1, <1>3 DEF IInv, QuotesFit, bookVars
<1>13. TypeOK'
  BY <1>1, <1>3, <1>4 DEF IInv, TypeOK, bookVars, driverVars, modeVars
<1> QED
  BY <1>6, <1>7, <1>8, <1>9, <1>10, <1>11, <1>12, <1>13 DEF IInv

\* The reservation: of a quote that has just been taken, or of an intent.
LEMMA ReserveStep ==
  ASSUME IInv, NEW t \in Tasks,
         (t \in Handlers /\ TakeAndReserve(t)) \/ ReservePending(t)
  PROVE  IInv'
<1> DEFINE s == task[t].swap
<1>1. /\ task[t].pc \in {"take", "recover"} /\ task \in [Tasks -> TaskStates]
      /\ UNCHANGED <<signed, lookups, disk, driverVars, modeVars>>
  BY DEF IInv, TypeOK, TakeAndReserve, ReservePending, bookVars
<1>2. TaskFits(t) /\ s \in Swaps
  BY <1>1 DEF IInv, TasksFit, TaskFits
<1>3. drivers[s] = 0 \/ s \in risk.reservations
  BY <1>2 DEF IInv, TypeOK, DriversFit
<1>4. \/ /\ risk' = risk
         /\ task' = [task EXCEPT ![t] = Idle]
         /\ creation' = IF creation = t THEN None ELSE creation
      \/ /\ s \notin risk.reservations
         /\ risk' \in {Reserve(risk, s, m) : m \in {"New", "Pending"}}
         /\ creation' = creation
         /\ task[t].pc = "take" =>
              task' = [task EXCEPT ![t].pc =
                         IF s \in Reverse THEN "balance" ELSE "complete"]
         /\ task[t].pc = "recover" => /\ task' = [task EXCEPT ![t].pc = "balance"]
                                      /\ disk[s].state = "pending"
  BY DEF TakeAndReserve, ReservePending, Done, Goto, Admits
<1>5. /\ risk' \in Inner
      /\ risk.reservations \subseteq risk'.reservations
  BY <1>2, <1>4, ReserveFacts DEF IInv, TypeOK
<1>6. /\ task' \in [Tasks -> TaskStates]
      /\ creation' \in Handlers \cup {None}
      /\ \A u \in Tasks \ {t} : task'[u] = task[u]
      /\ \/ task'[t] = Idle
         \/ /\ task'[t].swap = s /\ task'[t].hash = task[t].hash
            /\ task'[t].recovering = task[t].recovering
            /\ task'[t].pc \in {"balance", "complete"}
            /\ creation' = creation
            /\ s \in risk'.reservations /\ drivers[s] = 0
            /\ task[t].pc = "take" => task'[t].pc =
                 IF s \in Reverse THEN "balance" ELSE "complete"
            /\ task[t].pc = "recover" => /\ task'[t].pc = "balance"
                                         /\ disk[s].state = "pending"
  <2>1. CASE task' = [task EXCEPT ![t] = Idle]
    BY <2>1, <1>1, <1>4, IdleFacts DEF IInv, TypeOK
  <2>2. CASE task' # [task EXCEPT ![t] = Idle]
    <3>1. s \in risk'.reservations /\ drivers[s] = 0
      BY <2>2, <1>2, <1>3, <1>4, ReserveFacts DEF IInv, TypeOK
    <3> QED
      BY <2>2, <3>1, <1>1, <1>4 DEF IInv, TypeOK, TaskStates, Positions
  <2> QED
    BY <2>1, <2>2
<1>7. task'[t] = Idle \/ TaskFits(t)'
  <2> SUFFICES ASSUME task'[t] # Idle PROVE TaskFits(t)'
    OBVIOUS
  <2>1. task[t].pc = "take" => ~task[t].recovering /\ Unrecorded(t)
    BY <1>2 DEF TaskFits, Unrecorded, WithIntent
  <2>2. CASE task[t].pc = "take"
    BY <2>1, <2>2, <1>1, <1>2, <1>6
       DEF TaskFits, Unrecorded, WithIntent, HasGuard, driverVars
  <2>3. CASE task[t].pc = "recover"
    BY <2>3, <1>1, <1>2, <1>6, AdmissionAssumption
       DEF IInv, RecordsFit, TaskFits, Unrecorded, WithIntent, HasGuard,
           driverVars
  <2> QED
    BY <1>1, <2>2, <2>3
<1>8. LocksHeld' /\ TasksFit'
  BY <1>1, <1>6, <1>7, IdleFacts, TaskMoves DEF modeVars
<1>9. RecordsFit' /\ OneSwapPerHash' /\ DriversFit' /\ TodoFits'
  BY <1>1, <1>5 DEF IInv, RecordsFit, OneSwapPerHash, DriversFit, TodoFits,
                    Accepted, driverVars, modeVars
<1>10. LiveFits'
  BY <1>1, <1>5, <1>6, IdleFacts DEF IInv, LiveFits, Live, driverVars, modeVars
<1>11. QuotesFit' /\ book' \subseteq Swaps /\ redeemed' \subseteq Swaps
  <2>1. CASE TakeAndReserve(t)
    <3>1. /\ s \in book /\ book' = book \ {s} /\ redeemed' = redeemed \cup {s}
          /\ signed' = signed /\ lookups' = lookups /\ disk' = disk
      BY <2>1 DEF TakeAndReserve
    <3>2. \A u \in Tasks : task'[u].swap \in Swaps \ {s} => task'[u] = task[u]
      BY <1>6, IdleFacts, AdmissionAssumption
    <3> QED
      BY <3>1, <3>2, <1>2 DEF IInv, TypeOK, QuotesFit
  <2>2. CASE ReservePending(t)
    <3>1. task[t].pc = "recover" /\ UNCHANGED bookVars
      BY <2>2 DEF ReservePending
    <3>2. \A u \in Tasks : task'[u].swap \in Swaps /\ task'[u].pc # "take" =>
                             task[u].swap = task'[u].swap /\ task[u].pc # "take"
      BY <3>1, <1>6, IdleFacts, AdmissionAssumption
    <3> QED
      BY <3>1, <3>2, <1>1 DEF IInv, TypeOK, QuotesFit, bookVars
  <2> QED
    BY <2>1, <2>2
<1>12. TypeOK'
  BY <1>1, <1>5, <1>6, <1>11 DEF IInv, TypeOK, driverVars, modeVars
<1> QED
  BY <1>8, <1>9, <1>10, <1>11, <1>12 DEF IInv

\* Every way a task can stop before its last step.
LEMMA FailStep ==
  ASSUME IInv, NEW t \in Tasks, Fails(t)
  PROVE  IInv'
<1> DEFINE s == task[t].swap
<1>1. /\ task[t].pc \notin {"idle", "spawn"} /\ risk' = Dropped(t)
      /\ task' = [task EXCEPT ![t] = Idle]
      /\ creation' = IF creation = t THEN None ELSE creation
      /\ UNCHANGED <<bookVars, disk, driverVars, modeVars>>
  BY DEF Fails, Done
<1>2. TaskFits(t) /\ s \in Swaps
  BY <1>1 DEF IInv, TasksFit, TaskFits
<1>3. /\ task' \in [Tasks -> TaskStates] /\ task'[t] = Idle
      /\ creation' \in Handlers \cup {None}
      /\ \A u \in Tasks \ {t} : task'[u] = task[u]
  BY <1>1, IdleFacts DEF IInv, TypeOK
<1>4. /\ risk' \in Inner
      /\ \A r \in risk.reservations :
           \/ r \in risk'.reservations
           \/ r = s /\ drivers[s] = 0 /\ disk[s].state # "accepted"
  <2>1. CASE HasGuard(t)
    <3>1. disk[s].state # "accepted" /\ drivers[s] = 0
      BY <2>1, <1>1, <1>2 DEF TaskFits, Unrecorded, WithIntent, NoRecord
    <3>2. risk \in Inner /\ risk' = Release(risk, s)
      BY <2>1, <1>1 DEF IInv, TypeOK, Dropped
    <3> QED
      BY <3>1, <3>2, <1>2, ReleaseFacts
  <2>2. CASE ~HasGuard(t)
    BY <2>2, <1>1 DEF IInv, TypeOK, Dropped
  <2> QED
    BY <2>1, <2>2
<1>5. LocksHeld' /\ TasksFit'
  BY <1>1, <1>3, TaskMoves DEF modeVars
<1>6. RecordsFit' /\ OneSwapPerHash'
  BY <1>1 DEF IInv, RecordsFit, OneSwapPerHash
<1>7. DriversFit'
  BY <1>1, <1>2, <1>4 DEF IInv, DriversFit, driverVars, modeVars
<1>8. TodoFits'
  BY <1>1, <1>4 DEF IInv, TypeOK, TodoFits, Accepted, modeVars
<1>9. LiveFits'
  <2>1. \A u \in Tasks : task[u].pc = "spawn" => u # t /\ task'[u] = task[u]
    BY <1>1, <1>3
  <2> QED
    BY <2>1, <1>1, <1>4 DEF IInv, LiveFits, Live, driverVars, modeVars
<1>10. QuotesFit'
  <2>1. \A u \in Tasks : task'[u].swap \in Swaps => task'[u] = task[u]
    BY <1>3, IdleFacts, AdmissionAssumption
  <2> QED
    BY <2>1, <1>1 DEF IInv, TypeOK, QuotesFit, bookVars
<1>11. TypeOK'
  BY <1>1, <1>3, <1>4 DEF IInv, TypeOK, bookVars, driverVars, modeVars
<1> QED
  BY <1>5, <1>6, <1>7, <1>8, <1>9, <1>10, <1>11 DEF IInv

\* The driver takes over the reservation of the task that spawned it.
LEMMA SpawnStep ==
  ASSUME IInv, NEW t \in Tasks, Spawn(t)
  PROVE  IInv'
<1> DEFINE s == task[t].swap
<1>1. /\ task[t].pc = "spawn" /\ drivers' = [drivers EXCEPT ![s] = @ + 1]
      /\ task' = [task EXCEPT ![t] = Idle]
      /\ creation' = IF creation = t THEN None ELSE creation
      /\ UNCHANGED <<bookVars, risk, disk, calling, sent, over, balance, overdrawn, modeVars>>
  BY DEF Spawn, Done
<1>2. TaskFits(t) /\ s \in Swaps
  BY <1>1 DEF IInv, TasksFit, TaskFits
<1>3. /\ task' \in [Tasks -> TaskStates] /\ task'[t] = Idle
      /\ creation' \in Handlers \cup {None}
      /\ \A u \in Tasks \ {t} : task'[u] = task[u]
  BY <1>1, IdleFacts DEF IInv, TypeOK
<1>4. /\ s \in risk.reservations /\ drivers[s] = 0 /\ disk[s].state = "accepted"
      /\ s \notin todo /\ mode \in {"resuming", "serving"}
  BY <1>1, <1>2 DEF IInv, TaskFits, HasGuard, LocksHeld, TodoFits, Tasks
<1>5. /\ drivers' \in [Swaps -> 0..1] /\ drivers'[s] = 1
      /\ \A r \in Swaps \ {s} : drivers'[r] = drivers[r]
  BY <1>1, <1>2, <1>4 DEF IInv, TypeOK
<1>6. LocksHeld' /\ TasksFit'
  BY <1>1, <1>3, TaskMoves DEF modeVars
<1>7. RecordsFit' /\ OneSwapPerHash' /\ TodoFits'
  BY <1>1 DEF IInv, RecordsFit, OneSwapPerHash, TodoFits, Accepted, modeVars
<1>8. DriversFit'
  BY <1>1, <1>4, <1>5 DEF IInv, DriversFit, modeVars
<1>9. LiveFits'
  <2>1. \A u \in Tasks : task[u].pc = "spawn" => u = t \/ task'[u] = task[u]
    BY <1>3
  <2> QED
    BY <2>1, <1>1, <1>4, <1>5 DEF IInv, LiveFits, Live, modeVars
<1>10. QuotesFit'
  <2>1. \A u \in Tasks : task'[u].swap \in Swaps => task'[u] = task[u]
    BY <1>3, IdleFacts, AdmissionAssumption
  <2> QED
    BY <2>1, <1>1 DEF IInv, TypeOK, QuotesFit, bookVars
<1>11. TypeOK'
  BY <1>1, <1>3, <1>5 DEF IInv, TypeOK, bookVars, modeVars
<1> QED
  BY <1>6, <1>7, <1>8, <1>9, <1>10, <1>11 DEF IInv

\* The two positions a task starts from.
LEMMA StartFacts ==
  ASSUME NEW s \in Swaps, NEW x \in Hashes \cup {None}
  PROVE  LET taking     == [Idle EXCEPT !.pc = "take", !.swap = s, !.hash = x]
             recovering == [Idle EXCEPT !.pc = "recover", !.swap = s, !.hash = x,
                                        !.recovering = TRUE]
         IN  /\ taking \in TaskStates /\ recovering \in TaskStates
             /\ taking.pc = "take" /\ taking.swap = s /\ taking.hash = x
             /\ ~taking.recovering
             /\ recovering.pc = "recover" /\ recovering.swap = s
             /\ recovering.hash = x /\ recovering.recovering
  BY DEF Idle, TaskStates, Positions

\* A handler enters the creation lock; the startup pass takes an intent.
LEMMA StartStep ==
  ASSUME IInv, NEW t \in Tasks, NEW s \in Swaps,
         \/ /\ t \in Handlers
            /\ \E x \in (IF s \in Reverse THEN Hashes ELSE {None}) : Request(t, s, x)
         \/ t = Resumer /\ ResumePending(s)
  PROVE  IInv'
<1>1. /\ \A u \in Tasks : task[u].pc = "idle" /\ task[u] = Idle
      /\ UNCHANGED <<bookVars, risk, disk, driverVars, mode>>
      /\ todo' \subseteq todo
  <2>1. CASE t \in Handlers
    <3>1. creation = None /\ mode = "serving"
            /\ UNCHANGED <<bookVars, risk, disk, driverVars, mode, todo>>
      BY <2>1, AdmissionAssumption DEF Request, modeVars, Tasks
    <3> QED
      BY <3>1, AdmissionAssumption DEF IInv, LocksHeld, TasksFit, Tasks
  <2>2. CASE t = Resumer /\ ResumePending(s)
    <3>1. mode = "resuming" /\ task[Resumer].pc = "idle" /\ todo' = todo \ {s}
            /\ UNCHANGED <<bookVars, risk, disk, driverVars, mode>>
      BY <2>2 DEF ResumePending
    <3> QED
      BY <3>1, AdmissionAssumption DEF IInv, LocksHeld, TasksFit, Tasks
  <2> QED
    BY <2>1, <2>2
<1>2. PICK x \in Hashes \cup {None} :
        /\ s \in Reverse => x \in Hashes
        /\ s \notin Reverse => x = None
        /\ \/ /\ task' = [task EXCEPT ![t] = [Idle EXCEPT !.pc = "take",
                                                !.swap = s, !.hash = x]]
              /\ disk[s].state = "none"
              /\ s \in Reverse => \A r \in Reverse : disk[r].hash # x
           \/ /\ task' = [task EXCEPT ![t] = [Idle EXCEPT !.pc = "recover",
                                  !.swap = s, !.hash = x, !.recovering = TRUE]]
              /\ disk[s].state = "pending" /\ disk[s].hash = x
  <2>1. CASE t \in Handlers
    <3>1. PICK x \in (IF s \in Reverse THEN Hashes ELSE {None}) : Request(t, s, x)
      BY <2>1, AdmissionAssumption DEF Tasks
    <3> QED
      BY <3>1 DEF Request, ReplayOrStart
  <2>2. CASE t = Resumer /\ ResumePending(s)
    <3>1. disk[s].state = "pending" /\ disk[s].hash \in Hashes /\ s \in Reverse
      BY <2>2 DEF IInv, TypeOK, RecordsFit, TodoFits, ResumePending, Accepted
    <3> QED
      BY <2>2, <3>1 DEF ResumePending
  <2> QED
    BY <2>1, <2>2
<1>3. /\ task'[t].swap = s /\ task'[t].hash = x
      /\ task' \in [Tasks -> TaskStates]
      /\ \A u \in Tasks \ {t} : task'[u] = Idle /\ task'[u].pc = "idle"
      /\ \/ task'[t].pc = "take" /\ ~task'[t].recovering /\ disk[s].state = "none"
         \/ task'[t].pc = "recover" /\ task'[t].recovering
      /\ task'[t].pc = "take" /\ s \in Reverse =>
           \A r \in Reverse : disk[r].hash # x
      /\ task'[t].pc = "recover" => disk[s].state = "pending" /\ disk[s].hash = x
  <2> DEFINE taking     == [Idle EXCEPT !.pc = "take", !.swap = s, !.hash = x]
             recovering == [Idle EXCEPT !.pc = "recover", !.swap = s, !.hash = x,
                                        !.recovering = TRUE]
  <2>1. /\ taking \in TaskStates /\ recovering \in TaskStates
        /\ taking.pc = "take" /\ taking.swap = s /\ taking.hash = x
        /\ ~taking.recovering
        /\ recovering.pc = "recover" /\ recovering.swap = s
        /\ recovering.hash = x /\ recovering.recovering
    BY StartFacts
  <2>2. task \in [Tasks -> TaskStates]
    BY DEF IInv, TypeOK
  <2> HIDE DEF taking, recovering
  <2>3. CASE task' = [task EXCEPT ![t] = taking]
    <3>1. disk[s].state = "none" /\ (s \in Reverse => \A r \in Reverse : disk[r].hash # x)
      BY <1>2, <2>1, <2>2, <2>3 DEF taking, recovering
    <3> QED
      BY <3>1, <1>1, <2>1, <2>2, <2>3, IdleFacts
  <2>4. CASE task' = [task EXCEPT ![t] = recovering]
    <3>1. disk[s].state = "pending" /\ disk[s].hash = x
      BY <1>2, <2>1, <2>2, <2>4 DEF taking, recovering
    <3> QED
      BY <3>1, <1>1, <2>1, <2>2, <2>4, IdleFacts
  <2> QED
    BY <1>2, <2>3, <2>4 DEF taking, recovering
<1>4. TaskFits(t)'
  BY <1>1, <1>2, <1>3
     DEF IInv, RecordsFit, TaskFits, Unrecorded, WithIntent, HasGuard
<1>5. /\ creation' \in Handlers \cup {None}
      /\ t \in Handlers => creation' = t /\ mode = "serving" /\ todo' = todo
      /\ t = Resumer => mode = "resuming" /\ todo' = todo \ {s} /\ t \notin Handlers
      /\ s \in todo => disk[s].state = "pending" \/ t \in Handlers
  <2>1. CASE t \in Handlers
    BY <2>1, AdmissionAssumption DEF Request, modeVars, IInv, TodoFits
  <2>2. CASE t = Resumer /\ ResumePending(s)
    BY <2>2, AdmissionAssumption DEF IInv, TypeOK, TodoFits, ResumePending, Accepted
  <2> QED
    BY <2>1, <2>2
<1>6. LocksHeld'
  BY <1>1, <1>3, <1>5 DEF LocksHeld, Tasks
<1>7. TasksFit'
  BY <1>3, <1>4 DEF TasksFit
<1>8. RecordsFit' /\ OneSwapPerHash' /\ DriversFit' /\ TodoFits'
  BY <1>1 DEF IInv, RecordsFit, OneSwapPerHash, DriversFit, TodoFits, Accepted,
              driverVars
<1>9. LiveFits'
  <2>1. \A r \in Live : r \in todo => r \in todo'
    BY <1>5 DEF IInv, TodoFits, Live, Tasks
  <2> QED
    BY <2>1, <1>1, IdleFacts DEF IInv, LiveFits, Live, driverVars
<1>10. QuotesFit'
  <2>1. task'[t].pc # "take" => disk[s].state # "none"
    BY <1>3
  <2>2. \A u \in Tasks : task'[u].swap \in Swaps => u = t
    BY <1>3, IdleFacts, AdmissionAssumption
  <2> QED
    BY <2>1, <2>2, <1>1, <1>3 DEF IInv, TypeOK, QuotesFit, bookVars
<1>11. TypeOK'
  BY <1>1, <1>3, <1>5 DEF IInv, TypeOK, bookVars, driverVars
<1> QED
  BY <1>6, <1>7, <1>8, <1>9, <1>10, <1>11 DEF IInv

\* A driven swap is nobody's task and is not on the startup pass's list.
LEMMA DrivenFacts ==
  ASSUME IInv, NEW s \in Swaps, drivers[s] > 0
  PROVE  /\ drivers[s] = 1 /\ s \in risk.reservations
         /\ disk[s].state = "accepted" /\ s \notin todo
         /\ mode \in {"resuming", "serving"}
         /\ \A t \in Tasks : task[t].pc # "idle" => task[t].swap # s
<1>1. drivers[s] = 1
  BY DEF IInv, TypeOK
<1>2. /\ s \in risk.reservations /\ disk[s].state = "accepted" /\ s \notin todo
      /\ mode \in {"resuming", "serving"}
  BY <1>1 DEF IInv, DriversFit
<1>3. ASSUME NEW t \in Tasks, task[t].pc # "idle" PROVE task[t].swap # s
  <2>1. TaskFits(t)
    BY <1>3 DEF IInv, TasksFit
  <2> QED
    BY <2>1, <1>1, <1>2
       DEF TaskFits, Unrecorded, WithIntent, HasGuard, NoRecord
<1> QED
  BY <1>1, <1>2, <1>3

\* A change to the record of a driven swap that keeps its hash is seen by no
\* task.
LEMMA DrivenRecord ==
  ASSUME IInv, NEW s \in Swaps, drivers[s] > 0,
         UNCHANGED task, disk' \in [Swaps -> Records],
         \A r \in Swaps \ {s} : disk'[r] = disk[r] /\ drivers'[r] = drivers[r],
         disk'[s].hash = disk[s].hash, disk'[s].state # "none",
         \A r \in Swaps \ {s} :
           r \in risk.reservations => r \in risk'.reservations
  PROVE  TasksFit' /\ OneSwapPerHash'
<1>1. OneSwapPerHash'
  BY DrivenFacts, AdmissionAssumption DEF IInv, OneSwapPerHash
<1>2. ASSUME NEW t \in Tasks, task[t].pc # "idle" PROVE TaskFits(t)'
  <2>1. TaskFits(t) /\ task[t].swap \in Swaps /\ task[t].swap # s
    BY <1>2, DrivenFacts DEF IInv, TasksFit, TaskFits
  <2>2. \A r \in Reverse : disk'[r].hash = disk[r].hash
    BY AdmissionAssumption
  <2> QED
    BY <2>1, <2>2, <1>2
       DEF TaskFits, Unrecorded, WithIntent, HasGuard
<1> QED
  BY <1>1, <1>2 DEF IInv, TasksFit

\* The driver records that it is about to fund.
LEMMA IntentStep ==
  ASSUME IInv, NEW s \in Swaps, FundingIntent(s)
  PROVE  IInv'
<1>1. /\ drivers[s] > 0 /\ s \in Reverse
      /\ disk' = [disk EXCEPT ![s].begun = TRUE] /\ calling' = calling \cup {s}
      /\ UNCHANGED <<bookVars, creation, task, risk, drivers, sent, over, balance, overdrawn,
                     modeVars>>
  BY DEF FundingIntent, awaits_funding
<1>2. /\ disk' \in [Swaps -> Records] /\ \A r \in Swaps \ {s} : disk'[r] = disk[r]
      /\ disk'[s].hash = disk[s].hash /\ disk'[s].state = disk[s].state
      /\ disk'[s].state = "accepted"
  <2>1. disk \in [Swaps -> Records] /\ disk[s].state = "accepted"
    BY <1>1, DrivenFacts DEF IInv, TypeOK
  <2> DEFINE n == [disk[s] EXCEPT !.begun = TRUE]
  <2>2. n \in Records /\ n.hash = disk[s].hash /\ n.state = disk[s].state
    BY <2>1 DEF Records
  <2>3. disk' = [disk EXCEPT ![s] = n]
    BY <1>1, <2>1
  <2> HIDE DEF n
  <2> QED
    BY <2>1, <2>2, <2>3
<1>3. TasksFit' /\ OneSwapPerHash'
  BY <1>1, <1>2, DrivenRecord
<1>4. LocksHeld' /\ RecordsFit' /\ DriversFit' /\ TodoFits'
  BY <1>1, <1>2 DEF IInv, TypeOK, LocksHeld, RecordsFit, DriversFit, TodoFits,
                    Accepted, modeVars
<1>5. LiveFits' /\ QuotesFit'
  BY <1>1, <1>2 DEF IInv, TypeOK, LiveFits, Live, QuotesFit, bookVars, modeVars
<1>6. TypeOK'
  BY <1>1, <1>2 DEF IInv, TypeOK, bookVars, modeVars
<1> QED
  BY <1>3, <1>4, <1>5, <1>6 DEF IInv

\* The wallet answers.
LEMMA FundStep ==
  ASSUME IInv, NEW s \in Swaps, FundHtlc(s)
  PROVE  IInv'
<1>1. /\ s \in calling /\ calling' = calling \ {s} /\ sent' \subseteq sent \cup {s}
      /\ \/ balance' = balance
         \/ balance >= ClaimOf[s] /\ balance' = balance - ClaimOf[s]
      /\ UNCHANGED <<bookVars, creation, task, risk, disk, drivers, over, overdrawn,
                     modeVars>>
  BY DEF FundHtlc
<1>2. LocksHeld' /\ RecordsFit' /\ OneSwapPerHash' /\ DriversFit' /\ TodoFits'
  BY <1>1 DEF IInv, LocksHeld, RecordsFit, OneSwapPerHash, DriversFit, TodoFits,
              Accepted, modeVars
<1>3. TasksFit'
  BY <1>1 DEF IInv, TasksFit, TaskFits, Unrecorded, WithIntent, HasGuard
<1>4. LiveFits' /\ QuotesFit'
  BY <1>1 DEF IInv, LiveFits, Live, QuotesFit, bookVars, modeVars
<1>5. balance' \in Nat
  BY <1>1, RiskAssumption DEF IInv, TypeOK
<1>6. TypeOK'
  BY <1>1, <1>5 DEF IInv, TypeOK, bookVars, modeVars
<1> QED
  BY <1>2, <1>3, <1>4, <1>6 DEF IInv

\* The driver's end, with or without its terminal record.
LEMMA EndStep ==
  ASSUME IInv, NEW s \in Swaps, DriverEnds(s)
  PROVE  IInv'
<1>1. /\ drivers[s] > 0 /\ over' = over \cup {s} /\ risk' = Release(risk, s)
      /\ disk' = disk \/ disk' = [disk EXCEPT ![s].state = "ended"]
      /\ drivers' = [drivers EXCEPT ![s] = @ - 1]
      /\ UNCHANGED <<bookVars, creation, task, calling, sent, balance, overdrawn, modeVars>>
  BY DEF DriverEnds
<1>2. /\ disk' \in [Swaps -> Records] /\ \A r \in Swaps \ {s} : disk'[r] = disk[r]
      /\ disk'[s].hash = disk[s].hash
      /\ disk'[s].state \in {"accepted", "ended"}
  BY <1>1, DrivenFacts DEF IInv, TypeOK, Records
<1>3. /\ drivers' \in [Swaps -> 0..1] /\ drivers'[s] = 0
      /\ \A r \in Swaps \ {s} : drivers'[r] = drivers[r]
  BY <1>1, DrivenFacts DEF IInv, TypeOK
<1>4. risk' \in Inner /\ risk'.reservations = risk.reservations \ {s}
  BY <1>1, ReleaseFacts DEF IInv, TypeOK
<1>5. TasksFit' /\ OneSwapPerHash'
  BY <1>1, <1>2, <1>3, <1>4, DrivenRecord
<1>6. LocksHeld' /\ RecordsFit' /\ DriversFit'
  BY <1>1, <1>2, <1>3, <1>4, DrivenFacts
     DEF IInv, LocksHeld, RecordsFit, DriversFit, modeVars
<1>7. TodoFits'
  BY <1>1, <1>2, <1>4, DrivenFacts DEF IInv, TypeOK, TodoFits, Accepted, modeVars
<1>8. LiveFits'
  BY <1>1, <1>2, <1>3, <1>4 DEF IInv, LiveFits, Live, modeVars
<1>9. QuotesFit'
  BY <1>1, <1>2, DrivenFacts DEF IInv, TypeOK, QuotesFit, bookVars
<1>10. TypeOK'
  BY <1>1, <1>2, <1>3, <1>4 DEF IInv, TypeOK, bookVars, modeVars
<1> QED
  BY <1>5, <1>6, <1>7, <1>8, <1>9, <1>10 DEF IInv

\* Steps on the accounting alone that keep every reservation: the end of a
\* claim, and an hour that passes.
LEMMA AccountStep ==
  ASSUME IInv,
         \/ \E s \in Swaps : Funded(s)
         \/ \E p \in Peers : HourPasses(p)
  PROVE  IInv'
<1>1. /\ risk' \in Inner /\ risk'.reservations = risk.reservations
      /\ UNCHANGED <<bookVars, creation, task, disk, driverVars, modeVars>>
  <2>1. CASE \E s \in Swaps : Funded(s)
    BY <2>1, ClaimFacts DEF IInv, TypeOK, Funded
  <2>2. CASE \E p \in Peers : HourPasses(p)
    BY <2>2 DEF IInv, TypeOK, HourPasses, Inner
  <2> QED
    BY <2>1, <2>2
<1>2. LocksHeld' /\ RecordsFit' /\ OneSwapPerHash' /\ DriversFit' /\ TodoFits'
  BY <1>1 DEF IInv, LocksHeld, RecordsFit, OneSwapPerHash, DriversFit, TodoFits,
              Accepted, driverVars, modeVars
<1>3. TasksFit'
  BY <1>1 DEF IInv, TasksFit, TaskFits, Unrecorded, WithIntent, HasGuard,
              driverVars
<1>4. LiveFits' /\ QuotesFit'
  BY <1>1 DEF IInv, LiveFits, Live, QuotesFit, bookVars, driverVars, modeVars
<1>5. TypeOK'
  BY <1>1 DEF IInv, TypeOK, bookVars, driverVars, modeVars
<1> QED
  BY <1>2, <1>3, <1>4, <1>5 DEF IInv

\* The process dies: the disk and the quotes' signatures stay.
LEMMA CrashStep == ASSUME IInv, Crash PROVE IInv'
<1>1. /\ mode' = "down" /\ todo' = {} /\ book' = {} /\ redeemed' = {}
      /\ lookups' = {} /\ creation' = None /\ task' = [t \in Tasks |-> Idle]
      /\ risk' = NewRiskManager /\ drivers' = [s \in Swaps |-> 0]
      /\ calling' = {} /\ UNCHANGED <<signed, disk, sent, over, balance, overdrawn>>
  BY DEF Crash
<1>2. \A t \in Tasks : task'[t] = Idle /\ task'[t].pc = "idle"
                         /\ task'[t].swap = None
  BY <1>1, IdleFacts
<1>3. LocksHeld' /\ TasksFit' /\ RecordsFit' /\ OneSwapPerHash'
  BY <1>1, <1>2 DEF IInv, LocksHeld, TasksFit, RecordsFit, OneSwapPerHash, Tasks
<1>4. DriversFit' /\ TodoFits' /\ LiveFits'
  BY <1>1 DEF DriversFit, TodoFits, LiveFits
<1>5. QuotesFit'
  BY <1>1, <1>2, AdmissionAssumption DEF IInv, TypeOK, QuotesFit
<1>6. TypeOK'
  BY <1>1, IdleFacts, NewFacts DEF IInv, TypeOK
<1> QED
  BY <1>3, <1>4, <1>5, <1>6 DEF IInv

\* resume_swaps, up to the first driver, and its end.
LEMMA ResumeStep ==
  ASSUME IInv,
         \/ Restart \/ RestoreFundingClaims \/ Serve
         \/ \E s \in Swaps : RestoreReservation(s)
  PROVE  IInv'
<1>1. /\ UNCHANGED <<bookVars, creation, task, disk, driverVars>>
      /\ risk' \in Inner /\ risk.reservations \subseteq risk'.reservations
  <2>1. CASE Restart \/ Serve
    BY <2>1 DEF Restart, Serve, IInv, TypeOK
  <2>2. CASE RestoreFundingClaims
    <3>1. {s \in Accepted(todo) : awaits_funding(s)} \in SUBSET Swaps
      BY DEF Accepted, IInv, TypeOK
    <3> QED
      BY <2>2, <3>1, ClaimFacts, AdmissionAssumption
         DEF RestoreFundingClaims, ClaimFunding, IInv, TypeOK, Inner
  <2>3. CASE \E s \in Swaps : RestoreReservation(s)
    BY <2>3, ReserveFacts DEF RestoreReservation, IInv, TypeOK
  <2> QED
    BY <2>1, <2>2, <2>3
<1>2. \/ mode = "down" /\ mode' = "restoring" /\ todo' = Active
      \/ mode = "restoring" /\ mode' = "restoring" /\ todo' = todo
      \/ /\ mode = "restoring" /\ mode' = "resuming" /\ todo' = todo
         /\ Accepted(todo) \subseteq risk.reservations
      \/ /\ mode = "resuming" /\ mode' = "serving" /\ todo = {} /\ todo' = {}
         /\ task[Resumer].pc = "idle"
  BY DEF Restart, RestoreFundingClaims, Serve, RestoreReservation, modeVars
<1>3. \A t \in Tasks : task[t].pc = "idle"
  BY <1>2 DEF IInv, LocksHeld, Tasks
<1>4. LocksHeld' /\ RecordsFit' /\ OneSwapPerHash'
  BY <1>1, <1>3 DEF IInv, LocksHeld, RecordsFit, OneSwapPerHash, Tasks
<1>5. TasksFit'
  BY <1>1, <1>3 DEF IInv, TasksFit
<1>6. DriversFit'
  BY <1>1, <1>2 DEF IInv, DriversFit, driverVars
<1>7. TodoFits'
  BY <1>1, <1>2 DEF IInv, TodoFits, Active, Accepted
<1>8. LiveFits'
  BY <1>1, <1>2, <1>3 DEF IInv, LiveFits, Live, Active, driverVars
<1>9. QuotesFit'
  BY <1>1 DEF IInv, QuotesFit, bookVars
<1>10. TypeOK'
  BY <1>1, <1>2 DEF IInv, TypeOK, Active, bookVars, driverVars
<1> QED
  BY <1>4, <1>5, <1>6, <1>7, <1>8, <1>9, <1>10 DEF IInv

\* A driver for a swap the restart found accepted.
LEMMA ResumeDriverStep ==
  ASSUME IInv, NEW s \in Swaps, ResumeAccepted(s)
  PROVE  IInv'
<1>1. /\ mode = "resuming" /\ task[Resumer].pc = "idle" /\ s \in Accepted(todo)
      /\ drivers' = [drivers EXCEPT ![s] = @ + 1] /\ todo' = todo \ {s}
      /\ UNCHANGED <<bookVars, creation, task, risk, disk, calling, sent, over,
                     balance, overdrawn, mode>>
  BY DEF ResumeAccepted
<1>2. \A t \in Tasks : task[t].pc = "idle"
  BY <1>1 DEF IInv, LocksHeld, Tasks
<1>3. /\ s \in todo /\ disk[s].state = "accepted" /\ s \in risk.reservations
      /\ drivers[s] = 0
  BY <1>1 DEF IInv, TypeOK, TodoFits, Accepted, DriversFit
<1>4. /\ drivers' \in [Swaps -> 0..1] /\ drivers'[s] = 1
      /\ \A r \in Swaps \ {s} : drivers'[r] = drivers[r]
  BY <1>1, <1>3 DEF IInv, TypeOK
<1>5. LocksHeld' /\ RecordsFit' /\ OneSwapPerHash'
  BY <1>1, <1>2 DEF IInv, LocksHeld, RecordsFit, OneSwapPerHash, Tasks
<1>6. TasksFit'
  BY <1>1, <1>2 DEF IInv, TasksFit
<1>7. DriversFit' /\ TodoFits'
  BY <1>1, <1>3, <1>4 DEF IInv, DriversFit, TodoFits, Accepted
<1>8. LiveFits'
  BY <1>1, <1>3, <1>4 DEF IInv, LiveFits, Live
<1>9. QuotesFit'
  BY <1>1 DEF IInv, QuotesFit, bookVars
<1>10. TypeOK'
  BY <1>1, <1>4 DEF IInv, TypeOK, bookVars
<1> QED
  BY <1>5, <1>6, <1>7, <1>8, <1>9, <1>10 DEF IInv

\* Every step of the specification.
LEMMA InvStep == IInv /\ [Next]_vars => IInv'
<1> SUFFICES ASSUME IInv, [Next]_vars PROVE IInv'
  OBVIOUS
<1>1. ASSUME NEW s \in Swaps,
             IssueQuote(s) \/ ExpireQuote(s) \/ LookUpQuote(s) \/ TakeBackQuote(s)
      PROVE  IInv'
  BY <1>1, QuoteStep
<1>2. ASSUME NEW s \in Swaps,
             \/ \E h \in Handlers, x \in (IF s \in Reverse THEN Hashes ELSE {None}) :
                  Request(h, s, x)
             \/ ResumePending(s)
      PROVE  IInv'
  BY <1>2, StartStep DEF Tasks
<1>3. ASSUME NEW s \in Swaps,
             FundingIntent(s) \/ FundHtlc(s) \/ Funded(s) \/ DriverEnds(s)
      PROVE  IInv'
  BY <1>3, IntentStep, FundStep, AccountStep, EndStep
<1>4. ASSUME NEW s \in Swaps, RestoreReservation(s) \/ ResumeAccepted(s)
      PROVE  IInv'
  BY <1>4, ResumeStep, ResumeDriverStep
<1>5. ASSUME NEW h \in Handlers, TakeAndReserve(h) \/ PersistIntent(h)
      PROVE  IInv'
  BY <1>5, ReserveStep, PersistStep DEF Tasks
<1>6. ASSUME NEW t \in Tasks,
             \/ ReservePending(t) \/ ReadBalance(t) \/ Claim(t)
             \/ CreateHoldInvoice(t) \/ PersistAccepted(t) \/ Spawn(t) \/ Fails(t)
      PROVE  IInv'
  BY <1>6, ReserveStep, AwaitStep, ClaimStep, PersistStep, SpawnStep, FailStep
<1>7. ASSUME NEW p \in Peers, HourPasses(p) PROVE IInv'
  BY <1>7, AccountStep
<1>8. CASE Crash \/ Restart \/ RestoreFundingClaims \/ Serve
  BY <1>8, CrashStep, ResumeStep
<1>9. CASE UNCHANGED vars
  <2>1. CoreInv'
    BY <1>9, CoreStutters DEF vars, IInv, CoreInv
  <2>2. TypeOK' /\ QuotesFit'
    BY <1>9 DEF vars, IInv, TypeOK, QuotesFit, bookVars, driverVars, modeVars
  <2> QED
    BY <2>1, <2>2 DEF IInv, CoreInv
<1> QED
  BY <1>1, <1>2, <1>3, <1>4, <1>5, <1>6, <1>7, <1>8, <1>9 DEF Next

\* The first invariant holds throughout.
LEMMA Invariant == Spec => []IInv
  BY InvInit, InvStep, PTL DEF Spec

-----------------------------------------------------------------------------
(* What swaps add up to.                                                    *)

\* A swap's satoshis, each marked with its swap.
Coins(of, S) == UNION {{s} \X (1..of[s]) : s \in S}

\* Sets of swaps are finite, and so are their satoshis.
LEMMA CoinsAreFinite ==
  ASSUME NEW of \in [Swaps -> Nat], NEW S \in SUBSET Swaps
  PROVE  IsFiniteSet(S) /\ IsFiniteSet(Coins(of, S))
<1>1. IsFiniteSet(S)
  BY FS_Subset, RiskAssumption
<1> DEFINE f == [s \in S |-> {s} \X (1..of[s])]
           T == {{s} \X (1..of[s]) : s \in S}
<1>2. f \in Surjection(S, T)
  BY DEF Surjection
<1>3. IsFiniteSet(T)
  BY <1>1, <1>2, FS_Surjection
<1>4. ASSUME NEW U \in T PROVE IsFiniteSet(U)
  <2>1. PICK s \in S : U = {s} \X (1..of[s])
    OBVIOUS
  <2>2. 1 \in Int /\ of[s] \in Int
    OBVIOUS
  <2>3. IsFiniteSet(1..of[s])
    BY <2>2, FS_Interval
  <2>4. IsFiniteSet({s})
    BY FS_Singleton
  <2> QED
    BY <2>1, <2>3, <2>4, FS_Product
<1>5. IsFiniteSet(UNION T)
  BY <1>3, <1>4, FS_UNION
<1> QED
  BY <1>1, <1>5 DEF Coins

\* A total is a number, 0 for no swaps, and grows with the set.
LEMMA TotalFacts ==
  ASSUME NEW of \in [Swaps -> Nat], NEW S \in SUBSET Swaps
  PROVE  /\ Total(of, S) \in Nat
         /\ Total(of, {}) = 0
         /\ \A R \in SUBSET S : Total(of, R) <= Total(of, S)
<1>1. Total(of, S) \in Nat
  BY CoinsAreFinite, FS_CardinalityType DEF Total, Coins
<1>2. Coins(of, {}) = {}
  BY DEF Coins
<1>3. Total(of, {}) = 0
  BY <1>2, FS_EmptySet DEF Total, Coins
<1>4. ASSUME NEW R \in SUBSET S PROVE Total(of, R) <= Total(of, S)
  <2>1. Coins(of, R) \subseteq Coins(of, S)
    BY DEF Coins
  <2>2. Cardinality(Coins(of, R)) <= Cardinality(Coins(of, S))
    BY <2>1, CoinsAreFinite, FS_Subset
  <2> QED
    BY <2>2 DEF Total, Coins
<1> QED
  BY <1>1, <1>3, <1>4

\* One more swap adds its amount.
LEMMA TotalAdds ==
  ASSUME NEW of \in [Swaps -> Nat], NEW S \in SUBSET Swaps, NEW s \in Swaps \ S
  PROVE  Total(of, S \cup {s}) = Total(of, S) + of[s]
<1> DEFINE U == {s} \X (1..of[s])
<1>1. Coins(of, S \cup {s}) = Coins(of, S) \cup U
  BY DEF Coins
<1>2. Coins(of, S) \cap U = {}
  BY DEF Coins
<1>3. IsFiniteSet({s}) /\ Cardinality({s}) = 1
  BY FS_Singleton
<1>4. of[s] \in Nat
  OBVIOUS
<1>5. IsFiniteSet(1..of[s]) /\ Cardinality(1..of[s]) = of[s]
  <2>1. 1 \in Int /\ of[s] \in Int
    BY <1>4
  <2>2. IsFiniteSet(1..of[s])
          /\ Cardinality(1..of[s]) = IF 1 > of[s] THEN 0 ELSE of[s] - 1 + 1
    BY <2>1, FS_Interval
  <2> QED
    BY <2>2, <1>4
<1>6. IsFiniteSet(U) /\ Cardinality(U) = 1 * of[s]
  BY <1>3, <1>5, FS_Product
<1>7. 1 * of[s] = of[s]
  BY <1>4
<1> HIDE DEF U
<1>8. IsFiniteSet(Coins(of, S)) /\ Cardinality(Coins(of, S)) \in Nat
  BY CoinsAreFinite, FS_CardinalityType
<1>9. Cardinality(Coins(of, S) \cup U)
        = Cardinality(Coins(of, S)) + Cardinality(U) - Cardinality({})
  BY <1>2, <1>6, <1>8, FS_Union
<1>10. Cardinality(Coins(of, S) \cup U) = Cardinality(Coins(of, S)) + of[s]
  BY <1>4, <1>6, <1>7, <1>8, <1>9, FS_EmptySet
<1> QED
  BY <1>1, <1>10 DEF Total, Coins

\* One swap less takes its amount away.
LEMMA TotalDrops ==
  ASSUME NEW of \in [Swaps -> Nat], NEW S \in SUBSET Swaps, NEW s \in S
  PROVE  Total(of, S) = Total(of, S \ {s}) + of[s]
<1>1. S = (S \ {s}) \cup {s} /\ s \in Swaps \ (S \ {s}) /\ S \ {s} \in SUBSET Swaps
  OBVIOUS
<1>2. Total(of, (S \ {s}) \cup {s}) = Total(of, S \ {s}) + of[s]
  BY <1>1, TotalAdds
<1> QED
  BY <1>1, <1>2

\* The same for how many they are.
LEMMA CountFacts ==
  ASSUME NEW S \in SUBSET Swaps
  PROVE  /\ Cardinality(S) \in Nat /\ Cardinality({}) = 0
         /\ \A R \in SUBSET S : Cardinality(R) <= Cardinality(S)
         /\ \A s \in Swaps \ S : Cardinality(S \cup {s}) = Cardinality(S) + 1
         /\ \A s \in S : Cardinality(S) = Cardinality(S \ {s}) + 1
<1>1. IsFiniteSet(S)
  BY FS_Subset, RiskAssumption
<1>2. Cardinality(S) \in Nat /\ Cardinality({}) = 0
  BY <1>1, FS_CardinalityType, FS_EmptySet
<1>3. \A R \in SUBSET S : Cardinality(R) <= Cardinality(S)
  BY <1>1, FS_Subset
<1>4. \A s \in Swaps \ S : Cardinality(S \cup {s}) = Cardinality(S) + 1
  BY <1>1, FS_AddElement
<1>5. ASSUME NEW s \in S PROVE Cardinality(S) = Cardinality(S \ {s}) + 1
  <2>1. Cardinality(S \ {s}) = Cardinality(S) - 1
    BY <1>1, FS_RemoveElement
  <2> QED
    BY <2>1, <1>2
<1> QED
  BY <1>2, <1>3, <1>4, <1>5
-----------------------------------------------------------------------------
(* The counters count the reservations.                                     *)

\* A peer's share of S, and what the manager's counters have to say.
OfPeer(S, p) == {s \in S : PeerOf[s] = p}

CountersAgree(r) ==
  /\ r.total_committed_sat = Total(AmountOf, r.reservations)
  /\ r.total_in_flight = Cardinality(r.reservations)
  /\ \A p \in Peers :
       /\ r.committed_sat[p] = Total(AmountOf, OfPeer(r.reservations, p))
       /\ r.in_flight[p] = Cardinality(OfPeer(r.reservations, p))

\* A new reservation is counted once.
LEMMA ReserveCounts ==
  ASSUME NEW r \in Inner, CountersAgree(r), NEW s \in Swaps \ r.reservations, NEW m
  PROVE  CountersAgree(Reserve(r, s, m))
<1> DEFINE p == PeerOf[s]
           S == r.reservations
           n == Reserve(r, s, m)
<1>1. /\ p \in Peers /\ AmountOf \in [Swaps -> Nat] /\ S \in SUBSET Swaps
      /\ r.committed_sat \in [Peers -> Nat] /\ r.in_flight \in [Peers -> Nat]
  BY RiskAssumption DEF Inner
<1>2. /\ n.reservations = S \cup {s}
      /\ n.total_committed_sat = r.total_committed_sat + AmountOf[s]
      /\ n.total_in_flight = r.total_in_flight + 1
      /\ n.committed_sat = [r.committed_sat EXCEPT ![p] = @ + AmountOf[s]]
      /\ n.in_flight = [r.in_flight EXCEPT ![p] = @ + 1]
  BY DEF Reserve, Inner
<1> HIDE DEF n
<1>3. n.total_committed_sat = Total(AmountOf, S \cup {s})
  BY <1>1, <1>2, TotalAdds DEF CountersAgree
<1>4. n.total_in_flight = Cardinality(S \cup {s})
  BY <1>1, <1>2, CountFacts DEF CountersAgree
<1>5. ASSUME NEW q \in Peers
      PROVE  /\ n.committed_sat[q] = Total(AmountOf, OfPeer(S \cup {s}, q))
             /\ n.in_flight[q] = Cardinality(OfPeer(S \cup {s}, q))
  <2>1. CASE q = p
    <3>1. OfPeer(S \cup {s}, q) = OfPeer(S, q) \cup {s}
            /\ OfPeer(S, q) \in SUBSET Swaps /\ s \in Swaps \ OfPeer(S, q)
      BY <1>1, <2>1 DEF OfPeer
    <3>2. /\ Total(AmountOf, OfPeer(S, q) \cup {s})
               = Total(AmountOf, OfPeer(S, q)) + AmountOf[s]
          /\ Cardinality(OfPeer(S, q) \cup {s}) = Cardinality(OfPeer(S, q)) + 1
      BY <1>1, <3>1, TotalAdds, CountFacts
    <3> QED
      BY <1>1, <1>2, <2>1, <3>1, <3>2 DEF CountersAgree
  <2>2. CASE q # p
    <3>1. OfPeer(S \cup {s}, q) = OfPeer(S, q)
      BY <2>2 DEF OfPeer
    <3>2. n.committed_sat[q] = r.committed_sat[q] /\ n.in_flight[q] = r.in_flight[q]
      BY <1>1, <1>2, <2>2
    <3> QED
      BY <3>1, <3>2 DEF CountersAgree
  <2> QED
    BY <2>1, <2>2
<1> QED
  BY <1>2, <1>3, <1>4, <1>5 DEF CountersAgree, n

\* The drop of a guard takes away what the reservation counted for.
LEMMA ReleaseCounts ==
  ASSUME NEW r \in Inner, CountersAgree(r), NEW s \in Swaps
  PROVE  CountersAgree(Release(r, s))
<1> DEFINE p == PeerOf[s]
           S == r.reservations
           n == Release(r, s)
<1>1. /\ p \in Peers /\ AmountOf \in [Swaps -> Nat] /\ S \in SUBSET Swaps
      /\ r.committed_sat \in [Peers -> Nat] /\ r.in_flight \in [Peers -> Nat]
      /\ AmountOf[s] \in Nat
  BY RiskAssumption DEF Inner
<1>2. CASE s \notin S
  BY <1>2 DEF Release, Inner, CountersAgree
<1>3. CASE s \in S
  <2>1. /\ n.reservations = S \ {s}
        /\ n.total_committed_sat = SaturatingMinus(r.total_committed_sat, AmountOf[s])
        /\ n.total_in_flight = SaturatingMinus(r.total_in_flight, 1)
        /\ n.committed_sat =
             [r.committed_sat EXCEPT ![p] = SaturatingMinus(@, AmountOf[s])]
        /\ n.in_flight = [r.in_flight EXCEPT ![p] = SaturatingMinus(@, 1)]
    BY <1>3 DEF Release, Inner
  <2>2. \A a, b \in Nat : SaturatingMinus(a + b, b) = a
    BY DEF SaturatingMinus
  <2> HIDE DEF n
  <2>3. n.total_committed_sat = Total(AmountOf, S \ {s})
    <3>1. Total(AmountOf, S) = Total(AmountOf, S \ {s}) + AmountOf[s]
            /\ Total(AmountOf, S \ {s}) \in Nat
      BY <1>1, <1>3, TotalDrops, TotalFacts
    <3> QED
      BY <1>1, <2>1, <2>2, <3>1 DEF CountersAgree
  <2>4. n.total_in_flight = Cardinality(S \ {s})
    <3>1. Cardinality(S) = Cardinality(S \ {s}) + 1 /\ Cardinality(S \ {s}) \in Nat
      BY <1>1, <1>3, CountFacts
    <3> QED
      BY <2>1, <2>2, <3>1 DEF CountersAgree
  <2>5. ASSUME NEW q \in Peers
        PROVE  /\ n.committed_sat[q] = Total(AmountOf, OfPeer(S \ {s}, q))
               /\ n.in_flight[q] = Cardinality(OfPeer(S \ {s}, q))
    <3>1. CASE q = p
      <4>1. OfPeer(S \ {s}, q) = OfPeer(S, q) \ {s}
              /\ OfPeer(S, q) \in SUBSET Swaps /\ s \in OfPeer(S, q)
        BY <1>1, <1>3, <3>1 DEF OfPeer
      <4>2. /\ Total(AmountOf, OfPeer(S, q))
                 = Total(AmountOf, OfPeer(S, q) \ {s}) + AmountOf[s]
            /\ Cardinality(OfPeer(S, q)) = Cardinality(OfPeer(S, q) \ {s}) + 1
        BY <1>1, <4>1, TotalDrops, CountFacts
      <4>3. OfPeer(S, q) \ {s} \in SUBSET Swaps
        BY <4>1
      <4>4. Total(AmountOf, OfPeer(S, q) \ {s}) \in Nat
              /\ Cardinality(OfPeer(S, q) \ {s}) \in Nat
        BY <1>1, <4>3, TotalFacts, CountFacts
      <4>5. /\ n.committed_sat[q] = SaturatingMinus(r.committed_sat[q], AmountOf[s])
            /\ n.in_flight[q] = SaturatingMinus(r.in_flight[q], 1)
        BY <1>1, <2>1, <3>1
      <4>6. /\ r.committed_sat[q] = Total(AmountOf, OfPeer(S, q) \ {s}) + AmountOf[s]
            /\ r.in_flight[q] = Cardinality(OfPeer(S, q) \ {s}) + 1
        BY <4>2 DEF CountersAgree
      <4>7. /\ SaturatingMinus(r.committed_sat[q], AmountOf[s])
                  = Total(AmountOf, OfPeer(S, q) \ {s})
            /\ SaturatingMinus(r.in_flight[q], 1) = Cardinality(OfPeer(S, q) \ {s})
        BY <1>1, <2>2, <4>4, <4>6
      <4> QED
        BY <4>1, <4>5, <4>7
    <3>2. CASE q # p
      <4>1. OfPeer(S \ {s}, q) = OfPeer(S, q)
        BY <3>2 DEF OfPeer
      <4>2. n.committed_sat[q] = r.committed_sat[q] /\ n.in_flight[q] = r.in_flight[q]
        BY <1>1, <2>1, <3>2
      <4> QED
        BY <4>1, <4>2 DEF CountersAgree
    <3> QED
      BY <3>1, <3>2
  <2> QED
    BY <2>1, <2>3, <2>4, <2>5 DEF CountersAgree, n
<1> QED
  BY <1>2, <1>3

\* A manager that has reserved nothing has counted nothing.
LEMMA NewCounts == CountersAgree(NewRiskManager)
<1>1. AmountOf \in [Swaps -> Nat]
  BY RiskAssumption
<1>2. Total(AmountOf, {}) = 0 /\ Cardinality({}) = 0
  BY <1>1, TotalFacts, CountFacts
<1>3. \A p \in Peers : OfPeer({}, p) = {}
  BY DEF OfPeer
<1> QED
  BY <1>2, <1>3 DEF CountersAgree, NewRiskManager

\* Every step reserves for a swap that has no reservation, releases one,
\* keeps the reservations and their counters, or starts over.
LEMMA RiskMoves ==
  ASSUME IInv, [Next]_vars
  PROVE  \/ \E s \in Swaps \ risk.reservations, m \in {"New", "Pending", "Funded"} :
              risk' = Reserve(risk, s, m)
         \/ \E s \in Swaps : risk' = Release(risk, s)
         \/ /\ risk'.reservations = risk.reservations
            /\ risk'.total_committed_sat = risk.total_committed_sat
            /\ risk'.total_in_flight = risk.total_in_flight
            /\ risk'.committed_sat = risk.committed_sat
            /\ risk'.in_flight = risk.in_flight
         \/ risk' = NewRiskManager
<1> DEFINE Kept == /\ risk'.reservations = risk.reservations
                   /\ risk'.total_committed_sat = risk.total_committed_sat
                   /\ risk'.total_in_flight = risk.total_in_flight
                   /\ risk'.committed_sat = risk.committed_sat
                   /\ risk'.in_flight = risk.in_flight
<1>0. risk \in Inner
  BY DEF IInv, TypeOK
<1>1. ASSUME NEW s \in Swaps,
             \/ IssueQuote(s) \/ ExpireQuote(s) \/ LookUpQuote(s) \/ TakeBackQuote(s)
             \/ \E h \in Handlers, x \in (IF s \in Reverse THEN Hashes ELSE {None}) :
                  Request(h, s, x)
             \/ FundingIntent(s) \/ FundHtlc(s) \/ ResumeAccepted(s) \/ ResumePending(s)
      PROVE  risk' = risk
  BY <1>1 DEF IssueQuote, ExpireQuote, LookUpQuote, TakeBackQuote, Request,
              FundingIntent, FundHtlc, ResumeAccepted, ResumePending
<1>2. ASSUME NEW s \in Swaps, Funded(s) PROVE Kept
  BY <1>0, <1>2 DEF Funded, FundingSettled, Inner
<1>3. ASSUME NEW s \in Swaps, DriverEnds(s) PROVE risk' = Release(risk, s)
  BY <1>3 DEF DriverEnds
<1>4. ASSUME NEW s \in Swaps, RestoreReservation(s)
      PROVE  \/ risk' = Reserve(risk, s, "Funded") /\ s \notin risk.reservations
             \/ risk' = risk
  BY <1>4 DEF RestoreReservation
<1>5. ASSUME NEW t \in Tasks, (t \in Handlers /\ TakeAndReserve(t)) \/ ReservePending(t)
      PROVE  \/ \E s \in Swaps \ risk.reservations, m \in {"New", "Pending"} :
                  risk' = Reserve(risk, s, m)
             \/ risk' = risk
  <2>1. task[t].pc # "idle"
    BY <1>5 DEF TakeAndReserve, ReservePending
  <2>2. task[t].swap \in Swaps
    BY <2>1 DEF IInv, TasksFit, TaskFits
  <2> QED
    BY <1>5, <2>2 DEF TakeAndReserve, ReservePending, Admits
<1>6. ASSUME NEW t \in Tasks, \/ (t \in Handlers /\ PersistIntent(t)) \/ ReadBalance(t)
                              \/ CreateHoldInvoice(t) \/ PersistAccepted(t) \/ Spawn(t)
      PROVE  risk' = risk
  BY <1>6 DEF PersistIntent, ReadBalance, CreateHoldInvoice, PersistAccepted, Spawn
<1>7. ASSUME NEW t \in Tasks, Claim(t) PROVE Kept
  BY <1>0, <1>7 DEF Claim, ClaimFunding, Inner
<1>8. ASSUME NEW t \in Tasks, Fails(t)
      PROVE  risk' = risk \/ \E s \in Swaps : risk' = Release(risk, s)
  <2>1. task[t].swap \in Swaps
    BY <1>8 DEF IInv, TasksFit, TaskFits, Fails
  <2> QED
    BY <1>8, <2>1 DEF Fails, Dropped
<1>9. ASSUME NEW p \in Peers, HourPasses(p) PROVE Kept
  BY <1>0, <1>9 DEF HourPasses, Inner
<1>10. CASE Crash
  BY <1>10 DEF Crash
<1>11. CASE Restart \/ Serve
  BY <1>11 DEF Restart, Serve
<1>12. CASE RestoreFundingClaims
  BY <1>0, <1>12 DEF RestoreFundingClaims, ClaimFunding, Inner
<1>13. CASE UNCHANGED vars
  BY <1>13 DEF vars
<1> QED
  BY <1>1, <1>2, <1>3, <1>4, <1>5, <1>6, <1>7, <1>8, <1>9, <1>10, <1>11, <1>12,
     <1>13 DEF Next, Tasks

\* Every step keeps the counters what they count.
LEMMA CountedStep ==
  ASSUME IInv, CountersAgree(risk), [Next]_vars
  PROVE  CountersAgree(risk')
<1>1. risk \in Inner
  BY DEF IInv, TypeOK
<1>2. CASE \E s \in Swaps \ risk.reservations, m \in {"New", "Pending", "Funded"} :
             risk' = Reserve(risk, s, m)
  BY <1>1, <1>2, ReserveCounts
<1>3. CASE \E s \in Swaps : risk' = Release(risk, s)
  BY <1>1, <1>3, ReleaseCounts
<1>4. CASE /\ risk'.reservations = risk.reservations
           /\ risk'.total_committed_sat = risk.total_committed_sat
           /\ risk'.total_in_flight = risk.total_in_flight
           /\ risk'.committed_sat = risk.committed_sat
           /\ risk'.in_flight = risk.in_flight
  BY <1>4 DEF CountersAgree
<1>5. CASE risk' = NewRiskManager
  BY <1>5, NewCounts
<1> QED
  BY <1>2, <1>3, <1>4, <1>5, RiskMoves


-----------------------------------------------------------------------------
(* The ceilings.                                                            *)

\* The swaps whose exposure was admitted: live ones, and those of a task that
\* holds a reservation.
Taken == Live \cup {s \in Swaps : \E t \in Tasks : HasGuard(t) /\ task[t].swap = s}

UnderCeilings(S) ==
  /\ Total(AmountOf, S) <= max_total_exposure_sat
  /\ Cardinality(S) <= max_concurrent_swaps
  /\ \A p \in Peers : /\ Total(AmountOf, OfPeer(S, p)) <= max_exposure_per_peer_sat
                      /\ Cardinality(OfPeer(S, p)) <= max_concurrent_per_peer

\* Fewer swaps are under the ceilings that more are under.
LEMMA FewerFit ==
  ASSUME NEW S \in SUBSET Swaps, UnderCeilings(S), NEW R \in SUBSET S
  PROVE  UnderCeilings(R)
<1>1. AmountOf \in [Swaps -> Nat]
  BY RiskAssumption
<1>2. ASSUME NEW X \in SUBSET Swaps, NEW Y \in SUBSET X, NEW n \in Nat, NEW m \in Nat,
             Total(AmountOf, X) <= n, Cardinality(X) <= m
      PROVE  Total(AmountOf, Y) <= n /\ Cardinality(Y) <= m
  <2>1. Y \in SUBSET Swaps
    OBVIOUS
  <2>2. /\ Total(AmountOf, X) \in Nat /\ Total(AmountOf, Y) \in Nat
        /\ Total(AmountOf, Y) <= Total(AmountOf, X)
    BY <1>1, <2>1, TotalFacts
  <2>3. /\ Cardinality(X) \in Nat /\ Cardinality(Y) \in Nat
        /\ Cardinality(Y) <= Cardinality(X)
    BY <2>1, CountFacts
  <2> QED
    BY <1>2, <2>2, <2>3
<1>3. /\ Total(AmountOf, R) <= max_total_exposure_sat
      /\ Cardinality(R) <= max_concurrent_swaps
  BY <1>2, RiskAssumption DEF UnderCeilings
<1>4. ASSUME NEW p \in Peers
      PROVE  /\ Total(AmountOf, OfPeer(R, p)) <= max_exposure_per_peer_sat
             /\ Cardinality(OfPeer(R, p)) <= max_concurrent_per_peer
  <2>1. OfPeer(S, p) \in SUBSET Swaps /\ OfPeer(R, p) \in SUBSET OfPeer(S, p)
    BY DEF OfPeer
  <2>2. /\ Total(AmountOf, OfPeer(S, p)) <= max_exposure_per_peer_sat
        /\ Cardinality(OfPeer(S, p)) <= max_concurrent_per_peer
    BY DEF UnderCeilings
  <2> QED
    BY <1>2, <2>1, <2>2, RiskAssumption
<1> QED
  BY <1>3, <1>4 DEF UnderCeilings

\* One more swap fits if the counters have room for it and count them all.
LEMMA OneMoreFits ==
  ASSUME NEW r \in Inner, CountersAgree(r), NEW s \in Swaps \ r.reservations,
         HasRoom(r, s), NEW S \in SUBSET r.reservations, UnderCeilings(S)
  PROVE  UnderCeilings(S \cup {s})
<1> DEFINE p == PeerOf[s]
           Q == r.reservations
<1>1. /\ AmountOf \in [Swaps -> Nat] /\ p \in Peers /\ Q \in SUBSET Swaps
      /\ S \in SUBSET Swaps /\ AmountOf[s] \in Nat
  BY RiskAssumption DEF Inner
<1>2. ASSUME NEW X \in SUBSET Swaps, NEW Y \in SUBSET X, s \notin X,
             NEW n \in Nat, NEW m \in Nat,
             Total(AmountOf, X) + AmountOf[s] <= n, Cardinality(X) < m
      PROVE  Total(AmountOf, Y \cup {s}) <= n /\ Cardinality(Y \cup {s}) <= m
  <2>1. Y \in SUBSET Swaps /\ s \in Swaps \ Y
    BY <1>2
  <2>2. /\ Total(AmountOf, X) \in Nat /\ Total(AmountOf, Y) \in Nat
        /\ Total(AmountOf, Y) <= Total(AmountOf, X)
        /\ Total(AmountOf, Y \cup {s}) = Total(AmountOf, Y) + AmountOf[s]
    BY <1>1, <2>1, TotalFacts, TotalAdds
  <2>3. /\ Cardinality(X) \in Nat /\ Cardinality(Y) \in Nat
        /\ Cardinality(Y) <= Cardinality(X)
        /\ Cardinality(Y \cup {s}) = Cardinality(Y) + 1
    BY <2>1, CountFacts
  <2> QED
    BY <1>1, <1>2, <2>2, <2>3
<1>3. /\ Total(AmountOf, S \cup {s}) <= max_total_exposure_sat
      /\ Cardinality(S \cup {s}) <= max_concurrent_swaps
  <2>1. /\ Total(AmountOf, Q) + AmountOf[s] <= max_total_exposure_sat
        /\ Cardinality(Q) < max_concurrent_swaps
    BY DEF HasRoom, CountersAgree
  <2> QED
    BY <1>1, <1>2, <2>1, RiskAssumption
<1>4. ASSUME NEW q \in Peers
      PROVE  /\ Total(AmountOf, OfPeer(S \cup {s}, q)) <= max_exposure_per_peer_sat
             /\ Cardinality(OfPeer(S \cup {s}, q)) <= max_concurrent_per_peer
  <2>1. CASE q = p
    <3>1. /\ OfPeer(S \cup {s}, q) = OfPeer(S, q) \cup {s}
          /\ OfPeer(Q, q) \in SUBSET Swaps /\ OfPeer(S, q) \in SUBSET OfPeer(Q, q)
          /\ s \notin OfPeer(Q, q)
      BY <1>1, <2>1 DEF OfPeer
    <3>2. /\ Total(AmountOf, OfPeer(Q, q)) + AmountOf[s] <= max_exposure_per_peer_sat
          /\ Cardinality(OfPeer(Q, q)) < max_concurrent_per_peer
      BY <2>1 DEF HasRoom, CountersAgree
    <3> QED
      BY <1>2, <3>1, <3>2, RiskAssumption
  <2>2. CASE q # p
    <3>1. OfPeer(S \cup {s}, q) = OfPeer(S, q)
      BY <2>2 DEF OfPeer
    <3> QED
      BY <3>1 DEF UnderCeilings
  <2> QED
    BY <2>1, <2>2
<1> QED
  BY <1>3, <1>4 DEF UnderCeilings

\* While swaps are admitted, everything taken has its reservation.
LEMMA TakenIsReserved ==
  ASSUME IInv, mode \in {"resuming", "serving"}
  PROVE  Taken \in SUBSET risk.reservations
<1>1. Live \subseteq risk.reservations
  BY DEF IInv, LiveFits, TodoFits, Live, Accepted
<1>2. \A t \in Tasks : HasGuard(t) => task[t].swap \in risk.reservations
  BY DEF IInv, TasksFit, TaskFits, HasGuard
<1> QED
  BY <1>1, <1>2 DEF Taken

\* A step takes at most one more swap, and that one the counters admit.
LEMMA TakenMoves ==
  ASSUME IInv, [Next]_vars
  PROVE  \/ Taken' \subseteq Taken
         \/ \E s \in Swaps \ risk.reservations :
              /\ Taken' \subseteq Taken \cup {s} /\ HasRoom(risk, s)
              /\ mode \in {"resuming", "serving"}
<1> DEFINE Same == UNCHANGED <<disk, over>> /\ \A t \in Tasks : task'[t] = task[t]
<1>0. task \in [Tasks -> TaskStates] /\ disk \in [Swaps -> Records]
  BY DEF IInv, TypeOK
<1>1. CASE Same
  BY <1>1 DEF Taken, Live, HasGuard
<1>2. ASSUME NEW s \in Swaps, IssueQuote(s) \/ ExpireQuote(s) \/ LookUpQuote(s)
                \/ TakeBackQuote(s) \/ FundHtlc(s) \/ Funded(s)
                \/ RestoreReservation(s) \/ ResumeAccepted(s)
      PROVE  Same
  BY <1>2 DEF IssueQuote, ExpireQuote, LookUpQuote, TakeBackQuote, FundHtlc, Funded,
              RestoreReservation, ResumeAccepted, driverVars
<1>3. ASSUME NEW p \in Peers, HourPasses(p) PROVE Same
  BY <1>3 DEF HourPasses, driverVars
<1>4. CASE Restart \/ Serve \/ RestoreFundingClaims \/ UNCHANGED vars
  BY <1>4, <1>1 DEF Restart, Serve, RestoreFundingClaims, vars, driverVars
<1>5. ASSUME NEW s \in Swaps, ResumePending(s) \/
               \E h \in Handlers, x \in (IF s \in Reverse THEN Hashes ELSE {None}) :
                 Request(h, s, x)
      PROVE  Taken' \subseteq Taken
  <2>1. PICK t \in Tasks : /\ \A u \in Tasks \ {t} : task'[u] = task[u]
                           /\ task'[t].pc \in {"take", "recover"}
                           /\ UNCHANGED <<disk, over>>
    <3>1. CASE ResumePending(s)
      <4>1. task' = [task EXCEPT ![Resumer] =
              [Idle EXCEPT !.pc = "recover", !.swap = s, !.hash = disk[s].hash,
                           !.recovering = TRUE]] /\ UNCHANGED <<disk, over>>
        BY <3>1 DEF ResumePending, driverVars
      <4>2. task'[Resumer].pc = "recover"
        BY <4>1, <1>0 DEF Idle, Tasks
      <4> QED
        BY <4>1, <4>2, <1>0 DEF Tasks
    <3>2. ASSUME NEW h \in Handlers, NEW x, Request(h, s, x)
          PROVE  /\ \A u \in Tasks \ {h} : task'[u] = task[u]
                 /\ task'[h].pc \in {"take", "recover"}
                 /\ UNCHANGED <<disk, over>>
      BY <3>2, <1>0 DEF Request, ReplayOrStart, driverVars, Idle, Tasks
    <3> QED
      BY <1>5, <3>1, <3>2 DEF Tasks
  <2> QED
    BY <2>1 DEF Taken, Live, HasGuard
<1>6. ASSUME NEW s \in Swaps, FundingIntent(s) \/ DriverEnds(s)
      PROVE  Taken' \subseteq Taken
  <2>1. task' = task /\ over \subseteq over' /\ \A r \in Swaps :
          disk'[r].state = "accepted" => disk[r].state = "accepted"
    BY <1>0, <1>6 DEF FundingIntent, DriverEnds, Records
  <2> QED
    BY <2>1 DEF Taken, Live, HasGuard
<1>7. ASSUME NEW t \in Tasks, (t \in Handlers /\ TakeAndReserve(t)) \/ ReservePending(t)
      PROVE  \/ Taken' \subseteq Taken
             \/ \E s \in Swaps \ risk.reservations :
                  /\ Taken' \subseteq Taken \cup {s} /\ HasRoom(risk, s)
                  /\ mode \in {"resuming", "serving"}
  <2> DEFINE s == task[t].swap
  <2>1. task[t].pc \in {"take", "recover"} /\ UNCHANGED <<disk, over>>
    BY <1>7 DEF TakeAndReserve, ReservePending, driverVars
  <2>2. s \in Swaps /\ mode \in {"resuming", "serving"}
    BY <2>1 DEF IInv, TasksFit, TaskFits, LocksHeld, Tasks
  <2>3. \/ task' = [task EXCEPT ![t] = Idle]
        \/ /\ s \notin risk.reservations /\ HasRoom(risk, s)
           /\ \E pc \in {"balance", "complete"} : task' = [task EXCEPT ![t].pc = pc]
    BY <1>7 DEF TakeAndReserve, ReservePending, Done, Goto, Admits
  <2>4. CASE task' = [task EXCEPT ![t] = Idle]
    <3>1. \A u \in Tasks : (u = t /\ task'[u] = Idle) \/ task'[u] = task[u]
      BY <1>0, <2>4
    <3> QED
      BY <3>1, <2>1, IdleFacts DEF Taken, Live, HasGuard
  <2>5. ASSUME NEW pc, task' = [task EXCEPT ![t].pc = pc]
        PROVE  Taken' \subseteq Taken \cup {s}
    <3>1. \A u \in Tasks : task'[u].swap = task[u].swap /\ (u # t => task'[u] = task[u])
      BY <1>0, <2>5 DEF TaskStates
    <3> QED
      BY <3>1, <2>1 DEF Taken, Live, HasGuard
  <2> QED
    BY <2>2, <2>3, <2>4, <2>5
<1>8. ASSUME NEW t \in Tasks, \/ (t \in Handlers /\ PersistIntent(t)) \/ ReadBalance(t)
                              \/ CreateHoldInvoice(t) \/ Claim(t) \/ PersistAccepted(t)
                              \/ Spawn(t) \/ Fails(t)
      PROVE  Taken' \subseteq Taken
  <2> DEFINE s == task[t].swap
  <2>1. /\ task[t].pc # "idle" /\ over' = over
        /\ \A u \in Tasks \ {t} : task'[u] = task[u]
        /\ task'[t] = Idle \/ (HasGuard(t) /\ task'[t].swap = s)
        /\ \/ disk' = disk
           \/ HasGuard(t) /\ \A r \in Swaps \ {s} : disk'[r] = disk[r]
    <3>1. CASE Spawn(t) \/ Fails(t)
      BY <1>0, <3>1 DEF Spawn, Fails, Done, driverVars
    <3>2. CASE ReadBalance(t) \/ CreateHoldInvoice(t) \/ Claim(t)
      BY <1>0, <3>2 DEF ReadBalance, CreateHoldInvoice, Claim, Goto, HasGuard,
                        driverVars, TaskStates
    <3>3. CASE PersistIntent(t) \/ PersistAccepted(t)
      BY <1>0, <3>3 DEF PersistIntent, PersistAccepted, Goto, HasGuard, driverVars,
                        TaskStates
    <3> QED
      BY <1>8, <3>1, <3>2, <3>3
  <2>2. s \in Swaps
    BY <2>1 DEF IInv, TasksFit, TaskFits
  <2>3. CASE task'[t] = Idle /\ disk' = disk
    BY <2>1, <2>3, IdleFacts DEF Taken, Live, HasGuard
  <2>4. CASE HasGuard(t)
    <3>1. \A u \in Tasks : task'[u].pc # "idle" => task'[u].swap = task[u].swap
      BY <2>1, IdleFacts
    <3> QED
      BY <3>1, <2>1, <2>2, <2>4 DEF Taken, Live, HasGuard
  <2> QED
    BY <2>1, <2>3, <2>4
<1>9. CASE Crash
  <2>1. \A t \in Tasks : task'[t].pc = "idle"
    BY <1>9, IdleFacts DEF Crash
  <2> QED
    BY <1>9, <2>1 DEF Crash, Taken, Live, HasGuard
<1> QED
  BY <1>1, <1>2, <1>3, <1>4, <1>5, <1>6, <1>7, <1>8, <1>9 DEF Next, Tasks

\* Admission, and a restart, keep what is taken under the ceilings.
LEMMA CeilingsStep ==
  ASSUME IInv, CountersAgree(risk), UnderCeilings(Taken), [Next]_vars
  PROVE  UnderCeilings(Taken')
<1>1. Taken \in SUBSET Swaps /\ risk \in Inner
  BY DEF Taken, Live, IInv, TypeOK
<1>2. CASE Taken' \subseteq Taken
  BY <1>1, <1>2, FewerFit
<1>3. ASSUME NEW s \in Swaps \ risk.reservations, Taken' \subseteq Taken \cup {s},
             HasRoom(risk, s), mode \in {"resuming", "serving"}
      PROVE  UnderCeilings(Taken')
  <2>1. Taken \in SUBSET risk.reservations
    BY <1>3, TakenIsReserved
  <2>2. UnderCeilings(Taken \cup {s})
    BY <1>1, <1>3, <2>1, OneMoreFits
  <2>3. Taken \cup {s} \in SUBSET Swaps
    BY <1>1
  <2> QED
    BY <1>3, <2>2, <2>3, FewerFit
<1> QED
  BY <1>2, <1>3, TakenMoves


-----------------------------------------------------------------------------
(* The wallet.                                                              *)

\* A task that has claimed its swap's coins and has not put it on record.
Claimant(t) ==
  \/ task[t].pc \in {"persist", "invoice"}
  \/ task[t].pc = "complete" /\ task[t].swap \in Reverse

\* The swaps whose coins the wallet must still have.
Wanted == {s \in Live : awaits_funding(s)} \cup calling
            \cup {s \in Swaps : \E t \in Tasks : Claimant(t) /\ task[t].swap = s}

\* A swap that is being funded is driven and says that its funding was begun; a
\* funded one says so too.
CallsFit ==
  /\ \A s \in calling : drivers[s] = 1 /\ disk[s].begun
  /\ \A s \in sent : disk[s].begun /\ s \notin calling

\* Nothing is wanted of the wallet that is not claimed, and what is wanted is
\* there, with the reserve.
CoinsFit ==
  /\ mode \in {"resuming", "serving"} => Wanted \subseteq risk.funding_claims
  /\ Wanted # {} => Total(ClaimOf, Wanted) + min_onchain_reserve_sat <= balance + overdrawn

\* What the operations on the accounting do to the claims.
LEMMA ClaimsMove ==
  ASSUME NEW r \in Inner, NEW s \in Swaps
  PROVE  /\ \A m : Reserve(r, s, m).funding_claims = r.funding_claims
         /\ Release(r, s).funding_claims = r.funding_claims \ {s}
         /\ \A S : ClaimFunding(r, S).funding_claims
                     = r.funding_claims \cup (S \cap r.reservations)
         /\ FundingSettled(r, s).funding_claims = r.funding_claims \ {s}
<1>1. ASSUME NEW m PROVE Reserve(r, s, m).funding_claims = r.funding_claims
  BY DEF Reserve, Inner
<1>2. Release(r, s).funding_claims = r.funding_claims \ {s}
  BY DEF Release, Inner
<1>3. ASSUME NEW S
      PROVE  ClaimFunding(r, S).funding_claims
               = r.funding_claims \cup (S \cap r.reservations)
  BY DEF ClaimFunding, Inner
<1>4. FundingSettled(r, s).funding_claims = r.funding_claims \ {s}
  BY DEF FundingSettled, Inner
<1> QED
  BY <1>1, <1>2, <1>3, <1>4

\* Every step keeps a call's driver and its marker.
LEMMA CallsStep ==
  ASSUME IInv, CallsFit, [Next]_vars
  PROVE  CallsFit'
<1>0. /\ task \in [Tasks -> TaskStates] /\ disk \in [Swaps -> Records]
      /\ calling \subseteq Swaps /\ sent \subseteq Swaps
      /\ drivers \in [Swaps -> 0..1]
  BY AdmissionAssumption DEF IInv, TypeOK
<1>1. CASE UNCHANGED <<calling, sent, disk>> /\ \A s \in calling : drivers'[s] = drivers[s]
  BY <1>0, <1>1 DEF CallsFit
<1>2. ASSUME NEW s \in Swaps, IssueQuote(s) \/ ExpireQuote(s) \/ LookUpQuote(s)
                \/ TakeBackQuote(s) \/ Funded(s) \/ RestoreReservation(s) \/ ResumePending(s)
                \/ \E h \in Handlers, x \in (IF s \in Reverse THEN Hashes ELSE {None}) :
                     Request(h, s, x)
      PROVE  CallsFit'
  BY <1>2, <1>1 DEF IssueQuote, ExpireQuote, LookUpQuote, TakeBackQuote, Funded,
              RestoreReservation, ResumePending, Request, driverVars
<1>3. ASSUME NEW p \in Peers, HourPasses(p) PROVE CallsFit'
  BY <1>3, <1>1 DEF HourPasses, driverVars
<1>4. CASE Restart \/ Serve \/ RestoreFundingClaims \/ UNCHANGED vars
  BY <1>4, <1>1 DEF Restart, Serve, RestoreFundingClaims, vars, driverVars
<1>5. ASSUME NEW s \in Swaps, ResumeAccepted(s) PROVE CallsFit'
  <2>1. drivers[s] = 0
    BY <1>5, <1>0 DEF ResumeAccepted, Accepted, IInv, DriversFit
  <2>2. s \notin calling
    BY <2>1 DEF CallsFit
  <2> QED
    BY <1>5, <1>0, <1>1, <2>2 DEF ResumeAccepted
<1>6. ASSUME NEW t \in Tasks,
             \/ (t \in Handlers /\ TakeAndReserve(t)) \/ ReservePending(t) \/ ReadBalance(t)
             \/ Claim(t) \/ CreateHoldInvoice(t) \/ Fails(t)
      PROVE  CallsFit'
  BY <1>6, <1>1 DEF TakeAndReserve, ReservePending, ReadBalance, Claim, CreateHoldInvoice,
              Fails, driverVars
<1>7. ASSUME NEW s \in Swaps, FundingIntent(s) PROVE CallsFit'
  <2>1. /\ drivers[s] = 1 /\ s \notin sent /\ calling' = calling \cup {s}
        /\ disk' = [disk EXCEPT ![s].begun = TRUE]
        /\ UNCHANGED <<drivers, sent>>
    BY <1>0, <1>7 DEF FundingIntent, awaits_funding, CallsFit
  <2>2. disk'[s].begun /\ \A r \in Swaps \ {s} : disk'[r] = disk[r]
    BY <1>0, <2>1 DEF Records
  <2> QED
    BY <1>0, <2>1, <2>2 DEF CallsFit
<1>8. ASSUME NEW s \in Swaps, FundHtlc(s) PROVE CallsFit'
  BY <1>0, <1>8 DEF FundHtlc, CallsFit
<1>9. ASSUME NEW s \in Swaps, DriverEnds(s) PROVE CallsFit'
  <2>1. /\ s \notin calling /\ UNCHANGED <<calling, sent>>
        /\ drivers' = [drivers EXCEPT ![s] = @ - 1]
        /\ disk' = disk \/ disk' = [disk EXCEPT ![s].state = "ended"]
    BY <1>9 DEF DriverEnds
  <2>2. \A r \in Swaps : disk'[r].begun = disk[r].begun
    BY <1>0, <2>1 DEF Records
  <2> QED
    BY <1>0, <2>1, <2>2 DEF CallsFit
<1>10. ASSUME NEW t \in Tasks, (t \in Handlers /\ PersistIntent(t)) \/ PersistAccepted(t)
       PROVE  CallsFit'
  <2> DEFINE s == task[t].swap
  <2>1. TaskFits(t) /\ s \in Swaps
    BY <1>10 DEF IInv, TasksFit, TaskFits, PersistIntent, PersistAccepted
  <2>2. \A r \in Swaps : disk[r].begun => disk'[r].begun
    <3>1. CASE PersistIntent(t)
      <4>1. ~disk[s].begun
        BY <2>1, <3>1 DEF PersistIntent, TaskFits, Unrecorded, WithIntent, NoRecord
      <4> QED
        BY <1>0, <3>1, <4>1 DEF PersistIntent
    <3>2. CASE PersistAccepted(t)
      <4>1. \A r \in Swaps \ {s} : disk'[r] = disk[r]
        BY <1>0, <3>2 DEF PersistAccepted
      <4>2. disk'[s] = [[disk[s] EXCEPT !.state = "accepted"]
                                 EXCEPT !.hash = task[t].hash]
        BY <1>0, <2>1, <3>2 DEF PersistAccepted
      <4>3. disk'[s].begun = disk[s].begun
        BY <1>0, <2>1, <4>2 DEF Records
      <4> QED
        BY <4>1, <4>3
    <3> QED
      BY <1>10, <3>1, <3>2
  <2>3. UNCHANGED driverVars
    BY <1>10 DEF PersistIntent, PersistAccepted
  <2> QED
    BY <1>0, <2>2, <2>3 DEF CallsFit, driverVars
<1>11. ASSUME NEW t \in Tasks, Spawn(t) PROVE CallsFit'
  <2> DEFINE s == task[t].swap
  <2>1. drivers[s] = 0 /\ drivers' = [drivers EXCEPT ![s] = @ + 1]
    BY <1>11 DEF IInv, TasksFit, TaskFits, HasGuard, Spawn
  <2>2. \A r \in calling : drivers'[r] = drivers[r]
    BY <1>0, <2>1 DEF CallsFit
  <2> QED
    BY <1>1, <1>11, <2>2 DEF Spawn
<1>12. CASE Crash
  BY <1>12 DEF Crash, CallsFit
<1> QED
  BY <1>2, <1>3, <1>4, <1>5, <1>6, <1>7, <1>8, <1>9, <1>10, <1>11, <1>12 DEF Next, Tasks


\* What a step that neither claims nor spends may do to the claims.
KeepsClaims ==
  /\ Wanted' \subseteq Wanted /\ UNCHANGED <<balance, overdrawn>>
  /\ mode' \in {"resuming", "serving"} =>
       /\ mode \in {"resuming", "serving"}
       /\ \A s \in Wanted' : s \in risk.funding_claims => s \in risk'.funding_claims

\* Every step but a claim, a funding and the restoring of claims is one.
LEMMA ClaimsKept ==
  ASSUME IInv, CallsFit, [Next]_vars
  PROVE  \/ KeepsClaims
         \/ \E t \in Tasks : Claim(t)
         \/ \E s \in Swaps : FundHtlc(s)
         \/ RestoreFundingClaims
<1>0. /\ task \in [Tasks -> TaskStates] /\ disk \in [Swaps -> Records]
      /\ calling \subseteq Reverse /\ sent \subseteq Swaps /\ Reverse \subseteq Swaps
      /\ drivers \in [Swaps -> 0..1] /\ risk \in Inner
  BY AdmissionAssumption DEF IInv, TypeOK
<1>1. ASSUME UNCHANGED <<calling, balance, overdrawn, disk, over>>,
             risk'.funding_claims = risk.funding_claims,
             \A t \in Tasks : task'[t] = task[t] \/ ~Claimant(t)',
             mode' \in {"resuming", "serving"} => mode \in {"resuming", "serving"}
      PROVE  KeepsClaims
  BY <1>0, <1>1 DEF KeepsClaims, Wanted, Live, awaits_funding, Claimant
<1>2. ASSUME NEW s \in Swaps, IssueQuote(s) \/ ExpireQuote(s) \/ LookUpQuote(s)
                \/ TakeBackQuote(s)
      PROVE  KeepsClaims
  BY <1>2, <1>1 DEF IssueQuote, ExpireQuote, LookUpQuote, TakeBackQuote,
              driverVars, modeVars
<1>3. ASSUME NEW p \in Peers, HourPasses(p) PROVE KeepsClaims
  <2>1. risk'.funding_claims = risk.funding_claims
    BY <1>0, <1>3 DEF HourPasses, Inner
  <2> QED
    BY <1>3, <1>1, <2>1 DEF HourPasses, driverVars, modeVars
<1>4. ASSUME Restart \/ Serve \/ UNCHANGED vars PROVE KeepsClaims
  BY <1>4, <1>1 DEF Restart, Serve, vars, driverVars, modeVars
<1>5. ASSUME NEW s \in Swaps, RestoreReservation(s) PROVE KeepsClaims
  <2>1. risk'.funding_claims = risk.funding_claims
    BY <1>0, <1>5, ClaimsMove DEF RestoreReservation
  <2> QED
    BY <1>5, <1>1, <2>1 DEF RestoreReservation, driverVars, modeVars
<1>6. ASSUME NEW s \in Swaps, ResumeAccepted(s) PROVE KeepsClaims
  BY <1>6, <1>1 DEF ResumeAccepted
<1>7. ASSUME NEW s \in Swaps, ResumePending(s) \/
               \E h \in Handlers, x \in (IF s \in Reverse THEN Hashes ELSE {None}) :
                 Request(h, s, x)
      PROVE  KeepsClaims
  <2>1. CASE ResumePending(s)
    <3>1. \A t \in Tasks : task'[t] = task[t] \/ task'[t].pc = "recover"
      BY <1>0, <2>1 DEF ResumePending, Idle
    <3> QED
      BY <2>1, <3>1, <1>1 DEF ResumePending, driverVars, Claimant
  <2>2. ASSUME NEW h \in Handlers, NEW x, Request(h, s, x)
        PROVE  KeepsClaims
    <3>1. \A t \in Tasks : task'[t] = task[t] \/ task'[t].pc \in {"take", "recover"}
      BY <1>0, <2>2 DEF Request, ReplayOrStart, Idle
    <3> QED
      BY <2>2, <3>1, <1>1 DEF Request, driverVars, modeVars, Claimant
  <2> QED
    BY <1>7, <2>1, <2>2
<1>8. ASSUME NEW s \in Swaps, FundingIntent(s) PROVE KeepsClaims
  <2>1. /\ s \in Live /\ awaits_funding(s) /\ calling' = calling \cup {s}
        /\ disk' = [disk EXCEPT ![s].begun = TRUE]
        /\ UNCHANGED <<task, risk, over, balance, overdrawn, mode>>
    BY <1>8, DrivenFacts DEF FundingIntent, modeVars, Live
  <2>2. /\ disk'[s].begun /\ \A r \in Swaps \ {s} : disk'[r] = disk[r]
        /\ disk'[s].state = disk[s].state
    BY <1>0, <2>1 DEF Records
  <2>3. Wanted' \subseteq Wanted
    BY <2>1, <2>2 DEF Wanted, Live, awaits_funding, Claimant
  <2> QED
    BY <2>1, <2>3 DEF KeepsClaims
<1>9. ASSUME NEW s \in Swaps, Funded(s) PROVE KeepsClaims
  <2>1. /\ drivers[s] > 0 /\ s \in sent
        /\ UNCHANGED <<task, disk, calling, over, balance, overdrawn, mode>>
        /\ risk'.funding_claims = risk.funding_claims \ {s}
    BY <1>0, <1>9, ClaimsMove DEF Funded, driverVars, modeVars
  <2>2. s \notin Wanted
    BY <2>1, DrivenFacts DEF CallsFit, Wanted, awaits_funding, Claimant
  <2>3. Wanted' = Wanted
    BY <2>1 DEF Wanted, Live, awaits_funding, Claimant
  <2> QED
    BY <2>1, <2>2, <2>3 DEF KeepsClaims
<1>10. ASSUME NEW s \in Swaps, DriverEnds(s) PROVE KeepsClaims
  <2>1. /\ drivers[s] > 0 /\ s \notin calling /\ over' = over \cup {s}
        /\ UNCHANGED <<task, calling, balance, overdrawn, mode>>
        /\ risk'.funding_claims = risk.funding_claims \ {s}
        /\ disk' = disk \/ disk' = [disk EXCEPT ![s].state = "ended"]
    BY <1>0, <1>10, ClaimsMove DEF DriverEnds, modeVars
  <2>2. \A r \in Swaps \ {s} : disk'[r] = disk[r]
    BY <1>0, <2>1
  <2>3. s \notin Live' /\ Live' \subseteq Live
    BY <2>1, <2>2 DEF Live
  <2>4. \A t \in Tasks : ~Claimant(t) \/ task[t].swap # s
    BY <2>1, DrivenFacts DEF Claimant
  <2>5. s \notin Wanted'
    BY <2>1, <2>3, <2>4 DEF Wanted, Claimant
  <2>6. Wanted' \subseteq Wanted
    <3>1. \A r \in Live' : r \in Live /\ (awaits_funding(r)' => awaits_funding(r))
      BY <2>2, <2>3 DEF Live, awaits_funding
    <3>2. \A u \in Tasks : Claimant(u)' => Claimant(u)
      BY <2>1 DEF Claimant
    <3> QED
      BY <2>1, <3>1, <3>2 DEF Wanted
  <2> QED
    BY <2>1, <2>5, <2>6 DEF KeepsClaims
<1>11. ASSUME NEW t \in Tasks, (t \in Handlers /\ TakeAndReserve(t)) \/ ReservePending(t)
       PROVE  KeepsClaims
  <2>1. task[t].swap \in Swaps
    BY <1>11 DEF IInv, TasksFit, TaskFits, TakeAndReserve, ReservePending
  <2>2. \/ task' = [task EXCEPT ![t] = Idle] /\ risk' = risk
        \/ /\ \/ task' = [task EXCEPT ![t].pc = "balance"]
              \/ /\ task' = [task EXCEPT ![t].pc = "complete"]
                 /\ task[t].swap \notin Reverse
           /\ \E m \in {"New", "Pending"} : risk' = Reserve(risk, task[t].swap, m)
    BY <1>11 DEF TakeAndReserve, ReservePending, Done, Goto
  <2>3. risk'.funding_claims = risk.funding_claims
    BY <1>0, <2>1, <2>2, ClaimsMove
  <2>4. \A u \in Tasks : task'[u] = task[u] \/ ~Claimant(u)'
    BY <1>0, <2>2, IdleFacts DEF TaskStates, Claimant
  <2> QED
    BY <1>11, <1>1, <2>3, <2>4 DEF TakeAndReserve, ReservePending, driverVars, modeVars
<1>12. ASSUME NEW t \in Tasks, ReadBalance(t) PROVE KeepsClaims
  <2>1. task' = [task EXCEPT ![t] = [[task[t] EXCEPT !.pc = "claim"]
                                              EXCEPT !.available = balance]]
    BY <1>0, <1>12 DEF ReadBalance
  <2>2. \A u \in Tasks : task'[u] = task[u] \/ ~Claimant(u)'
    BY <1>0, <2>1 DEF TaskStates, Claimant
  <2> QED
    BY <1>12, <1>1, <2>2 DEF ReadBalance, driverVars, modeVars
<1>13. ASSUME NEW t \in Tasks, CreateHoldInvoice(t) \/
                (t \in Handlers /\ PersistIntent(t)) \/ PersistAccepted(t)
       PROVE  KeepsClaims
  <2> DEFINE s == task[t].swap
  <2>1. TaskFits(t) /\ s \in Swaps
    BY <1>13 DEF IInv, TasksFit, TaskFits, CreateHoldInvoice, PersistIntent,
                 PersistAccepted
  <2>2. \E pc \in {"invoice", "complete", "spawn"} : task' = [task EXCEPT ![t].pc = pc]
    BY <1>13 DEF CreateHoldInvoice, PersistIntent, PersistAccepted, Goto
  <2>3. \A u \in Tasks : task'[u].swap = task[u].swap /\ (u # t => task'[u] = task[u])
    BY <1>0, <2>2 DEF TaskStates
  <2>4. s \in Reverse => Claimant(t)
    BY <1>13 DEF Claimant, CreateHoldInvoice, PersistIntent, PersistAccepted
  <2>5. Claimant(t)' => s \in Reverse
    <3>1. CASE task[t].pc = "complete"
      <4>1. PersistAccepted(t)
        BY <1>13, <3>1 DEF CreateHoldInvoice, PersistIntent
      <4>2. task'[t].pc = "spawn"
        BY <1>0, <4>1 DEF PersistAccepted, Goto, TaskStates
      <4> QED
        BY <4>2 DEF Claimant
    <3>2. CASE task[t].pc # "complete"
      BY <1>13, <3>2, <2>1 DEF TaskFits, CreateHoldInvoice, PersistIntent,
                               PersistAccepted
    <3> QED
      BY <3>1, <3>2
  <2>6. /\ \A r \in Swaps \ {s} : disk'[r] = disk[r]
        /\ UNCHANGED <<risk, calling, over, balance, overdrawn, mode>>
    BY <1>0, <1>13 DEF CreateHoldInvoice, PersistIntent, PersistAccepted,
                       driverVars, modeVars
  <2>7. {r \in Live : awaits_funding(r)}' \subseteq Wanted
    BY <2>1, <2>4, <2>6 DEF Wanted, Live, awaits_funding
  <2>8. \A u \in Tasks : Claimant(u)' => Claimant(u)
    BY <2>3, <2>4, <2>5 DEF Claimant
  <2>9. Wanted' \subseteq Wanted
    BY <2>3, <2>6, <2>7, <2>8 DEF Wanted
  <2> QED
    BY <2>6, <2>9 DEF KeepsClaims
<1>14. ASSUME NEW t \in Tasks, Spawn(t) PROVE KeepsClaims
  <2>1. \A u \in Tasks : task'[u] = task[u] \/ ~Claimant(u)'
    BY <1>0, <1>14, IdleFacts DEF Spawn, Done, Claimant
  <2> QED
    BY <1>14, <1>1, <2>1 DEF Spawn, modeVars
<1>15. ASSUME NEW t \in Tasks, Fails(t) PROVE KeepsClaims
  <2> DEFINE s == task[t].swap
  <2>1. TaskFits(t) /\ s \in Swaps
    BY <1>15 DEF IInv, TasksFit, TaskFits, Fails
  <2>2. /\ task[t].pc \notin {"idle", "spawn"} /\ risk' = Dropped(t)
        /\ task' = [task EXCEPT ![t] = Idle]
        /\ UNCHANGED <<disk, calling, over, balance, overdrawn, mode>>
    BY <1>15 DEF Fails, Done, driverVars, modeVars
  <2>3. \A u \in Tasks : task'[u] = task[u] \/ ~Claimant(u)'
    BY <1>0, <2>2, IdleFacts DEF Claimant
  <2>4. CASE ~HasGuard(t)
    BY <2>2, <2>3, <2>4, <1>1 DEF Dropped
  <2>5. CASE HasGuard(t)
    <3>1. risk'.funding_claims = risk.funding_claims \ {s}
      BY <1>0, <2>1, <2>2, <2>5, ClaimsMove DEF Dropped
    <3>2. drivers[s] = 0 /\ disk[s].state # "accepted"
      BY <2>1, <2>2, <2>5 DEF TaskFits, Unrecorded, WithIntent, NoRecord
    <3>3. Wanted' \subseteq Wanted
      BY <2>2, <2>3 DEF Wanted, Live, awaits_funding, Claimant
    <3>4. \A u \in Tasks : Claimant(u)' => task'[u].swap # s
      <4>1. ASSUME NEW u \in Tasks, Claimant(u)' PROVE task'[u].swap # s
        <5>1. task'[u] = task[u] /\ task[u].pc # "idle" /\ u # t
          BY <1>0, <2>2, <2>3, <4>1, IdleFacts DEF Claimant
        <5> QED
          BY <5>1, <2>2, Alone, IdleFacts
      <4> QED
        BY <4>1
    <3>5. s \notin Wanted'
      BY <2>2, <3>2, <3>4 DEF Wanted, Live, CallsFit
    <3> QED
      BY <2>2, <3>1, <3>3, <3>5 DEF KeepsClaims
  <2> QED
    BY <2>4, <2>5
<1>16. ASSUME Crash PROVE KeepsClaims
  <2>1. \A t \in Tasks : ~Claimant(t)'
    BY <1>16, IdleFacts DEF Crash, Claimant
  <2>2. Wanted' \subseteq Wanted
    BY <1>16, <2>1 DEF Crash, Wanted, Live, awaits_funding
  <2>3. UNCHANGED <<balance, overdrawn>> /\ mode' = "down" /\ risk' = NewRiskManager
    BY <1>16 DEF Crash
  <2> QED
    BY <2>2, <2>3 DEF KeepsClaims
<1> QED
  BY <1>2, <1>3, <1>4, <1>5, <1>6, <1>7, <1>8, <1>9, <1>10, <1>11, <1>12, <1>13,
     <1>14, <1>15, <1>16 DEF Next, Tasks


LEMMA SumIsPositive == ASSUME NEW m \in Nat, NEW n \in Nat PROVE 0 <= m + n
OBVIOUS

\* Every step keeps what is wanted of the wallet claimed, and there.
LEMMA CoinsStep ==
  ASSUME IInv, CallsFit, CoinsFit, [Next]_vars
  PROVE  CoinsFit'
<1> DEFINE c == min_onchain_reserve_sat
<1>0. /\ task \in [Tasks -> TaskStates] /\ balance \in Nat /\ c \in Nat
      /\ overdrawn \in Nat
      /\ ClaimOf \in [Swaps -> Nat] /\ risk \in Inner
      /\ calling \subseteq Swaps /\ Reverse \subseteq Swaps
      /\ drivers \in [Swaps -> 0..1]
  BY RiskAssumption, AdmissionAssumption DEF IInv, TypeOK
<1>1. Wanted \in SUBSET Swaps /\ risk.funding_claims \in SUBSET Swaps
  BY <1>0 DEF Wanted, Live, Inner
<1>2. Total(ClaimOf, Wanted) \in Nat
  BY <1>0, <1>1, TotalFacts
<1>3. CASE KeepsClaims
  <2>1. Wanted' \in SUBSET Wanted
    BY <1>3 DEF KeepsClaims
  <2>2. Total(ClaimOf, Wanted') <= Total(ClaimOf, Wanted)
          /\ Total(ClaimOf, Wanted') \in Nat
    <3>1. Wanted' \in SUBSET Swaps
      BY <1>1, <2>1
    <3> QED
      BY <1>0, <1>1, <2>1, <3>1, TotalFacts
  <2>3. Wanted' # {} => Total(ClaimOf, Wanted') + c <= balance' + overdrawn'
    BY <1>0, <1>2, <1>3, <2>1, <2>2 DEF CoinsFit, KeepsClaims
  <2>4. mode' \in {"resuming", "serving"} => Wanted' \subseteq risk'.funding_claims
    BY <1>3, <2>1 DEF CoinsFit, KeepsClaims
  <2> QED
    BY <2>3, <2>4 DEF CoinsFit
<1>4. ASSUME NEW t \in Tasks, Claim(t) PROVE CoinsFit'
  <2> DEFINE s == task[t].swap
             F == risk.funding_claims \ {s}
  <2>1. /\ task[t].pc = "claim" /\ Covers(risk, s, task[t].available)
        /\ risk' = ClaimFunding(risk, {s})
        /\ \E pc \in {"invoice", "persist"} : task' = [task EXCEPT ![t].pc = pc]
        /\ UNCHANGED <<disk, calling, over, balance, mode>>
    BY <1>4 DEF Claim, Goto, driverVars, modeVars
  <2>2. /\ s \in Swaps /\ s \in risk.reservations /\ mode \in {"resuming", "serving"}
        /\ task[t].available \in Nat
    BY <1>0, <2>1 DEF IInv, TasksFit, TaskFits, HasGuard, LocksHeld, Tasks, TaskStates
  <2>5. /\ task[t].available <= balance + overdrawn' /\ overdrawn' \in Nat
        /\ overdrawn' >= overdrawn \/ Wanted \subseteq {s}
    <3>1. Wanted \subseteq risk.funding_claims
      BY <2>2 DEF CoinsFit
    <3> DEFINE missing == SaturatingMinus(task[t].available, balance)
    <3>2. missing \in Nat /\ task[t].available <= balance + missing
      BY <1>0, <2>2 DEF SaturatingMinus
    <3>3. overdrawn' = IF missing > overdrawn \/ risk.funding_claims \subseteq {s}
                       THEN missing ELSE overdrawn
      BY <1>4 DEF Claim
    <3> HIDE DEF missing
    <3> QED
      BY <1>0, <2>2, <3>1, <3>2, <3>3
  <2>3. Wanted' \subseteq Wanted \cup {s}
    <3>1. \A u \in Tasks : task'[u].swap = task[u].swap /\ (u # t => task'[u] = task[u])
      BY <1>0, <2>1 DEF TaskStates
    <3> QED
      BY <2>1, <3>1 DEF Wanted, Live, awaits_funding, Claimant
  <2>4. Wanted' \subseteq risk'.funding_claims
    <3>1. risk'.funding_claims = risk.funding_claims \cup ({s} \cap risk.reservations)
      BY <1>0, <2>1, <2>2, ClaimsMove
    <3> QED
      BY <2>2, <2>3, <3>1 DEF CoinsFit
  <2>6. SaturatingMinus(task[t].available, Total(ClaimOf, F)) >= ClaimOf[s] + c
    <3>1. [risk EXCEPT !.funding_claims = @ \ {s}].funding_claims = F
      BY <1>0 DEF Inner
    <3> QED
      BY <2>1, <2>2, <3>1 DEF Covers, Claimed
  <2>7. Total(ClaimOf, Wanted') + c <= balance + overdrawn'
    <3>1. /\ F \in SUBSET Swaps /\ s \in Swaps \ F
          /\ Wanted \cup {s} \in SUBSET Swaps /\ Wanted' \in SUBSET (Wanted \cup {s})
          /\ Wanted' \in SUBSET Swaps
      BY <1>1, <2>2, <2>3
    <3>2. /\ Total(ClaimOf, F) \in Nat /\ Total(ClaimOf, F \cup {s}) \in Nat
          /\ Total(ClaimOf, F \cup {s}) = Total(ClaimOf, F) + ClaimOf[s]
          /\ Total(ClaimOf, Wanted') \in Nat /\ Total(ClaimOf, Wanted \cup {s}) \in Nat
          /\ Total(ClaimOf, Wanted') <= Total(ClaimOf, Wanted \cup {s})
      <4>1. F \cup {s} \in SUBSET Swaps
        BY <3>1
      <4> QED
        BY <1>0, <3>1, <4>1, TotalFacts, TotalAdds
    <3>3. ClaimOf[s] \in Nat
      BY <1>0, <2>2
    <3>4. CASE task[t].available > Total(ClaimOf, F)
      <4>1. Total(ClaimOf, F) + ClaimOf[s] + c <= task[t].available
        BY <1>0, <2>2, <2>6, <3>2, <3>3, <3>4 DEF SaturatingMinus
      <4>2. Wanted' \in SUBSET (F \cup {s}) /\ F \cup {s} \in SUBSET Swaps
        BY <2>2, <2>3, <3>1 DEF CoinsFit
      <4>3. Total(ClaimOf, Wanted') <= Total(ClaimOf, F \cup {s})
        BY <1>0, <4>2, TotalFacts
      <4> QED
        BY <1>0, <2>2, <2>5, <3>2, <3>3, <4>1, <4>3
    <3>5. CASE ~(task[t].available > Total(ClaimOf, F))
      <4>1. ClaimOf[s] = 0 /\ c = 0
        BY <1>0, <2>2, <2>6, <3>3, <3>5 DEF SaturatingMinus
      <4>2. Total(ClaimOf, Wanted \cup {s}) = Total(ClaimOf, Wanted)
        <5>1. CASE s \in Wanted
          <6>1. Wanted \cup {s} = Wanted
            BY <5>1
          <6> QED
            BY <6>1
        <5>2. CASE s \notin Wanted
          BY <1>0, <1>1, <1>2, <2>2, <4>1, <5>2, TotalAdds
        <5> QED
          BY <5>1, <5>2
      <4>3. Total(ClaimOf, Wanted) <= balance + overdrawn'
        <5>1. Total(ClaimOf, {}) = 0
          BY <1>0, TotalFacts
        <5>2. CASE Wanted = {}
          BY <1>0, <2>5, <5>1, <5>2
        <5>3. CASE Wanted = {s}
          <6>1. Total(ClaimOf, {s}) = 0
            <7>1. Total(ClaimOf, {} \cup {s}) = Total(ClaimOf, {}) + ClaimOf[s]
              BY <1>0, <2>2, TotalAdds
            <7>2. {} \cup {s} = {s}
              OBVIOUS
            <7>3. Total(ClaimOf, {s}) = Total(ClaimOf, {}) + ClaimOf[s]
              BY <7>1, <7>2
            <7> QED
              BY <1>0, <2>2, <4>1, <5>1, <7>3
          <6>2. Total(ClaimOf, Wanted) = 0
            BY <5>3, <6>1
          <6>3. 0 <= balance + overdrawn'
            BY <1>0, <2>5, SumIsPositive
          <6> QED
            BY <6>2, <6>3
        <5>4. CASE ~(Wanted \subseteq {s})
          BY <1>0, <1>2, <2>5, <4>1, <5>4 DEF CoinsFit
        <5> QED
          BY <5>2, <5>3, <5>4
      <4> QED
        BY <1>0, <1>2, <2>5, <3>2, <4>1, <4>2, <4>3
    <3> QED
      BY <3>4, <3>5
  <2> QED
    BY <2>1, <2>4, <2>7 DEF CoinsFit
<1>5. ASSUME NEW s \in Swaps, FundHtlc(s) PROVE CoinsFit'
  <2>1. /\ s \in calling /\ calling' = calling \ {s}
        /\ \/ balance >= ClaimOf[s] /\ balance' = balance - ClaimOf[s]
           \/ balance' = balance
        /\ UNCHANGED <<task, risk, disk, over, overdrawn, mode>>
    BY <1>5 DEF FundHtlc, modeVars
  <2>2. drivers[s] > 0 /\ disk[s].begun
    BY <2>1 DEF CallsFit
  <2>3. Wanted' = Wanted \ {s} /\ s \in Wanted
    <3>1. \A u \in Tasks : ~Claimant(u) \/ task[u].swap # s
      BY <2>2, DrivenFacts DEF Claimant
    <3> QED
      BY <2>1, <2>2, <3>1 DEF Wanted, Live, awaits_funding, Claimant
  <2>4. Total(ClaimOf, Wanted) = Total(ClaimOf, Wanted') + ClaimOf[s]
          /\ Total(ClaimOf, Wanted') \in Nat /\ ClaimOf[s] \in Nat
    <3>1. Wanted \ {s} \in SUBSET Swaps
      BY <1>1
    <3>2. Total(ClaimOf, Wanted) = Total(ClaimOf, Wanted \ {s}) + ClaimOf[s]
            /\ Total(ClaimOf, Wanted \ {s}) \in Nat
      BY <1>0, <1>1, <2>3, <3>1, TotalDrops, TotalFacts
    <3> QED
      BY <1>0, <2>3, <3>2
  <2>5. Total(ClaimOf, Wanted) + c <= balance + overdrawn
    BY <2>3 DEF CoinsFit
  <2>6. Total(ClaimOf, Wanted') + c <= balance' + overdrawn'
    BY <1>0, <2>1, <2>4, <2>5
  <2>7. mode' \in {"resuming", "serving"} => Wanted' \subseteq risk'.funding_claims
    BY <2>1, <2>3 DEF CoinsFit
  <2> QED
    BY <2>6, <2>7 DEF CoinsFit
<1>6. CASE RestoreFundingClaims
  <2> DEFINE S == {s \in Accepted(todo) : awaits_funding(s)}
  <2>1. /\ mode = "restoring" /\ Accepted(todo) \subseteq risk.reservations
        /\ risk' = ClaimFunding(risk, S)
        /\ UNCHANGED <<task, disk, calling, over, balance, overdrawn>>
    BY <1>6 DEF RestoreFundingClaims, driverVars
  <2>2. \A t \in Tasks : task[t].pc = "idle"
    BY <2>1 DEF IInv, LocksHeld, Tasks
  <2>3. \A s \in Swaps : drivers[s] = 0
    BY <1>0, <2>1 DEF IInv, DriversFit
  <2>4. calling = {}
    BY <1>0, <2>3 DEF CallsFit
  <2>5. Live \subseteq Accepted(todo)
    BY <2>1, <2>2, <2>3 DEF IInv, LiveFits, Live, Accepted
  <2>6. Wanted \subseteq S
    BY <2>2, <2>4, <2>5 DEF Wanted, Claimant
  <2>7. Wanted' = Wanted
    BY <2>1 DEF Wanted, Live, awaits_funding, Claimant
  <2>8. S \subseteq risk'.funding_claims
    <3>1. risk'.funding_claims = risk.funding_claims \cup (S \cap risk.reservations)
      BY <1>0, <2>1 DEF ClaimFunding, Inner
    <3> QED
      BY <2>1, <3>1
  <2> QED
    BY <2>1, <2>6, <2>7, <2>8 DEF CoinsFit
<1> QED
  BY <1>3, <1>4, <1>5, <1>6, ClaimsKept

\* The ceilings hold, and the wallet covers what it must.
Accounts == CountersAgree(risk) /\ UnderCeilings(Taken) /\ CallsFit /\ CoinsFit

\* They hold at first, and every step preserves them.
LEMMA AccountsInit == Init => Accounts
<1> SUFFICES ASSUME Init PROVE Accounts
  OBVIOUS
<1>1. AmountOf \in [Swaps -> Nat] /\ ClaimOf \in [Swaps -> Nat]
  BY RiskAssumption
<1>2. CountersAgree(risk)
  BY NewCounts DEF Init
<1>3. \A t \in Tasks : task[t].pc = "idle"
  BY IdleFacts DEF Init
<1>4. Live = {}
  BY DEF Init, Live, NoRecord
<1>5. Taken = {} /\ Wanted = {}
  BY <1>3, <1>4 DEF Init, Taken, Wanted, HasGuard, Claimant
<1>6. Total(AmountOf, {}) = 0 /\ Cardinality({}) = 0 /\ \A p \in Peers : OfPeer({}, p) = {}
  BY <1>1, TotalFacts, CountFacts DEF OfPeer
<1>7. UnderCeilings({})
  BY <1>6, RiskAssumption DEF UnderCeilings
<1>8. CallsFit
  BY <1>3 DEF Init, CallsFit
<1>9. CoinsFit
  BY <1>5 DEF CoinsFit
<1> QED
  BY <1>2, <1>5, <1>7, <1>8, <1>9 DEF Accounts

LEMMA AccountsStep == IInv /\ Accounts /\ [Next]_vars => Accounts'
<1> SUFFICES ASSUME IInv, Accounts, [Next]_vars PROVE Accounts'
  OBVIOUS
<1>1. CountersAgree(risk)'
  BY CountedStep DEF Accounts, CountersAgree
<1>2. UnderCeilings(Taken)'
  BY CeilingsStep DEF Accounts, UnderCeilings
<1>3. CallsFit' /\ CoinsFit'
  BY CallsStep, CoinsStep DEF Accounts
<1> QED
  BY <1>1, <1>2, <1>3 DEF Accounts

LEMMA AccountsHold == Spec => []Accounts
  BY AccountsInit, AccountsStep, Invariant, PTL DEF Spec

-----------------------------------------------------------------------------
(* The theorems.                                                           *)

\* Type correctness, and with it that no swap has two drivers, however often
\* requests are redelivered, handlers fail and the daemon restarts.
THEOREM TypeCorrect == Spec => []TypeOK
<1>1. IInv => TypeOK
  BY DEF IInv
<1> QED
  BY <1>1, Invariant, PTL

\* start_reverse, start_submarine and resume_swaps leave no accepted swap
\* without its driver and its reservation.
THEOREM Driven == Spec => []LiveSwapIsDriven
<1>1. IInv => LiveSwapIsDriven
  BY DEF IInv, TodoFits, LiveFits, LiveSwapIsDriven
<1> QED
  BY <1>1, Invariant, PTL

\* ensure_reverse_hash_available under the creation lock: no two reverse swaps
\* on record have one payment hash.
THEOREM OneHash == Spec => []OneSwapPerHash
<1>1. IInv => OneSwapPerHash
  BY DEF IInv
<1> QED
  BY <1>1, Invariant, PTL

\* take_valid_quote and restore_quote: the book never offers a quote that was
\* redeemed, that a task works on, or that a swap was created from.
THEOREM SingleUse == Spec => []QuoteIsSingleUse
<1>1. IInv => QuoteIsSingleUse
  BY DEF IInv, QuotesFit, QuoteIsSingleUse
<1> QED
  BY <1>1, Invariant, PTL

\* reserve_inner and ReservationGuard, restore after a restart included: the
\* live swaps stay under every ceiling, each peer's under its own.
THEOREM Exposure == Spec => []ExposureIsBounded
<1>1. IInv /\ Accounts => ExposureIsBounded
  <2> SUFFICES ASSUME IInv, Accounts PROVE ExposureIsBounded
    OBVIOUS
  <2>1. Taken \in SUBSET Swaps /\ Live \in SUBSET Taken
    BY DEF Taken, Live
  <2>2. UnderCeilings(Live)
    BY <2>1, FewerFit DEF Accounts
  <2> QED
    BY <2>2 DEF UnderCeilings, OfPeer, ExposureIsBounded
<1> QED
  BY <1>1, Invariant, AccountsHold, PTL

\* claim_funding and restore_funding_claim: the wallet has the coins of every live
\* swap that is still to be funded, and the reserve, up to what one admission did
\* not see leave it between its reading of the balance and its claim on it.
THEOREM Covered == Spec => []WalletCovers
<1>1. IInv /\ Accounts => WalletCovers
  <2> SUFFICES ASSUME IInv, Accounts PROVE WalletCovers
    OBVIOUS
  <2> DEFINE owed == {s \in Live : awaits_funding(s)} \cup calling
  <2>1. /\ calling \subseteq Swaps /\ balance \in Nat /\ overdrawn \in Nat
        /\ ClaimOf \in [Swaps -> Nat] /\ min_onchain_reserve_sat \in Nat
    BY RiskAssumption, AdmissionAssumption DEF IInv, TypeOK
  <2>2. Wanted \in SUBSET Swaps /\ owed \in SUBSET Wanted /\ owed \in SUBSET Swaps
    BY <2>1 DEF Wanted, Live
  <2>3. /\ Total(ClaimOf, owed) <= Total(ClaimOf, Wanted)
        /\ Total(ClaimOf, owed) \in Nat /\ Total(ClaimOf, Wanted) \in Nat
    BY <2>1, <2>2, TotalFacts
  <2>4. owed # {} => Total(ClaimOf, Wanted) + min_onchain_reserve_sat <= balance + overdrawn
    BY <2>2 DEF Accounts, CoinsFit
  <2>5. owed # {} => Total(ClaimOf, owed) + min_onchain_reserve_sat <= balance + overdrawn
    BY <2>1, <2>3, <2>4
  <2> QED
    BY <2>5 DEF WalletCovers
<1> QED
  BY <1>1, Invariant, AccountsHold, PTL
=============================================================================
