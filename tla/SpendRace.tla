------------------------------ MODULE SpendRace ------------------------------
(***************************************************************************)
(* After the agreement: one party's claim or refund of the HTLC, driven by  *)
(* confirm_or_bump through replacements, evictions, reorganisations and     *)
(* restarts, against a counterparty that may spend the output itself        *)
(* whenever Bitcoin lets it.                                                *)
(*                                                                          *)
(* A spend is its party and its fee rate: a builder signs deterministically *)
(* and sweeps to one address.  An estimate function of Markets answers      *)
(* every question of the moment.  The tip a check compares with a deadline  *)
(* is read together with the spend.  A wallet's child may raise what a      *)
(* spend pays.  MaxFaults bounds crashes, reorganisations, evictions under  *)
(* a running driver, lost requests and lost answers, together; RaceParams,  *)
(* RaceAccept and MaxRaceValue choose the swaps that are followed, and      *)
(* AfterTimeout ends the time.                                              *)
(***************************************************************************)
EXTENDS Terms, Sequences

CONSTANTS
  RaceParams, RaceAccept, MaxRaceValue, AfterTimeout,
  Markets,                  \* estimates by confirmation target, 0 for none
  RivalRates,
  FINALITY_DEPTH, MAX_TRACKED_OUR_SPENDS,
  MaxFaults

ASSUME RaceAssumption ==
  /\ \A estimate \in Markets, target \in {1, 2, 3, 6, 12} : estimate[target] \in Nat
  /\ RivalRates \subseteq Nat /\ MAX_TRACKED_OUR_SPENDS \in Nat \ {0}

VARIABLES
  us,       \* the party whose driver is followed
  mem,      \* the live unconfirmed spend: [by, rate, pays]
  mined,    \* the spend in the chain: [by, rate, height]
  known,    \* spends that nodes and miners have seen
  driver,   \* [pc, rate, next, live, ours, listed, found]: the position, the rate,
            \* a pending replacement's rate, the rate of the tracked spend, the sets
            \* of confirm_or_bump and of its caller, and the spend handed back
  record,   \* the rates of our_spend_txids, oldest first
  unheard,  \* our spends that were sent and whose answer was lost
  faults

raceVars == <<us, mem, mined, known, driver, record, unheard, faults>>
chainVars == <<mem, mined, known>>

-----------------------------------------------------------------------------
Idle == [pc |-> "idle", rate |-> 0, next |-> 0, live |-> 0,
         ours |-> {}, listed |-> {}, found |-> Nothing]

RaceInit ==
  /\ TermsInit /\ us = "nobody" /\ mem = Nothing /\ mined = Nothing /\ known = {}
  /\ driver = Idle /\ record = <<>> /\ unheard = {} /\ faults = 0

Claiming == us = claimer(swap.direction)
Path(party) == IF party = claimer(swap.direction) THEN "claim" ELSE "refund"
IsRecorded(rate) == \E i \in DOMAIN record : record[i] = rate
our_spends == {record[i] : i \in DOMAIN record}

\* This repository's client builds P2WSH spends alone.
vsize == spend_vsize(swap.contract.script, swap.direction, Path(us))
floor == fee_rate_sat_vb
cap == fee_rate_cap(swap.onchain, vsize, floor)
Buildable(rate) == CanBuild(swap.contract.script, swap.onchain, rate * vsize)

\* A claim is to be in before the other side's refund opens, a refund never gives up.
deadline == IF Claiming THEN swap.timeout - CLAIM_ABORT_MARGIN ELSE NoDeadline

Spend(party, rate) ==
  unsigned_spend(swap.contract, Path(party), party, Hash, swap.onchain - rate * vsize)

\* The chain and the mempool as one server sees them.
Seen == IF mined # Nothing THEN mined ELSE mem
Exists == Seen # Nothing
IsOurs(spend, ours) == spend.by = us /\ spend.rate \in ours
Confirmations(rate) ==
  IF mined # Nothing /\ mined.by = us /\ mined.rate = rate THEN tip - mined.height + 1
  ELSE IF mem # Nothing /\ mem.by = us /\ mem.rate = rate THEN 0 ELSE -1

Fault == faults < MaxFaults /\ faults' = faults + 1
NoFault == UNCHANGED faults

\* The coins are in the HTLC and time has passed: a claim starts before the first
\* start is unsafe, a refund when it opens.  The Lightning leg is left to the drivers'
\* own modules.
FundContract ==
  /\ at = "agreed" /\ p = RaceParams /\ accept = RaceAccept /\ swap.onchain <= MaxRaceValue
  /\ at' = "funded"
  /\ us' \in {party \in {"client", "provider"} :
               party = "client" => swap.contract.script = "P2wsh"}
  /\ tip' = swap.timeout -
       (IF us' = claimer(swap.direction) THEN CLAIM_ABORT_MARGIN + 3 ELSE 1)
  /\ tip <= tip'
  /\ ln_expiry' = 0 /\ swap' = [swap EXCEPT !.invoice = 0, !.invoice_expires = 0]
  /\ UNCHANGED <<p, accept, offer, request, quote, issued, creation, now, chainVars, driver, record, unheard, faults>>

-----------------------------------------------------------------------------
(* The chain, for as long as the driver may look at it.                     *)

Watched == at = "funded" /\ driver.pc \notin {"won", "over"}

\* A node takes a spend when the output is free or the replacement pays more.
Accepts(party, rate) ==
  /\ mined = Nothing /\ Satisfies(swap.contract, Spend(party, rate), tip)
  /\ mem # Nothing => mem.pays < rate \/ (mem.by = party /\ mem.rate = rate)

Enter(party, rate) ==
  /\ mem' = IF mem # Nothing /\ mem.by = party /\ mem.rate = rate THEN mem
            ELSE [by |-> party, rate |-> rate, pays |-> rate]
  /\ known' = known \cup {<<party, rate>>} /\ UNCHANGED mined

Frame == UNCHANGED <<p, accept, ln_expiry, dealVars, now, at, us>>

\* The blocks from a claim's deadline to the refund's height are found at once.
NextTip == IF Claiming /\ tip = deadline THEN swap.timeout ELSE tip + 1

\* Miners may have kept a spend that was replaced.
Mine ==
  /\ Watched /\ tip < swap.timeout + AfterTimeout /\ tip' = NextTip
  /\ \/ UNCHANGED chainVars
     \/ /\ mined = Nothing /\ mem # Nothing /\ mem' = Nothing /\ UNCHANGED known
        /\ \E s \in known :
             mined' = [by |-> s[1], rate |-> s[2], height |-> tip + 1]
  /\ Frame /\ UNCHANGED <<driver, record, unheard, faults>>

RivalSpends ==
  /\ Watched
  /\ \E party \in {"client", "provider"} \ {us}, rate \in RivalRates :
       Accepts(party, rate) /\ Enter(party, rate)
  /\ Frame /\ UNCHANGED <<tip, driver, record, unheard, faults>>

\* Mempools fill up and forget, at any time while the driver is down.
Evict ==
  /\ Watched /\ mem # Nothing /\ mem' = Nothing
  /\ IF driver.pc = "idle" THEN NoFault ELSE Fault
  /\ Frame /\ UNCHANGED <<tip, mined, known, driver, record, unheard>>

\* A spend that is not buried goes back to the mempool, or another takes its place.
Reorganise ==
  /\ Watched /\ mined # Nothing /\ tip - mined.height + 1 < FINALITY_DEPTH /\ Fault
  /\ \E s \in known : mem' = [by |-> s[1], rate |-> s[2], pays |-> s[2]]
  /\ mined' = Nothing
  /\ Frame /\ UNCHANGED <<tip, known, driver, record, unheard>>

-----------------------------------------------------------------------------
(* The driver.                                                             *)

note_our_spend(rate) ==
  record' = IF IsRecorded(rate) THEN record
            ELSE LET longer == Append(record, rate) IN
                 IF Len(longer) > MAX_TRACKED_OUR_SPENDS THEN Tail(longer) ELSE longer

Crash ==
  /\ at = "funded" /\ driver.pc \notin {"idle", "over"} /\ driver' = Idle /\ Fault
  /\ Frame /\ UNCHANGED <<tip, chainVars, record, unheard>>

\* A resumed provider goes on only with the contract that its client was sent.
Resumable ==
  us = "provider" =>
    validate_persisted_contract(swap.contract, swap.contract, swap.direction, Hash)

\* A client that claims starts only while the output is listed as unspent and the
\* refund is far enough; a provider that claims takes any spend for its own claim.
Start ==
  /\ at = "funded" /\ driver.pc = "idle" /\ Resumable
  /\ Claiming => ~Exists
  /\ Claiming /\ us = "client" => claim_start_is_safe(tip, swap.timeout)
  /\ driver' = [Idle EXCEPT !.pc = "enter", !.listed = our_spends]
  /\ NoFault /\ Frame /\ UNCHANGED <<tip, chainVars, record, unheard>>

StartAfterSpend ==
  /\ at = "funded" /\ driver.pc = "idle" /\ Claiming /\ us = "provider" /\ Exists
  /\ driver' = [Idle EXCEPT !.pc = "over"]
  /\ NoFault /\ Frame /\ UNCHANGED <<tip, chainVars, record, unheard>>

\* A refund waits for its height, and yields to a claim whose preimage it can read.
CallerGoesOn == Claiming \/ (tip >= swap.timeout /\ ~(Exists /\ Seen.by # us))

YieldToClaim ==
  /\ at = "funded" /\ driver.pc = "enter" /\ ~Claiming /\ Exists /\ Seen.by # us
  /\ driver' = [Idle EXCEPT !.pc = "over"]
  /\ NoFault /\ Frame /\ UNCHANGED <<tip, chainVars, record, unheard>>

\* confirm_or_bump up to its first broadcast: a live spend of an earlier run is
\* adopted, and the rate is today's.
EnterConfirmOrBump_Unseeded ==
  /\ at = "funded" /\ driver.pc = "enter" /\ CallerGoesOn
  /\ \E estimate \in Markets :
       driver' = [driver EXCEPT
         !.rate = resolve_fee_rate(estimate[IF Claiming THEN CLAIM_FEE_TARGET_BLOCKS
                                            ELSE REFUND_FEE_TARGET_BLOCKS], floor, cap),
         !.ours = {}, !.pc = "first"]
  /\ NoFault /\ Frame /\ UNCHANGED <<tip, chainVars, record, unheard>>

EnterConfirmOrBump ==
  /\ at = "funded" /\ driver.pc = "enter" /\ CallerGoesOn
  /\ \E estimate \in Markets :
       LET adopted == Exists /\ IsOurs(Seen, driver.listed) IN
       driver' = [driver EXCEPT
         !.rate = resolve_fee_rate(estimate[IF Claiming THEN CLAIM_FEE_TARGET_BLOCKS
                                            ELSE REFUND_FEE_TARGET_BLOCKS], floor, cap),
         !.ours = driver.listed,
         !.live = IF adopted THEN Seen.rate ELSE 0,
         !.pc = IF adopted THEN "poll" ELSE "first"]
  /\ NoFault /\ Frame /\ UNCHANGED <<tip, chainVars, record, unheard>>

\* on_spend comes first; the submarine claim's caller keeps a list of its own.
Announce(rate) ==
  /\ note_our_spend(rate)
  /\ LET list == IF Claiming /\ us = "provider" THEN driver.listed \cup {rate}
                 ELSE driver.listed IN
     \/ \* taken by the server
        /\ Accepts(us, rate) /\ Enter(us, rate) /\ NoFault /\ UNCHANGED unheard
        /\ driver' = [driver EXCEPT !.rate = rate, !.live = rate, !.next = 0,
                       !.pc = "check", !.listed = list, !.ours = @ \cup {rate}]
     \/ \* refused, or taken without an answer, or never sent
        /\ \/ ~Accepts(us, rate) /\ UNCHANGED <<chainVars, unheard>> /\ NoFault
           \/ /\ Accepts(us, rate) /\ Enter(us, rate) /\ Fault
              /\ unheard' = unheard \cup {rate}
           \/ Accepts(us, rate) /\ UNCHANGED <<chainVars, unheard>> /\ Fault
        /\ driver' = IF driver.pc = "first" THEN Idle
                     ELSE [driver EXCEPT !.listed = list,
                             !.pc = IF driver.pc = "bump" THEN "cpfp" ELSE "check"]

\* An error of the builder ends the call, and with it the driver's run.
FirstBroadcast ==
  /\ at = "funded" /\ driver.pc = "first"
  /\ IF Buildable(driver.rate) THEN Announce(driver.rate)
     ELSE driver' = Idle /\ UNCHANGED <<chainVars, record, unheard, faults>>
  /\ Frame /\ UNCHANGED tip

\* The replacement, or the same spend again.
Rebroadcast ==
  /\ at = "funded" /\ driver.pc \in {"bump", "again"}
  /\ Announce(IF driver.pc = "bump" THEN driver.next ELSE driver.rate)
  /\ Frame /\ UNCHANGED tip

\* A child of the live spend, by a wallet that can; the claim of a client goes to an
\* address that may not be its wallet's.
BumpByChild ==
  /\ at = "funded" /\ driver.pc = "cpfp"
  /\ \/ /\ ~(Claiming /\ us = "client")
        /\ mem # Nothing /\ mem.by = us /\ mem.rate = driver.live
        /\ mem' = [mem EXCEPT !.pays = IF driver.next > @ THEN driver.next ELSE @]
        /\ driver' = [driver EXCEPT !.pc = "check", !.rate = driver.next, !.next = 0]
     \/ driver' = [driver EXCEPT !.pc = "check", !.next = 0] /\ UNCHANGED mem
  /\ NoFault /\ Frame /\ UNCHANGED <<tip, mined, known, record, unheard>>

\* One turn of the loop: whose spend is it, how deep, and should it pay more?
Poll ==
  /\ at = "funded" /\ driver.pc = "poll"
  /\ IF Exists /\ ~IsOurs(Seen, driver.ours)
     THEN driver' = [driver EXCEPT !.pc = "lost", !.found = Seen]
     ELSE \E estimate \in Markets :
       LET live == IF Exists THEN Seen.rate ELSE driver.live
           depth == Confirmations(live)
           next == deadline_fee_rate(tip, deadline, driver.rate, estimate, floor, cap)
           bump == depth = 0 /\ next > driver.rate /\ Buildable(next) IN
       driver' = [driver EXCEPT !.live = live, !.next = IF bump THEN next ELSE 0,
         !.pc = CASE depth >= FINALITY_DEPTH -> "won"
                  [] depth = -1 /\ Buildable(driver.rate) -> "again"
                  [] bump -> "bump"
                  [] OTHER -> "check"]
  /\ NoFault /\ Frame /\ UNCHANGED <<tip, chainVars, record, unheard>>

\* Past the deadline, or after six hours.
Check ==
  /\ at = "funded" /\ driver.pc = "check"
  /\ \/ (deadline = NoDeadline \/ tip < deadline) /\ driver' = [driver EXCEPT !.pc = "poll"]
     \/ driver' = [driver EXCEPT !.pc = "late"]
  /\ NoFault /\ Frame /\ UNCHANGED <<tip, chainVars, record, unheard>>

\* The callers: a client's claim ends its run, everybody else calls again.
Late ==
  /\ at = "funded" /\ driver.pc = "late"
  /\ driver' = IF Claiming /\ us = "client" THEN Idle
               ELSE [driver EXCEPT !.pc = "enter", !.found = Nothing]
  /\ NoFault /\ Frame /\ UNCHANGED <<tip, chainVars, record, unheard>>

\* A conflict is the end of a submarine claim, and of a submarine refund; the run of
\* a reverse claim ends with an error, and the reverse refund looks again.
Lost ==
  /\ at = "funded" /\ driver.pc = "lost"
  /\ driver' = CASE us = "client" /\ Claiming -> Idle
                 [] us = "provider" /\ ~Claiming ->
                      [driver EXCEPT !.pc = "enter", !.found = Nothing]
                 [] OTHER -> [Idle EXCEPT !.pc = "over"]
  /\ NoFault /\ Frame /\ UNCHANGED <<tip, chainVars, record, unheard>>

RaceStep ==
  \/ FundContract \/ Mine \/ RivalSpends \/ Evict \/ Reorganise \/ Crash \/ Start
  \/ StartAfterSpend \/ YieldToClaim \/ EnterConfirmOrBump
  \/ FirstBroadcast \/ Rebroadcast \/ BumpByChild \/ Poll \/ Check \/ Late \/ Lost

RaceNext == (TermsNext /\ UNCHANGED raceVars) \/ RaceStep
RaceSpec == RaceInit /\ [][RaceNext]_<<termsVars, raceVars>>

-----------------------------------------------------------------------------
(* Properties.                                                             *)

\* "We paid the invoice and the client's refund confirmed anyway": the spend for which
\* a claim is given up is the other party's, unless it is a replacement of ours whose
\* broadcast was not answered or one that the record's list, once full, has let go.
\* (A refund's caller looks at the witness instead.)
LossIsReal ==
  driver.pc = "lost" /\ Claiming =>
    \/ driver.found.by # us
    \/ driver.found.rate \in unheard \/ Len(record) = MAX_TRACKED_OUR_SPENDS

\* Whatever a fee server says, and for the smallest swap that both sides take, the
\* first claim or refund can be built: its fee leaves an output above dust.
SweepCanBeBuilt == driver.pc = "first" => Buildable(driver.rate)
=============================================================================
