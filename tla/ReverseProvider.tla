--------------------------- MODULE ReverseProvider ---------------------------
(***************************************************************************)
(* The provider's side of one reverse swap (Lightning in, on-chain out):   *)
(* drive_reverse_swap with establish_funding, await_recorded_funding and   *)
(* the refund half of confirm_or_bump, the StoreProgress record it writes, *)
(* finish_driver_run, the restart path and the reorg monitor's marker,     *)
(* against a chain, a hold invoice and a client that may act at any time.  *)
(*                                                                         *)
(* One action is one step between two points at which the driver awaits    *)
(* something that another party can change.  Every `?` of the driver is    *)
(* the action DriverError.  MaxFaults bounds crashes, failed calls, failed *)
(* writes, reorgs and evictions together; MaxHeight saturates the clock.   *)
(***************************************************************************)
EXTENDS Timelock

CONSTANTS
  Params,            \* the operator's TimelockParams
  FINALITY_DEPTH,    \* burial at which the driver treats a spend as final
  MAX_DRIVER_RETRIES,\* attempts of a swap with nothing committed
  LnDeltas,          \* realised CLTV deltas the client's payment may carry
  MaxHeight,         \* bound: the height at which the clock saturates
  MaxFaults,         \* bound: faults in one behaviour
  SettleIdempotent,  \* TRUE: settling a settled invoice is Ok (beignet);
                     \* FALSE: it is an error (lnd)
  DoubtEndsInTime    \* TRUE: a funding becomes visible before the timeout

ASSUME ReverseProviderAssumption ==
  /\ Params \in TimelockParams
  /\ FINALITY_DEPTH \in Nat \ {0}
  /\ MAX_DRIVER_RETRIES \in Nat /\ MaxHeight \in Nat /\ MaxFaults \in Nat
  /\ LnDeltas \subseteq Nat
  /\ SettleIdempotent \in BOOLEAN /\ DoubtEndsInTime \in BOOLEAN

VARIABLES
  height,    \* the chain tip; the swap was accepted at height 0
  fund,      \* the HTLC output: "none", "mempool" or "mined"
  spend,     \* its live spend: "none", "claim" (the client's) or "refund"
  depth,     \* confirmations of that spend, saturating at FINALITY_DEPTH
  lag,       \* the provider's Electrum server does not show the script yet
  wallet,    \* fund_htlc requests the wallet has received and not finished
  broadcasts,\* HTLC fundings the wallet has put on the wire
  inv,       \* the hold invoice: "open", "accepted", "settled", "cancelled"
  by,        \* who cancelled it: "none", "driver" or "node"
  ln_expiry, \* expiry height of the held Lightning HTLC, 0 when none is held
  pc,        \* the driver task's position
  mem,       \* StoreProgress.record: the driver's copy of the record
  disk,      \* the record on disk
  resume,    \* SwapRecord::resume() as taken when the driver was spawned
  settled,   \* the driver's local `settled`
  outcome,   \* the terminal state the driver is about to record
  reorged,   \* the reorg monitor: "no" reorg, one "seen", or the swap "listed"
             \* as live and about to be marked
  faults     \* faults so far

chainVars == <<height, fund, spend, depth, lag, wallet, broadcasts>>
lnVars    == <<inv, by, ln_expiry>>
recVars   == <<mem, disk>>
runVars   == <<resume, settled, outcome>>
vars == <<chainVars, lnVars, pc, recVars, runVars, reorged, faults>>

-----------------------------------------------------------------------------
Timeout == onchain_timeout(0, Params)

LiveStates     == {"Created", "LockupPending", "LockupConfirmed", "InvoicePaid"}
TerminalStates == {"Claimed", "Refunded", "Expired", "Failed"}

Records == [state : LiveStates \cup TerminalStates, intent : BOOLEAN,
            funded : BOOLEAN, ours : BOOLEAN, reorg : BOOLEAN,
            retries : 0..MAX_DRIVER_RETRIES]

\* Driver positions with a `?` on a chain or Lightning call.
Fallible == {"wait", "establish", "await", "awaitTip", "watch", "bury",
             "tip", "refund", "send", "bump"}
Steps == Fallible \cup {"fund", "funding", "settle", "cancel", "finish"}

NewRecord == [state |-> "Created", intent |-> FALSE, funded |-> FALSE,
              ours |-> FALSE, reorg |-> FALSE, retries |-> 0]

is_terminal(s) == s \in TerminalStates
funds_at_risk(r) == r.intent \/ r.funded \/ r.ours
Visible(kind) == ~lag /\ spend = kind

Init ==
  /\ height = 0 /\ fund = "none" /\ spend = "none" /\ depth = 0
  /\ lag = FALSE /\ wallet = 0 /\ broadcasts = 0
  /\ inv = "open" /\ by = "none" /\ ln_expiry = 0
  /\ pc = "wait" /\ mem = NewRecord /\ disk = NewRecord
  /\ resume = NewRecord /\ settled = FALSE /\ outcome = "Failed"
  /\ reorged = "no" /\ faults = 0

-----------------------------------------------------------------------------
(* Persistence: StoreProgress::try_update and JsonFileSwapStore::put.      *)

Fault == faults < MaxFaults /\ faults' = faults + 1

\* Only a write that moves the state clears the retry metadata.
WithState(r, s) ==
  [r EXCEPT !.state = s, !.retries = IF r.state = s THEN @ ELSE 0]

\* The whole record replaces what is on disk; the caller ignores a failure.
PutOk(r)     == mem' = r /\ disk' = r /\ UNCHANGED faults
PutFailed(r) == mem' = r /\ UNCHANGED disk /\ Fault
Put(r)       == PutOk(r) \/ PutFailed(r)

\* ProgressSink::funded
Funded(r) == WithState([r EXCEPT !.funded = TRUE, !.intent = FALSE],
                       "LockupConfirmed")

\* StoreProgress::set_terminal's record.
Ended(r, s) == [r EXCEPT !.state = s, !.retries = 0]

Return(state) == outcome' = state /\ UNCHANGED <<resume, settled>>

-----------------------------------------------------------------------------
(* 1. Waiting for the hold invoice.                                        *)

WaitInvoice ==
  /\ pc = "wait"
  /\ IF resume.funded \/ resume.intent
       THEN pc' = "establish" /\ UNCHANGED runVars
       ELSE \/ inv = "accepted" /\ pc' = "establish" /\ UNCHANGED runVars
            \/ inv = "settled" /\ pc' = "finish" /\ Return("Claimed")
            \/ inv = "cancelled" /\ pc' = "finish" /\ Return("Failed")
            \/ /\ inv = "open" /\ height >= Timeout
               /\ pc' = "cancel" /\ Return("Expired")
  /\ UNCHANGED <<chainVars, lnVars, recVars, reorged, faults>>

-----------------------------------------------------------------------------
(* 2. establish_funding, its adopting branches and its refusing ones.      *)

\* A recorded outpoint is trusted unless the record carries a reorg marker;
\* then the output has to be unspent, and mined as deep as the swap requires.
AdoptRecorded ==
  /\ pc = "establish" /\ resume.funded
  /\ \/ /\ resume.reorg => Visible("none") /\ fund = "mined"
        /\ pc' = "watch"
     \/ resume.reorg /\ pc' = "await"
  /\ UNCHANGED <<chainVars, lnVars, recVars, runVars, reorged, faults>>

AdoptUnspent ==
  /\ pc = "establish" /\ ~resume.funded
  /\ Visible("none") /\ fund # "none"
  /\ Put(Funded(mem)) /\ pc' = "watch"
  /\ UNCHANGED <<chainVars, lnVars, runVars, reorged>>

NothingUnspent ==
  pc = "establish" /\ ~resume.funded /\ ~(Visible("none") /\ fund # "none")

LookAgain ==
  /\ NothingUnspent /\ resume.intent
  /\ pc' = "await"
  /\ UNCHANGED <<chainVars, lnVars, recVars, runVars, reorged, faults>>

LegsAreOrdered ==
  /\ inv = "accepted" /\ ln_expiry > 0
  /\ check_reverse_before_fund(height, Timeout, ln_expiry, Params)

RefuseToFund ==
  /\ NothingUnspent /\ ~resume.intent /\ ~LegsAreOrdered
  /\ pc' = "cancel" /\ Return("Failed")
  /\ UNCHANGED <<chainVars, lnVars, recVars, reorged, faults>>

\* The write-ahead marker; a marker that cannot be written refuses the swap.
FundingIntent ==
  /\ NothingUnspent /\ ~resume.intent /\ LegsAreOrdered
  /\ LET r == WithState([mem EXCEPT !.intent = TRUE], "LockupPending")
     IN  \/ PutOk(r) /\ pc' = "fund" /\ UNCHANGED runVars
         \/ PutFailed(r) /\ pc' = "cancel" /\ Return("Failed")
  /\ UNCHANGED <<chainVars, lnVars, reorged>>

CallFundHtlc ==
  /\ pc = "fund"
  /\ wallet' = wallet + 1 /\ pc' = "funding"
  /\ UNCHANGED <<height, fund, spend, depth, lag, broadcasts, lnVars, recVars,
                 runVars, reorged, faults>>

FundHtlcOk ==
  /\ pc = "funding" /\ wallet = 0 /\ broadcasts > 0
  /\ Put(Funded(mem)) /\ pc' = "watch"
  /\ UNCHANGED <<chainVars, lnVars, runVars, reorged>>

\* Mutant: a failed funding call ends the swap.
FundHtlcErr_Fails ==
  /\ pc = "funding"
  /\ IF wallet = 0 /\ broadcasts = 0 THEN UNCHANGED faults ELSE Fault
  /\ pc' = "cancel" /\ Return("Failed")
  /\ UNCHANGED <<chainVars, lnVars, recVars, reorged>>

\* An error does not say whether the funding went out.
FundHtlcErr ==
  /\ pc = "funding"
  /\ IF wallet = 0 /\ broadcasts = 0 THEN UNCHANGED faults ELSE Fault
  /\ pc' = "await"
  /\ UNCHANGED <<chainVars, lnVars, recVars, runVars, reorged>>

\* await_recorded_funding: the unspent output, or the script's history.
AwaitLook ==
  /\ pc = "await"
  /\ IF ~lag /\ fund # "none"
       THEN Put(Funded(mem)) /\ pc' = "watch"
       ELSE pc' = "awaitTip" /\ UNCHANGED <<recVars, faults>>
  /\ UNCHANGED <<chainVars, lnVars, runVars, reorged>>

AwaitTip ==
  /\ pc = "awaitTip"
  /\ IF height >= Timeout
       THEN pc' = "cancel" /\ Return("Expired")
       ELSE pc' = "await" /\ UNCHANGED runVars
  /\ UNCHANGED <<chainVars, lnVars, recVars, reorged, faults>>

-----------------------------------------------------------------------------
(* 3. Watching for the claim, settling, refunding at the timeout.          *)

ObserveClaim ==
  /\ pc = "watch" /\ Visible("claim") /\ ~settled
  /\ Put(WithState(mem, "InvoicePaid")) /\ pc' = "settle"
  /\ UNCHANGED <<chainVars, lnVars, runVars, reorged>>

WatchOn ==
  /\ pc = "watch" /\ ~(Visible("claim") /\ ~settled)
  /\ pc' = IF Visible("claim") THEN "bury" ELSE "tip"
  /\ UNCHANGED <<chainVars, lnVars, recVars, runVars, reorged, faults>>

\* settle_hold_invoice: only an Ok answer sets the local flag.
Settle ==
  /\ pc = "settle"
  /\ \/ /\ inv = "accepted" /\ inv' = "settled"
        /\ \/ settled' = TRUE /\ UNCHANGED faults
           \/ settled' = FALSE /\ Fault
     \/ inv = "settled" /\ settled' = SettleIdempotent /\ UNCHANGED <<inv, faults>>
     \/ inv = "cancelled" /\ settled' = FALSE /\ UNCHANGED <<inv, faults>>
     \/ settled' = FALSE /\ Fault /\ UNCHANGED inv
  /\ pc' = IF settled' THEN "bury" ELSE "tip"
  /\ UNCHANGED <<chainVars, by, ln_expiry, recVars, resume, outcome, reorged>>

\* Mutant: settling is the end of the swap.
CheckBurial_Settled ==
  /\ pc = "bury" /\ pc' = "finish" /\ Return("Claimed")
  /\ UNCHANGED <<chainVars, lnVars, recVars, reorged, faults>>

CheckBurial ==
  /\ pc = "bury"
  /\ IF Visible("claim") /\ depth >= FINALITY_DEPTH
       THEN pc' = "finish" /\ Return("Claimed")
       ELSE pc' = "tip" /\ UNCHANGED runVars
  /\ UNCHANGED <<chainVars, lnVars, recVars, reorged, faults>>

CheckTip ==
  /\ pc = "tip"
  /\ pc' = IF height >= Timeout /\ ~settled THEN "refund" ELSE "watch"
  /\ UNCHANGED <<chainVars, lnVars, recVars, runVars, reorged, faults>>

\* confirm_or_bump: adopt a live refund an earlier run recorded, or record
\* the new transaction before it is broadcast.
StartRefund ==
  /\ pc = "refund"
  /\ IF resume.ours /\ Visible("refund")
       THEN pc' = "bump" /\ UNCHANGED <<recVars, faults>>
       ELSE Put([mem EXCEPT !.ours = TRUE]) /\ pc' = "send"
  /\ UNCHANGED <<chainVars, lnVars, runVars, reorged>>

\* Broadcasting may replace an unconfirmed spend; it cannot undo a mined one.
Broadcast ==
  /\ fund # "none" /\ depth = 0 /\ height >= Timeout
  /\ spend' = "refund" /\ UNCHANGED depth

SendRefund ==
  /\ pc = "send" /\ Broadcast /\ pc' = "bump"
  /\ UNCHANGED <<height, fund, lag, wallet, broadcasts, lnVars, recVars,
                 runVars, reorged, faults>>

\* Mutant: a refund that left the mempool is not broadcast again.
WatchRefund_Once ==
  /\ pc = "bump"
  /\ \/ Visible("claim") /\ pc' = "watch" /\ UNCHANGED runVars
     \/ /\ Visible("refund") /\ depth >= FINALITY_DEPTH
        /\ pc' = "cancel" /\ Return("Refunded")
  /\ UNCHANGED <<chainVars, lnVars, recVars, reorged, faults>>

WatchRefund ==
  /\ pc = "bump"
  /\ \/ Visible("claim") /\ pc' = "watch" /\ UNCHANGED <<spend, depth, runVars>>
     \/ /\ Visible("refund") /\ depth >= FINALITY_DEPTH
        /\ pc' = "cancel" /\ Return("Refunded") /\ UNCHANGED <<spend, depth>>
     \/ (lag \/ spend = "none") /\ Broadcast /\ UNCHANGED <<pc, runVars>>
  /\ UNCHANGED <<height, fund, lag, wallet, broadcasts, lnVars, recVars,
                 reorged, faults>>

\* DeadlineExceeded: a refund has no chain deadline, only caps on its run.
RefundGivesBack ==
  /\ pc = "bump" /\ ~(Visible("refund") /\ depth >= FINALITY_DEPTH)
  /\ Fault /\ pc' = "watch"
  /\ UNCHANGED <<chainVars, lnVars, recVars, runVars, reorged>>

-----------------------------------------------------------------------------
(* Ending a run: cancel_hold_invoice, finish_driver_run and recovery.      *)

CancelHoldInvoice ==
  /\ pc = "cancel" /\ pc' = "finish"
  /\ \/ /\ inv \in {"open", "accepted"}
        /\ inv' = "cancelled" /\ by' = "driver" /\ UNCHANGED faults
     \/ /\ inv \in {"settled", "cancelled"} /\ UNCHANGED <<inv, by, faults>>
     \/ Fault /\ UNCHANGED <<inv, by>>
  /\ UNCHANGED <<chainVars, ln_expiry, recVars, runVars, reorged>>

\* finish_driver_run: a terminal write that fails is only logged.
SetTerminal ==
  /\ pc = "finish"
  /\ Put(Ended(mem, outcome))
  /\ pc' = "done"
  /\ UNCHANGED <<chainVars, lnVars, runVars, reorged>>

GivesUp(r, transient) ==
  ~funds_at_risk(r) /\ ~(transient /\ r.retries < MAX_DRIVER_RETRIES)

Spawn(r) == pc' = "wait" /\ resume' = r /\ settled' = FALSE /\ UNCHANGED outcome

\* What record_failure leaves in memory: the count goes up, capped here.
Counted(r) ==
  [r EXCEPT !.retries = IF @ < MAX_DRIVER_RETRIES THEN @ + 1 ELSE @]

RetryOrGiveUp(transient) ==
  LET r == Counted(mem)
  IN  IF GivesUp(r, transient) THEN pc' = "finish" /\ Return("Failed")
      ELSE Spawn(r)

DriverError ==
  /\ pc \in Fallible
  /\ Fault /\ mem' = Counted(mem) /\ disk' \in {disk, Counted(mem)}
  /\ \E transient \in BOOLEAN : RetryOrGiveUp(transient)
  /\ UNCHANGED <<chainVars, lnVars, reorged>>

\* A rival spend makes the node reject the refund, a `?` of its own.
BroadcastError ==
  /\ pc = "send" /\ spend # "none"
  /\ Put(Counted(mem))
  /\ \E transient \in BOOLEAN : RetryOrGiveUp(transient)
  /\ UNCHANGED <<chainVars, lnVars, reorged>>

Crash ==
  /\ pc # "down" /\ Fault
  /\ pc' = "down" /\ reorged' = "no"
  /\ UNCHANGED <<chainVars, lnVars, recVars, runVars>>

\* resume_swaps drives every record that is not terminal.
Restart ==
  /\ pc = "down" /\ mem' = disk
  /\ IF is_terminal(disk.state) THEN pc' = "done" /\ UNCHANGED runVars
     ELSE Spawn(disk)
  /\ UNCHANGED <<chainVars, lnVars, disk, reorged, faults>>

Driver ==
  \/ WaitInvoice \/ AdoptRecorded \/ AdoptUnspent \/ LookAgain
  \/ RefuseToFund \/ FundingIntent \/ CallFundHtlc \/ FundHtlcOk
  \/ FundHtlcErr \/ AwaitLook \/ AwaitTip
  \/ ObserveClaim \/ WatchOn \/ Settle \/ CheckBurial \/ CheckTip
  \/ StartRefund \/ SendRefund \/ BroadcastError \/ WatchRefund
  \/ RefundGivesBack
  \/ CancelHoldInvoice \/ SetTerminal \/ Restart

\* react_to_reorg: reads the live records, then marks each one on disk, which
\* no running driver re-reads and which may have ended in between.
MonitorLists ==
  /\ reorged = "seen" /\ pc # "down"
  /\ reorged' = IF is_terminal(disk.state) THEN "no" ELSE "listed"
  /\ UNCHANGED <<chainVars, lnVars, pc, recVars, runVars, faults>>

MonitorMarks ==
  /\ reorged = "listed" /\ pc # "down" /\ reorged' = "no"
  /\ disk' = [disk EXCEPT !.reorg = TRUE]
  /\ UNCHANGED <<chainVars, lnVars, pc, mem, runVars, faults>>

-----------------------------------------------------------------------------
(* The world: the wallet's node, the chain, the Lightning node, the client.*)

InTime(hidden) == hidden => ~DoubtEndsInTime \/ height < Timeout

WalletBroadcasts ==
  /\ wallet > 0 /\ wallet' = wallet - 1
  /\ broadcasts' = broadcasts + 1
  /\ fund' = IF fund = "none" THEN "mempool" ELSE fund
  /\ lag' \in {l \in BOOLEAN : InTime(l)}
  /\ UNCHANGED <<height, spend, depth, lnVars, pc, recVars, runVars, reorged,
                 faults>>

WalletFails ==
  /\ wallet > 0 /\ wallet' = wallet - 1 /\ Fault
  /\ UNCHANGED <<height, fund, spend, depth, lag, broadcasts, lnVars, pc,
                 recVars, runVars, reorged>>

CatchUp ==
  /\ lag /\ lag' = FALSE
  /\ UNCHANGED <<height, fund, spend, depth, wallet, broadcasts, lnVars, pc,
                 recVars, runVars, reorged, faults>>

\* The driver may still be wrong about whether a funding exists.
InDoubt ==
  pc \in {"fund", "awaitTip"} \/ wallet > 0 \/ (lag /\ broadcasts > 0)

Block ==
  /\ height < MaxHeight \/ depth \in 1..(FINALITY_DEPTH - 1)
  /\ DoubtEndsInTime => height + 1 < Timeout \/ ~InDoubt
  /\ height' = IF height < MaxHeight THEN height + 1 ELSE height
  /\ depth' = IF depth \in 1..(FINALITY_DEPTH - 1) THEN depth + 1 ELSE depth
  /\ UNCHANGED <<fund, spend, lag, wallet, broadcasts, lnVars, pc, recVars,
                 runVars, reorged, faults>>

MineFunding ==
  /\ fund = "mempool" /\ fund' = "mined"
  /\ UNCHANGED <<height, spend, depth, lag, wallet, broadcasts, lnVars, pc,
                 recVars, runVars, reorged, faults>>

MineSpend ==
  /\ fund = "mined" /\ spend # "none" /\ depth = 0 /\ depth' = 1
  /\ UNCHANGED <<height, fund, spend, lag, wallet, broadcasts, lnVars, pc,
                 recVars, runVars, reorged, faults>>

\* A spend buried FINALITY_DEPTH deep is final; anything shallower, and the
\* funding under it, may return to the mempool.
Reorg ==
  /\ Fault /\ fund = "mined" /\ depth < FINALITY_DEPTH
  /\ depth' = 0 /\ fund' \in {"mined", "mempool"}
  /\ lag' \in {l \in BOOLEAN : InTime(l)}
  /\ reorged' = IF pc = "down" THEN "no" ELSE "seen"
  /\ UNCHANGED <<height, spend, wallet, broadcasts, lnVars, pc, recVars, runVars>>

Evict ==
  /\ Fault /\ spend # "none" /\ depth = 0 /\ spend' = "none"
  /\ UNCHANGED <<height, fund, depth, lag, wallet, broadcasts, lnVars, pc,
                 recVars, runVars, reorged>>

\* The client pays the hold invoice; the node may realise any CLTV delta, or
\* report an accepted invoice with no HTLC held.
ClientPays ==
  /\ inv = "open" /\ inv' = "accepted"
  /\ ln_expiry' \in {0} \cup {height + d : d \in LnDeltas}
  /\ UNCHANGED <<chainVars, by, pc, recVars, runVars, reorged, faults>>

\* The client chose the preimage, so it may claim whenever an output exists.
ClientClaims ==
  /\ fund # "none" /\ depth = 0 /\ spend # "claim" /\ spend' = "claim"
  /\ UNCHANGED <<height, fund, depth, lag, wallet, broadcasts, lnVars, pc,
                 recVars, runVars, reorged, faults>>

\* An unpaid invoice expires; a held HTLC is force-cancelled near its expiry.
NodeCancels ==
  /\ \/ inv = "open"
     \/ inv = "accepted" /\ height + Params.ln_hold_expiry_delta >= ln_expiry
  /\ inv' = "cancelled" /\ by' = "node"
  /\ UNCHANGED <<chainVars, ln_expiry, pc, recVars, runVars, reorged, faults>>

Next ==
  \/ Driver \/ DriverError \/ Crash \/ MonitorLists \/ MonitorMarks
  \/ WalletBroadcasts \/ WalletFails \/ CatchUp \/ Block \/ MineFunding
  \/ MineSpend \/ Reorg \/ Evict \/ ClientPays \/ ClientClaims \/ NodeCancels

Spec == Init /\ [][Next]_vars

\* The driver task keeps running, blocks keep arriving and include what is
\* in the mempool, the wallet answers and Electrum catches up.  Nothing is
\* assumed of the client or of the Lightning node.
Fairness ==
  /\ WF_vars(Driver) /\ WF_vars(WalletBroadcasts) /\ WF_vars(CatchUp)
  /\ SF_vars(Block) /\ WF_vars(MineFunding) /\ SF_vars(MineSpend)

FairSpec == Spec /\ Fairness

\* A client whose claim has paid for the swap keeps it on the wire.
LiveSpec == FairSpec /\ WF_vars(settled /\ ClientClaims)

-----------------------------------------------------------------------------
(* Properties.                                                             *)

TypeOK ==
  /\ height \in 0..MaxHeight /\ fund \in {"none", "mempool", "mined"}
  /\ spend \in {"none", "claim", "refund"} /\ depth \in 0..FINALITY_DEPTH
  /\ lag \in BOOLEAN /\ wallet \in Nat /\ broadcasts \in Nat
  /\ inv \in {"open", "accepted", "settled", "cancelled"}
  /\ by \in {"none", "driver", "node"} /\ ln_expiry \in Nat
  /\ pc \in Steps \cup {"done", "down"}
  /\ mem \in Records /\ disk \in Records /\ resume \in Records
  /\ settled \in BOOLEAN /\ outcome \in TerminalStates
  /\ reorged \in {"no", "seen", "listed"} /\ faults \in 0..MaxFaults

\* Across crashes, lost replies, failed writes and re-entries the provider
\* asks its wallet for at most one HTLC funding (establish_funding's "funding
\* again hands them a second HTLC they hold the preimage for").
FundedAtMostOnce == wallet + broadcasts <= 1

\* Whenever a funding may be on the wire, the record on disk says so, so that
\* a restart drives it (ProgressSink::funding_intent is written first).
FundingIsOnRecord ==
  wallet + broadcasts > 0 => disk.intent \/ disk.funded

\* A swap whose HTLC is funded is never recorded as over while the HTLC is
\* still open: a terminal record means one spend of it is buried, and which
\* one is what the record says (finish_driver_run, after_failure).
TerminalMeansBuried ==
  broadcasts > 0 /\ is_terminal(disk.state) =>
    /\ depth = FINALITY_DEPTH
    /\ \/ disk.state = "Claimed" /\ spend = "claim" /\ inv = "settled"
       \/ disk.state = "Refunded" /\ spend = "refund"

\* The driver never returns the client's payment while the client can still
\* claim the HTLC: it cancels only with nothing funded or the refund buried.
NeverCancelsWhileExposed ==
  by = "driver" /\ wallet + broadcasts > 0 =>
    spend = "refund" /\ depth = FINALITY_DEPTH

\* Once coins are in the HTLC the Lightning leg outlives the on-chain one by
\* the whole refund window: the node cannot force-cancel before that
\* (check_reverse_before_fund on the realised expiry).
LightningLegOutlives ==
  broadcasts > 0 /\ by = "node" =>
    height >= Timeout + Params.refund_confirm_blocks

\* A recorded terminal state is never taken back or changed, by a driver still
\* running, by a restart or by the reorg monitor's late write.
TerminalIsForever ==
  [][is_terminal(disk.state) => disk'.state = disk.state]_vars

\* A funded swap is driven until one spend is buried and the run is over,
\* whatever failed on the way, unless the node took the payment back at its
\* expiry first.
FundedSwapEnds ==
  broadcasts > 0 ~> (pc = "done" /\ depth = FINALITY_DEPTH) \/ by = "node"

\* The HTLC output as the leg the provider gives, the invoice as what it gets.
given ==
  CASE broadcasts = 0 -> "none"
    [] broadcasts = 1 /\ depth < FINALITY_DEPTH -> "locked"
    [] broadcasts = 1 /\ depth = FINALITY_DEPTH ->
         IF spend = "claim" THEN "gone" ELSE "back"
    [] OTHER -> "twice"

got ==
  CASE inv \in {"open", "accepted"} -> "pending"
    [] inv = "settled" -> "taken"
    [] OTHER -> IF by = "driver" THEN "waived" ELSE "lapsed"

\* No funding may come too late for the invoice.
Legs == INSTANCE AtomicSwap
          WITH given <- given, got <- got, overtaken <- FALSE

\* The driver, with its record, the wallet and both nodes around it, swaps
\* atomically: one HTLC, never funded after the invoice is gone, the invoice
\* cancelled only with nothing funded or the refund buried, and settled only
\* with the HTLC funded (drive_reverse_swap).
ImplementsAtomicSwap == Legs!Spec
=============================================================================
