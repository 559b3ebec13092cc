-------------------------- MODULE SubmarineClient --------------------------
(***************************************************************************)
(* The client's side of one submarine swap (on-chain in, Lightning out):   *)
(* execute_submarine_swap with establish_funding, await_recorded_funding    *)
(* and confirm_or_bump on the refund, RecordProgress, and the runs that     *)
(* resume_unfinished starts again, against a wallet, a chain, the client's  *)
(* Lightning node and a provider that may pay, and then claim.              *)
(*                                                                          *)
(* One action is one step between two points at which the driver awaits     *)
(* something another party can change.  Every `?` of the driver is RunError.*)
(* A refund is told from a stray one: a stray refund is one of ours whose   *)
(* txid never reached the record, so that only the run that sent it knows.  *)
(* MaxFaults bounds crashes, failed calls and writes, reorgs and evictions  *)
(* together; MaxHeight saturates the clock.                                 *)
(***************************************************************************)
EXTENDS Timelock

CONSTANTS
  Timeout,         \* the HTLC's timeout height; the swap starts at height 0
  FINALITY_DEPTH,  \* burial at which confirm_or_bump calls a spend final
  MaxHeight,       \* bound: the height at which the clock saturates
  MaxFaults        \* bound: faults in one behaviour

ASSUME SubmarineClientAssumption ==
  /\ Timeout \in Nat \ {0} /\ FINALITY_DEPTH \in Nat \ {0}
  /\ MaxHeight \in Nat /\ MaxFaults \in Nat /\ Timeout < MaxHeight

VARIABLES
  height,    \* the chain tip
  fund,      \* the HTLC output: "none", "mempool" or "mined"
  spend,     \* its live spend: "none", "claim", "refund" or "stray"
  depth,     \* confirmations of that spend, saturating at FINALITY_DEPTH
  wallet,    \* fund_htlc requests the wallet has received and not finished
  broadcasts,\* HTLC fundings the wallet has put on the wire
  late,      \* the wallet sent after the client had looked for the last time
  paid,      \* the provider paid the invoice: settled, and the preimage is its
  pc,        \* the driver's position, "off" between runs
  disk,      \* the record on disk
  resume,    \* what this run was told about earlier ones
  sent,      \* this run has broadcast the live refund
  strayed,   \* an earlier run left a stray refund behind
  outcome,   \* the terminal state the run is about to record
  faults     \* faults so far

chainVars == <<height, fund, spend, depth, strayed>>
walletVars == <<wallet, broadcasts, late>>
vars == <<chainVars, walletVars, paid, pc, disk, resume, sent, outcome, faults>>

-----------------------------------------------------------------------------
TerminalStates == {"Claimed", "Refunded", "Expired"}
Records == [state : {"Created", "LockupPending", "LockupConfirmed"}
                    \cup TerminalStates,
            intent : BOOLEAN, funded : BOOLEAN, ours : BOOLEAN]

NewRecord == [state |-> "Created", intent |-> FALSE, funded |-> FALSE,
              ours |-> FALSE]

Finished == disk.state \in TerminalStates

\* find_funding lists unspent outputs, find_historical_outputs all of them.
Unspent == fund # "none" /\ spend = "none"

\* The spends confirm_or_bump recognises as this swap's own.
Ours == (spend = "refund" /\ (sent \/ resume.ours)) \/ (spend = "stray" /\ sent)
Refunding == spend \in {"refund", "stray"}

Init ==
  /\ height = 0 /\ fund = "none" /\ spend = "none" /\ depth = 0
  /\ wallet = 0 /\ broadcasts = 0 /\ late = FALSE /\ paid = FALSE
  /\ pc = "establish" /\ disk = NewRecord /\ resume = NewRecord
  /\ sent = FALSE /\ strayed = FALSE /\ outcome = "Expired" /\ faults = 0

Fault == faults < MaxFaults /\ faults' = faults + 1
Goto(step) == pc' = step /\ UNCHANGED outcome
Ends == Goto("off")
Return(state) == pc' = "finish" /\ outcome' = state

\* A write whose failure is only logged.
Note(r) ==
  \/ disk' = r /\ UNCHANGED faults
  \/ Fault /\ UNCHANGED disk

record_funded(r) ==
  [r EXCEPT !.funded = TRUE, !.intent = FALSE, !.state = "LockupConfirmed"]

-----------------------------------------------------------------------------
(* 1. establish_funding and await_recorded_funding.                        *)

Adopt ==
  /\ pc = "establish"
  /\ IF resume.funded THEN UNCHANGED <<disk, faults>>
     ELSE Unspent /\ Note(record_funded(disk))
  /\ Goto("invoice")
  /\ UNCHANGED <<chainVars, walletVars, paid, resume, sent>>

\* Mutant: an empty chain is taken to mean that nothing was funded.
MayFund_EmptyChain == pc = "establish" /\ ~resume.funded /\ ~Unspent

MayFund == pc = "establish" /\ ~resume.funded /\ ~Unspent /\ ~resume.intent

LookAgain ==
  /\ pc = "establish" /\ ~resume.funded /\ ~Unspent /\ resume.intent
  /\ Goto("await")
  /\ UNCHANGED <<chainVars, walletVars, paid, disk, resume, sent, faults>>

RefuseToFund ==
  /\ MayFund /\ ~claim_start_is_safe(height, Timeout) /\ Ends
  /\ UNCHANGED <<chainVars, walletVars, paid, disk, resume, sent, faults>>

\* The write-ahead marker: nothing is funded without it.
funding_intent ==
  /\ MayFund /\ claim_start_is_safe(height, Timeout)
  /\ \/ /\ disk' = [disk EXCEPT !.intent = TRUE, !.state = "LockupPending"]
        /\ Goto("fund") /\ UNCHANGED faults
     \/ Fault /\ Ends /\ UNCHANGED disk
  /\ UNCHANGED <<chainVars, walletVars, paid, resume, sent>>

CallFundHtlc ==
  /\ pc = "fund" /\ Goto("funding") /\ wallet' = wallet + 1
  /\ UNCHANGED <<chainVars, broadcasts, late, paid, disk, resume, sent, faults>>

FundHtlcOk ==
  /\ pc = "funding" /\ wallet = 0 /\ broadcasts > 0
  /\ Note(record_funded(disk)) /\ Goto("invoice")
  /\ UNCHANGED <<chainVars, walletVars, paid, resume, sent>>

\* Mutant: a failed funding call ends the swap.
FundHtlcErr_Expires ==
  /\ pc = "funding" /\ Return("Expired")
  /\ IF wallet = 0 /\ broadcasts = 0 THEN UNCHANGED faults ELSE Fault
  /\ UNCHANGED <<chainVars, walletVars, paid, disk, resume, sent>>

\* An error does not say whether the funding went out.
FundHtlcErr ==
  /\ pc = "funding" /\ Goto("await")
  /\ IF wallet = 0 /\ broadcasts = 0 THEN UNCHANGED faults ELSE Fault
  /\ UNCHANGED <<chainVars, walletVars, paid, disk, resume, sent>>

AwaitLook ==
  /\ pc = "await"
  /\ IF fund # "none"
       THEN Note(record_funded(disk)) /\ Goto("invoice") /\ late' = FALSE
       ELSE Goto("awaitTip") /\ UNCHANGED <<late, disk, faults>>
  /\ UNCHANGED <<chainVars, wallet, broadcasts, paid, resume, sent>>

AwaitTip ==
  /\ pc = "awaitTip"
  /\ IF height >= Timeout THEN Return("Expired") ELSE Goto("await")
  /\ UNCHANGED <<chainVars, walletVars, paid, disk, resume, sent, faults>>

-----------------------------------------------------------------------------
(* 2. Waiting for the payment, then for the timeout.                       *)

CheckInvoice ==
  /\ pc = "invoice"
  /\ IF paid THEN Return("Claimed") ELSE Goto("tip")
  /\ UNCHANGED <<chainVars, walletVars, paid, disk, resume, sent, faults>>

CheckTip ==
  /\ pc = "tip"
  /\ Goto(IF height >= Timeout THEN "spend" ELSE "invoice")
  /\ UNCHANGED <<chainVars, walletVars, paid, disk, resume, sent, faults>>

\* Only a spend that reveals the preimage is the provider's.
FindClaim ==
  /\ pc = "spend"
  /\ IF spend = "claim" THEN Return("Claimed") ELSE Goto("record")
  /\ UNCHANGED <<chainVars, walletVars, paid, disk, resume, sent, faults>>

-----------------------------------------------------------------------------
(* 3. confirm_or_bump on the refund.                                       *)

\* A broadcast replaces an unmined spend; its txid is on record if the write
\* just before it succeeded.
Broadcast(noted) ==
  /\ depth = 0 /\ sent' = TRUE
  /\ spend' = IF noted THEN "refund" ELSE "stray"

\* A live refund an earlier run recorded is adopted; otherwise the new txid is
\* written down first, and a write that fails is only logged.
StartRefund ==
  /\ pc = "record"
  /\ IF Ours /\ resume.ours THEN Goto("bump") /\ UNCHANGED <<disk, faults>>
     ELSE \/ /\ disk' = [disk EXCEPT !.ours = TRUE]
             /\ Goto("send") /\ UNCHANGED faults
          \/ Fault /\ Goto("sendStray") /\ UNCHANGED disk
  /\ UNCHANGED <<chainVars, walletVars, paid, resume, sent>>

SendRefund ==
  /\ pc \in {"send", "sendStray"} /\ fund # "none"
  /\ Broadcast(pc = "send") /\ Goto("bump")
  /\ UNCHANGED <<height, fund, depth, strayed, walletVars, paid, disk, resume,
                 faults>>

\* The node rejects a spend of what is spent already, and a replacement that
\* pays no more than the transaction it would replace.
BroadcastError ==
  /\ pc \in {"send", "sendStray"} /\ spend # "none" /\ Ends
  /\ UNCHANGED <<chainVars, walletVars, paid, disk, resume, sent, faults>>

RefundConfirmed ==
  /\ pc = "bump" /\ Ours /\ depth >= FINALITY_DEPTH /\ Return("Refunded")
  /\ UNCHANGED <<chainVars, walletVars, paid, disk, resume, sent, faults>>

\* A spend this run does not know: the provider's claim if it carries the
\* preimage, and otherwise taken for a refund of an earlier run.
ConflictingSpend ==
  /\ pc = "bump" /\ spend # "none" /\ ~Ours
  /\ \/ spend = "claim" /\ Return("Claimed") /\ UNCHANGED <<disk, faults>>
     \/ Refunding /\ Return("Refunded") /\ Note([disk EXCEPT !.ours = TRUE])
  /\ UNCHANGED <<chainVars, walletVars, paid, resume, sent>>

\* Mutant: a refund that left the mempool is not broadcast again.
Rebroadcast_Never ==
  /\ pc = "bump" /\ spend = "none" /\ Goto("bump")
  /\ UNCHANGED <<chainVars, walletVars, paid, disk, resume, sent, faults>>

Rebroadcast ==
  /\ pc = "bump" /\ spend = "none" /\ fund # "none" /\ Goto("bump")
  /\ \/ disk' = [disk EXCEPT !.ours = TRUE] /\ Broadcast(TRUE) /\ UNCHANGED faults
     \/ Fault /\ Broadcast(FALSE) /\ UNCHANGED disk
  /\ UNCHANGED <<height, fund, depth, strayed, walletVars, paid, resume>>

\* The caps on wall time and iterations: the loop starts over.
RefundGivesBack ==
  /\ pc = "bump" /\ Fault /\ Goto("invoice")
  /\ UNCHANGED <<chainVars, walletVars, paid, disk, resume, sent>>

-----------------------------------------------------------------------------
(* 4. The outcome, and the runs themselves.                                *)

\* record_terminal: a failed write is only logged.
RecordOutcome ==
  /\ pc = "finish" /\ Ends
  /\ Note([disk EXCEPT !.state = outcome])
  /\ UNCHANGED <<chainVars, walletVars, paid, resume, sent>>

\* The record is kept: it holds the only key that can move the coins back.
RunError ==
  /\ pc \in {"establish", "await", "awaitTip", "invoice", "tip", "spend",
             "record", "send", "sendStray", "bump"}
  /\ Fault /\ Ends
  /\ UNCHANGED <<chainVars, walletVars, paid, disk, resume, sent>>

Crash ==
  /\ pc # "off" /\ Fault /\ Ends
  /\ UNCHANGED <<chainVars, walletVars, paid, disk, resume, sent>>

\* resume_unfinished: every record that is not terminal is driven again.
NextRun ==
  /\ pc = "off" /\ ~Finished /\ Goto("establish")
  /\ resume' = disk /\ sent' = FALSE
  /\ strayed' = (strayed \/ spend = "stray")
  /\ UNCHANGED <<height, fund, spend, depth, walletVars, paid, disk, faults>>

Driver ==
  \/ Adopt \/ LookAgain \/ RefuseToFund \/ funding_intent \/ CallFundHtlc
  \/ FundHtlcOk \/ FundHtlcErr \/ AwaitLook \/ AwaitTip \/ CheckInvoice
  \/ CheckTip \/ FindClaim \/ StartRefund \/ SendRefund \/ BroadcastError
  \/ RefundConfirmed \/ ConflictingSpend \/ Rebroadcast \/ RecordOutcome

-----------------------------------------------------------------------------
(* The world: the wallet, the chain, the provider.                         *)

WalletBroadcasts ==
  /\ wallet > 0 /\ wallet' = wallet - 1 /\ broadcasts' = broadcasts + 1
  /\ fund' = IF fund = "none" THEN "mempool" ELSE fund
  /\ late' = (pc \in {"awaitTip", "finish"} \/ Finished)
  /\ UNCHANGED <<height, spend, depth, strayed, paid, pc, disk, resume, sent,
                 outcome, faults>>

WalletFails ==
  /\ wallet > 0 /\ wallet' = wallet - 1 /\ Fault
  /\ UNCHANGED <<chainVars, broadcasts, late, paid, pc, disk, resume, sent,
                 outcome>>

Block ==
  /\ height < MaxHeight \/ depth \in 1..(FINALITY_DEPTH - 1)
  /\ height' = IF height < MaxHeight THEN height + 1 ELSE height
  /\ depth' = IF depth \in 1..(FINALITY_DEPTH - 1) THEN depth + 1 ELSE depth
  /\ UNCHANGED <<fund, spend, strayed, walletVars, paid, pc, disk, resume, sent,
                 outcome, faults>>

Mine ==
  /\ \/ fund = "mempool" /\ fund' = "mined" /\ UNCHANGED depth
     \/ fund = "mined" /\ spend # "none" /\ depth = 0 /\ depth' = 1
        /\ UNCHANGED fund
  /\ UNCHANGED <<height, spend, strayed, walletVars, paid, pc, disk, resume,
                 sent, outcome, faults>>

Reorg ==
  /\ Fault /\ fund = "mined" /\ depth < FINALITY_DEPTH
  /\ depth' = 0 /\ fund' \in {"mined", "mempool"}
  /\ UNCHANGED <<height, spend, strayed, walletVars, paid, pc, disk, resume,
                 sent, outcome>>

Evict ==
  /\ Fault /\ spend # "none" /\ depth = 0 /\ spend' = "none"
  /\ UNCHANGED <<height, fund, depth, strayed, walletVars, paid, pc, disk,
                 resume, sent, outcome>>

\* A miner takes the refund an earlier run sent instead of its replacement.
EarlierRefundWins ==
  /\ Fault /\ strayed /\ Refunding /\ sent /\ depth = 0
  /\ spend' = "stray" /\ sent' = FALSE
  /\ UNCHANGED <<height, fund, depth, strayed, walletVars, paid, pc, disk,
                 resume, outcome>>

\* The provider pays only for an HTLC it sees; paying gives it the preimage.
ProviderPays ==
  /\ fund # "none" /\ ~paid /\ paid' = TRUE
  /\ UNCHANGED <<chainVars, walletVars, pc, disk, resume, sent, outcome, faults>>

ProviderClaims ==
  /\ paid /\ fund # "none" /\ depth = 0 /\ spend # "claim" /\ spend' = "claim"
  /\ UNCHANGED <<height, fund, depth, strayed, walletVars, paid, pc, disk,
                 resume, sent, outcome, faults>>

Next ==
  \/ Driver \/ NextRun \/ RefundGivesBack \/ RunError \/ Crash
  \/ WalletBroadcasts \/ WalletFails \/ Block \/ Mine \/ Reorg \/ Evict
  \/ EarlierRefundWins \/ ProviderPays \/ ProviderClaims

Spec == Init /\ [][Next]_vars

\* The process keeps running and is started again when it stops, the wallet
\* answers, blocks keep arriving and carry what is in the mempool.  Nothing is
\* assumed of the provider.
Fairness ==
  /\ WF_vars(Driver) /\ WF_vars(NextRun) /\ WF_vars(WalletBroadcasts)
  /\ SF_vars(Block) /\ SF_vars(Mine)

FairSpec == Spec /\ Fairness

-----------------------------------------------------------------------------
(* Properties.                                                             *)

TypeOK ==
  /\ height \in 0..MaxHeight /\ fund \in {"none", "mempool", "mined"}
  /\ spend \in {"none", "claim", "refund", "stray"}
  /\ depth \in 0..FINALITY_DEPTH /\ strayed \in BOOLEAN
  /\ wallet \in Nat /\ broadcasts \in Nat /\ late \in BOOLEAN /\ paid \in BOOLEAN
  /\ pc \in {"off", "establish", "fund", "funding", "await", "awaitTip",
             "invoice", "tip", "spend", "record", "send", "sendStray", "bump",
             "finish"}
  /\ disk \in Records /\ resume \in Records /\ sent \in BOOLEAN
  /\ outcome \in TerminalStates /\ faults \in 0..MaxFaults

\* Across crashes, lost answers, failed writes and re-runs the client asks its
\* wallet for one HTLC funding at most (establish_funding: "without ever making
\* a second one").
FundsAtMostOnce == wallet + broadcasts <= 1

\* Whenever coins may be in the HTLC the record on disk says so, so that a
\* later run goes looking for them (record_funding_intent is written first).
FundingIsOnRecord ==
  wallet + broadcasts > 0 => disk.intent \/ disk.funded

\* The client writes Claimed only of a swap it was paid for, so it never leaves
\* its own refund undriven (extract_preimage on whatever spends the output).
ClaimedMeansPaid == disk.state = "Claimed" => paid

\* A swap that is over holds no coins of the client: Expired means nothing was
\* locked, Refunded that the refund is buried.  Left out: a wallet that sends
\* after the last look at the chain, and a refund of an earlier run that was never recorded.
OverMeansNothingLocked ==
  /\ disk.state = "Expired" => broadcasts = 0 \/ late
  /\ disk.state = "Refunded" =>
       strayed \/ (Refunding /\ depth = FINALITY_DEPTH)

\* Coins in the HTLC come to an end that is on record, whatever the provider
\* does and whatever fails, unless the live refund is one no record knows.
FundedSwapEnds == (broadcasts > 0) ~> (Finished \/ spend = "stray")
=============================================================================
