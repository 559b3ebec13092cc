--------------------------- MODULE ReverseClient ---------------------------
(***************************************************************************)
(* The client's side of one reverse swap (Lightning in, on-chain out), from *)
(* the record that is ready for execution to the record of its outcome:     *)
(* execute_reverse_swap with confirm_or_bump, RecordProgress, the runs that *)
(* resume_unfinished starts again, against a chain, a Lightning node and a  *)
(* provider that funds, settles, cancels and refunds when it likes.         *)
(*                                                                          *)
(* One action is one step between two points at which the driver awaits     *)
(* something another party can change.  Every `?` of the driver is RunError;*)
(* the record it leaves is picked up by the next run.  Every write loads    *)
(* the record, changes it and puts it back, so there is no copy in memory.  *)
(* MaxFaults bounds crashes, failed calls and writes, reorgs and evictions  *)
(* together; MaxHeight saturates the clock.                                 *)
(***************************************************************************)
EXTENDS Timelock

CONSTANTS
  Timeout,         \* the HTLC's timeout height; the swap starts at height 0
  FINALITY_DEPTH,  \* burial at which confirm_or_bump calls a spend final
  MaxHeight,       \* bound: the height at which the clock saturates
  MaxFaults,       \* bound: faults in one behaviour
  AnswersUnknown   \* the backend may answer a status query with Unknown

ASSUME ReverseClientAssumption ==
  /\ Timeout \in Nat \ {0} /\ FINALITY_DEPTH \in Nat \ {0}
  /\ MaxHeight \in Nat /\ MaxFaults \in Nat /\ AnswersUnknown \in BOOLEAN
  /\ Timeout < MaxHeight

VARIABLES
  height,   \* the chain tip
  fund,     \* what pays the script: "none", the agreed output in the
            \* "mempool" or "mined" deep enough, or outputs the client "refuses"
  spend,    \* the output's live spend: "none", "claim" or "refund"
  depth,    \* confirmations of that spend, saturating at FINALITY_DEPTH
  late,     \* the refund branch opened while a shown preimage, or one about
            \* to be shown, had no claim in a block
  revealed, \* the preimage has been handed to the network
  pay,      \* the payment of the hold invoice: "none", "sent" to the node,
            \* "held" by the provider, "settled" or "failed"
  task,     \* this run started the payment and is waiting for it
  pc,       \* the driver's position, "off" between runs
  disk,     \* the record on disk
  resume,   \* what this run was told about earlier ones
  faults    \* faults so far

chainVars == <<height, fund, spend, depth, late, revealed>>
vars == <<chainVars, pay, task, pc, disk, resume, faults>>

-----------------------------------------------------------------------------
\* A restored record has no saved request: another device drove it.
Records == [state : {"Created", "InvoicePending", "Claimed"},
            started : BOOLEAN, ours : BOOLEAN, restored : BOOLEAN]
Resumes == [started : BOOLEAN, ours : BOOLEAN]

NothingKnown == [started |-> FALSE, ours |-> FALSE]
is_fresh(r) == r = NothingKnown
Finished == disk.state = "Claimed"

\* The height from which confirm_or_bump stops pushing the claim.
Deadline == IF Timeout > CLAIM_ABORT_MARGIN THEN Timeout - CLAIM_ABORT_MARGIN
            ELSE 0

\* Mutant: an absent marker is taken to mean that nothing was sent.
reverse_resume_Literal(r) == [started |-> r.started, ours |-> r.ours]

\* Without a saved request a missing marker proves nothing.
reverse_resume(r) == [started |-> r.started \/ r.restored, ours |-> r.ours]

\* find_outputs lists unspent outputs only; depth is the agreed confirmations.
Listed == IF spend = "none" THEN fund ELSE "none"

Init ==
  /\ height = 0 /\ fund = "none" /\ spend = "none" /\ depth = 0
  /\ late = FALSE /\ revealed = FALSE /\ task = FALSE /\ faults = 0
  /\ \E restored \in BOOLEAN :
       /\ disk = [state |-> "Created", started |-> FALSE, ours |-> FALSE,
                  restored |-> restored]
       /\ pay \in IF restored THEN {"none", "held"} ELSE {"none"}
       /\ IF restored THEN pc = "off" /\ resume = reverse_resume(disk)
          ELSE pc = "status" /\ resume = NothingKnown

Fault == faults < MaxFaults /\ faults' = faults + 1
Ends == pc' = "off" /\ task' = FALSE

-----------------------------------------------------------------------------
(* 1. Paying the hold invoice, unless a payment may already exist.         *)

Goto(step) == pc' = step /\ UNCHANGED task

\* The node does not know a payment it has not admitted yet.
PaymentStatus ==
  /\ pc = "status"
  /\ \/ Goto(IF pay \in {"held", "settled"} THEN "look" ELSE "mark")
        /\ UNCHANGED faults
     \/ AnswersUnknown /\ UNCHANGED faults
        /\ Goto(IF is_fresh(resume) THEN "mark" ELSE "look")
     \/ Fault /\ Goto("look")
  /\ UNCHANGED <<chainVars, pay, disk, resume>>

\* The write-ahead marker: written once, and nothing is sent without it.
payment_started ==
  /\ pc = "mark"
  /\ \/ /\ disk' = IF disk.started THEN disk
                   ELSE [disk EXCEPT !.started = TRUE, !.state = "InvoicePending"]
        /\ Goto("pay") /\ UNCHANGED faults
     \/ ~disk.started /\ Fault /\ Ends /\ UNCHANGED disk
  /\ UNCHANGED <<chainVars, pay, resume>>

\* The spawned pay_invoice; a node refuses to pay a hash it is already paying.
PayInvoice ==
  /\ pc = "pay" /\ pc' = "look" /\ task' = TRUE
  /\ pay' = IF pay \in {"none", "failed"} THEN "sent" ELSE pay
  /\ UNCHANGED <<chainVars, disk, resume, faults>>

-----------------------------------------------------------------------------
(* 2. Waiting for the provider's funding.                                  *)

FindOutputs ==
  /\ pc = "look"
  /\ \/ Listed = "mined" /\ Goto("gate")
     \/ Listed = "refuses" /\ Ends
     \/ Listed \in {"none", "mempool"} /\ Goto("wait")
  /\ UNCHANGED <<chainVars, pay, disk, resume, faults>>

\* Mutant: only the payment's end stops the wait for the funding.
WaitForFunding_PaymentOnly ==
  /\ pc = "wait"
  /\ IF task /\ pay \in {"settled", "failed"} THEN Ends ELSE Goto("look")
  /\ UNCHANGED <<chainVars, pay, disk, resume, faults>>

WaitForFunding ==
  /\ pc = "wait"
  /\ IF claim_start_is_safe(height, Timeout)
          /\ ~(task /\ pay \in {"settled", "failed"})
       THEN Goto("look") ELSE Ends
  /\ UNCHANGED <<chainVars, pay, disk, resume, faults>>

\* Mutant: the claim starts as soon as the funding is deep enough.
GateClaim_Open ==
  /\ pc = "gate" /\ Goto("record")
  /\ UNCHANGED <<chainVars, pay, disk, resume, faults>>

\* The tip is read again immediately before the reveal.
GateClaim ==
  /\ pc = "gate"
  /\ IF claim_start_is_safe(height, Timeout) THEN Goto("record") ELSE Ends
  /\ UNCHANGED <<chainVars, pay, disk, resume, faults>>

-----------------------------------------------------------------------------
(* 3. confirm_or_bump on the claim.                                        *)

\* A live spend an earlier run recorded is adopted; otherwise the txid is
\* recorded before the broadcast, and a write that fails is only logged.
StartClaim ==
  /\ pc = "record"
  /\ IF resume.ours /\ spend = "claim"
       THEN Goto("bump") /\ UNCHANGED <<disk, faults>>
       ELSE /\ Goto("send")
            /\ \/ disk' = [disk EXCEPT !.ours = TRUE] /\ UNCHANGED faults
               \/ Fault /\ UNCHANGED disk
  /\ UNCHANGED <<chainVars, pay, resume>>

\* A refund already on the wire makes the node reject the claim, which has
\* shown the preimage all the same.
SendClaim ==
  /\ pc = "send" /\ revealed' = TRUE
  /\ IF spend = "refund" THEN Ends /\ UNCHANGED spend
     ELSE Goto("bump") /\ spend' = "claim"
  /\ UNCHANGED <<height, fund, depth, late, pay, disk, resume, faults>>

Confirmed == spend = "claim" /\ depth >= FINALITY_DEPTH

ClaimConfirmed ==
  /\ pc = "bump" /\ Confirmed /\ Goto("payment")
  /\ UNCHANGED <<chainVars, pay, disk, resume, faults>>

ConflictingSpend ==
  /\ pc = "bump" /\ spend = "refund" /\ Ends
  /\ UNCHANGED <<chainVars, pay, disk, resume, faults>>

\* A claim that is nowhere is broadcast again, then the deadline is checked.
WatchClaim ==
  /\ pc = "bump" /\ spend # "refund" /\ ~Confirmed
  /\ spend' = "claim"
  /\ IF height >= Deadline THEN Ends ELSE Goto("bump")
  /\ UNCHANGED <<height, fund, depth, late, revealed, pay, disk, resume, faults>>

\* The caps on wall time and iterations hand the claim back.
ClaimGivesBack ==
  /\ pc = "bump" /\ ~Confirmed /\ Fault /\ Ends
  /\ UNCHANGED <<chainVars, pay, disk, resume>>

-----------------------------------------------------------------------------
(* 4. The payment this run started, the outcome, and the runs themselves.  *)

AwaitPayment ==
  /\ pc = "payment"
  /\ \/ (~task \/ pay = "settled") /\ Goto("finish")
     \/ task /\ pay = "failed" /\ Ends
  /\ UNCHANGED <<chainVars, pay, disk, resume, faults>>

\* record_terminal: a failed write is only logged.
RecordClaimed ==
  /\ pc = "finish" /\ Ends
  /\ \/ disk' = [disk EXCEPT !.state = "Claimed"] /\ UNCHANGED faults
     \/ Fault /\ UNCHANGED disk
  /\ UNCHANGED <<chainVars, pay, resume>>

\* The record stays as it is, for the next run.
RunError ==
  /\ pc \in {"look", "wait", "gate", "record", "send", "bump", "payment"}
  /\ Fault /\ Ends
  /\ UNCHANGED <<chainVars, pay, disk, resume>>

\* The broadcast succeeded and its answer was lost.
SendClaimUnheard ==
  /\ pc = "send" /\ spend # "refund" /\ Fault /\ Ends
  /\ revealed' = TRUE /\ spend' = "claim"
  /\ UNCHANGED <<height, fund, depth, late, pay, disk, resume>>

\* The process dies; a request the node has not admitted may die with it.
Crash ==
  /\ pc # "off" /\ Fault /\ Ends
  /\ pay' \in {pay, IF pay = "sent" THEN "none" ELSE pay}
  /\ UNCHANGED <<chainVars, disk, resume>>

\* resume_unfinished: every record that is not terminal is driven again.
NextRun ==
  /\ pc = "off" /\ ~Finished /\ pc' = "status"
  /\ resume' = reverse_resume(disk)
  /\ UNCHANGED <<chainVars, pay, task, disk, faults>>

Driver ==
  \/ PaymentStatus \/ payment_started \/ PayInvoice \/ FindOutputs
  \/ WaitForFunding \/ GateClaim \/ StartClaim \/ SendClaim \/ ClaimConfirmed
  \/ ConflictingSpend \/ WatchClaim \/ AwaitPayment \/ RecordClaimed

-----------------------------------------------------------------------------
(* The world: the chain, the client's node, the provider and strangers.    *)

\* What the client relies on: fewer than CLAIM_ABORT_MARGIN blocks between its
\* last look at the tip and the block that holds its claim.
ClaimIsLate(h) ==
  h >= Timeout /\ depth = 0 /\ (revealed \/ pc \in {"record", "send"})

Block ==
  /\ height < MaxHeight \/ depth \in 1..(FINALITY_DEPTH - 1)
  /\ height' = IF height < MaxHeight THEN height + 1 ELSE height
  /\ depth' = IF depth \in 1..(FINALITY_DEPTH - 1) THEN depth + 1 ELSE depth
  /\ late' = (late \/ ClaimIsLate(height'))
  /\ UNCHANGED <<fund, spend, revealed, pay, task, pc, disk, resume,
                 faults>>

\* The provider funds, or someone pays the public address what cannot be used.
ProviderFunds ==
  /\ fund = "none" /\ fund' \in {"mempool", "refuses"}
  /\ UNCHANGED <<height, spend, depth, late, revealed, pay, task, pc, disk,
                 resume, faults>>

Mine ==
  /\ \/ fund = "mempool" /\ fund' = "mined" /\ UNCHANGED depth
     \/ fund = "mined" /\ spend # "none" /\ depth = 0 /\ depth' = 1
        /\ UNCHANGED fund
  /\ UNCHANGED <<height, spend, late, revealed, pay, task, pc, disk, resume,
                 faults>>

\* A reorg shallower than FINALITY_DEPTH.
Reorg ==
  /\ Fault /\ fund = "mined" /\ depth < FINALITY_DEPTH
  /\ depth' = 0 /\ fund' \in {"mined", "mempool"}
  /\ late' = (late \/ (revealed /\ height >= Timeout))
  /\ UNCHANGED <<height, spend, revealed, pay, task, pc, disk, resume>>

Evict ==
  /\ Fault /\ spend = "claim" /\ depth = 0
  /\ spend' = "none"
  /\ UNCHANGED <<height, fund, depth, late, revealed, pay, task, pc, disk, resume>>

\* The refund branch opens at the timeout; it may replace an unmined claim.
ProviderRefunds ==
  /\ fund = "mined" /\ height >= Timeout /\ depth = 0 /\ spend # "refund"
  /\ spend' = "refund"
  /\ UNCHANGED <<height, fund, depth, late, revealed, pay, task, pc, disk,
                 resume, faults>>

NodeAdmits ==
  /\ pay = "sent" /\ pay' \in {"held", "failed"}
  /\ UNCHANGED <<chainVars, task, pc, disk, resume, faults>>

\* Settled with the preimage the client has shown, else failed back by the
\* provider or at the expiry of its HTLC.
PaymentResolves ==
  /\ pay = "held"
  /\ \/ revealed /\ pay' = "settled"
     \/ pay' = "failed"
  /\ UNCHANGED <<chainVars, task, pc, disk, resume, faults>>

Next ==
  \/ Driver \/ NextRun
  \/ ClaimGivesBack \/ SendClaimUnheard \/ RunError \/ Crash
  \/ Block \/ Mine \/ Reorg \/ Evict \/ ProviderFunds \/ ProviderRefunds
  \/ NodeAdmits \/ PaymentResolves

Spec == Init /\ [][Next]_vars

\* The process keeps running, blocks keep arriving and carry what is in the
\* mempool, the node answers.  Nothing is assumed of the provider.
Fairness ==
  /\ WF_vars(Driver) /\ SF_vars(Block) /\ SF_vars(Mine)
  /\ WF_vars(NodeAdmits) /\ WF_vars(PaymentResolves)

\* The operator keeps starting the client again.
FairSpec == Spec /\ Fairness /\ WF_vars(NextRun)

-----------------------------------------------------------------------------
(* Properties.                                                             *)

TypeOK ==
  /\ height \in 0..MaxHeight
  /\ fund \in {"none", "mempool", "mined", "refuses"}
  /\ spend \in {"none", "claim", "refund"} /\ depth \in 0..FINALITY_DEPTH
  /\ late \in BOOLEAN /\ revealed \in BOOLEAN /\ task \in BOOLEAN
  /\ pay \in {"none", "sent", "held", "settled", "failed"}
  /\ pc \in {"off", "status", "mark", "pay", "look", "wait", "gate", "record",
             "send", "bump", "payment", "finish"}
  /\ disk \in Records /\ resume \in Resumes /\ faults \in 0..MaxFaults

\* A payment this device may have sent is on its record, through crashes and
\* failed writes, so a later run asks the node before it pays
\* (payment_started's "Failure must stop publication").
PaymentIsOnRecord == pay # "none" /\ ~disk.restored => disk.started

\* No run decides to pay while an earlier payment of the invoice is held or
\* settled, even when the node cannot say what became of it and the payment was
\* made by another device (PaymentStatus::Unknown, reverse_resume).
NoSecondPayment ==
  [][pc = "status" /\ pc' = "mark" => pay \notin {"held", "settled"}]_vars

\* The record says Claimed only of a claim that is buried for good.
ClaimedMeansBuried == Finished => spend = "claim" /\ depth = FINALITY_DEPTH

\* The client does not pay for an HTLC the provider takes back, unless its claim
\* took longer than the abort margin: no run, first or resumed, shows the
\* preimage so late that the refund branch is open already
\* (claim_start_is_safe immediately before the reveal).
PaidIsNotRefunded == pay = "settled" /\ spend = "refund" => late

\* Every run ends, whatever the provider and the Lightning node do: the wait
\* for the funding and the drive of the claim both stop at a height.
EveryRunEnds == pc # "off" ~> pc = "off"

=============================================================================
