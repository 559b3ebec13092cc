-------------------------- MODULE SubmarineProvider --------------------------
(***************************************************************************)
(* The provider's side of one submarine swap (on-chain in, Lightning out): *)
(* drive_submarine_swap with the claim half of confirm_or_bump, the        *)
(* StoreProgress record it writes, finish_driver_run and the restart path, *)
(* against a chain, a Lightning node and a client that funds, withdraws    *)
(* and refunds when it likes.                                              *)
(*                                                                         *)
(* One action is one step between two points at which the driver awaits    *)
(* something another party can change.  Every `?` of the driver is the     *)
(* action DriverError.  MaxFaults bounds crashes, failed calls, failed     *)
(* writes, reorgs, evictions and lost replies together; MaxHeight          *)
(* saturates the clock.                                                    *)
(***************************************************************************)
EXTENDS Timelock

CONSTANTS
  Params,           \* the operator's TimelockParams
  FINALITY_DEPTH,   \* burial at which the driver treats a spend as final
  NodeCltvDefault,  \* what the node uses for a CLTV limit of zero
  MaxHeight,        \* bound: the height at which the clock saturates
  MaxFaults         \* bound: faults in one behaviour

ASSUME SubmarineProviderAssumption ==
  /\ Params \in TimelockParams
  /\ FINALITY_DEPTH \in Nat \ {0} /\ NodeCltvDefault \in Nat
  /\ MaxHeight \in Nat /\ MaxFaults \in Nat

VARIABLES
  height,   \* the chain tip; the swap was accepted at height 0
  fund,     \* the client's HTLC output: "none", "good" (the right amount),
            \* "bad" (short, implausible or split) or "gone" (double-spent)
  conf,     \* its confirmations, saturating at the required number
  spend,    \* its live spend: "none", "claim" or "refund" (the client's)
  depth,    \* confirmations of that spend, saturating at FINALITY_DEPTH
  lag,      \* the provider's Electrum server does not show the script
  calls,    \* pay_invoice requests sent that the node has not received
  attempts, \* payments the node has launched
  pay,      \* that payment: "none", "inflight", "succeeded" or "failed"
  limit,    \* the CLTV limit of the request
  expiry,   \* height at which the outgoing Lightning HTLC expires
  delay,    \* history: blocks found since the tip the limit was computed from,
            \* until the node launched the payment
  pc,       \* the driver task's position
  mem,      \* StoreProgress.record: the driver's copy of the record
  disk,     \* the record on disk
  resume,   \* the record as it was when the driver was spawned
  outcome,  \* the terminal state the driver is about to record
  faults    \* faults so far

chainVars == <<height, fund, conf, spend, depth, lag>>
lnVars    == <<calls, attempts, pay, limit, expiry, delay>>
recVars   == <<mem, disk>>
vars == <<chainVars, lnVars, pc, recVars, resume, outcome, faults>>

-----------------------------------------------------------------------------
Timeout  == onchain_timeout(0, Params)
Required == Params.required_confirmations

LiveStates     == {"Created", "LockupConfirmed", "InvoicePending", "InvoicePaid"}
\* "Lost" is Failed with the reason that the client's refund won the race.
TerminalStates == {"Claimed", "Expired", "Failed", "Lost"}

Records == [state : LiveStates \cup TerminalStates,
            funded : BOOLEAN, started : BOOLEAN, ours : BOOLEAN]

\* Driver positions with a `?` on a chain or Lightning call.
Fallible == {"start", "wait", "waitTip", "guard", "guardSpend", "guardPay",
             "status", "window", "claim", "send", "bump"}
Steps == Fallible \cup {"intent", "pay", "paying", "finish"}

NewRecord ==
  [state |-> "Created", funded |-> FALSE, started |-> FALSE, ours |-> FALSE]

is_terminal(s) == s \in TerminalStates
funds_at_risk(r) == r.started \/ r.ours

Unspent       == ~lag /\ fund = "good" /\ spend = "none"
Visible(kind) == ~lag /\ spend = kind

Init ==
  /\ height = 0 /\ fund = "none" /\ conf = 0 /\ spend = "none" /\ depth = 0
  /\ lag = FALSE /\ calls = 0 /\ attempts = 0 /\ pay = "none"
  /\ limit = 0 /\ expiry = 0 /\ delay = 0 /\ pc = "start"
  /\ mem = NewRecord /\ disk = NewRecord /\ resume = NewRecord
  /\ outcome = "Failed" /\ faults = 0

-----------------------------------------------------------------------------
(* Persistence, and the ways a driver run ends.                            *)

Fault == faults < MaxFaults /\ faults' = faults + 1

PutOk(r)     == mem' = r /\ disk' = r /\ UNCHANGED faults
PutFailed(r) == mem' = r /\ UNCHANGED disk /\ Fault
Put(r)       == PutOk(r) \/ PutFailed(r)

Goto(step)     == pc' = step /\ UNCHANGED <<resume, outcome>>
Return(state)  == pc' = "finish" /\ outcome' = state /\ UNCHANGED resume
Spawn(r)       == pc' = "start" /\ resume' = r /\ UNCHANGED outcome

\* A non-terminal return: the state is stored and the driver re-entered.
HandBack ==
  LET r == [mem EXCEPT !.state = "InvoicePending"] IN Put(r) /\ Spawn(r)

\* Nothing but the driver's position, or what it returns, changes.
OnlyControl == UNCHANGED <<chainVars, lnVars, recVars, faults>>

-----------------------------------------------------------------------------
(* 1. The funding outpoint.                                                *)

Start ==
  /\ pc = "start" /\ OnlyControl
  /\ IF resume.funded
       THEN IF Visible("claim") THEN Return("Claimed") ELSE Goto("guard")
       ELSE Goto("wait")

\* find_outputs and select_funding on what pays the address, unspent.
FundingSeen ==
  /\ pc = "wait" /\ Unspent /\ conf >= Required
  /\ Put([mem EXCEPT !.funded = TRUE, !.state = "LockupConfirmed"])
  /\ Goto("guard")
  /\ UNCHANGED <<chainVars, lnVars>>

FundingUnfit ==
  /\ pc = "wait" /\ ~lag /\ fund = "bad" /\ spend = "none"
  /\ Return("Failed") /\ OnlyControl

FundingAbsent ==
  /\ pc = "wait"
  /\ ~(Unspent /\ conf >= Required)
  /\ ~(~lag /\ fund = "bad" /\ spend = "none")
  /\ Goto("waitTip") /\ OnlyControl

WaitTip ==
  /\ pc = "waitTip" /\ OnlyControl
  /\ IF height >= Timeout THEN Return("Expired") ELSE Goto("wait")

-----------------------------------------------------------------------------
(* 2. The reorg guard: is the funding still there, and deep enough.        *)

Guard ==
  /\ pc = "guard" /\ OnlyControl
  /\ IF Unspent /\ (conf >= Required \/ resume.started)
       THEN Goto("status") ELSE Goto("guardSpend")

\* Any spend of the funding is taken for an earlier claim of ours.
GuardSpend ==
  /\ pc = "guardSpend" /\ OnlyControl
  /\ IF Visible("claim") \/ Visible("refund") THEN Return("Claimed")
     ELSE IF resume.started THEN Goto("guardPay")
     ELSE Return("Failed")

GuardPay ==
  /\ pc = "guardPay"
  /\ IF pay = "failed" THEN Return("Failed") /\ UNCHANGED <<recVars, faults>>
     ELSE HandBack
  /\ UNCHANGED <<chainVars, lnVars>>

-----------------------------------------------------------------------------
(* 3. Paying the invoice.                                                  *)

AlreadyPaid ==
  /\ pc = "status" /\ pay = "succeeded"
  /\ Put([mem EXCEPT !.state = "InvoicePaid"]) /\ Goto("claim")
  /\ UNCHANGED <<chainVars, lnVars>>

AlreadyFailed ==
  pc = "status" /\ pay = "failed" /\ Return("Failed") /\ OnlyControl

\* The node has never seen the payment, and no earlier run recorded one.
MayPay == pay = "none" /\ ~(resume.funded /\ resume.started)

\* Polled in place, then handed back so the chain is looked at again.
Unresolved ==
  /\ pc = "status" /\ pay \in {"none", "inflight"} /\ ~MayPay
  /\ HandBack /\ UNCHANGED <<chainVars, lnVars>>

NotYetPaid == pc = "status" /\ MayPay /\ Goto("window") /\ OnlyControl

Budget == submarine_cltv_budget(height, Timeout, Params)

\* check_submarine_before_pay and submarine_cltv_budget on one tip.
ClaimWindow ==
  /\ pc = "window"
  /\ IF check_submarine_before_pay(height, Timeout, Params) /\ Budget > 0
       THEN limit' = Budget /\ Goto("intent")
       ELSE Return("Failed") /\ UNCHANGED limit
  /\ delay' = 0
  /\ UNCHANGED <<chainVars, calls, attempts, pay, expiry, recVars, faults>>

Started == [mem EXCEPT !.started = TRUE, !.state = "InvoicePending"]

\* invoice_pay_started: a marker that cannot be written is a driver error,
\* which writes the record once more and re-enters on the copy in memory.
PayIntent ==
  /\ pc = "intent"
  /\ \/ PutOk(Started) /\ Goto("pay")
     \/ /\ Fault /\ mem' = Started /\ disk' \in {disk, Started}
        /\ Spawn(Started)
  /\ UNCHANGED <<chainVars, lnVars>>

CallPayInvoice ==
  /\ pc = "pay" /\ calls' = calls + 1 /\ Goto("paying")
  /\ UNCHANGED <<chainVars, attempts, pay, limit, expiry, delay, recVars, faults>>

PayInvoiceOk ==
  /\ pc = "paying" /\ pay = "succeeded"
  /\ Put([mem EXCEPT !.state = "InvoicePaid"]) /\ Goto("claim")
  /\ UNCHANGED <<chainVars, lnVars>>

\* PaymentFailed, or NotImplemented from a backend that sent nothing.
PayInvoiceRefused ==
  /\ pc = "paying" /\ (pay = "failed" \/ (pay = "none" /\ calls = 0))
  /\ Return("Failed") /\ OnlyControl

\* Mutant: a broken call is taken for a failed payment.
PayInvoiceBroke_Fails ==
  /\ pc = "paying" /\ Fault /\ Return("Failed")
  /\ UNCHANGED <<chainVars, lnVars, recVars>>

\* Any other error says nothing of the payment; a node that refuses the
\* request may answer with one too.
PayInvoiceBroke ==
  /\ pc = "paying"
  /\ LET r == [mem EXCEPT !.state = "InvoicePending"]
     IN  /\ \/ Fault /\ mem' = r /\ disk' \in {disk, r}
            \/ pay = "none" /\ calls = 0 /\ Put(r)
         /\ Spawn(r)
  /\ UNCHANGED <<chainVars, lnVars>>

-----------------------------------------------------------------------------
(* 4. Claiming: confirm_or_bump, re-entered until one side wins.           *)

\* A live claim of ours is adopted; a new one is recorded, then broadcast.
StartClaim ==
  /\ pc = "claim"
  /\ IF mem.ours /\ Visible("claim")
       THEN Goto("bump") /\ UNCHANGED <<recVars, faults>>
       ELSE Put([mem EXCEPT !.ours = TRUE]) /\ Goto("send")
  /\ UNCHANGED <<chainVars, lnVars>>

\* Broadcasting may replace an unconfirmed spend; it cannot undo a mined one.
Broadcast ==
  /\ fund = "good" /\ depth = 0 /\ spend' = "claim"
  /\ UNCHANGED <<height, fund, conf, depth, lag>>

SendClaim ==
  /\ pc = "send" /\ Broadcast /\ Goto("bump")
  /\ UNCHANGED <<lnVars, recVars, faults>>

Buried == Visible("claim") /\ depth >= FINALITY_DEPTH

ClaimConfirmed ==
  pc = "bump" /\ Buried /\ Return("Claimed") /\ OnlyControl

ConflictingSpend ==
  pc = "bump" /\ Visible("refund") /\ Return("Lost") /\ OnlyControl

Rebroadcast ==
  /\ pc = "bump" /\ (lag \/ spend = "none") /\ Broadcast
  /\ UNCHANGED <<lnVars, pc, recVars, resume, outcome, faults>>

\* DeadlineExceeded: the deadline, or the caps on one call.
ClaimGivesBack ==
  /\ pc = "bump" /\ ~Buried /\ ~Visible("refund")
  /\ IF height >= SaturatingSub(Timeout, CLAIM_ABORT_MARGIN)
       THEN UNCHANGED faults ELSE Fault
  /\ Goto("claim") /\ UNCHANGED <<chainVars, lnVars, recVars>>

-----------------------------------------------------------------------------
(* 5. finish_driver_run, recovery::after_failure and restarts.             *)

SetTerminal ==
  /\ pc = "finish" /\ Put([mem EXCEPT !.state = outcome]) /\ Goto("done")
  /\ UNCHANGED <<chainVars, lnVars>>

\* Mutant: an error ends the swap whatever it holds.
RetryOrGiveUp_Budget(r) == Spawn(r) \/ Return("Failed")

\* Whether an unfunded swap has retries left is ReverseProvider's business.
RetryOrGiveUp(r) == Spawn(r) \/ (~funds_at_risk(r) /\ Return("Failed"))

DriverError ==
  /\ pc \in Fallible /\ Fault
  /\ disk' \in {disk, mem} /\ UNCHANGED mem
  /\ RetryOrGiveUp(mem) /\ UNCHANGED <<chainVars, lnVars>>

\* The funding left, or a rival spend makes the node reject the claim.
BroadcastError ==
  /\ pc = "send" /\ (fund = "gone" \/ spend # "none")
  /\ Put(mem) /\ RetryOrGiveUp(mem) /\ UNCHANGED <<chainVars, lnVars>>

Crash ==
  /\ pc # "down" /\ Fault /\ Goto("down")
  /\ UNCHANGED <<chainVars, lnVars, recVars>>

\* resume_swaps drives every record that is not terminal.
Restart ==
  /\ pc = "down" /\ mem' = disk
  /\ IF is_terminal(disk.state) THEN Goto("done") ELSE Spawn(disk)
  /\ UNCHANGED <<chainVars, lnVars, disk, faults>>

Driver ==
  \/ Start \/ FundingSeen \/ FundingUnfit \/ FundingAbsent \/ WaitTip
  \/ Guard \/ GuardSpend \/ GuardPay
  \/ AlreadyPaid \/ AlreadyFailed \/ Unresolved \/ NotYetPaid
  \/ ClaimWindow \/ PayIntent \/ CallPayInvoice
  \/ PayInvoiceOk \/ PayInvoiceRefused \/ PayInvoiceBroke
  \/ StartClaim \/ SendClaim \/ BroadcastError
  \/ ClaimConfirmed \/ ConflictingSpend \/ Rebroadcast \/ ClaimGivesBack
  \/ SetTerminal \/ Restart

-----------------------------------------------------------------------------
(* The world: the Lightning node and payee, the chain, the client.         *)

driverVars == <<pc, recVars, resume, outcome>>

\* The limit is relative to the node's own height when it launches.
NodeLaunches ==
  /\ calls > 0 /\ calls' = calls - 1
  /\ attempts' = attempts + 1 /\ pay' = "inflight"
  /\ expiry' = height + IF limit = 0 THEN NodeCltvDefault ELSE limit
  /\ UNCHANGED <<chainVars, limit, delay, driverVars, faults>>

NodeRefuses ==
  /\ calls > 0 /\ calls' = calls - 1
  /\ UNCHANGED <<chainVars, attempts, pay, limit, expiry, delay, driverVars, faults>>

\* The payee may hold the payment until the height its HTLC expires at.
PaymentResolves ==
  /\ pay = "inflight"
  /\ \/ height <= expiry /\ pay' = "succeeded"
     \/ pay' = "failed"
  /\ UNCHANGED <<chainVars, calls, attempts, limit, expiry, delay, driverVars, faults>>

\* The payment is sized, and the node has not launched or refused it.
Launching == pc \in {"intent", "pay"} \/ calls > 0

Block ==
  /\ \/ height < MaxHeight
     \/ conf \in 1..(Required - 1) \/ depth \in 1..(FINALITY_DEPTH - 1)
  /\ height' = IF height < MaxHeight THEN height + 1 ELSE height
  /\ conf' = IF conf \in 1..(Required - 1) THEN conf + 1 ELSE conf
  /\ depth' = IF depth \in 1..(FINALITY_DEPTH - 1) THEN depth + 1 ELSE depth
  /\ delay' = IF Launching THEN delay + (height' - height) ELSE delay
  /\ UNCHANGED <<fund, spend, lag, calls, attempts, pay, limit, expiry, driverVars,
                 faults>>

MineFunding ==
  /\ fund \in {"good", "bad"} /\ conf = 0 /\ Required > 0 /\ conf' = 1
  /\ UNCHANGED <<height, fund, spend, depth, lag, lnVars, driverVars, faults>>

MineSpend ==
  /\ spend # "none" /\ depth = 0 /\ (conf > 0 \/ Required = 0) /\ depth' = 1
  /\ UNCHANGED <<height, fund, conf, spend, lag, lnVars, driverVars, faults>>

\* A spend buried FINALITY_DEPTH deep is final; anything shallower, and the
\* funding under it, may return to the mempool.
Reorg ==
  /\ Fault /\ conf > 0 /\ depth < FINALITY_DEPTH
  /\ conf' \in 0..conf /\ depth' = 0 /\ lag' \in BOOLEAN
  /\ UNCHANGED <<height, fund, spend, lnVars, driverVars>>

CatchUp ==
  /\ lag /\ lag' = FALSE
  /\ UNCHANGED <<height, fund, conf, spend, depth, lnVars, driverVars, faults>>

Evict ==
  /\ Fault /\ spend # "none" /\ depth = 0 /\ spend' = "none"
  /\ UNCHANGED <<height, fund, conf, depth, lag, lnVars, driverVars>>

ClientFunds ==
  /\ fund = "none" /\ fund' \in {"good", "bad"}
  /\ UNCHANGED <<height, conf, spend, depth, lag, lnVars, driverVars, faults>>

\* An unconfirmed funding can be double-spent by whoever made it.
ClientWithdraws ==
  /\ fund \in {"good", "bad"} /\ conf = 0 /\ depth = 0
  /\ fund' = "gone" /\ spend' = "none"
  /\ UNCHANGED <<height, conf, depth, lag, lnVars, driverVars, faults>>

ClientRefunds ==
  /\ fund \in {"good", "bad"} /\ height >= Timeout /\ depth = 0
  /\ spend # "refund" /\ spend' = "refund"
  /\ UNCHANGED <<height, fund, conf, depth, lag, lnVars, driverVars, faults>>

World ==
  \/ NodeLaunches \/ NodeRefuses \/ PaymentResolves \/ Block \/ MineFunding
  \/ MineSpend \/ Reorg \/ CatchUp \/ Evict \/ ClientFunds
  \/ ClientWithdraws \/ ClientRefunds

Next == Driver \/ DriverError \/ Crash \/ World

Spec == Init /\ [][Next]_vars

\* The driver task keeps running, the node ends every payment it launched,
\* blocks keep arriving with what is in the mempool and Electrum catches up.
\* Nothing is assumed of the client.
Fairness ==
  /\ WF_vars(Driver) /\ WF_vars(PaymentResolves) /\ WF_vars(CatchUp)
  /\ SF_vars(Block) /\ WF_vars(MineFunding) /\ SF_vars(MineSpend)

FairSpec == Spec /\ Fairness

-----------------------------------------------------------------------------
(* Properties.                                                             *)

TypeOK ==
  /\ height \in 0..MaxHeight /\ fund \in {"none", "good", "bad", "gone"}
  /\ conf \in 0..Required /\ spend \in {"none", "claim", "refund"}
  /\ depth \in 0..FINALITY_DEPTH /\ lag \in BOOLEAN
  /\ calls \in Nat /\ attempts \in Nat
  /\ pay \in {"none", "inflight", "succeeded", "failed"}
  /\ limit \in Nat /\ (pc \in {"intent", "pay"} => limit > 0)
  /\ expiry \in Nat /\ delay \in Nat /\ pc \in Steps \cup {"done", "down"}
  /\ mem \in Records /\ disk \in Records /\ resume \in Records
  /\ outcome \in TerminalStates /\ faults \in 0..MaxFaults

\* Across crashes, lost replies, failed writes and re-entries the node is
\* asked to pay the client's invoice at most once.
PaysAtMostOnce == calls + attempts <= 1

\* Whenever a payment may be out, the record on disk says so and names the
\* funding to claim, so that a restart drives the claim.
PaymentIsOnRecord == calls + attempts > 0 => disk.started /\ disk.funded

\* A swap recorded as expired or failed never bought the preimage and never
\* will: no request is on its way and no payment is in flight or settled.
GivenUpMeansUnpaid ==
  disk.state \in {"Expired", "Failed"} => calls = 0 /\ pay \in {"none", "failed"}

\* Whenever the payee chooses to settle, the provider still has its whole
\* claim window before the client's refund branch opens
\* (submarine_cltv_budget: "the Lightning leg has to end early enough that a
\* claim still fits before the client's refund branch opens"), less the blocks
\* found between the tip the driver read and the node's launching the payment:
\* the limit counts from the node's own height, and nothing reads the tip again.
PreimageLeavesClaimWindow ==
  [][pay' = "succeeded" /\ pay # "succeeded" =>
       height + Params.min_claim_window_blocks <= Timeout + delay]_vars

\* A recorded terminal state is never taken back or changed.
TerminalIsForever ==
  [][is_terminal(disk.state) => disk'.state = disk.state]_vars

\* A swap whose payment went out is driven until the payment failed or its
\* HTLC is reported claimed or lost, whatever failed on the way; it can only
\* wait forever for a funding that was reorged out and double-spent.
AttemptedSwapEnds ==
  attempts > 0 ~>
    \/ pc = "done" /\ (pay = "failed" \/ mem.state \in {"Claimed", "Lost"})
    \/ fund = "gone"

\* The payment as the leg the provider gives, the HTLC output as what it gets,
\* which it gives up by ending the swap as expired or failed.
given ==
  CASE attempts = 0 -> "none"
    [] attempts = 1 /\ pay = "inflight" -> "locked"
    [] attempts = 1 /\ pay = "succeeded" -> "gone"
    [] attempts = 1 /\ pay = "failed" -> "back"
    [] OTHER -> "twice"

got ==
  CASE depth = FINALITY_DEPTH -> IF spend = "claim" THEN "taken" ELSE "lapsed"
    [] depth < FINALITY_DEPTH /\ disk.state \in {"Expired", "Failed"} -> "waived"
    [] OTHER -> "pending"

\* More blocks than the claim window came before the launch.
overtaken == delay > Params.min_claim_window_blocks

Legs == INSTANCE AtomicSwap
          WITH given <- given, got <- got, overtaken <- overtaken

\* The driver, with its record and the node around it, swaps atomically: one
\* payment, never launched for an HTLC that was given up, nor for one that was
\* refunded unless more blocks than the claim window came between the check and
\* the launch, and the HTLC never given up while the payment may still buy the
\* preimage (drive_submarine_swap).
ImplementsAtomicSwap == Legs!Spec
=============================================================================
