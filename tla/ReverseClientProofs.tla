------------------------ MODULE ReverseClientProofs ------------------------
(***************************************************************************)
(* Safety of the client's reverse driver for every timeout, every finality *)
(* depth, any number of runs and any number of faults.                     *)
(***************************************************************************)
EXTENDS ReverseClient, TLAPS

(* Types.                                                                  *)

\* What the driver writes is a record.
LEMMA RecordFacts ==
  ASSUME NEW r \in Records
  PROVE  /\ [r EXCEPT !.started = TRUE, !.state = "InvoicePending"] \in Records
         /\ [r EXCEPT !.ours = TRUE] \in Records
         /\ [r EXCEPT !.state = "Claimed"] \in Records
         /\ reverse_resume(r) \in Resumes
  BY DEF Records, Resumes, reverse_resume

\* The first states are well typed.
LEMMA TypeInit == Init => TypeOK
<1> SUFFICES ASSUME Init PROVE TypeOK
  OBVIOUS
<1>1. disk \in Records /\ NothingKnown \in Resumes
  BY DEF Init, Records, Resumes, NothingKnown
<1>2. resume \in Resumes
  BY <1>1, RecordFacts DEF Init
<1>3. 0 \in 0..MaxHeight /\ 0 \in 0..FINALITY_DEPTH /\ 0 \in 0..MaxFaults
  BY ReverseClientAssumption
<1> QED
  BY <1>1, <1>2, <1>3 DEF Init, TypeOK

\* One step of anybody keeps every type.
LEMMA TypeStep == TypeOK /\ [Next]_vars => TypeOK'
<1> SUFFICES ASSUME TypeOK, [Next]_vars PROVE TypeOK'
  OBVIOUS
<1> USE ReverseClientAssumption DEF TypeOK, chainVars, Goto, Ends
<1>f. ASSUME Fault PROVE faults' \in 0..MaxFaults
  BY <1>f DEF Fault
<1>1. CASE PaymentStatus
  BY <1>1, <1>f DEF PaymentStatus
<1>11. CASE PayInvoice \/ FindOutputs \/ WaitForFunding
  <2>1. CASE PayInvoice
    BY <2>1 DEF PayInvoice
  <2>2. CASE FindOutputs
    BY <2>2 DEF FindOutputs
  <2>3. CASE WaitForFunding
    BY <2>3 DEF WaitForFunding
  <2> QED
    BY <1>11, <2>1, <2>2, <2>3
<1>2. CASE payment_started \/ RecordClaimed
  <2>1. CASE payment_started
    <3>1. disk' \in Records /\ faults' \in 0..MaxFaults
      BY <1>f, <2>1, RecordFacts DEF payment_started
    <3> QED
      BY <2>1, <3>1 DEF payment_started
  <2>2. CASE RecordClaimed
    BY <2>2, <1>f, RecordFacts DEF RecordClaimed
  <2> QED
    BY <1>2, <2>1, <2>2
<1>3. CASE StartClaim
  <2>1. disk' \in Records /\ faults' \in 0..MaxFaults
    BY <1>3, <1>f, RecordFacts DEF StartClaim
  <2> QED
    BY <1>3, <2>1 DEF StartClaim
<1>4. CASE \/ GateClaim \/ SendClaim \/ ClaimConfirmed \/ ConflictingSpend
           \/ WatchClaim \/ AwaitPayment
  <2>1. CASE GateClaim
    BY <2>1 DEF GateClaim
  <2>2. CASE SendClaim
    BY <2>2 DEF SendClaim
  <2>3. CASE ClaimConfirmed
    BY <2>3 DEF ClaimConfirmed
  <2>4. CASE ConflictingSpend
    BY <2>4 DEF ConflictingSpend
  <2>5. CASE WatchClaim
    BY <2>5 DEF WatchClaim
  <2>6. CASE AwaitPayment
    BY <2>6 DEF AwaitPayment
  <2> QED
    BY <1>4, <2>1, <2>2, <2>3, <2>4, <2>5, <2>6
<1>5. CASE ClaimGivesBack \/ SendClaimUnheard \/ RunError \/ Crash
  <2>1. CASE ClaimGivesBack
    BY <2>1, <1>f DEF ClaimGivesBack
  <2>2. CASE SendClaimUnheard
    BY <2>2, <1>f DEF SendClaimUnheard
  <2>3. CASE RunError
    <3>1. faults' \in 0..MaxFaults /\ UNCHANGED <<chainVars, pay, disk, resume>>
      BY <2>3, <1>f DEF RunError
    <3> QED
      BY <2>3, <3>1 DEF RunError
  <2>4. CASE Crash
    BY <2>4, <1>f DEF Crash
  <2> QED
    BY <1>5, <2>1, <2>2, <2>3, <2>4
<1>6. CASE NextRun
  <2>1. resume' \in Resumes
    BY <1>6, RecordFacts DEF NextRun
  <2> QED
    BY <1>6, <2>1 DEF NextRun
<1>7. CASE Block
  <2>1. height' \in 0..MaxHeight /\ depth' \in 0..FINALITY_DEPTH
    BY <1>7 DEF Block
  <2>2. late' \in BOOLEAN
    BY <1>7 DEF Block
  <2> QED
    BY <1>7, <2>1, <2>2 DEF Block
<1>12. CASE Mine
  BY <1>12 DEF Mine
<1>8. CASE Reorg \/ Evict
  BY <1>8, <1>f DEF Reorg, Evict
<1>9. CASE ProviderFunds \/ ProviderRefunds \/ NodeAdmits \/ PaymentResolves
  BY <1>9 DEF ProviderFunds, ProviderRefunds, NodeAdmits, PaymentResolves
<1>10. CASE UNCHANGED vars
  BY <1>10 DEF vars
<1> QED
  BY <1>1, <1>2, <1>3, <1>4, <1>5, <1>6, <1>7, <1>8, <1>9, <1>10,
     <1>11, <1>12 DEF Next, Driver

\* Every variable keeps its type: a record never leaves SwapRecord's states
\* and no spend is counted past finality.
THEOREM TypeCorrect == Spec => []TypeOK
  BY TypeInit, TypeStep, PTL DEF Spec

-----------------------------------------------------------------------------
(* The inductive invariant.                                                *)

\* A payment is on record before it can exist, and a run that was told of no
\* payment runs before any.
PaymentInv ==
  /\ PaymentIsOnRecord
  /\ pc = "pay" => disk.started
  /\ pc = "status" /\ is_fresh(resume) => pay = "none"

\* A spend needs an output, a claim needs the preimage, a refund the timeout.
SpendInv ==
  /\ spend = "none" => depth = 0
  /\ spend = "claim" => revealed
  /\ spend = "refund" => height >= Timeout
  /\ pc = "bump" => revealed

\* A run gets past its claim, and records the end, only of a buried one.
BuriedInv ==
  /\ pc \in {"payment", "finish"} => Confirmed
  /\ ClaimedMeansBuried

\* The preimage was shown in time, or the claim took longer than the margin.
LateInv ==
  /\ pay = "settled" => revealed
  /\ pc \in {"record", "send"} /\ height >= Timeout /\ ~revealed => late
  /\ revealed /\ height >= Timeout /\ depth = 0 => late
  /\ revealed /\ spend = "refund" => late

IInv == TypeOK /\ PaymentInv /\ SpendInv /\ BuriedInv /\ LateInv

\* The invariant holds when the swap is ready for execution.
LEMMA InvInit == Init => IInv
<1> SUFFICES ASSUME Init PROVE PaymentInv /\ SpendInv /\ BuriedInv /\ LateInv
  BY TypeInit DEF IInv
<1>1. disk.state = "Created" /\ (pay # "none" => disk.restored)
        /\ (pc = "status" => pay = "none") /\ pc \in {"off", "status"}
        /\ pay \in {"none", "held"}
  BY DEF Init
<1> QED
  BY <1>1 DEF Init, PaymentInv, PaymentIsOnRecord, SpendInv, BuriedInv,
              ClaimedMeansBuried, Finished, LateInv

\* A marker written ahead is on the record; what is written later keeps it.
LEMMA PaymentStep == IInv /\ [Next]_vars => PaymentInv'
<1> SUFFICES ASSUME IInv, [Next]_vars PROVE PaymentInv'
  OBVIOUS
<1> USE DEF PaymentInv, PaymentIsOnRecord, chainVars, Goto, Ends
<1>0. disk \in Records /\ pay \in {"none", "sent", "held", "settled", "failed"}
  BY DEF IInv, TypeOK
<1>1. CASE payment_started
  BY <1>0, <1>1 DEF payment_started, IInv, Records
<1>2. CASE StartClaim \/ RecordClaimed
  BY <1>0, <1>2 DEF StartClaim, RecordClaimed, IInv, Records
\* A run told of nothing starts from a record that promises nothing.
<1>3. CASE NextRun
  <2>1. is_fresh(resume') => ~disk.started /\ ~disk.restored
    BY <1>3 DEF NextRun, is_fresh, reverse_resume, NothingKnown
  <2> QED
    BY <1>3, <2>1 DEF NextRun, IInv
<1>4. CASE \/ PaymentStatus \/ PayInvoice \/ FindOutputs \/ WaitForFunding
           \/ GateClaim \/ SendClaim \/ ClaimConfirmed \/ ConflictingSpend
           \/ WatchClaim \/ AwaitPayment
  BY <1>4 DEF PaymentStatus, PayInvoice, FindOutputs, WaitForFunding,
              GateClaim, SendClaim, ClaimConfirmed, ConflictingSpend,
              WatchClaim, AwaitPayment, IInv, is_fresh
<1>5. CASE ClaimGivesBack \/ SendClaimUnheard \/ RunError \/ Crash
  BY <1>5 DEF ClaimGivesBack, SendClaimUnheard, RunError, Crash, IInv
<1>6. CASE \/ Block \/ Mine \/ Reorg \/ Evict \/ ProviderFunds
           \/ ProviderRefunds \/ NodeAdmits \/ PaymentResolves
  BY <1>6 DEF Block, Mine, Reorg, Evict, ProviderFunds, ProviderRefunds,
              NodeAdmits, PaymentResolves, IInv, is_fresh
<1>7. CASE UNCHANGED vars
  BY <1>7 DEF vars, IInv, is_fresh
<1> QED
  BY <1>1, <1>2, <1>3, <1>4, <1>5, <1>6, <1>7 DEF Next, Driver

\* A confirmed spend is not replaced, and a claim follows the preimage.
LEMMA SpendStep == IInv /\ [Next]_vars => SpendInv'
<1> SUFFICES ASSUME IInv, [Next]_vars PROVE SpendInv'
  OBVIOUS
<1> USE ReverseClientAssumption
        DEF SpendInv, chainVars, Goto, Ends
<1>0. height \in Nat /\ depth \in Nat /\ spend \in {"none", "claim", "refund"}
  BY DEF IInv, TypeOK
<1>1. CASE Driver
  BY <1>0, <1>1
     DEF Driver, PaymentStatus, payment_started, PayInvoice, FindOutputs,
         WaitForFunding, GateClaim, StartClaim, SendClaim, ClaimConfirmed,
         ConflictingSpend, WatchClaim, AwaitPayment, RecordClaimed, IInv
<1>2. CASE \/ NextRun \/ ClaimGivesBack \/ RunError \/ Crash \/ ProviderFunds
           \/ NodeAdmits \/ PaymentResolves \/ SendClaimUnheard
  BY <1>0, <1>2
     DEF NextRun, ClaimGivesBack, RunError, Crash, ProviderFunds, NodeAdmits,
         PaymentResolves, SendClaimUnheard, IInv
<1>3. CASE Block
  BY <1>0, <1>3 DEF Block, IInv
<1>4. CASE Mine \/ Reorg \/ Evict \/ ProviderRefunds
  BY <1>0, <1>4 DEF Mine, Reorg, Evict, ProviderRefunds, IInv
<1>5. CASE UNCHANGED vars
  BY <1>5 DEF vars, IInv
<1> QED
  BY <1>1, <1>2, <1>3, <1>4, <1>5 DEF Next

\* A claim that was found buried stays so.
LEMMA BuriedStep == IInv /\ [Next]_vars => BuriedInv'
<1> SUFFICES ASSUME IInv, [Next]_vars PROVE BuriedInv'
  OBVIOUS
<1> USE ReverseClientAssumption
        DEF BuriedInv, ClaimedMeansBuried, Finished, chainVars, Goto, Ends
<1>0. /\ depth \in 0..FINALITY_DEPTH /\ disk \in Records
      /\ spend \in {"none", "claim", "refund"}
  BY DEF IInv, TypeOK
\* Confirmed never ceases.
<1>c. Confirmed => Confirmed' /\ depth' = FINALITY_DEPTH
  <2>1. CASE Driver
    BY <1>0, <2>1
       DEF Confirmed, Driver, PaymentStatus, payment_started, PayInvoice,
           FindOutputs, WaitForFunding, GateClaim, StartClaim, SendClaim,
           ClaimConfirmed, ConflictingSpend, WatchClaim, AwaitPayment,
           RecordClaimed
  <2>2. CASE \/ NextRun \/ ClaimGivesBack \/ RunError \/ Crash
             \/ SendClaimUnheard
    BY <1>0, <2>2 DEF Confirmed, NextRun, ClaimGivesBack, RunError, Crash,
                      SendClaimUnheard
  <2>3. CASE \/ Block \/ Mine \/ Reorg \/ Evict \/ ProviderFunds
             \/ ProviderRefunds \/ NodeAdmits \/ PaymentResolves
    BY <1>0, <2>3 DEF Confirmed, Block, Mine, Reorg, Evict, ProviderFunds,
                      ProviderRefunds, NodeAdmits, PaymentResolves
  <2>4. CASE UNCHANGED vars
    BY <1>0, <2>4 DEF vars, Confirmed
  <2> QED
    BY <2>1, <2>2, <2>3, <2>4 DEF Next
<1>b. Finished => Confirmed
  BY <1>0 DEF IInv, Confirmed
<1>1. pc' \in {"payment", "finish"} =>
        Confirmed \/ ClaimConfirmed
  <2>1. CASE Driver
    BY <2>1 DEF Driver, PaymentStatus, payment_started, PayInvoice,
                FindOutputs, WaitForFunding, GateClaim, StartClaim, SendClaim,
                ConflictingSpend, WatchClaim, AwaitPayment, RecordClaimed, IInv
  <2>2. CASE Next /\ ~Driver
    BY <2>2 DEF Next, NextRun, ClaimGivesBack, RunError, Crash,
                SendClaimUnheard, Block, Mine, Reorg, Evict, ProviderFunds,
                ProviderRefunds, NodeAdmits, PaymentResolves, IInv
  <2>3. CASE UNCHANGED vars
    BY <2>3 DEF vars, IInv
  <2> QED
    BY <2>1, <2>2, <2>3
<1>2. disk'.state = "Claimed" => disk.state = "Claimed" \/ pc = "finish"
  <2>1. CASE payment_started \/ StartClaim \/ RecordClaimed
    BY <1>0, <2>1 DEF payment_started, StartClaim, RecordClaimed, Records
  <2>2. CASE Driver /\ ~payment_started /\ ~StartClaim /\ ~RecordClaimed
    BY <2>2 DEF Driver, PaymentStatus, PayInvoice, FindOutputs,
                WaitForFunding, GateClaim, SendClaim, ClaimConfirmed,
                ConflictingSpend, WatchClaim, AwaitPayment
  <2>3. CASE Next /\ ~Driver
    BY <2>3 DEF Next, NextRun, ClaimGivesBack, RunError, Crash,
                SendClaimUnheard, Block, Mine, Reorg, Evict, ProviderFunds,
                ProviderRefunds, NodeAdmits, PaymentResolves
  <2>4. CASE UNCHANGED vars
    BY <2>4 DEF vars
  <2> QED
    BY <2>1, <2>2, <2>3, <2>4
<1>3. ClaimConfirmed => Confirmed
  BY DEF ClaimConfirmed
<1> QED
  BY <1>b, <1>c, <1>1, <1>2, <1>3 DEF IInv, Confirmed

\* The gate before the claim, and what late stands for, add up.
LEMMA LateStep == IInv /\ [Next]_vars => LateInv'
<1> SUFFICES ASSUME IInv, [Next]_vars PROVE LateInv'
  OBVIOUS
<1> USE ReverseClientAssumption DEF LateInv, chainVars, Goto, Ends
<1>0. /\ height \in Nat /\ depth \in 0..FINALITY_DEPTH
      /\ spend \in {"none", "claim", "refund"} /\ late \in BOOLEAN
      /\ revealed \in BOOLEAN
  BY DEF IInv, TypeOK
<1>1. CASE GateClaim
  BY <1>0, <1>1, TimelockAssumption DEF GateClaim, claim_start_is_safe, IInv
<1>2. CASE SendClaim \/ SendClaimUnheard
  BY <1>0, <1>2 DEF SendClaim, SendClaimUnheard, IInv, SpendInv
<1>3. CASE WatchClaim
  BY <1>0, <1>3 DEF WatchClaim, IInv
<1>4. CASE \/ PaymentStatus \/ payment_started \/ PayInvoice \/ FindOutputs
           \/ WaitForFunding \/ StartClaim \/ ClaimConfirmed
           \/ ConflictingSpend \/ AwaitPayment \/ RecordClaimed
  BY <1>0, <1>4
     DEF PaymentStatus, payment_started, PayInvoice, FindOutputs,
         WaitForFunding, StartClaim, ClaimConfirmed, ConflictingSpend,
         AwaitPayment, RecordClaimed, IInv
<1>5. CASE NextRun \/ ClaimGivesBack \/ RunError \/ Crash
  BY <1>0, <1>5 DEF NextRun, ClaimGivesBack, RunError, Crash, IInv
\* Unshown, the preimage has no claim; before the timeout there is no refund.
<1>6. CASE Block
  <2>1. /\ depth = 0 => depth' = 0
        /\ depth' = 0 => depth = 0
        /\ height' \in Nat /\ height' >= height
    BY <1>0, <1>6 DEF Block
  <2>2. late' = (late \/ (height' >= Timeout /\ depth = 0
                           /\ (revealed \/ pc \in {"record", "send"})))
          /\ UNCHANGED <<spend, revealed, pay, pc>>
    BY <1>6 DEF Block, ClaimIsLate
  <2> QED
    BY <1>0, <2>1, <2>2 DEF IInv, SpendInv
<1>7. CASE Reorg \/ Mine \/ Evict \/ ProviderRefunds
  BY <1>0, <1>7 DEF Reorg, Mine, Evict, ProviderRefunds, IInv, SpendInv
<1>8. CASE ProviderFunds \/ NodeAdmits \/ PaymentResolves
  BY <1>0, <1>8 DEF ProviderFunds, NodeAdmits, PaymentResolves, IInv
<1>9. CASE UNCHANGED vars
  BY <1>9 DEF vars, IInv
<1> QED
  BY <1>1, <1>2, <1>3, <1>4, <1>5, <1>6, <1>7, <1>8, <1>9 DEF Next, Driver

\* The invariant holds in every reachable state.
LEMMA Invariant == Spec => []IInv
<1>1. IInv /\ [Next]_vars => IInv'
  BY TypeStep, PaymentStep, SpendStep, BuriedStep, LateStep DEF IInv
<1> QED
  BY <1>1, InvInit, PTL DEF Spec

\* A payment this device may have sent is on its record, through any number of
\* crashes, failed writes and runs.
THEOREM OnRecord == Spec => []PaymentIsOnRecord
<1>1. IInv => PaymentIsOnRecord
  BY DEF IInv, PaymentInv
<1> QED
  BY <1>1, Invariant, PTL

\* A run of any device, told by its node that it does not know of a payment,
\* pays only with no payment held or settled.
THEOREM PaidOnce == Spec => NoSecondPayment
<1>1. IInv /\ [Next]_vars =>
        [pc = "status" /\ pc' = "mark" => pay \notin {"held", "settled"}]_vars
  <2> SUFFICES ASSUME IInv, Next, pc = "status", pc' = "mark"
               PROVE  pay \notin {"held", "settled"}
    OBVIOUS
  <2>1. PaymentStatus
    BY DEF Next, Driver, payment_started, PayInvoice, FindOutputs,
           WaitForFunding, GateClaim, StartClaim, SendClaim, ClaimConfirmed,
           ConflictingSpend, WatchClaim, AwaitPayment, RecordClaimed, NextRun,
           ClaimGivesBack, SendClaimUnheard, RunError, Crash, Block, Mine,
           Reorg, Evict, ProviderFunds, ProviderRefunds, NodeAdmits,
           PaymentResolves, Goto, Ends
  <2> QED
    BY <2>1 DEF PaymentStatus, Goto, IInv, PaymentInv
<1> QED
  BY <1>1, Invariant, PTL DEF Spec, NoSecondPayment

\* The record says Claimed only of a claim that is buried for good.
THEOREM ClaimedIsBuried == Spec => []ClaimedMeansBuried
<1>1. IInv => ClaimedMeansBuried
  BY DEF IInv, BuriedInv
<1> QED
  BY <1>1, Invariant, PTL

\* Unless a claim takes longer than the abort margin, the client never pays
\* for an HTLC that goes back to the provider, whatever the run and the faults.
THEOREM NoPaidRefund == Spec => []PaidIsNotRefunded
<1>1. IInv => PaidIsNotRefunded
  BY DEF IInv, LateInv, PaidIsNotRefunded
<1> QED
  BY <1>1, Invariant, PTL
=============================================================================
