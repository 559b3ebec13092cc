----------------------- MODULE SubmarineClientProofs -----------------------
(***************************************************************************)
(* Safety of the client's submarine driver for every timeout, every        *)
(* finality depth, any number of runs and any number of faults.            *)
(***************************************************************************)
EXTENDS SubmarineClient, TLAPS

(* Types.                                                                  *)

\* What the driver writes is a record, and keeps what the record promises.
LEMMA RecordFacts ==
  ASSUME NEW r \in Records
  PROVE  /\ record_funded(r) \in Records /\ record_funded(r).funded
         /\ record_funded(r).state = "LockupConfirmed"
         /\ [r EXCEPT !.ours = TRUE] \in Records
         /\ [r EXCEPT !.ours = TRUE].state = r.state
         /\ [r EXCEPT !.ours = TRUE].intent = r.intent
         /\ [r EXCEPT !.ours = TRUE].funded = r.funded
  BY DEF Records, record_funded

\* The record with which a funding begins (funding_intent).
LEMMA IntentFacts ==
  ASSUME NEW r \in Records
  PROVE  LET m == [r EXCEPT !.intent = TRUE, !.state = "LockupPending"]
         IN  m \in Records /\ m.intent /\ m.state = "LockupPending"
  BY DEF Records

\* The record of a run that is over (RecordOutcome).
LEMMA OutcomeFacts ==
  ASSUME NEW r \in Records, NEW s \in TerminalStates
  PROVE  LET e == [r EXCEPT !.state = s]
         IN  /\ e \in Records /\ e.state = s
             /\ e.intent = r.intent /\ e.funded = r.funded
  BY DEF Records

\* The first state is well typed.
LEMMA TypeInit == Init => TypeOK
<1> SUFFICES ASSUME Init PROVE TypeOK
  OBVIOUS
<1>1. NewRecord \in Records /\ "Expired" \in TerminalStates
  BY DEF NewRecord, Records, TerminalStates
<1>2. 0 \in 0..MaxHeight /\ 0 \in 0..FINALITY_DEPTH /\ 0 \in 0..MaxFaults
  BY SubmarineClientAssumption
<1> QED
  BY <1>1, <1>2 DEF Init, TypeOK

\* One step of anybody keeps every type.
LEMMA TypeStep == TypeOK /\ [Next]_vars => TypeOK'
<1> SUFFICES ASSUME TypeOK, [Next]_vars PROVE TypeOK'
  OBVIOUS
<1> USE SubmarineClientAssumption
        DEF TypeOK, chainVars, walletVars, Goto, Ends, Return
<1>f. ASSUME Fault PROVE faults' \in 0..MaxFaults
  BY <1>f DEF Fault
<1>n. ASSUME NEW r \in Records, Note(r)
      PROVE  disk' \in Records /\ faults' \in 0..MaxFaults
  BY <1>n, <1>f DEF Note
<1>t. {"Claimed", "Refunded", "Expired"} \subseteq TerminalStates
  BY DEF TerminalStates
<1>1. CASE Adopt \/ FundHtlcOk
  BY <1>1, <1>n, RecordFacts DEF Adopt, FundHtlcOk
<1>2. CASE LookAgain \/ RefuseToFund
  BY <1>2 DEF LookAgain, RefuseToFund, MayFund
<1>3. CASE funding_intent
  BY <1>3, <1>f, IntentFacts DEF funding_intent
<1>4. CASE CallFundHtlc
  BY <1>4 DEF CallFundHtlc
<1>5. CASE FundHtlcErr
  BY <1>5, <1>f DEF FundHtlcErr
<1>6. CASE AwaitLook
  BY <1>6, <1>n, RecordFacts DEF AwaitLook
<1>7. CASE AwaitTip \/ CheckInvoice \/ CheckTip \/ FindClaim
  BY <1>7, <1>t DEF AwaitTip, CheckInvoice, CheckTip, FindClaim
<1>8. CASE StartRefund
  BY <1>8, <1>f, RecordFacts DEF StartRefund
<1>9. CASE SendRefund \/ BroadcastError \/ RefundConfirmed
  BY <1>9, <1>t DEF SendRefund, Broadcast, BroadcastError, RefundConfirmed
<1>10. CASE ConflictingSpend
  BY <1>10, <1>n, <1>t, RecordFacts DEF ConflictingSpend
<1>11. CASE Rebroadcast
  BY <1>11, <1>f, RecordFacts DEF Rebroadcast, Broadcast
<1>12. CASE RecordOutcome
  BY <1>12, <1>n, OutcomeFacts DEF RecordOutcome
<1>13. CASE RefundGivesBack \/ RunError \/ Crash
  BY <1>13, <1>f DEF RefundGivesBack, RunError, Crash
<1>14. CASE NextRun
  BY <1>14 DEF NextRun
<1>15. CASE WalletBroadcasts
  BY <1>15 DEF WalletBroadcasts
<1>16. CASE WalletFails
  BY <1>16, <1>f DEF WalletFails
<1>22. CASE Evict \/ EarlierRefundWins
  <2>1. CASE Evict
    BY <2>1, <1>f DEF Evict
  <2>2. CASE EarlierRefundWins
    BY <2>2, <1>f DEF EarlierRefundWins
  <2> QED
    BY <1>22, <2>1, <2>2
<1>17. CASE Block
  <2>1. height' \in 0..MaxHeight /\ depth' \in 0..FINALITY_DEPTH
    BY <1>17 DEF Block
  <2> QED
    BY <1>17, <2>1 DEF Block
<1>18. CASE Mine
  BY <1>18 DEF Mine
<1>19. CASE Reorg
  BY <1>19, <1>f DEF Reorg
<1>20. CASE ProviderPays \/ ProviderClaims
  <2>1. CASE ProviderPays
    BY <2>1 DEF ProviderPays
  <2>2. CASE ProviderClaims
    BY <2>2 DEF ProviderClaims
  <2> QED
    BY <1>20, <2>1, <2>2
<1>21. CASE UNCHANGED vars
  BY <1>21 DEF vars
<1> QED
  BY <1>1, <1>2, <1>3, <1>4, <1>5, <1>6, <1>7, <1>8, <1>9, <1>10, <1>11,
     <1>12, <1>13, <1>14, <1>15, <1>16, <1>17, <1>18, <1>19, <1>20, <1>21,
     <1>22 DEF Next, Driver

\* Every variable keeps its type: a record never leaves SwapRecord's states
\* and no spend is counted past finality.
THEOREM TypeCorrect == Spec => []TypeOK
  BY TypeInit, TypeStep, PTL DEF Spec

-----------------------------------------------------------------------------
(* Funding at most once, and on record.                                    *)

Committed == wallet + broadcasts > 0

\* The marker is written before the one call, and a run that may call is told
\* of every marker.
FundingInv ==
  /\ wallet + broadcasts <= 1
  /\ Committed => disk.intent \/ disk.funded
  /\ pc = "establish" /\ Committed => resume.intent \/ resume.funded
  /\ pc = "fund" => ~Committed /\ disk.intent

\* One step of anybody keeps FundingInv.
LEMMA FundingStep == TypeOK /\ FundingInv /\ [Next]_vars => FundingInv'
<1> SUFFICES ASSUME TypeOK, FundingInv, [Next]_vars PROVE FundingInv'
  OBVIOUS
<1> USE DEF chainVars, walletVars, Goto, Ends, Return
<1>0. wallet \in Nat /\ broadcasts \in Nat /\ disk \in Records
        /\ outcome \in TerminalStates
  BY DEF TypeOK
\* Steps that write no marker away and neither call nor start a run.
<1>q. ASSUME UNCHANGED <<wallet, broadcasts, resume>>,
             disk' = disk \/ disk'.funded
               \/ (disk'.intent = disk.intent /\ disk'.funded = disk.funded),
             pc' # "fund" \/ UNCHANGED <<pc, disk>>,
             pc' # "establish" \/ pc = "establish"
      PROVE  FundingInv'
  BY <1>q DEF FundingInv, Committed
<1>n. ASSUME NEW r \in Records, Note(r) PROVE disk' = disk \/ disk' = r
  BY <1>n DEF Note
<1>1. CASE Adopt \/ FundHtlcOk \/ AwaitLook
  <2>1. /\ UNCHANGED <<wallet, broadcasts, resume>>
        /\ disk' = disk \/ disk' = record_funded(disk)
        /\ pc' \in {"invoice", "awaitTip"}
    BY <1>0, <1>1, <1>n, RecordFacts DEF Adopt, FundHtlcOk, AwaitLook
  <2>2. record_funded(disk).funded
    BY <1>0, RecordFacts
  <2> QED
    BY <1>q, <2>1, <2>2
<1>2. CASE funding_intent
  <2> DEFINE m == [disk EXCEPT !.intent = TRUE, !.state = "LockupPending"]
  <2>1. m.intent
    BY <1>0, IntentFacts
  <2>2. UNCHANGED <<wallet, broadcasts, resume>> /\ ~Committed
    BY <1>2 DEF funding_intent, MayFund, FundingInv
  <2>3. (disk' = m /\ pc' = "fund") \/ (disk' = disk /\ pc' = "off")
    BY <1>2 DEF funding_intent
  <2> HIDE DEF m
  <2> QED
    BY <2>1, <2>2, <2>3 DEF FundingInv, Committed
<1>3. CASE CallFundHtlc
  BY <1>0, <1>3 DEF CallFundHtlc, FundingInv, Committed
<1>4. CASE StartRefund \/ ConflictingSpend \/ Rebroadcast
  <2>1. /\ UNCHANGED <<wallet, broadcasts, resume>>
        /\ disk' = disk \/ disk' = [disk EXCEPT !.ours = TRUE]
        /\ pc' \in {"bump", "send", "sendStray", "finish"}
    BY <1>0, <1>4, <1>n, RecordFacts
       DEF StartRefund, ConflictingSpend, Rebroadcast
  <2>2. LET r == [disk EXCEPT !.ours = TRUE]
        IN  r.intent = disk.intent /\ r.funded = disk.funded
    BY <1>0, RecordFacts
  <2> QED
    BY <1>q, <2>1, <2>2
<1>5. CASE RecordOutcome
  <2>1. /\ UNCHANGED <<wallet, broadcasts, resume>> /\ pc' = "off"
        /\ disk' = disk \/ disk' = [disk EXCEPT !.state = outcome]
    BY <1>5 DEF RecordOutcome, Note
  <2>2. LET r == [disk EXCEPT !.state = outcome]
        IN  r.intent = disk.intent /\ r.funded = disk.funded
    BY <1>0, OutcomeFacts
  <2> QED
    BY <1>q, <2>1, <2>2
<1>6. CASE \/ LookAgain \/ RefuseToFund \/ FundHtlcErr \/ AwaitTip
           \/ CheckInvoice \/ CheckTip \/ FindClaim \/ SendRefund
           \/ BroadcastError \/ RefundConfirmed
  BY <1>6, <1>q
     DEF LookAgain, RefuseToFund, FundHtlcErr, AwaitTip, CheckInvoice,
         CheckTip, FindClaim, SendRefund, BroadcastError, RefundConfirmed
<1>7. CASE RefundGivesBack \/ RunError \/ Crash
  BY <1>7, <1>q DEF RefundGivesBack, RunError, Crash
<1>8. CASE NextRun
  BY <1>8 DEF NextRun, FundingInv, Committed
<1>9. CASE WalletBroadcasts \/ WalletFails
  BY <1>0, <1>9 DEF WalletBroadcasts, WalletFails, FundingInv, Committed
<1>10. CASE \/ Block \/ Mine \/ Reorg \/ Evict \/ EarlierRefundWins
            \/ ProviderPays \/ ProviderClaims
  BY <1>10, <1>q
     DEF Block, Mine, Reorg, Evict, EarlierRefundWins, ProviderPays,
         ProviderClaims
<1>11. CASE UNCHANGED vars
  BY <1>11, <1>q DEF vars
<1> QED
  BY <1>1, <1>2, <1>3, <1>4, <1>5, <1>6, <1>7, <1>8, <1>9, <1>10, <1>11
     DEF Next, Driver

\* FundingInv holds in every reachable state.
LEMMA FundingInvariant == Spec => [](TypeOK /\ FundingInv)
<1>1. Init => FundingInv
  BY DEF Init, FundingInv, Committed
<1> QED
  BY <1>1, FundingStep, TypeInit, TypeStep, PTL DEF Spec

\* The client asks its wallet for one funding at most, whatever crashes, lost
\* answers, failed writes and runs happen.
THEOREM AtMostOnce == Spec => []FundsAtMostOnce
<1>1. FundingInv => FundsAtMostOnce
  BY DEF FundingInv, FundsAtMostOnce
<1> QED
  BY <1>1, FundingInvariant, PTL

\* Whenever coins may be in the HTLC, the record sends the next run to look.
THEOREM OnRecord == Spec => []FundingIsOnRecord
<1>1. FundingInv => FundingIsOnRecord
  BY DEF FundingInv, Committed, FundingIsOnRecord
<1> QED
  BY <1>1, FundingInvariant, PTL

-----------------------------------------------------------------------------
(* What the end of a swap means.                                           *)

\* Nothing funded, nothing to spend; a claim is of a swap that was paid for.
SpendInv ==
  /\ fund = "none" <=> broadcasts = 0
  /\ fund = "none" => spend = "none"
  /\ spend = "none" => depth = 0
  /\ spend = "claim" => paid

\* A refund the run does not know for its own is one an earlier run left.
RefundInv ==
  /\ spend = "stray" => sent \/ strayed
  /\ pc = "bump" => sent \/ resume.ours \/ strayed

\* What the record says, or is about to say, is so.
Holds(s) ==
  /\ s = "Claimed" => paid
  /\ s = "Expired" => broadcasts = 0 \/ late
  /\ s = "Refunded" => strayed \/ (Refunding /\ depth = FINALITY_DEPTH)

OverInv ==
  /\ Finished => pc = "off"
  /\ pc = "awaitTip" => broadcasts = 0 \/ late
  /\ pc = "finish" => Holds(outcome)
  /\ Holds(disk.state)

EInv == TypeOK /\ FundingInv /\ SpendInv /\ RefundInv /\ OverInv

\* A spend replaces another only while neither is mined.
LEMMA SpendStep == EInv /\ [Next]_vars => SpendInv'
<1> SUFFICES ASSUME EInv, [Next]_vars PROVE SpendInv'
  OBVIOUS
<1> USE SubmarineClientAssumption
        DEF SpendInv, chainVars, walletVars, Goto, Ends, Return
<1>0. /\ wallet \in Nat /\ broadcasts \in Nat /\ depth \in Nat
      /\ spend \in {"none", "claim", "refund", "stray"}
  BY DEF EInv, TypeOK
<1>1. CASE Driver
  BY <1>1
     DEF EInv, Driver, Adopt, LookAgain, RefuseToFund, funding_intent,
         MayFund, CallFundHtlc, FundHtlcOk, FundHtlcErr, AwaitLook, AwaitTip,
         CheckInvoice, CheckTip, FindClaim, StartRefund, SendRefund,
         BroadcastError, RefundConfirmed, ConflictingSpend, Rebroadcast,
         RecordOutcome, Broadcast
<1>2. CASE NextRun \/ RefundGivesBack \/ RunError \/ Crash \/ WalletFails
  BY <1>2 DEF EInv, NextRun, RefundGivesBack, RunError, Crash, WalletFails
<1>3. CASE WalletBroadcasts
  BY <1>0, <1>3 DEF EInv, WalletBroadcasts
<1>4. CASE Block \/ Mine
  BY <1>0, <1>4 DEF EInv, Block, Mine
<1>5. CASE \/ Reorg \/ Evict \/ EarlierRefundWins \/ ProviderPays
           \/ ProviderClaims
  BY <1>0, <1>5
     DEF EInv, Reorg, Evict, EarlierRefundWins, ProviderPays, ProviderClaims,
         Refunding
<1>6. CASE UNCHANGED vars
  BY <1>6 DEF EInv, vars
<1> QED
  BY <1>1, <1>2, <1>3, <1>4, <1>5, <1>6 DEF Next

\* A run knows the refunds it sends, and what it was told of.
LEMMA RefundStep == EInv /\ [Next]_vars => RefundInv'
<1> SUFFICES ASSUME EInv, [Next]_vars PROVE RefundInv'
  OBVIOUS
<1> USE DEF RefundInv, chainVars, walletVars, Goto, Ends, Return
<1>1. CASE Driver
  BY <1>1
     DEF EInv, Driver, Adopt, LookAgain, RefuseToFund, funding_intent,
         MayFund, CallFundHtlc, FundHtlcOk, FundHtlcErr, AwaitLook, AwaitTip,
         CheckInvoice, CheckTip, FindClaim, StartRefund, SendRefund,
         BroadcastError, RefundConfirmed, ConflictingSpend, Rebroadcast,
         RecordOutcome, Broadcast
<1>2. CASE NextRun \/ RefundGivesBack \/ RunError \/ Crash \/ WalletFails
  BY <1>2 DEF EInv, NextRun, RefundGivesBack, RunError, Crash, WalletFails
<1>3. CASE \/ WalletBroadcasts \/ Block \/ Mine \/ Reorg \/ Evict
           \/ EarlierRefundWins \/ ProviderPays \/ ProviderClaims
  BY <1>3
     DEF EInv, WalletBroadcasts, Block, Mine, Reorg, Evict, EarlierRefundWins,
         ProviderPays, ProviderClaims
<1>4. CASE UNCHANGED vars
  BY <1>4 DEF EInv, vars
<1> QED
  BY <1>1, <1>2, <1>3, <1>4 DEF Next

\* No step but a look at a funded output takes a reason away: the coins stay
\* unlocked, the payment made and the refund buried.
LEMMA HoldsStep ==
  ASSUME EInv, [Next]_vars, NEW s, Holds(s), s = "Expired" => ~AwaitLook,
         s = "Expired" =>
           ~WalletBroadcasts \/ pc \in {"awaitTip", "finish"} \/ Finished
  PROVE  Holds(s)'
<1> USE SubmarineClientAssumption DEF chainVars, walletVars, Goto, Ends, Return
<1>0. /\ wallet \in Nat /\ broadcasts \in Nat /\ depth \in 0..FINALITY_DEPTH
      /\ wallet + broadcasts <= 1
  BY DEF EInv, TypeOK, FundingInv
<1>1. CASE Driver
  BY <1>0, <1>1
     DEF Holds, Refunding, Driver, Adopt, LookAgain, RefuseToFund,
         funding_intent, MayFund, CallFundHtlc, FundHtlcOk, FundHtlcErr,
         AwaitLook, AwaitTip, CheckInvoice, CheckTip, FindClaim, StartRefund,
         SendRefund, BroadcastError, RefundConfirmed, ConflictingSpend,
         Rebroadcast, RecordOutcome, Broadcast
<1>2. CASE NextRun \/ RefundGivesBack \/ RunError \/ Crash \/ WalletFails
  BY <1>0, <1>2 DEF Holds, Refunding, NextRun, RefundGivesBack, RunError,
                    Crash, WalletFails
<1>3. CASE WalletBroadcasts
  BY <1>0, <1>3 DEF Holds, Refunding, WalletBroadcasts
<1>4. CASE Block \/ Mine
  BY <1>0, <1>4 DEF Holds, Refunding, Block, Mine
<1>5. CASE \/ Reorg \/ Evict \/ EarlierRefundWins \/ ProviderPays
           \/ ProviderClaims
  BY <1>0, <1>5
     DEF Holds, Refunding, Reorg, Evict, EarlierRefundWins, ProviderPays,
         ProviderClaims
<1>6. CASE UNCHANGED vars
  BY <1>6 DEF vars, Holds, Refunding
<1> QED
  BY <1>1, <1>2, <1>3, <1>4, <1>5, <1>6 DEF Next

\* Every way a run ends keeps OverInv.
LEMMA OverStep == EInv /\ [Next]_vars => OverInv'
<1> SUFFICES ASSUME EInv, [Next]_vars PROVE OverInv'
  OBVIOUS
<1> USE DEF chainVars, walletVars, Goto, Ends, Return
<1>0. /\ disk \in Records /\ outcome \in TerminalStates
      /\ depth \in 0..FINALITY_DEPTH /\ wallet \in Nat /\ broadcasts \in Nat
      /\ FINALITY_DEPTH \in Nat
      /\ spend \in {"none", "claim", "refund", "stray"}
  BY SubmarineClientAssumption DEF EInv, TypeOK
<1>l. \A s \in {"LockupPending", "LockupConfirmed", "Created"} :
        Holds(s) /\ Holds(s)' /\ s \notin TerminalStates
  BY DEF Holds, TerminalStates
\* 1. A record becomes terminal at the end of a run, with its outcome.
<1>1. \/ disk'.state = disk.state
      \/ disk'.state \in {"LockupPending", "LockupConfirmed"} /\ pc # "off"
      \/ RecordOutcome /\ disk'.state = outcome
  <2>n. ASSUME NEW r \in Records, Note(r) PROVE disk' = disk \/ disk' = r
    BY <2>n DEF Note
  <2>1. CASE Adopt \/ FundHtlcOk \/ AwaitLook
    BY <1>0, <2>1, <2>n, RecordFacts DEF Adopt, FundHtlcOk, AwaitLook
  <2>2. CASE funding_intent
    BY <1>0, <2>2, IntentFacts DEF funding_intent, MayFund
  <2>3. CASE StartRefund \/ ConflictingSpend \/ Rebroadcast
    BY <1>0, <2>3, <2>n, RecordFacts
       DEF StartRefund, ConflictingSpend, Rebroadcast
  <2>4. CASE RecordOutcome
    BY <1>0, <2>4, OutcomeFacts DEF RecordOutcome, Note
  <2>6. CASE \/ LookAgain \/ RefuseToFund \/ CallFundHtlc \/ FundHtlcErr
             \/ AwaitTip \/ CheckInvoice \/ CheckTip \/ FindClaim
             \/ SendRefund \/ BroadcastError \/ RefundConfirmed
    BY <2>6 DEF LookAgain, RefuseToFund, CallFundHtlc, FundHtlcErr, AwaitTip,
                CheckInvoice, CheckTip, FindClaim, SendRefund, BroadcastError,
                RefundConfirmed
  <2>7. CASE Next /\ ~Driver
    BY <2>7 DEF Next, NextRun, RefundGivesBack, RunError, Crash,
                WalletBroadcasts, WalletFails, Block, Mine, Reorg, Evict,
                EarlierRefundWins, ProviderPays, ProviderClaims
  <2>8. CASE UNCHANGED vars
    BY <2>8 DEF vars
  <2> QED
    BY <2>1, <2>2, <2>3, <2>4, <2>6, <2>7, <2>8 DEF Driver
\* 2. No run starts on a record that is over.
<1>2. pc = "off" => pc' = "off" \/ ~Finished
  BY DEF Next, Driver, Adopt, LookAgain, RefuseToFund, funding_intent, MayFund,
         CallFundHtlc, FundHtlcOk, FundHtlcErr, AwaitLook, AwaitTip,
         CheckInvoice, CheckTip, FindClaim, StartRefund, SendRefund,
         BroadcastError, RefundConfirmed, ConflictingSpend, Rebroadcast,
         RecordOutcome, NextRun, RefundGivesBack, RunError, Crash,
         WalletBroadcasts, WalletFails, Block, Mine, Reorg, Evict,
         EarlierRefundWins, ProviderPays, ProviderClaims, vars
<1>3. (Finished => pc = "off")'
  <2>1. CASE RecordOutcome
    BY <2>1 DEF RecordOutcome
  <2>2. CASE ~RecordOutcome
    <3>1. Finished' => Finished
      BY <1>1, <1>l, <2>2 DEF Finished
    <3> QED
      BY <1>2, <3>1 DEF EInv, OverInv, Finished
  <2> QED
    BY <2>1, <2>2
\* 3. What the record says was so when the run ended.
<1>4. Holds(disk.state)'
  <2>1. CASE disk'.state = disk.state
    <3>1. disk.state = "Expired" => ~AwaitLook
      BY DEF EInv, OverInv, Finished, TerminalStates, AwaitLook
    <3>2. disk.state = "Expired" => Finished
      BY DEF Finished, TerminalStates
    <3>3. Holds(disk.state)
      BY DEF EInv, OverInv
    <3>4. \A s : s = disk.state => Holds(s)'
      BY <3>1, <3>2, <3>3, HoldsStep
    <3> QED
      BY <2>1, <3>4 DEF Holds
  <2>2. CASE disk'.state \in {"LockupPending", "LockupConfirmed"}
    BY <1>l, <2>2 DEF Holds
  <2>3. CASE RecordOutcome /\ disk'.state = outcome
    <3>1. Holds(outcome) /\ UNCHANGED <<chainVars, walletVars, paid, outcome>>
      BY <2>3 DEF RecordOutcome, EInv, OverInv
    <3> QED
      BY <2>3, <3>1 DEF Holds, Refunding
  <2> QED
    BY <1>1, <2>1, <2>2, <2>3
\* 4. The last look at the chain.
<1>5. (pc = "awaitTip" => broadcasts = 0 \/ late)'
  <2> SUFFICES ASSUME pc' = "awaitTip" PROVE broadcasts' = 0 \/ late'
    OBVIOUS
  <2>1. CASE AwaitLook
    BY <2>1 DEF AwaitLook, EInv, SpendInv
  <2>2. CASE WalletBroadcasts
    BY <2>2 DEF WalletBroadcasts
  <2>3. CASE ~AwaitLook /\ ~WalletBroadcasts
    <3>1. pc = "awaitTip" /\ UNCHANGED <<broadcasts, late>>
      BY <2>3
         DEF Next, Driver, Adopt, LookAgain, RefuseToFund, funding_intent,
             MayFund, CallFundHtlc, FundHtlcOk, FundHtlcErr, AwaitTip,
             CheckInvoice, CheckTip, FindClaim, StartRefund, SendRefund,
             BroadcastError, RefundConfirmed, ConflictingSpend, Rebroadcast,
             RecordOutcome, NextRun, RefundGivesBack, RunError, Crash,
             WalletFails, Block, Mine, Reorg, Evict, EarlierRefundWins,
             ProviderPays, ProviderClaims, vars
    <3> QED
      BY <3>1 DEF EInv, OverInv
  <2> QED
    BY <2>1, <2>2, <2>3
\* 5. Each of the four ways a run comes to its outcome.
<1>6. (pc = "finish" => Holds(outcome))'
  <2> SUFFICES ASSUME pc' = "finish" PROVE Holds(outcome)'
    OBVIOUS
  <2>1. CASE AwaitTip
    <3>1. outcome' = "Expired" /\ UNCHANGED <<broadcasts, late>>
            /\ (broadcasts = 0 \/ late)
      BY <2>1 DEF AwaitTip, EInv, OverInv
    <3> QED
      BY <3>1 DEF Holds
  <2>2. CASE CheckInvoice \/ FindClaim
    <3>1. outcome' = "Claimed" /\ paid'
      BY <2>2 DEF CheckInvoice, FindClaim, EInv, SpendInv
    <3> QED
      BY <3>1 DEF Holds
  <2>3. CASE RefundConfirmed
    <3>1. /\ outcome' = "Refunded" /\ UNCHANGED chainVars
          /\ Refunding /\ depth = FINALITY_DEPTH
      BY <1>0, <2>3 DEF RefundConfirmed, Ours, Refunding
    <3> QED
      BY <3>1 DEF Holds, Refunding
  <2>4. CASE ConflictingSpend
    <3>1. CASE outcome' = "Claimed"
      BY <2>4, <3>1 DEF ConflictingSpend, EInv, SpendInv, Holds, Refunding
    <3>2. CASE outcome' = "Refunded"
      <4>1. Refunding /\ ~Ours /\ pc = "bump" /\ strayed' = strayed
        BY <2>4, <3>2 DEF ConflictingSpend
      <4>2. strayed
        BY <4>1 DEF Ours, Refunding, EInv, RefundInv
      <4> QED
        BY <3>2, <4>1, <4>2 DEF Holds
    <3> QED
      BY <2>4, <3>1, <3>2 DEF ConflictingSpend
  <2>5. CASE ~AwaitTip /\ ~CheckInvoice /\ ~FindClaim /\ ~RefundConfirmed
               /\ ~ConflictingSpend
    <3>1. pc = "finish" /\ outcome' = outcome /\ ~AwaitLook
      BY <2>5
         DEF Next, Driver, Adopt, LookAgain, RefuseToFund, funding_intent,
             MayFund, CallFundHtlc, FundHtlcOk, FundHtlcErr, AwaitLook,
             CheckTip, StartRefund, SendRefund, BroadcastError, Rebroadcast,
             RecordOutcome, NextRun, RefundGivesBack, RunError, Crash,
             WalletBroadcasts, WalletFails, Block, Mine, Reorg, Evict,
             EarlierRefundWins, ProviderPays, ProviderClaims, vars
    <3>2. Holds(outcome)
      BY <3>1 DEF EInv, OverInv
    <3>3. \A s : s = outcome => Holds(s)'
      BY <3>1, <3>2, HoldsStep
    <3> QED
      BY <3>1, <3>3 DEF Holds
  <2> QED
    BY <2>1, <2>2, <2>3, <2>4, <2>5
<1> QED
  BY <1>3, <1>4, <1>5, <1>6 DEF OverInv

\* The second stage holds in every reachable state.
LEMMA EndInvariant == Spec => []EInv
<1>1. Init => SpendInv /\ RefundInv /\ OverInv
  BY DEF Init, NewRecord, SpendInv, RefundInv, OverInv, Holds, Finished,
         TerminalStates
<1>2. Init => FundingInv
  BY DEF Init, FundingInv, Committed
<1>3. EInv /\ [Next]_vars => EInv'
  BY FundingStep, TypeStep, SpendStep, RefundStep, OverStep DEF EInv
<1> QED
  BY <1>1, <1>2, <1>3, TypeInit, PTL DEF Spec, EInv

\* A swap that is over holds no coins of the client: it expires with nothing
\* locked and is refunded with the refund buried, but for a wallet that sends
\* after the last look and a refund no record knows.
THEOREM OverIsSafe == Spec => []OverMeansNothingLocked
<1>1. EInv => OverMeansNothingLocked
  BY DEF EInv, OverInv, Holds, OverMeansNothingLocked
<1> QED
  BY <1>1, EndInvariant, PTL

\* The record says Claimed only of a swap the client was paid for.
THEOREM ClaimedIsPaid == Spec => []ClaimedMeansPaid
<1>1. EInv => ClaimedMeansPaid
  BY DEF EInv, OverInv, Holds, ClaimedMeansPaid
<1> QED
  BY <1>1, EndInvariant, PTL
=============================================================================
