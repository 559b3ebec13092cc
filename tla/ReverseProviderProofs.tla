----------------------- MODULE ReverseProviderProofs -----------------------
(***************************************************************************)
(* Safety of the reverse driver for every operator configuration, every    *)
(* finality depth and any number of faults.                                *)
(***************************************************************************)
EXTENDS ReverseProvider, TLAPS

(* What the helpers return.                                                *)

\* Writing a state keeps every promise the record carries.
LEMMA WithStateFacts ==
  ASSUME NEW r \in Records, NEW s \in LiveStates \cup TerminalStates
  PROVE  /\ WithState(r, s) \in Records
         /\ WithState(r, s).state = s
         /\ WithState(r, s).intent = r.intent
         /\ WithState(r, s).funded = r.funded
<1>1. 0 \in 0..MAX_DRIVER_RETRIES
  BY ReverseProviderAssumption
<1>2. WithState(r, s) \in Records
  BY <1>1 DEF WithState, Records
<1> QED
  BY <1>2 DEF WithState, Records

\* The markers a driver writes.
LEMMA MarkFacts ==
  ASSUME NEW r \in Records
  PROVE  /\ [r EXCEPT !.intent = TRUE] \in Records
         /\ [r EXCEPT !.intent = TRUE].intent
         /\ [r EXCEPT !.ours = TRUE] \in Records
         /\ [r EXCEPT !.ours = TRUE].state = r.state
         /\ [r EXCEPT !.ours = TRUE].intent = r.intent
         /\ [r EXCEPT !.ours = TRUE].funded = r.funded
         /\ [r EXCEPT !.reorg = TRUE] \in Records
         /\ [r EXCEPT !.reorg = TRUE].state = r.state
         /\ [r EXCEPT !.reorg = TRUE].intent = r.intent
         /\ [r EXCEPT !.reorg = TRUE].funded = r.funded
  BY DEF Records

\* A recorded funding replaces its marker and is never the end of the swap.
LEMMA FundedFacts ==
  ASSUME NEW r \in Records
  PROVE  Funded(r) \in Records /\ Funded(r).funded
           /\ Funded(r).state = "LockupConfirmed"
<1>1. LET f == [r EXCEPT !.funded = TRUE, !.intent = FALSE]
      IN  f \in Records /\ f.funded
  BY DEF Records
<1> QED
  BY <1>1, WithStateFacts DEF Funded, LiveStates

\* Counting a failure touches the count alone.
LEMMA CountedFacts ==
  ASSUME NEW r \in Records
  PROVE  /\ Counted(r) \in Records
         /\ Counted(r).state = r.state
         /\ Counted(r).intent = r.intent
         /\ Counted(r).funded = r.funded
         /\ Counted(r).ours = r.ours
  BY ReverseProviderAssumption DEF Counted, Records

\* Recording the end keeps the promises and sets a terminal state.
LEMMA EndedFacts ==
  ASSUME NEW r \in Records, NEW s \in TerminalStates
  PROVE  /\ Ended(r, s) \in Records
         /\ Ended(r, s).state = s
         /\ Ended(r, s).intent = r.intent
         /\ Ended(r, s).funded = r.funded
<1>1. s \in LiveStates \cup TerminalStates /\ 0 \in 0..MAX_DRIVER_RETRIES
  BY ReverseProviderAssumption
<1> QED
  BY <1>1 DEF Ended, Records

-----------------------------------------------------------------------------
(* Types.                                                                  *)

\* The first state is well typed.
LEMMA TypeInit == Init => TypeOK
<1>1. 0 \in 0..MAX_DRIVER_RETRIES /\ 0 \in 0..MaxHeight /\ 0 \in 0..MaxFaults
        /\ 0 \in 0..FINALITY_DEPTH
  BY ReverseProviderAssumption
<1>2. NewRecord \in Records
  BY <1>1 DEF NewRecord, Records, LiveStates
<1>3. "wait" \in Steps /\ "Failed" \in TerminalStates
  BY DEF Steps, Fallible, TerminalStates
<1> SUFFICES ASSUME Init PROVE TypeOK
  OBVIOUS
<1>4. /\ height \in 0..MaxHeight /\ depth \in 0..FINALITY_DEPTH
      /\ faults \in 0..MaxFaults /\ wallet \in Nat /\ broadcasts \in Nat
      /\ ln_expiry \in Nat
  BY <1>1 DEF Init
<1>5. /\ mem \in Records /\ disk \in Records /\ resume \in Records
      /\ pc \in Steps \cup {"done", "down"} /\ outcome \in TerminalStates
  BY <1>2, <1>3 DEF Init
<1> QED
  BY <1>4, <1>5 DEF Init, TypeOK

\* One step of anybody keeps every type.
LEMMA TypeStep == TypeOK /\ [Next]_vars => TypeOK'
<1> SUFFICES ASSUME TypeOK, [Next]_vars PROVE TypeOK'
  OBVIOUS
<1> USE DEF TypeOK, chainVars, lnVars, recVars, runVars, Fault, Return
<1>0. mem \in Records /\ disk \in Records /\ resume \in Records
  OBVIOUS
<1>p. ASSUME NEW r \in Records, Put(r)
      PROVE  /\ mem' \in Records /\ disk' \in Records
             /\ faults' \in 0..MaxFaults
  BY <1>0, <1>p, ReverseProviderAssumption DEF Put, PutOk, PutFailed
<1>s. /\ Fallible \subseteq Steps
      /\ {"wait", "establish", "await", "awaitTip", "watch", "bury", "tip",
          "refund", "send", "bump", "fund", "funding", "settle", "cancel",
          "finish"} \subseteq Steps
  BY DEF Steps, Fallible
<1>t. {"Claimed", "Refunded", "Expired", "Failed"} \subseteq TerminalStates
  BY DEF TerminalStates
<1>l. {"LockupPending", "InvoicePaid"} \subseteq
        LiveStates \cup TerminalStates
  BY DEF LiveStates
<1>f. ASSUME Fault PROVE faults' \in 0..MaxFaults
  BY <1>f, ReverseProviderAssumption
<1> HIDE DEF Fault
<1>1. CASE WaitInvoice
  BY <1>1, <1>s, <1>t DEF WaitInvoice
<1>2. CASE AdoptRecorded
  BY <1>2, <1>s DEF AdoptRecorded
<1>3. CASE AdoptUnspent
  BY <1>0, <1>3, <1>p, <1>s, FundedFacts DEF AdoptUnspent
<1>4. CASE LookAgain
  BY <1>4, <1>s DEF LookAgain
<1>5. CASE RefuseToFund
  BY <1>5, <1>s, <1>t DEF RefuseToFund
<1>6. CASE FundingIntent
  <2>1. WithState([mem EXCEPT !.intent = TRUE], "LockupPending") \in Records
    BY <1>0, <1>l, MarkFacts, WithStateFacts
  <2>2. /\ mem' \in Records /\ disk' \in Records
        /\ faults' \in 0..MaxFaults
    BY <1>6, <1>p, <2>1 DEF FundingIntent, Put
  <2> QED
    BY <1>6, <1>s, <1>t, <2>2 DEF FundingIntent
<1>7. CASE CallFundHtlc
  BY <1>7, <1>s DEF CallFundHtlc
<1>8. CASE FundHtlcOk
  BY <1>0, <1>8, <1>p, <1>s, FundedFacts DEF FundHtlcOk
<1>9. CASE FundHtlcErr
  BY <1>9, <1>f, <1>s DEF FundHtlcErr
<1>10. CASE AwaitLook
  BY <1>0, <1>10, <1>p, <1>s, FundedFacts DEF AwaitLook
<1>11. CASE AwaitTip
  BY <1>11, <1>s, <1>t DEF AwaitTip
<1>12. CASE ObserveClaim
  <2>1. WithState(mem, "InvoicePaid") \in Records
    BY <1>0, <1>l, WithStateFacts
  <2> QED
    BY <1>12, <1>p, <1>s, <2>1 DEF ObserveClaim
<1>13. CASE WatchOn
  BY <1>13, <1>s DEF WatchOn
<1>14. CASE Settle
  <2>1. settled' \in BOOLEAN /\ faults' \in 0..MaxFaults
    BY <1>14, <1>f, ReverseProviderAssumption DEF Settle
  <2>2. inv' \in {inv, "settled"} /\ pc' \in Steps
    BY <1>14, <1>s DEF Settle
  <2> QED
    BY <1>14, <2>1, <2>2 DEF Settle
<1>15. CASE CheckBurial
  BY <1>15, <1>s, <1>t DEF CheckBurial
<1>16. CASE CheckTip
  BY <1>16, <1>s DEF CheckTip
<1>17. CASE StartRefund
  BY <1>0, <1>17, <1>p, <1>s, MarkFacts DEF StartRefund
<1>18. CASE SendRefund
  BY <1>18, <1>s DEF SendRefund, Broadcast
<1>19. CASE WatchRefund
  BY <1>19, <1>s, <1>t DEF WatchRefund, Broadcast
<1>20. CASE RefundGivesBack
  BY <1>20, <1>f, <1>s DEF RefundGivesBack
<1>21. CASE CancelHoldInvoice
  BY <1>21, <1>f, <1>s DEF CancelHoldInvoice
<1>22. CASE SetTerminal
  BY <1>0, <1>22, <1>p, EndedFacts DEF SetTerminal
<1>r. ASSUME NEW t \in BOOLEAN, RetryOrGiveUp(t)
      PROVE  /\ pc' \in Steps /\ resume' \in Records
             /\ settled' \in BOOLEAN /\ outcome' \in TerminalStates
  BY <1>0, <1>r, <1>s, <1>t, CountedFacts DEF RetryOrGiveUp, Spawn
<1>23. CASE DriverError
  BY <1>0, <1>23, <1>f, <1>r, CountedFacts DEF DriverError
<1>24. CASE BroadcastError
  BY <1>0, <1>24, <1>p, <1>r, CountedFacts DEF BroadcastError
<1>25. CASE Crash
  BY <1>25, <1>f DEF Crash
<1>26. CASE Restart
  BY <1>26, <1>s DEF Restart, Spawn
<1>27. CASE MonitorMarks
  BY <1>0, <1>27, MarkFacts DEF MonitorMarks
<1>40. CASE MonitorLists
  BY <1>40 DEF MonitorLists
<1>28. CASE WalletBroadcasts
  BY <1>28 DEF WalletBroadcasts
<1>29. CASE WalletFails
  BY <1>29, <1>f DEF WalletFails
<1>30. CASE CatchUp
  BY <1>30 DEF CatchUp
<1>31. CASE Block
  BY <1>31, ReverseProviderAssumption DEF Block
<1>32. CASE MineFunding
  BY <1>32 DEF MineFunding
<1>33. CASE MineSpend
  BY <1>33, ReverseProviderAssumption DEF MineSpend
<1>34. CASE Reorg
  BY <1>34, <1>f, ReverseProviderAssumption DEF Reorg
<1>35. CASE Evict
  BY <1>35, <1>f DEF Evict
<1>36. CASE ClientPays
  BY <1>36, ReverseProviderAssumption DEF ClientPays
<1>37. CASE ClientClaims
  BY <1>37 DEF ClientClaims
<1>38. CASE NodeCancels
  BY <1>38 DEF NodeCancels
<1>39. CASE UNCHANGED vars
  BY <1>39 DEF vars
<1> QED
  BY <1>1, <1>2, <1>3, <1>4, <1>5, <1>6, <1>7, <1>8, <1>9, <1>10, <1>11,
     <1>12, <1>13, <1>14, <1>15, <1>16, <1>17, <1>18, <1>19, <1>20, <1>21,
     <1>22, <1>23, <1>24, <1>25, <1>26, <1>27, <1>28, <1>29, <1>30, <1>31,
     <1>32, <1>33, <1>34, <1>35, <1>36, <1>37, <1>38, <1>39, <1>40, <1>40
     DEF Next, Driver

\* Every variable of the model keeps its type: in particular a retry count
\* never passes MAX_DRIVER_RETRIES and every record written is a SwapRecord.
THEOREM TypeCorrect == Spec => []TypeOK
  BY TypeInit, TypeStep, PTL DEF Spec

-----------------------------------------------------------------------------
(* The inductive invariant.                                                *)

Committed == wallet + broadcasts > 0

\* The record keeps the swap at risk from before the wallet is called: on
\* disk, in the driver's memory, and in what a new driver is told.
RecordsCommitment ==
  /\ Committed => disk.intent \/ disk.funded
  /\ Committed => mem.intent \/ mem.funded
  /\ pc \in {"wait", "establish"} /\ Committed =>
       resume.intent \/ resume.funded

\* The wallet is called once, with the marker already written.
FirstCall ==
  /\ wallet + broadcasts <= 1
  /\ pc = "fund" => ~Committed /\ mem.intent /\ disk.intent

\* The Lightning leg of a swap that is, or is about to be, committed.
LegInv ==
  /\ inv = "cancelled" <=> by # "none"
  /\ pc = "fund" \/ Committed =>
       /\ inv # "open" /\ ln_expiry >= required_ln_expiry(Timeout, Params)
       /\ by = "node" => height >= Timeout + Params.refund_confirm_blocks

\* No driver runs on a record that is over.
OverInv ==
  /\ is_terminal(disk.state) => pc \in {"done", "down"}
  /\ pc \in Steps => ~is_terminal(mem.state)

IInv == TypeOK /\ RecordsCommitment /\ FirstCall /\ LegInv /\ OverInv

\* The invariant holds when the swap is accepted.
LEMMA InvInit == Init => IInv
<1> SUFFICES ASSUME Init PROVE RecordsCommitment /\ FirstCall /\ LegInv /\ OverInv
  BY TypeInit DEF IInv
<1>1. ~Committed
  BY DEF Init, Committed
<1>2. ~is_terminal(mem.state) /\ ~is_terminal(disk.state)
  BY DEF Init, NewRecord, is_terminal, TerminalStates
<1> QED
  BY <1>1, <1>2
     DEF Init, RecordsCommitment, FirstCall, LegInv, OverInv, Committed

\* One step of anybody keeps the invariant.
LEMMA InvStep == IInv /\ [Next]_vars => IInv'
<1> SUFFICES ASSUME IInv, [Next]_vars
             PROVE  RecordsCommitment' /\ FirstCall' /\ LegInv' /\ OverInv'
  BY TypeStep DEF IInv
<1> USE DEF chainVars, lnVars, recVars, runVars, Return
<1>0. /\ mem \in Records /\ disk \in Records /\ resume \in Records
      /\ height \in Nat /\ wallet \in Nat /\ broadcasts \in Nat
      /\ ln_expiry \in Nat
      /\ pc \in Steps \cup {"done", "down"} /\ outcome \in TerminalStates
  BY ReverseProviderAssumption DEF IInv, TypeOK
<1>s. /\ Fallible \subseteq Steps /\ "done" \notin Steps /\ "down" \notin Steps
      /\ {"wait", "establish", "await", "awaitTip", "watch", "bury", "tip",
          "refund", "send", "bump", "fund", "funding", "settle", "cancel",
          "finish"} = Steps
      /\ "fund" \notin Fallible
  BY DEF Steps, Fallible
<1>l. \A s \in LiveStates : ~is_terminal(s)
  BY DEF LiveStates, TerminalStates, is_terminal
<1>m. \A s \in {"LockupPending", "LockupConfirmed", "InvoicePaid"} :
        s \in LiveStates /\ s \in LiveStates \cup TerminalStates
  BY DEF LiveStates
\* What writing a record that keeps the promise does to both copies.
<1>p. ASSUME NEW r \in Records, Put(r), r.intent \/ r.funded \/ ~Committed
      PROVE  /\ mem' = r
             /\ Committed => mem'.intent \/ mem'.funded
             /\ Committed => disk'.intent \/ disk'.funded
             /\ disk' \in {disk, r}
  BY <1>p DEF Put, PutOk, PutFailed, IInv, RecordsCommitment
\* Steps that move the driver, and no part of the commitment.
<1>q. ASSUME UNCHANGED <<wallet, broadcasts, lnVars, height, recVars, resume>>,
             pc' \in Steps \ {"fund"}, pc \in Steps,
             pc' \in {"wait", "establish"} => pc \in {"wait", "establish"}
      PROVE  RecordsCommitment' /\ FirstCall' /\ LegInv' /\ OverInv'
  BY <1>q, <1>s DEF IInv, RecordsCommitment, FirstCall, LegInv, OverInv, Committed
<1>1. CASE WaitInvoice
  BY <1>1, <1>q, <1>s DEF WaitInvoice
<1>2. CASE AdoptRecorded
  BY <1>2, <1>q, <1>s DEF AdoptRecorded
<1>4. CASE LookAgain
  BY <1>4, <1>q, <1>s DEF LookAgain, NothingUnspent
<1>5. CASE RefuseToFund
  BY <1>5, <1>q, <1>s DEF RefuseToFund, NothingUnspent
<1>11. CASE AwaitTip
  BY <1>11, <1>q, <1>s DEF AwaitTip
<1>13. CASE WatchOn
  BY <1>13, <1>q, <1>s DEF WatchOn
<1>15. CASE CheckBurial
  BY <1>15, <1>q, <1>s DEF CheckBurial
<1>16. CASE CheckTip
  BY <1>16, <1>q, <1>s DEF CheckTip
<1>18. CASE SendRefund
  BY <1>18, <1>q, <1>s DEF SendRefund
<1>19. CASE WatchRefund
  BY <1>19, <1>q, <1>s DEF WatchRefund
<1>20. CASE RefundGivesBack
  BY <1>20, <1>q, <1>s DEF RefundGivesBack
<1>9. CASE FundHtlcErr
  BY <1>9, <1>q, <1>s DEF FundHtlcErr
\* Steps that write a live record and keep the driver running.
<1>w. ASSUME NEW r \in Records, Put(r), r.intent \/ r.funded \/ ~Committed,
             ~is_terminal(r.state), pc \in Steps,
             pc' \in Steps \ {"fund", "wait", "establish"},
             UNCHANGED <<wallet, broadcasts, lnVars, height>>
      PROVE  RecordsCommitment' /\ FirstCall' /\ LegInv' /\ OverInv'
  <2>1. Committed' = Committed
    BY <1>w DEF Committed
  <2>2. RecordsCommitment'
    BY <1>p, <1>w, <2>1 DEF RecordsCommitment
  <2>3. FirstCall' /\ LegInv'
    BY <1>w, <2>1 DEF IInv, FirstCall, LegInv
  <2>4. ~is_terminal(disk.state)
    BY <1>w, <1>s DEF IInv, OverInv
  <2>5. OverInv'
    BY <1>p, <1>w, <1>s, <2>4 DEF OverInv
  <2> QED
    BY <2>2, <2>3, <2>5
<1>3. CASE AdoptUnspent
  BY <1>0, <1>3, <1>l, <1>m, <1>s, <1>w, FundedFacts DEF AdoptUnspent
<1>8. CASE FundHtlcOk
  BY <1>0, <1>8, <1>l, <1>m, <1>s, <1>w, FundedFacts DEF FundHtlcOk
<1>10. CASE AwaitLook
  <2>1. CASE ~lag /\ fund # "none"
    BY <1>0, <1>10, <1>l, <1>m, <1>s, <1>w, <2>1, FundedFacts DEF AwaitLook
  <2>2. CASE ~(~lag /\ fund # "none")
    BY <1>10, <1>q, <1>s, <2>2 DEF AwaitLook
  <2> QED
    BY <2>1, <2>2
<1>12. CASE ObserveClaim
  <2> DEFINE r == WithState(mem, "InvoicePaid")
  <2>1. r \in Records /\ ~is_terminal(r.state) /\ r.intent = mem.intent
          /\ r.funded = mem.funded
    BY <1>0, <1>l, <1>m, WithStateFacts
  <2>2. r.intent \/ r.funded \/ ~Committed
    BY <2>1 DEF IInv, RecordsCommitment
  <2> HIDE DEF r
  <2>3. Put(r) /\ pc = "watch" /\ pc' = "settle"
          /\ UNCHANGED <<wallet, broadcasts, lnVars, height>>
    BY <1>12 DEF ObserveClaim, r
  <2> QED
    BY <1>s, <1>w, <2>1, <2>2, <2>3
<1>17. CASE StartRefund
  <2> DEFINE r == [mem EXCEPT !.ours = TRUE]
  <2>1. r \in Records /\ r.state = mem.state /\ r.intent = mem.intent
          /\ r.funded = mem.funded
    BY <1>0, MarkFacts
  <2>2. (r.intent \/ r.funded \/ ~Committed) /\ ~is_terminal(r.state)
    BY <1>17, <1>s, <2>1 DEF IInv, RecordsCommitment, OverInv, StartRefund
  <2> HIDE DEF r
  <2>3. CASE Put(r) /\ pc' = "send"
    BY <1>17, <1>s, <1>w, <2>1, <2>2, <2>3 DEF StartRefund
  <2>4. CASE pc' = "bump" /\ UNCHANGED recVars
    BY <1>17, <1>q, <1>s, <2>4 DEF StartRefund
  <2> QED
    BY <1>17, <2>3, <2>4 DEF StartRefund, r
<1>6. CASE FundingIntent
  <2> DEFINE m == [mem EXCEPT !.intent = TRUE]
             r == WithState(m, "LockupPending")
  <2>1. m \in Records /\ m.intent
    BY <1>0, MarkFacts
  <2>2. r \in Records /\ r.intent /\ ~is_terminal(r.state)
    BY <1>l, <1>m, <2>1, WithStateFacts
  <2> HIDE DEF r
  <2>3. /\ Put(r) /\ UNCHANGED <<wallet, broadcasts, lnVars, height>>
        /\ pc = "establish" /\ ~resume.intent /\ ~resume.funded
        /\ LegsAreOrdered
        /\ (PutOk(r) /\ pc' = "fund") \/ pc' = "cancel"
    BY <1>6 DEF FundingIntent, NothingUnspent, Put, r
  <2>4. CASE pc' = "cancel"
    BY <1>s, <1>w, <2>2, <2>3, <2>4
  <2>5. CASE PutOk(r) /\ pc' = "fund"
    <3>1. ~Committed /\ ~Committed'
      BY <2>3 DEF IInv, RecordsCommitment, Committed
    <3>2. RecordsCommitment' /\ FirstCall'
      BY <2>2, <2>3, <2>5, <3>1
         DEF IInv, RecordsCommitment, FirstCall, PutOk, Committed
    <3>3. LegInv'
      BY <2>3, <3>1
         DEF IInv, LegInv, LegsAreOrdered, check_reverse_before_fund
    <3>4. OverInv'
      BY <1>s, <2>2, <2>5 DEF OverInv, PutOk
    <3> QED
      BY <3>2, <3>3, <3>4
  <2> QED
    BY <2>3, <2>4, <2>5
<1>7. CASE CallFundHtlc
  <2>1. wallet = 0 /\ broadcasts = 0 /\ wallet' = 1 /\ broadcasts' = 0
    BY <1>0, <1>7 DEF IInv, FirstCall, Committed, CallFundHtlc
  <2> QED
    BY <1>7, <1>s, <2>1 DEF IInv, RecordsCommitment, FirstCall, LegInv, OverInv,
                          Committed, CallFundHtlc
<1>14. CASE Settle
  BY <1>14, <1>s DEF IInv, RecordsCommitment, FirstCall, LegInv, OverInv,
                     Committed, Settle
<1>21. CASE CancelHoldInvoice
  BY <1>21, <1>s DEF IInv, RecordsCommitment, FirstCall, LegInv, OverInv,
                     Committed, CancelHoldInvoice
<1>22. CASE SetTerminal
  <2> DEFINE r == Ended(mem, outcome)
  <2>1. r \in Records /\ r.intent = mem.intent /\ r.funded = mem.funded
    BY <1>0, EndedFacts
  <2>2. r.intent \/ r.funded \/ ~Committed
    BY <2>1 DEF IInv, RecordsCommitment
  <2> HIDE DEF r
  <2>3. /\ Put(r) /\ pc = "finish" /\ pc' = "done"
        /\ UNCHANGED <<wallet, broadcasts, lnVars, height>>
    BY <1>22 DEF SetTerminal, r
  <2> QED
    BY <1>p, <1>s, <2>1, <2>2, <2>3
       DEF IInv, RecordsCommitment, FirstCall, LegInv, OverInv, Committed
\* A failed run either starts again or ends with nothing committed.
<1>r. ASSUME NEW t \in BOOLEAN, RetryOrGiveUp(t), pc \in Steps,
             mem' = Counted(mem), disk' \in {disk, Counted(mem)},
             UNCHANGED <<wallet, broadcasts, lnVars, height>>
      PROVE  RecordsCommitment' /\ FirstCall' /\ LegInv' /\ OverInv'
  <2> DEFINE r == Counted(mem)
  <2>1. r \in Records /\ r.state = mem.state /\ r.intent = mem.intent
          /\ r.funded = mem.funded
    BY <1>0, CountedFacts
  <2>2. \/ pc' = "finish" /\ UNCHANGED <<resume, settled>>
        \/ pc' = "wait" /\ resume' = r
    BY <1>r DEF RetryOrGiveUp, Spawn
  <2> HIDE DEF r
  <2>3. mem' = r /\ disk' \in {disk, r}
    BY <1>r DEF r
  <2>4. Committed' = Committed
    BY <1>r DEF Committed
  <2>5. RecordsCommitment'
    BY <2>1, <2>2, <2>3, <2>4 DEF IInv, RecordsCommitment
  <2>6. FirstCall' /\ LegInv'
    BY <1>r, <2>2, <2>4 DEF IInv, FirstCall, LegInv
  <2>7. ~is_terminal(mem.state) /\ ~is_terminal(disk.state)
    BY <1>r, <1>s DEF IInv, OverInv
  <2>8. OverInv'
    BY <2>1, <2>3, <2>7 DEF OverInv
  <2> QED
    BY <2>5, <2>6, <2>8
<1>23. CASE DriverError
  BY <1>23, <1>r, <1>s DEF DriverError
<1>24. CASE BroadcastError
  BY <1>24, <1>r, <1>s DEF BroadcastError, Put, PutOk, PutFailed
<1>25. CASE Crash
  BY <1>25, <1>s DEF IInv, RecordsCommitment, FirstCall, LegInv, OverInv,
                     Committed, Crash
<1>26. CASE Restart
  BY <1>26, <1>s DEF IInv, RecordsCommitment, FirstCall, LegInv, OverInv,
                     Committed, Restart, Spawn
\* Steps of the chain that keep the commitment, the clock and the driver.
<1>c. ASSUME UNCHANGED <<wallet, broadcasts, height, lnVars, recVars, resume, pc>>
      PROVE  RecordsCommitment' /\ FirstCall' /\ LegInv' /\ OverInv'
  BY <1>c DEF IInv, RecordsCommitment, FirstCall, LegInv, OverInv, Committed
<1>27. CASE MonitorMarks
  <2>1. /\ disk'.state = disk.state /\ disk'.intent = disk.intent
        /\ disk'.funded = disk.funded
    BY <1>0, <1>27, MarkFacts DEF MonitorMarks
  <2> QED
    BY <1>27, <2>1 DEF IInv, RecordsCommitment, FirstCall, LegInv, OverInv,
                       Committed, MonitorMarks
<1>40. CASE MonitorLists
  BY <1>40, <1>c DEF MonitorLists
<1>28. CASE WalletBroadcasts
  <2>1. Committed /\ Committed' /\ wallet' + broadcasts' = wallet + broadcasts
    BY <1>0, <1>28 DEF WalletBroadcasts, Committed
  <2> QED
    BY <1>28, <2>1 DEF IInv, RecordsCommitment, FirstCall, LegInv, OverInv,
                       WalletBroadcasts
<1>29. CASE WalletFails
  <2>1. Committed /\ wallet' + broadcasts' <= wallet + broadcasts
    BY <1>0, <1>29 DEF WalletFails, Committed
  <2> QED
    BY <1>0, <1>29, <2>1 DEF IInv, RecordsCommitment, FirstCall, LegInv, OverInv,
                       WalletFails
<1>30. CASE CatchUp
  BY <1>30, <1>c DEF CatchUp
<1>31. CASE Block
  <2>1. height' >= height
    BY <1>0, <1>31 DEF Block
  <2>2. Timeout + Params.refund_confirm_blocks \in Nat /\ height' \in Nat
    BY <1>0, <1>31, ReverseProviderAssumption, TimelockAssumption
       DEF Block, Timeout, onchain_timeout, TimelockParams, U32
  <2> QED
    BY <1>0, <1>31, <2>1, <2>2
       DEF IInv, RecordsCommitment, FirstCall, LegInv, OverInv, Committed, Block
<1>32. CASE MineFunding
  BY <1>32, <1>c DEF MineFunding
<1>33. CASE MineSpend
  BY <1>33, <1>c DEF MineSpend
<1>34. CASE Reorg
  BY <1>34, <1>c DEF Reorg
<1>35. CASE Evict
  BY <1>35, <1>c DEF Evict
<1>36. CASE ClientPays
  BY <1>36 DEF IInv, RecordsCommitment, FirstCall, LegInv, OverInv, Committed,
               ClientPays
<1>37. CASE ClientClaims
  BY <1>37, <1>c DEF ClientClaims
<1>38. CASE NodeCancels
  <2>1. required_ln_expiry(Timeout, Params) =
          Timeout + Params.refund_confirm_blocks + Params.ln_hold_expiry_delta
    BY DEF required_ln_expiry
  <2>2. /\ Timeout \in Nat /\ Params.refund_confirm_blocks \in Nat
        /\ Params.ln_hold_expiry_delta \in Nat
    BY ReverseProviderAssumption, TimelockAssumption
       DEF Timeout, onchain_timeout, TimelockParams, U32
  <2>3. pc = "fund" \/ Committed =>
          height >= Timeout + Params.refund_confirm_blocks
    BY <1>0, <1>38, <2>1, <2>2 DEF IInv, LegInv, NodeCancels
  <2> QED
    BY <1>38, <2>3 DEF IInv, RecordsCommitment, FirstCall, LegInv, OverInv,
                       Committed, NodeCancels
<1>39. CASE UNCHANGED vars
  BY <1>39, <1>c DEF vars
<1> QED
  BY <1>1, <1>2, <1>3, <1>4, <1>5, <1>6, <1>7, <1>8, <1>9, <1>10, <1>11,
     <1>12, <1>13, <1>14, <1>15, <1>16, <1>17, <1>18, <1>19, <1>20, <1>21,
     <1>22, <1>23, <1>24, <1>25, <1>26, <1>27, <1>28, <1>29, <1>30, <1>31,
     <1>32, <1>33, <1>34, <1>35, <1>36, <1>37, <1>38, <1>39, <1>40, <1>40
     DEF Next, Driver

\* The invariant holds in every reachable state.
LEMMA Invariant == Spec => []IInv
  BY InvInit, InvStep, PTL DEF Spec

\* At most one HTLC funding is ever asked of the wallet, whatever crashes,
\* lost replies, failed writes and re-entries happen.
THEOREM AtMostOnce == Spec => []FundedAtMostOnce
<1>1. IInv => FundedAtMostOnce
  BY DEF IInv, FirstCall, FundedAtMostOnce
<1> QED
  BY <1>1, Invariant, PTL

\* Whenever a funding may be on the wire, the record on disk keeps the swap
\* at risk, so that a restart drives it.
THEOREM OnRecord == Spec => []FundingIsOnRecord
<1>1. IInv => FundingIsOnRecord
  BY DEF IInv, RecordsCommitment, Committed, FundingIsOnRecord
<1> QED
  BY <1>1, Invariant, PTL

\* The node cannot force-cancel the Lightning leg of a funded swap before the
\* provider's refund window has passed.
THEOREM LegOutlives == Spec => []LightningLegOutlives
<1>1. IInv => LightningLegOutlives
  BY DEF IInv, TypeOK, LegInv, Committed, LightningLegOutlives
<1> QED
  BY <1>1, Invariant, PTL

\* No step changes the state of a terminal record.
LEMMA OverStep ==
  ASSUME IInv, [Next]_vars, is_terminal(disk.state)
  PROVE  disk'.state = disk.state
<1> USE DEF chainVars, lnVars, recVars, runVars
<1>1. pc \in {"done", "down"}
  BY DEF IInv, OverInv
<1>2. pc \notin Fallible
  BY <1>1 DEF Fallible
<1>3. CASE Driver
  BY <1>1, <1>3
     DEF Driver, WaitInvoice, AdoptRecorded, AdoptUnspent, LookAgain,
         RefuseToFund, FundingIntent, CallFundHtlc, FundHtlcOk, FundHtlcErr,
         AwaitLook, AwaitTip, ObserveClaim, WatchOn, Settle, CheckBurial,
         CheckTip, StartRefund, SendRefund, BroadcastError, WatchRefund,
         RefundGivesBack, CancelHoldInvoice, SetTerminal, Restart,
         NothingUnspent
<1>6. CASE MonitorMarks
  BY <1>6, MarkFacts DEF MonitorMarks, IInv, TypeOK
<1>4. CASE Next /\ ~Driver /\ ~MonitorMarks
  BY <1>2, <1>4
     DEF Next, DriverError, Crash, MonitorLists, WalletBroadcasts,
         WalletFails, CatchUp, Block, MineFunding, MineSpend, Reorg, Evict,
         ClientPays, ClientClaims, NodeCancels
<1>5. CASE UNCHANGED vars
  BY <1>5 DEF vars
<1> QED
  BY <1>3, <1>4, <1>5, <1>6

\* A terminal state is never changed: every driver of the swap has ended, a
\* restart leaves it alone and the reorg monitor writes only its marker.
THEOREM OverForGood == Spec => TerminalIsForever
<1>1. IInv /\ [Next]_vars =>
        [is_terminal(disk.state) => disk'.state = disk.state]_vars
  BY OverStep
<1> QED
  BY <1>1, Invariant, PTL DEF Spec, TerminalIsForever

-----------------------------------------------------------------------------
(* The end of a swap.  Two things are assumed of the world and of the      *)
(* configuration: a funding shows itself before the timeout                *)
(* (DoubtEndsInTime) and the reverse window is not empty.                  *)

BuriedAs(s) ==
  /\ depth = FINALITY_DEPTH
  /\ \/ s = "Claimed" /\ spend = "claim" /\ inv = "settled"
     \/ s = "Refunded" /\ spend = "refund"

\* Past the timeout nobody is wrong about whether the HTLC is funded.
DoubtInv ==
  /\ broadcasts > 0 => fund # "none"
  /\ height >= Timeout =>
       /\ pc # "fund" /\ wallet = 0 /\ (lag => broadcasts = 0)
       /\ pc = "awaitTip" => ~Committed

\* The driver waits for burial only of a claim it has settled.
SettledInv == (settled => inv = "settled") /\ (pc = "bury" => settled)

\* A run ends, and the invoice is cancelled, with nothing committed or with
\* the spend that decides the swap buried.
EndInv ==
  /\ pc \in {"cancel", "finish"} => ~Committed \/ BuriedAs(outcome)
  /\ pc = "cancel" => outcome # "Claimed"
  /\ is_terminal(disk.state) => ~Committed \/ BuriedAs(disk.state)
  /\ by = "driver" =>
       /\ pc # "fund"
       /\ ~Committed \/ (spend = "refund" /\ depth = FINALITY_DEPTH)

\* Nothing undoes a buried spend or a settled invoice.
LEMMA BuriedForGood ==
  ASSUME IInv, [Next]_vars, NEW s, BuriedAs(s)
  PROVE  BuriedAs(s)'
<1> USE DEF chainVars, lnVars, recVars, runVars
<1>0. FINALITY_DEPTH \in Nat \ {0}
  BY ReverseProviderAssumption
<1>1. UNCHANGED <<spend, depth>>
  <2>1. CASE UNCHANGED vars
    BY <2>1 DEF vars
  <2>2. CASE Driver
    BY <1>0, <2>2
       DEF BuriedAs, Driver, WaitInvoice, AdoptRecorded, AdoptUnspent,
           LookAgain, RefuseToFund, FundingIntent, CallFundHtlc, FundHtlcOk,
           FundHtlcErr, AwaitLook, AwaitTip, ObserveClaim, WatchOn, Settle,
           CheckBurial, CheckTip, StartRefund, SendRefund, BroadcastError,
           WatchRefund, RefundGivesBack, CancelHoldInvoice, SetTerminal,
           Restart, Broadcast
  <2>3. CASE Block
    BY <1>0, <2>3 DEF BuriedAs, Block
  <2>4. CASE Next /\ ~Driver /\ ~Block
    BY <1>0, <2>4
       DEF BuriedAs, Next, DriverError, Crash, MonitorLists, MonitorMarks,
           WalletBroadcasts,
           WalletFails, CatchUp, MineFunding, MineSpend, Reorg, Evict,
           ClientPays, ClientClaims, NodeCancels
  <2> QED
    BY <2>1, <2>2, <2>3, <2>4
<1>2. inv = "settled" => inv' = "settled"
  <2> SUFFICES ASSUME inv = "settled" PROVE inv' = "settled"
    OBVIOUS
  <2>1. CASE UNCHANGED vars
    BY <2>1 DEF vars
  <2>2. CASE Driver
    BY <2>2
       DEF Driver, WaitInvoice, AdoptRecorded, AdoptUnspent,
           LookAgain, RefuseToFund, FundingIntent, CallFundHtlc, FundHtlcOk,
           FundHtlcErr, AwaitLook, AwaitTip, ObserveClaim, WatchOn, Settle,
           CheckBurial, CheckTip, StartRefund, SendRefund, BroadcastError,
           WatchRefund, RefundGivesBack, CancelHoldInvoice, SetTerminal,
           Restart
  <2>3. CASE Next /\ ~Driver
    BY <2>3
       DEF Next, DriverError, Crash, MonitorLists, MonitorMarks,
       WalletBroadcasts,
           WalletFails, CatchUp, Block, MineFunding, MineSpend, Reorg, Evict,
           ClientPays, ClientClaims, NodeCancels
  <2> QED
    BY <2>1, <2>2, <2>3
<1> QED
  BY <1>1, <1>2 DEF BuriedAs

\* A settled invoice stays settled, and settling is what the flag says.
LEMMA SettledStep ==
  ASSUME SettledInv, [Next]_vars
  PROVE  SettledInv'
<1> USE DEF chainVars, lnVars, recVars, runVars, Return
<1>1. CASE UNCHANGED vars
  BY <1>1 DEF vars, SettledInv
<1>2. CASE Driver
  BY <1>2
     DEF SettledInv, Driver, WaitInvoice, AdoptRecorded, AdoptUnspent,
         LookAgain, RefuseToFund, FundingIntent, CallFundHtlc, FundHtlcOk,
         FundHtlcErr, AwaitLook, AwaitTip, ObserveClaim, WatchOn, Settle,
         CheckBurial, CheckTip, StartRefund, SendRefund, BroadcastError,
         WatchRefund, RefundGivesBack, CancelHoldInvoice, SetTerminal,
         Restart, RetryOrGiveUp, Spawn
<1>3. CASE Next /\ ~Driver
  BY <1>3
     DEF SettledInv, Next, DriverError, Crash, MonitorLists, MonitorMarks,
       WalletBroadcasts,
         WalletFails, CatchUp, Block, MineFunding, MineSpend, Reorg, Evict,
         ClientPays, ClientClaims, NodeCancels, RetryOrGiveUp, Spawn
<1> QED
  BY <1>1, <1>2, <1>3

\* Only SetTerminal makes a record terminal.
LEMMA OnlySetTerminalEnds ==
  ASSUME IInv, [Next]_vars, ~is_terminal(disk.state), is_terminal(disk'.state)
  PROVE  SetTerminal /\ disk' = Ended(mem, outcome)
<1> USE DEF chainVars, lnVars, recVars, runVars
<1>0. mem \in Records /\ disk \in Records
  BY DEF IInv, TypeOK
<1>1. CASE SetTerminal
  BY <1>1 DEF SetTerminal, Put, PutOk, PutFailed
\* Every other step leaves the record, or writes one that is not terminal.
<1>2. CASE Next /\ ~SetTerminal
  <2>1. pc \in Steps => ~is_terminal(mem.state)
    BY DEF IInv, OverInv
  <2>2. Steps = {"wait", "establish", "await", "awaitTip", "watch", "bury",
                 "tip", "refund", "send", "bump", "fund", "funding", "settle",
                 "cancel", "finish"} /\ Fallible \subseteq Steps
    BY DEF Steps, Fallible
  <2>3. \A s \in {"LockupPending", "LockupConfirmed", "InvoicePaid"} :
          ~is_terminal(s) /\ s \in LiveStates \cup TerminalStates
    BY DEF is_terminal, TerminalStates, LiveStates
  <2>4. ASSUME NEW r \in Records, Put(r), ~is_terminal(r.state) PROVE FALSE
    BY <2>4 DEF Put, PutOk, PutFailed
  <2>5. CASE AdoptUnspent \/ FundHtlcOk \/ AwaitLook
    BY <1>0, <2>3, <2>4, <2>5, FundedFacts
       DEF AdoptUnspent, FundHtlcOk, AwaitLook
  <2>6. CASE FundingIntent
    <3> DEFINE m == [mem EXCEPT !.intent = TRUE]
               r == WithState(m, "LockupPending")
    <3>1. m \in Records
      BY <1>0, MarkFacts
    <3>2. r \in Records /\ ~is_terminal(r.state)
      BY <2>3, <3>1, WithStateFacts
    <3> QED
      BY <2>4, <2>6, <3>2 DEF FundingIntent, Put
  <2>7. CASE ObserveClaim
    <3>1. /\ WithState(mem, "InvoicePaid") \in Records
          /\ ~is_terminal(WithState(mem, "InvoicePaid").state)
      BY <1>0, <2>3, WithStateFacts
    <3> QED
      BY <2>4, <2>7, <3>1 DEF ObserveClaim
  <2>8. CASE StartRefund
    <3> DEFINE r == [mem EXCEPT !.ours = TRUE]
    <3>1. r \in Records /\ ~is_terminal(r.state)
      BY <1>0, <2>1, <2>2, <2>8, MarkFacts DEF StartRefund
    <3> QED
      BY <2>4, <2>8, <3>1 DEF StartRefund
  <2>9. CASE DriverError \/ BroadcastError
    <3>1. Counted(mem) \in Records /\ ~is_terminal(Counted(mem).state)
      BY <1>0, <2>1, <2>2, <2>9, CountedFacts DEF DriverError, BroadcastError
    <3> QED
      BY <2>4, <2>9, <3>1 DEF DriverError, BroadcastError
  <2>10. CASE MonitorMarks
    BY <1>0, <2>10, MarkFacts DEF MonitorMarks
  <2>11. CASE Driver /\ ~AdoptUnspent /\ ~FundHtlcOk /\ ~AwaitLook
               /\ ~FundingIntent /\ ~ObserveClaim /\ ~StartRefund
               /\ ~BroadcastError
    BY <1>2, <2>11
       DEF Driver, WaitInvoice, AdoptRecorded, LookAgain, RefuseToFund,
           CallFundHtlc, FundHtlcErr, AwaitTip, WatchOn, Settle, CheckBurial,
           CheckTip, SendRefund, WatchRefund, RefundGivesBack,
           CancelHoldInvoice, Restart
  <2>12. CASE ~Driver /\ ~DriverError /\ ~MonitorMarks
    BY <1>2, <2>12
       DEF Next, Crash, MonitorLists, WalletBroadcasts, WalletFails, CatchUp, Block,
           MineFunding, MineSpend, Reorg, Evict, ClientPays, ClientClaims,
           NodeCancels
  <2> QED
    BY <2>5, <2>6, <2>7, <2>8, <2>9, <2>10, <2>11, <2>12
<1>3. CASE UNCHANGED vars
  BY <1>3 DEF vars
<1> QED
  BY <1>1, <1>2, <1>3

\* Only the driver's own cancellation is the driver's.
LEMMA OnlyDriverCancels ==
  ASSUME [Next]_vars, by # "driver", by' = "driver"
  PROVE  CancelHoldInvoice
<1> USE DEF chainVars, lnVars, recVars, runVars
<1>1. CASE UNCHANGED vars
  BY <1>1 DEF vars
<1>2. CASE Driver
  BY <1>2
     DEF Driver, WaitInvoice, AdoptRecorded, AdoptUnspent,
         LookAgain, RefuseToFund, FundingIntent, CallFundHtlc, FundHtlcOk,
         FundHtlcErr, AwaitLook, AwaitTip, ObserveClaim, WatchOn, Settle,
         CheckBurial, CheckTip, StartRefund, SendRefund, BroadcastError,
         WatchRefund, RefundGivesBack, SetTerminal, Restart
<1>3. CASE Next /\ ~Driver
  BY <1>3
     DEF Next, DriverError, Crash, MonitorLists, MonitorMarks,
       WalletBroadcasts,
         WalletFails, CatchUp, Block, MineFunding, MineSpend, Reorg, Evict,
         ClientPays, ClientClaims, NodeCancels
<1> QED
  BY <1>1, <1>2, <1>3

\* A driver is about to fund only an invoice that was accepted.
LEMMA FundingNeedsAcceptance ==
  ASSUME [Next]_vars, pc # "fund", pc' = "fund"
  PROVE  inv = "accepted"
<1> USE DEF chainVars, lnVars, recVars, runVars
<1>1. CASE UNCHANGED vars
  BY <1>1 DEF vars
<1>2. CASE Driver
  BY <1>2
     DEF Driver, WaitInvoice, AdoptRecorded, AdoptUnspent,
         LookAgain, RefuseToFund, FundingIntent, CallFundHtlc, FundHtlcOk,
         FundHtlcErr, AwaitLook, AwaitTip, ObserveClaim, WatchOn, Settle,
         CheckBurial, CheckTip, StartRefund, SendRefund, BroadcastError,
         WatchRefund, RefundGivesBack, CancelHoldInvoice, SetTerminal,
         Restart, RetryOrGiveUp, Spawn, LegsAreOrdered
<1>3. CASE Next /\ ~Driver
  BY <1>3
     DEF Next, DriverError, Crash, MonitorLists, MonitorMarks,
       WalletBroadcasts,
         WalletFails, CatchUp, Block, MineFunding, MineSpend, Reorg, Evict,
         ClientPays, ClientClaims, NodeCancels, RetryOrGiveUp, Spawn
<1> QED
  BY <1>1, <1>2, <1>3

\* Doubt about the funding ends before the timeout and does not come back.
LEMMA DoubtStep ==
  ASSUME DoubtEndsInTime, reverse_window(Params) > 0,
         IInv, DoubtInv, [Next]_vars
  PROVE  DoubtInv'
<1> USE DEF chainVars, lnVars, recVars, runVars, Return
<1>0. /\ height \in Nat /\ wallet \in Nat /\ broadcasts \in Nat
      /\ Timeout \in Nat /\ MaxHeight \in Nat
  BY ReverseProviderAssumption, TimelockAssumption
     DEF IInv, TypeOK, Timeout, onchain_timeout, TimelockParams, U32
\* The funding gate refuses from the timeout on.
<1>g. LegsAreOrdered => height < Timeout
  <2>1. reverse_window(Params) \in Nat
    BY ReverseProviderAssumption, TimelockAssumption
       DEF reverse_window, TimelockParams, U32
  <2> QED
    BY <1>0, <2>1 DEF LegsAreOrdered, check_reverse_before_fund, SaturatingSub
<1>1. CASE UNCHANGED vars
  BY <1>1 DEF vars, DoubtInv, Committed
<1>2. CASE FundingIntent
  <2>1. height' = height /\ height < Timeout /\ Timeout' = Timeout
    BY <1>2, <1>g DEF FundingIntent, Timeout
  <2>2. fund' = fund /\ broadcasts' = broadcasts
    BY <1>2 DEF FundingIntent
  <2> QED
    BY <1>0, <2>1, <2>2 DEF DoubtInv
<1>3. CASE CallFundHtlc
  BY <1>0, <1>3 DEF CallFundHtlc, DoubtInv, Committed
<1>4. CASE AwaitLook
  BY <1>0, <1>4 DEF AwaitLook, DoubtInv, Committed
<1>5. CASE Driver /\ ~FundingIntent /\ ~CallFundHtlc /\ ~AwaitLook
  BY <1>5
     DEF DoubtInv, Committed, Driver, WaitInvoice, AdoptRecorded,
         AdoptUnspent, LookAgain, RefuseToFund, FundHtlcOk, FundHtlcErr,
         AwaitTip, ObserveClaim, WatchOn, Settle,
         CheckBurial, CheckTip, StartRefund, SendRefund, BroadcastError,
         WatchRefund, RefundGivesBack, CancelHoldInvoice, SetTerminal,
         Restart, RetryOrGiveUp, Spawn
<1>6. CASE Block
  <2>1. height' >= Timeout => height >= Timeout \/ ~InDoubt
    BY <1>0, <1>6 DEF Block
  <2> QED
    BY <1>0, <1>6, <2>1 DEF Block, InDoubt, DoubtInv, Committed
<1>7. CASE WalletBroadcasts
  BY <1>0, <1>7 DEF WalletBroadcasts, DoubtInv, Committed
<1>8. CASE WalletFails
  BY <1>0, <1>8 DEF WalletFails, DoubtInv, Committed
<1>9. CASE Reorg
  BY <1>0, <1>9 DEF Reorg, InTime, DoubtInv, Committed
<1>10. CASE DriverError \/ Crash
  BY <1>10 DEF DriverError, Crash, RetryOrGiveUp, Spawn, DoubtInv, Committed
<1>11. CASE \/ MonitorLists \/ MonitorMarks \/ CatchUp \/ MineFunding \/ MineSpend \/ Evict
            \/ ClientPays \/ ClientClaims \/ NodeCancels
  BY <1>11
     DEF MonitorLists, MonitorMarks, CatchUp, MineFunding, MineSpend, Evict, ClientPays,
         ClientClaims, NodeCancels, DoubtInv, Committed
<1> QED
  BY <1>1, <1>2, <1>3, <1>4, <1>5, <1>6, <1>7, <1>8, <1>9, <1>10, <1>11
     DEF Next

\* Every way a run ends keeps EndInv.
LEMMA EndStep ==
  ASSUME IInv, DoubtInv, SettledInv, EndInv, [Next]_vars
  PROVE  EndInv'
<1> USE DEF chainVars, lnVars, recVars, runVars, Return
<1>0. /\ height \in Nat /\ wallet \in Nat /\ broadcasts \in Nat
      /\ depth \in 0..FINALITY_DEPTH /\ FINALITY_DEPTH \in Nat \ {0}
      /\ mem \in Records /\ disk \in Records /\ outcome \in TerminalStates
  BY ReverseProviderAssumption DEF IInv, TypeOK
<1>b. \A s : BuriedAs(s) => BuriedAs(s)'
  BY BuriedForGood
\* Nothing is committed but by the one call of a driver in "fund".
<1>k. Committed' => Committed \/ pc = "fund"
  <2>1. CASE UNCHANGED vars
    BY <2>1 DEF vars, Committed
  <2>2. CASE Driver
    BY <2>2
       DEF Committed, Driver, WaitInvoice, AdoptRecorded, AdoptUnspent,
           LookAgain, RefuseToFund, FundingIntent, CallFundHtlc, FundHtlcOk,
           FundHtlcErr, AwaitLook, AwaitTip, ObserveClaim, WatchOn, Settle,
           CheckBurial, CheckTip, StartRefund, SendRefund, BroadcastError,
           WatchRefund, RefundGivesBack, CancelHoldInvoice, SetTerminal,
           Restart
  <2>3. CASE WalletBroadcasts \/ WalletFails
    BY <1>0, <2>3 DEF WalletBroadcasts, WalletFails, Committed
  <2>4. CASE Next /\ ~Driver /\ ~WalletBroadcasts /\ ~WalletFails
    BY <2>4
       DEF Committed, Next, DriverError, Crash, MonitorLists, MonitorMarks,
           CatchUp, Block,
           MineFunding, MineSpend, Reorg, Evict, ClientPays, ClientClaims,
           NodeCancels
  <2> QED
    BY <2>1, <2>2, <2>3, <2>4
\* A run comes to an end with nothing committed or the deciding spend buried.
<1>1. pc' \in {"cancel", "finish"} => ~Committed' \/ BuriedAs(outcome)'
  <2> SUFFICES ASSUME pc' \in {"cancel", "finish"}
               PROVE  ~Committed' \/ BuriedAs(outcome)'
    OBVIOUS
  <2>1. CASE pc \in {"wait", "establish"} /\ Driver
    BY <1>k, <2>1
       DEF IInv, RecordsCommitment, Driver, WaitInvoice, AdoptRecorded,
           AdoptUnspent, LookAgain, RefuseToFund, FundingIntent, CallFundHtlc,
           FundHtlcOk, FundHtlcErr, AwaitLook, AwaitTip, ObserveClaim, WatchOn,
           Settle, CheckBurial, CheckTip, StartRefund, SendRefund,
           BroadcastError, WatchRefund, RefundGivesBack, CancelHoldInvoice,
           SetTerminal, Restart, NothingUnspent, RetryOrGiveUp, GivesUp, Spawn
  <2>2. CASE AwaitTip
    <3>1. pc = "awaitTip" /\ height >= Timeout
      BY <2>2 DEF AwaitTip
    <3> QED
      BY <1>k, <3>1 DEF DoubtInv
  <2>3. CASE CheckBurial
    <3>1. /\ spend = "claim" /\ depth >= FINALITY_DEPTH /\ settled
          /\ outcome' = "Claimed" /\ UNCHANGED <<spend, depth, inv>>
      BY <2>3 DEF CheckBurial, Visible, SettledInv
    <3>2. depth = FINALITY_DEPTH
      BY <1>0, <3>1
    <3> QED
      BY <3>1, <3>2 DEF SettledInv, BuriedAs
  <2>4. CASE WatchRefund
    BY <1>0, <2>4 DEF WatchRefund, Visible, BuriedAs
  <2>5. CASE DriverError \/ BroadcastError
    <3>1. mem' = Counted(mem) /\ pc \notin {"fund", "cancel", "finish"}
            /\ \E t \in BOOLEAN : RetryOrGiveUp(t)
      BY <2>5 DEF DriverError, BroadcastError, Put, PutOk, PutFailed, Fallible
    <3>2. ~funds_at_risk(Counted(mem))
      BY <3>1 DEF RetryOrGiveUp, GivesUp, Spawn
    <3>3. ~mem.intent /\ ~mem.funded
      BY <1>0, <3>2, CountedFacts DEF funds_at_risk
    <3> QED
      BY <1>k, <3>1, <3>3 DEF IInv, RecordsCommitment
  <2>6. CASE pc \in {"cancel", "finish"} /\ outcome' = outcome
    BY <1>b, <1>k, <2>6 DEF EndInv
  <2>7. \/ pc \in {"wait", "establish"} /\ Driver
        \/ AwaitTip \/ CheckBurial \/ WatchRefund
        \/ DriverError \/ BroadcastError
        \/ pc \in {"cancel", "finish"} /\ outcome' = outcome
    <3>1. CASE UNCHANGED vars
      BY <3>1 DEF vars
    <3>2. CASE \/ WaitInvoice \/ AdoptRecorded \/ AdoptUnspent \/ LookAgain
               \/ RefuseToFund \/ FundingIntent
      BY <3>2
         DEF Driver, WaitInvoice, AdoptRecorded, AdoptUnspent, LookAgain,
             RefuseToFund, FundingIntent, NothingUnspent
    <3>4. CASE \/ CallFundHtlc \/ FundHtlcOk \/ FundHtlcErr \/ AwaitLook
               \/ ObserveClaim \/ WatchOn \/ CheckTip \/ StartRefund
               \/ SendRefund \/ RefundGivesBack \/ Restart
      BY <3>4
         DEF CallFundHtlc, FundHtlcOk, FundHtlcErr, AwaitLook, ObserveClaim,
             WatchOn, CheckTip, StartRefund, SendRefund, RefundGivesBack,
             Restart, Spawn
    <3>5. CASE Settle
      BY <3>5 DEF Settle
    <3>6. CASE CancelHoldInvoice \/ SetTerminal
      BY <3>6 DEF CancelHoldInvoice, SetTerminal
    <3>3. CASE Next /\ ~Driver
      BY <3>3
         DEF Next, Crash, MonitorLists, MonitorMarks, WalletBroadcasts,
             WalletFails, CatchUp,
             Block, MineFunding, MineSpend, Reorg, Evict, ClientPays,
             ClientClaims, NodeCancels
    <3> QED
      BY <3>1, <3>2, <3>3, <3>4, <3>5, <3>6 DEF Driver
  <2> QED
    BY <2>1, <2>2, <2>3, <2>4, <2>5, <2>6, <2>7
<1>2. (pc = "cancel" => outcome # "Claimed")'
  <2>1. CASE UNCHANGED vars
    BY <2>1 DEF vars, EndInv
  <2>2. CASE Driver
    BY <2>2
       DEF EndInv, Driver, WaitInvoice, AdoptRecorded, AdoptUnspent, LookAgain,
           RefuseToFund, FundingIntent, CallFundHtlc, FundHtlcOk, FundHtlcErr,
           AwaitLook, AwaitTip, ObserveClaim, WatchOn, Settle,
           CheckBurial, CheckTip, StartRefund, SendRefund, BroadcastError,
           WatchRefund, RefundGivesBack, CancelHoldInvoice, SetTerminal,
           Restart, RetryOrGiveUp, Spawn
  <2>3. CASE Next /\ ~Driver
    BY <2>3
       DEF EndInv, Next, DriverError, Crash, MonitorLists, MonitorMarks,
       WalletBroadcasts,
           WalletFails, CatchUp, Block, MineFunding, MineSpend, Reorg, Evict,
           ClientPays, ClientClaims, NodeCancels, RetryOrGiveUp, Spawn
  <2> QED
    BY <2>1, <2>2, <2>3
\* Only SetTerminal makes a record terminal.
<1>3. (is_terminal(disk.state) => ~Committed \/ BuriedAs(disk.state))'
  <2> SUFFICES ASSUME is_terminal(disk'.state)
               PROVE  ~Committed' \/ BuriedAs(disk.state)'
    BY DEF is_terminal
  <2>1. CASE is_terminal(disk.state)
    <3>1. disk'.state = disk.state /\ pc # "fund"
      BY <2>1, OverStep DEF IInv, OverInv
    <3> QED
      BY <1>b, <1>k, <2>1, <3>1 DEF EndInv, BuriedAs
  <2>2. CASE ~is_terminal(disk.state)
    <3>1. SetTerminal /\ disk' = Ended(mem, outcome)
      BY <2>2, OnlySetTerminalEnds
    <3>2. disk'.state = outcome /\ pc = "finish"
      BY <1>0, <3>1, EndedFacts DEF SetTerminal
    <3> QED
      BY <1>b, <1>k, <3>2 DEF EndInv, BuriedAs
  <2> QED
    BY <2>1, <2>2
<1>4. (by = "driver" =>
         /\ pc # "fund"
         /\ ~Committed \/ (spend = "refund" /\ depth = FINALITY_DEPTH))'
  <2>1. CASE by = "driver"
    <3>1. pc' # "fund"
      BY <2>1, FundingNeedsAcceptance DEF IInv, LegInv, EndInv
    <3>2. \/ ~Committed'
          \/ spend = "refund" /\ depth = FINALITY_DEPTH
      BY <1>k, <2>1 DEF EndInv
    <3>3. spend = "refund" /\ depth = FINALITY_DEPTH => BuriedAs("Refunded")
      BY DEF BuriedAs
    <3>4. BuriedAs("Refunded")' => (spend = "refund" /\ depth = FINALITY_DEPTH)'
      BY DEF BuriedAs
    <3> QED
      BY <1>b, <3>1, <3>2, <3>3, <3>4
  <2>2. CASE by # "driver" /\ by' = "driver"
    <3>1. CancelHoldInvoice
      BY <2>2, OnlyDriverCancels
    <3>2. ~Committed \/ BuriedAs(outcome)
      BY <3>1 DEF CancelHoldInvoice, EndInv
    <3>3. outcome # "Claimed" /\ pc' = "finish" /\ pc = "cancel"
            /\ UNCHANGED chainVars
      BY <3>1 DEF CancelHoldInvoice, EndInv
    <3> QED
      BY <1>k, <3>2, <3>3 DEF BuriedAs
  <2> QED
    BY <2>1, <2>2
<1> QED
  BY <1>1, <1>2, <1>3, <1>4 DEF EndInv

\* The second stage holds in every reachable state.
LEMMA EndInvariant ==
  ASSUME DoubtEndsInTime, reverse_window(Params) > 0
  PROVE  Spec => [](IInv /\ DoubtInv /\ SettledInv /\ EndInv)
<1>1. Init => DoubtInv /\ SettledInv /\ EndInv
  BY DEF Init, DoubtInv, SettledInv, EndInv, Committed, NewRecord, is_terminal,
         TerminalStates
<1>2. DoubtInv /\ SettledInv /\ EndInv /\ IInv /\ [Next]_vars =>
        DoubtInv' /\ SettledInv' /\ EndInv'
  BY DoubtStep, SettledStep, EndStep
<1> QED
  BY <1>1, <1>2, InvInit, InvStep, PTL DEF Spec

\* A terminal record of a funded swap means that one spend of its HTLC is
\* buried, and says which: with a settled invoice if it is the claim.
THEOREM EndIsBuried ==
  ASSUME DoubtEndsInTime, reverse_window(Params) > 0
  PROVE  Spec => []TerminalMeansBuried
<1>1. IInv /\ EndInv => TerminalMeansBuried
  BY DEF IInv, TypeOK, EndInv, BuriedAs, Committed, TerminalMeansBuried
<1> QED
  BY <1>1, EndInvariant, PTL

\* The driver gives the client's payment back only with nothing funded or
\* with its own refund buried.
THEOREM CancelIsSafe ==
  ASSUME DoubtEndsInTime, reverse_window(Params) > 0
  PROVE  Spec => []NeverCancelsWhileExposed
<1>1. EndInv => NeverCancelsWhileExposed
  BY DEF EndInv, Committed, NeverCancelsWhileExposed
<1> QED
  BY <1>1, EndInvariant, PTL
-----------------------------------------------------------------------------
(* The driver implements AtomicSwap.                                       *)

\* There is a spend only of a funding, and an invoice is settled only for a
\* claim of it, which no refund of the same driver's has replaced.
SpendInv ==
  /\ broadcasts = 0 => fund = "none"
  /\ fund = "none" => spend = "none"
  /\ spend = "none" => depth = 0
  /\ pc = "settle" => broadcasts > 0 /\ spend # "refund"
  /\ inv = "settled" => broadcasts > 0

\* A spend replaces another only while neither is mined.
LEMMA SpendStep ==
  ASSUME IInv, SpendInv, [Next]_vars
  PROVE  SpendInv'
<1> USE DEF chainVars, lnVars, recVars, runVars, Return
<1>0. wallet \in Nat /\ broadcasts \in Nat
  BY DEF IInv, TypeOK
<1>1. CASE UNCHANGED vars
  BY <1>1 DEF vars, SpendInv
<1>2. CASE Driver
  BY <1>0, <1>2
     DEF SpendInv, Driver, WaitInvoice, AdoptRecorded, AdoptUnspent, LookAgain,
         RefuseToFund, FundingIntent, CallFundHtlc, FundHtlcOk, FundHtlcErr,
         AwaitLook, AwaitTip, ObserveClaim, Visible, WatchOn, Settle,
         CheckBurial, CheckTip, StartRefund, SendRefund, BroadcastError,
         WatchRefund, RefundGivesBack, CancelHoldInvoice, SetTerminal,
         Restart, RetryOrGiveUp, Spawn, Broadcast
<1>3. CASE WalletBroadcasts
  BY <1>0, <1>3 DEF WalletBroadcasts, SpendInv
<1>4. CASE \/ Block \/ MineFunding \/ MineSpend \/ Reorg \/ Evict
           \/ ClientClaims
  <2>1. depth \in Nat
    BY ReverseProviderAssumption DEF IInv, TypeOK
  <2> QED
    BY <1>4, <2>1
       DEF SpendInv, Block, MineFunding, MineSpend, Reorg, Evict, ClientClaims
<1>5. CASE \/ DriverError \/ Crash \/ MonitorLists \/ MonitorMarks
           \/ WalletFails \/ CatchUp \/ ClientPays \/ NodeCancels
  BY <1>5
     DEF SpendInv, DriverError, Crash, MonitorLists, MonitorMarks, WalletFails,
         CatchUp, ClientPays, NodeCancels, RetryOrGiveUp, Spawn
<1> QED
  BY <1>1, <1>2, <1>3, <1>4, <1>5 DEF Next

\* Steps that leave the HTLC's spends, their number and the invoice alone
\* change neither leg.
LEMMA QuietStep ==
  ASSUME UNCHANGED <<broadcasts, spend, depth, inv, by>>
  PROVE  UNCHANGED Legs!legs
  BY DEF Legs!legs, given, got

\* Every step moves the legs as AtomicSwap allows, or not at all.
LEMMA LegsStep ==
  ASSUME IInv, DoubtInv, EndInv, SpendInv, [Next]_vars
  PROVE  [Legs!Next]_(Legs!legs)
<1> USE DEF chainVars, lnVars
<1>0. /\ wallet \in Nat /\ broadcasts \in {0, 1} /\ height \in Nat
      /\ wallet + broadcasts <= 1
      /\ FINALITY_DEPTH \in Nat \ {0} /\ depth \in 0..FINALITY_DEPTH
      /\ inv \in {"open", "accepted", "settled", "cancelled"}
      /\ by \in {"none", "driver", "node"}
      /\ spend \in {"none", "claim", "refund"}
  BY ReverseProviderAssumption DEF IInv, TypeOK, FirstCall
<1>1. CASE UNCHANGED vars
  BY <1>1, QuietStep DEF vars
<1>2. CASE WalletBroadcasts
  <2>1. broadcasts = 0 /\ depth = 0 /\ broadcasts' = 1 /\ wallet > 0
          /\ UNCHANGED <<spend, depth, inv, by>>
    BY <1>0, <1>2 DEF WalletBroadcasts, SpendInv
  \* A request still at the wallet: before the timeout, and nothing buried.
  <2>2. by # "driver"
    BY <1>0, <2>1 DEF EndInv, Committed
  <2>3. by # "node"
    <3>1. height < Timeout
      BY <1>0, <2>1, ReverseProviderAssumption, TimelockAssumption
         DEF DoubtInv, Timeout, onchain_timeout, TimelockParams, U32
    <3>2. Timeout \in Nat /\ Params.refund_confirm_blocks \in Nat
      BY ReverseProviderAssumption, TimelockAssumption
         DEF Timeout, onchain_timeout, TimelockParams, U32
    <3> QED
      BY <1>0, <2>1, <3>1, <3>2 DEF IInv, LegInv, Committed
  <2>4. inv \in {"open", "accepted"}
    BY <1>0, <2>1, <2>2, <2>3 DEF IInv, LegInv, SpendInv
  <2>5. given = "none" /\ given' = "locked"
    BY <1>0, <2>1 DEF given
  <2>6. got = "pending" /\ got' = "pending"
    BY <2>1, <2>4 DEF got
  <2> QED
    BY <2>5, <2>6 DEF Legs!Next, Legs!Lock
<1>3. CASE Block \/ MineSpend \/ Reorg
  <2>1. got' = got
    BY <1>3 DEF Block, MineSpend, Reorg, got
  <2>2. CASE depth' = FINALITY_DEPTH /\ depth # FINALITY_DEPTH
    <3>1. spend' = spend /\ spend # "none" /\ broadcasts = 1
            /\ broadcasts' = 1 /\ depth < FINALITY_DEPTH
      BY <1>0, <1>3, <2>2 DEF Block, MineSpend, Reorg, SpendInv
    <3>2. given = "locked" /\ given' \in {"gone", "back"}
      BY <1>0, <2>2, <3>1 DEF given
    <3> QED
      BY <2>1, <3>2 DEF Legs!Next, Legs!Give, Legs!Return
  <2>3. CASE ~(depth' = FINALITY_DEPTH /\ depth # FINALITY_DEPTH)
    <3>1. /\ UNCHANGED <<broadcasts, spend>>
          /\ depth' = depth \/ (depth < FINALITY_DEPTH /\ depth' < FINALITY_DEPTH)
      BY <1>0, <1>3, <2>3 DEF Block, MineSpend, Reorg, Fault
    <3>2. given' = given
      BY <1>0, <3>1 DEF given
    <3> QED
      BY <2>1, <3>2 DEF Legs!legs
  <2> QED
    BY <2>2, <2>3
\* An unconfirmed spend is replaced: the HTLC stays locked.
<1>4. CASE Evict \/ ClientClaims \/ SendRefund \/ WatchRefund
  <2>1. UNCHANGED <<broadcasts, depth, inv, by>>
          /\ (spend' = spend \/ depth = 0)
    BY <1>4 DEF Evict, ClientClaims, SendRefund, WatchRefund, Broadcast
  <2>2. given' = given /\ got' = got
    BY <1>0, <2>1 DEF given, got
  <2> QED
    BY <2>2 DEF Legs!legs
<1>5. CASE Settle
  <2>1. UNCHANGED <<broadcasts, spend, depth, by>> /\ broadcasts = 1
          /\ spend # "refund"
          /\ (inv' = inv \/ (inv = "accepted" /\ inv' = "settled"))
    BY <1>0, <1>5 DEF Settle, SpendInv
  <2>2. given' = given /\ given \in {"locked", "gone"}
    <3>1. depth < FINALITY_DEPTH \/ (depth = FINALITY_DEPTH /\ spend = "claim")
      BY <1>0, <2>1 DEF SpendInv
    <3> QED
      BY <1>0, <2>1, <3>1 DEF given
  <2>3. got' = got \/ (got = "pending" /\ got' = "taken")
    BY <2>1 DEF got
  <2> QED
    BY <2>2, <2>3 DEF Legs!legs, Legs!Next, Legs!Take
<1>6. CASE CancelHoldInvoice
  <2>1. UNCHANGED <<broadcasts, spend, depth>>
    BY <1>6 DEF CancelHoldInvoice
  <2>2. given' = given /\ given \in {"none", "back"}
    <3>1. ~Committed \/ (depth = FINALITY_DEPTH /\ spend = "refund")
      BY <1>6 DEF CancelHoldInvoice, EndInv, BuriedAs
    <3>2. broadcasts = 0
            \/ (broadcasts = 1 /\ depth = FINALITY_DEPTH /\ spend = "refund")
      BY <1>0, <3>1 DEF Committed
    <3> QED
      BY <1>0, <2>1, <3>2 DEF given
  <2>3. got' = got \/ (got = "pending" /\ got' = "waived")
    BY <1>6 DEF CancelHoldInvoice, got
  <2> QED
    BY <2>2, <2>3 DEF Legs!legs, Legs!Next, Legs!Waive
<1>7. CASE NodeCancels
  <2>1. given' = given
    BY <1>7 DEF NodeCancels, given
  <2>2. got = "pending" /\ got' = "lapsed"
    BY <1>7 DEF NodeCancels, got
  <2> QED
    BY <2>1, <2>2 DEF Legs!Next, Legs!Lapse
<1>8. CASE ClientPays
  <2>1. given' = given /\ got' = got
    BY <1>8 DEF ClientPays, given, got
  <2> QED
    BY <2>1 DEF Legs!legs
<1>9. CASE Driver /\ ~SendRefund /\ ~WatchRefund /\ ~Settle
             /\ ~CancelHoldInvoice
  <2>1. UNCHANGED <<broadcasts, spend, depth, inv, by>>
    BY <1>9
       DEF Driver, WaitInvoice, AdoptRecorded, AdoptUnspent, LookAgain,
           RefuseToFund, FundingIntent, CallFundHtlc, FundHtlcOk, FundHtlcErr,
           AwaitLook, AwaitTip, ObserveClaim, WatchOn, CheckBurial, CheckTip,
           StartRefund, BroadcastError, RefundGivesBack, SetTerminal, Restart
  <2> QED
    BY <2>1, QuietStep
<1>10. CASE \/ DriverError \/ Crash \/ MonitorLists \/ MonitorMarks
            \/ WalletFails \/ CatchUp \/ MineFunding
  <2>1. UNCHANGED <<broadcasts, spend, depth, inv, by>>
    BY <1>10
       DEF DriverError, Crash, MonitorLists, MonitorMarks, WalletFails,
           CatchUp, MineFunding
  <2> QED
    BY <2>1, QuietStep
<1> QED
  BY <1>1, <1>2, <1>3, <1>4, <1>5, <1>6, <1>7, <1>8, <1>9, <1>10 DEF Next

\* Whatever crashes, errors and reorgs happen, the provider gives the HTLC
\* once, takes the payment only with the HTLC out, and returns the payment
\* only with nothing out or its coins back.
THEOREM SwapsAtomically ==
  ASSUME DoubtEndsInTime, reverse_window(Params) > 0
  PROVE  Spec => ImplementsAtomicSwap
<1>1. Init => Legs!Init
  BY DEF Init, Legs!Init, given, got
<1>2. Init => SpendInv
  BY DEF Init, SpendInv
<1>3. IInv /\ SpendInv /\ [Next]_vars => SpendInv'
  BY SpendStep
<1>4. IInv /\ DoubtInv /\ EndInv /\ SpendInv /\ [Next]_vars =>
        [Legs!Next]_(Legs!legs)
  BY LegsStep
<1> QED
  BY <1>1, <1>2, <1>3, <1>4, EndInvariant, PTL
     DEF Spec, ImplementsAtomicSwap, Legs!Spec
=============================================================================
