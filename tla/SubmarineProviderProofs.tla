----------------------- MODULE SubmarineProviderProofs -----------------------
(***************************************************************************)
(* Proofs about SubmarineProvider for every configuration, every number of *)
(* faults and every clock.                                                 *)
(***************************************************************************)
EXTENDS SubmarineProvider, TLAPS

(* What the helpers return.                                                *)

\* Writing a live state leaves a record of a live swap with its promises.
LEMMA StateFacts ==
  ASSUME NEW r \in Records, NEW s \in LiveStates \cup TerminalStates
  PROVE  /\ [r EXCEPT !.state = s] \in Records
         /\ [r EXCEPT !.state = s].state = s
         /\ [r EXCEPT !.state = s].funded = r.funded
         /\ [r EXCEPT !.state = s].started = r.started
         /\ [r EXCEPT !.state = s].ours = r.ours
  BY DEF Records

\* The markers a driver writes.
LEMMA MarkFacts ==
  ASSUME NEW r \in Records
  PROVE  /\ [r EXCEPT !.ours = TRUE] \in Records
         /\ [r EXCEPT !.ours = TRUE].state = r.state
         /\ [r EXCEPT !.ours = TRUE].funded = r.funded
         /\ [r EXCEPT !.ours = TRUE].started = r.started
         /\ [r EXCEPT !.funded = TRUE, !.state = "LockupConfirmed"] \in Records
         /\ [r EXCEPT !.funded = TRUE, !.state = "LockupConfirmed"].funded
         /\ [r EXCEPT !.funded = TRUE, !.state = "LockupConfirmed"].state
              = "LockupConfirmed"
         /\ [r EXCEPT !.funded = TRUE, !.state = "LockupConfirmed"].started
              = r.started
  BY DEF Records, LiveStates

\* The record the payment marker is written in.
LEMMA StartedFacts ==
  ASSUME mem \in Records
  PROVE  /\ Started \in Records /\ Started.started
         /\ Started.funded = mem.funded /\ Started.state = "InvoicePending"
  BY DEF Started, Records, LiveStates

\* Live states are not terminal.
LEMMA LiveFacts ==
  /\ \A s \in LiveStates : ~is_terminal(s)
  /\ {"LockupConfirmed", "InvoicePending", "InvoicePaid"} \subseteq LiveStates
  /\ {"Claimed", "Expired", "Failed", "Lost"} = TerminalStates
  BY DEF LiveStates, TerminalStates, is_terminal

\* The budget a payment may run for, when there is one.
LEMMA BudgetFacts ==
  ASSUME height \in Nat
  PROVE  /\ Budget \in Nat
         /\ Budget > 0 =>
              height + Budget + Params.min_claim_window_blocks = Timeout
  <1>1. /\ Params.min_claim_window_blocks \in Nat
        /\ Params.htlc_timeout_blocks \in Nat
    BY SubmarineProviderAssumption, TimelockAssumption DEF TimelockParams, U32
  <1> QED
    BY <1>1 DEF Budget, submarine_cltv_budget, SaturatingSub, Timeout,
                onchain_timeout

-----------------------------------------------------------------------------
(* Types.                                                                  *)

\* The first state is well typed.
LEMMA TypeInit == Init => TypeOK
<1> SUFFICES ASSUME Init PROVE TypeOK
  OBVIOUS
<1>1. NewRecord \in Records
  BY DEF NewRecord, Records, LiveStates
<1>2. Params.required_confirmations \in Nat
  BY SubmarineProviderAssumption, TimelockAssumption DEF TimelockParams, U32
<1>3. pc = "start" /\ pc \in Steps
  BY DEF Init, Steps, Fallible
<1>4. outcome \in TerminalStates
  BY LiveFacts DEF Init
<1>5. height \in 0..MaxHeight /\ conf \in 0..Required
      /\ depth \in 0..FINALITY_DEPTH /\ faults \in 0..MaxFaults
  BY <1>2, SubmarineProviderAssumption DEF Init, Required
<1>6. mem \in Records /\ disk \in Records /\ resume \in Records
  BY <1>1 DEF Init
<1> QED
  BY <1>3, <1>4, <1>5, <1>6 DEF Init, TypeOK

\* One step of anybody keeps every type.
LEMMA TypeStep == TypeOK /\ [Next]_vars => TypeOK'
<1> SUFFICES ASSUME TypeOK, [Next]_vars PROVE TypeOK'
  OBVIOUS
<1> USE DEF chainVars, lnVars, recVars
<1>0. /\ mem \in Records /\ disk \in Records /\ resume \in Records
      /\ height \in Nat /\ Required \in Nat /\ faults \in Nat
  BY SubmarineProviderAssumption, TimelockAssumption
     DEF TypeOK, TimelockParams, U32, Required
<1>f. ASSUME Fault \/ UNCHANGED faults PROVE faults' \in 0..MaxFaults
  BY <1>f, SubmarineProviderAssumption DEF TypeOK, Fault
<1>p. ASSUME NEW r \in Records, Put(r)
      PROVE  /\ mem' \in Records /\ disk' \in Records
             /\ faults' \in 0..MaxFaults
  BY <1>0, <1>f, <1>p DEF Put, PutOk, PutFailed
<1>s. /\ Fallible \subseteq Steps
      /\ {"start", "wait", "waitTip", "guard", "guardSpend", "guardPay",
          "status", "window", "claim", "send", "bump", "intent", "pay",
          "paying", "finish"} \subseteq Steps
  BY DEF Steps, Fallible
\* The driver's own variables after a step that ends in a well-typed way.
<1> DEFINE Control == /\ pc' \in Steps \cup {"done", "down"}
                      /\ resume' \in Records /\ outcome' \in TerminalStates
                      /\ mem' \in Records /\ disk' \in Records
                      /\ faults' \in 0..MaxFaults
           Quiet == pc' \notin {"intent", "pay"}
<1>c. ASSUME Control, Quiet, UNCHANGED <<chainVars, lnVars>>
      PROVE  TypeOK'
  BY <1>c DEF TypeOK, Required
<1>o. ASSUME OnlyControl,
             \/ \E t \in TerminalStates : Return(t)
             \/ \E g \in {"guard", "wait", "waitTip", "guardSpend", "guardPay",
                          "status", "window", "bump", "claim", "done"} : Goto(g)
      PROVE  TypeOK'
  BY <1>o, <1>c, <1>s DEF OnlyControl, Return, Goto, TypeOK
<1>h. ASSUME HandBack, UNCHANGED <<chainVars, lnVars>> PROVE TypeOK'
  <2> DEFINE r == [mem EXCEPT !.state = "InvoicePending"]
  <2>1. r \in Records
    BY <1>0, StateFacts, LiveFacts
  <2>2. Put(r) /\ Spawn(r)
    BY <1>h DEF HandBack
  <2> HIDE DEF r
  <2> QED
    BY <1>h, <1>c, <1>p, <1>s, <2>1, <2>2 DEF Spawn, TypeOK
\* A step that writes a record and goes on.
<1>w. ASSUME NEW r \in Records, Put(r), UNCHANGED <<chainVars, lnVars>>,
             \/ \E g \in {"guard", "claim", "send", "done"} : Goto(g)
             \/ Spawn(r)
             \/ Return("Failed")
      PROVE  TypeOK'
  BY <1>w, <1>c, <1>p, <1>s, LiveFacts DEF Goto, Spawn, Return, TypeOK
<1>1. CASE Start
  BY <1>1, <1>o, LiveFacts DEF Start
<1>2. CASE FundingSeen
  BY <1>0, <1>2, <1>w, MarkFacts DEF FundingSeen
<1>3. CASE FundingUnfit
  BY <1>3, <1>o, LiveFacts DEF FundingUnfit
<1>4. CASE FundingAbsent
  BY <1>4, <1>o DEF FundingAbsent
<1>5. CASE WaitTip
  BY <1>5, <1>o, LiveFacts DEF WaitTip
<1>6. CASE Guard
  BY <1>6, <1>o DEF Guard
<1>7. CASE GuardSpend
  BY <1>7, <1>o, LiveFacts DEF GuardSpend
<1>8. CASE GuardPay
  BY <1>8, <1>h, <1>o, LiveFacts DEF GuardPay, OnlyControl
<1>9. CASE AlreadyPaid
  BY <1>0, <1>9, <1>w, StateFacts, LiveFacts DEF AlreadyPaid
<1>10. CASE AlreadyFailed
  BY <1>10, <1>o, LiveFacts DEF AlreadyFailed
<1>11. CASE Unresolved
  BY <1>11, <1>h DEF Unresolved
<1>12. CASE NotYetPaid
  BY <1>12, <1>o DEF NotYetPaid
<1>13. CASE ClaimWindow
  BY <1>0, <1>13, <1>s, BudgetFacts, LiveFacts
     DEF ClaimWindow, Goto, Return, TypeOK
<1>14. CASE PayIntent
  <2>1. Started \in Records
    BY <1>0, StartedFacts
  <2>2. CASE PutOk(Started) /\ Goto("pay")
    BY <1>14, <1>f, <1>s, <2>1, <2>2 DEF PayIntent, PutOk, Goto, TypeOK
  <2>3. CASE Fault /\ mem' = Started /\ disk' \in {disk, Started}
             /\ Spawn(Started)
    BY <1>14, <1>0, <1>c, <1>f, <1>s, <2>1, <2>3 DEF PayIntent, Spawn, TypeOK
  <2> QED
    BY <1>14, <2>2, <2>3 DEF PayIntent
<1>15. CASE CallPayInvoice
  BY <1>15, <1>s DEF CallPayInvoice, Goto, TypeOK
<1>16. CASE PayInvoiceOk
  BY <1>0, <1>16, <1>w, StateFacts, LiveFacts DEF PayInvoiceOk
<1>17. CASE PayInvoiceRefused
  BY <1>17, <1>o, LiveFacts DEF PayInvoiceRefused
<1>18. CASE PayInvoiceBroke
  <2> DEFINE r == [mem EXCEPT !.state = "InvoicePending"]
  <2>1. r \in Records
    BY <1>0, StateFacts, LiveFacts
  <2>2. /\ \/ Fault /\ mem' = r /\ disk' \in {disk, r}
           \/ pay = "none" /\ calls = 0 /\ Put(r)
        /\ Spawn(r)
    BY <1>18 DEF PayInvoiceBroke
  <2> HIDE DEF r
  <2>3. mem' \in Records /\ disk' \in Records /\ faults' \in 0..MaxFaults
    BY <1>0, <1>f, <1>p, <2>1, <2>2
  <2> QED
    BY <1>18, <1>c, <1>s, <2>1, <2>2, <2>3 DEF PayInvoiceBroke, Spawn, TypeOK
<1>19. CASE StartClaim
  BY <1>0, <1>19, <1>w, <1>o, MarkFacts DEF StartClaim, OnlyControl
<1>20. CASE SendClaim
  BY <1>20, <1>s DEF SendClaim, Broadcast, Goto, TypeOK, Required
<1>21. CASE BroadcastError
  BY <1>0, <1>21, <1>w DEF BroadcastError, RetryOrGiveUp
<1>22. CASE ClaimConfirmed
  BY <1>22, <1>o, LiveFacts DEF ClaimConfirmed
<1>23. CASE ConflictingSpend
  BY <1>23, <1>o, LiveFacts DEF ConflictingSpend
<1>24. CASE Rebroadcast
  BY <1>24 DEF Rebroadcast, Broadcast, TypeOK, Required
<1>25. CASE ClaimGivesBack
  BY <1>25, <1>0, <1>c, <1>f, <1>s DEF ClaimGivesBack, Goto, TypeOK
<1>26. CASE SetTerminal
  BY <1>0, <1>26, <1>w, StateFacts DEF SetTerminal, TypeOK
<1>27. CASE Restart
  BY <1>27, <1>0, <1>c, <1>f, <1>s DEF Restart, Goto, Spawn, TypeOK
<1>28. CASE DriverError
  BY <1>28, <1>0, <1>c, <1>f, <1>s, LiveFacts
     DEF DriverError, RetryOrGiveUp, Spawn, Return, TypeOK
<1>29. CASE Crash
  BY <1>29, <1>0, <1>c, <1>f DEF Crash, Goto, TypeOK
<1>30. CASE World
  <2> USE DEF driverVars
  <2>1. CASE NodeLaunches \/ NodeRefuses
    BY <1>0, <2>1, SubmarineProviderAssumption
       DEF NodeLaunches, NodeRefuses, TypeOK, Required
  <2>2. CASE PaymentResolves
    BY <2>2 DEF PaymentResolves, TypeOK, Required
  <2>3. CASE Block
    BY <1>0, <2>3, SubmarineProviderAssumption DEF Block, TypeOK, Required
  <2>4. CASE MineFunding \/ MineSpend
    BY <1>0, <2>4, SubmarineProviderAssumption
       DEF MineFunding, MineSpend, TypeOK, Required
  <2>5. CASE Reorg
    BY <1>0, <1>f, <2>5, SubmarineProviderAssumption
       DEF Reorg, TypeOK, Required
  <2>6. CASE CatchUp \/ ClientFunds \/ ClientWithdraws \/ ClientRefunds
    BY <2>6 DEF CatchUp, ClientFunds, ClientWithdraws, ClientRefunds, TypeOK,
                Required
  <2>7. CASE Evict
    BY <1>f, <2>7 DEF Evict, TypeOK, Required
  <2> QED
    BY <1>30, <2>1, <2>2, <2>3, <2>4, <2>5, <2>6, <2>7 DEF World
<1>31. CASE UNCHANGED vars
  BY <1>31 DEF vars, TypeOK, Required
<1> QED
  BY <1>1, <1>2, <1>3, <1>4, <1>5, <1>6, <1>7, <1>8, <1>9, <1>10, <1>11,
     <1>12, <1>13, <1>14, <1>15, <1>16, <1>17, <1>18, <1>19, <1>20, <1>21,
     <1>22, <1>23, <1>24, <1>25, <1>26, <1>27, <1>28, <1>29, <1>30, <1>31
     DEF Next, Driver

\* Every variable of the model keeps its type: in particular no payment is
\* sent with a CLTV limit of zero, which the node reads as no limit.
THEOREM TypeCorrect == Spec => []TypeOK
  BY TypeInit, TypeStep, PTL DEF Spec

-----------------------------------------------------------------------------
(* The inductive invariant.                                                *)

Sent == calls + attempts > 0

\* Positions of a run that has not passed the payment's gate.
Ungated == {"start", "wait", "waitTip", "guard", "guardSpend", "guardPay",
            "status"}

\* The markers precede the payment: on disk, in the driver's memory, and in
\* what a new driver is told.
RecordInv ==
  /\ Sent => disk.started /\ disk.funded
  /\ pc # "down" => /\ disk.started => mem.started
                    /\ disk.funded => mem.funded
  /\ pc \in Ungated /\ Sent => resume.started /\ resume.funded

\* What the driver knows of the funding at each position.
FundingInv ==
  /\ pc = "start" => resume = mem
  /\ pc \in {"wait", "waitTip"} => ~resume.funded
  /\ pc \in {"guard", "guardSpend", "guardPay", "status", "window", "intent"}
       => mem.funded

\* The node is called once, with the marker already written.
FirstPayment ==
  /\ calls + attempts <= 1
  /\ attempts = 0 <=> pay = "none"
  /\ pc \in {"window", "intent", "pay"} => ~Sent
  /\ pc = "pay" => disk.started /\ disk.funded

\* No driver runs on a record that is over.
OverInv ==
  /\ is_terminal(disk.state) => pc \in {"done", "down"}
  /\ pc \in Steps => ~is_terminal(mem.state)

Unpaid == calls = 0 /\ pay \in {"none", "failed"}

\* Giving up, about to be recorded or on record, is giving up nothing.
GiveUpInv ==
  /\ pc = "finish" /\ outcome \in {"Expired", "Failed"} => Unpaid
  /\ disk.state \in {"Expired", "Failed"} => Unpaid

IInv == /\ TypeOK /\ RecordInv /\ FundingInv /\ FirstPayment
        /\ OverInv /\ GiveUpInv

\* The payment, sized, sent or launched, ends in time but for the delay.
BudgetInv ==
  /\ Launching =>
       /\ limit > 0
       /\ height + limit + Params.min_claim_window_blocks <= Timeout + delay
  /\ pay = "inflight" =>
       expiry + Params.min_claim_window_blocks <= Timeout + delay

\* The invariant holds when the swap is accepted.
LEMMA InvInit == Init => IInv
<1> SUFFICES ASSUME Init
             PROVE  RecordInv /\ FundingInv /\ FirstPayment /\ OverInv /\ GiveUpInv
  BY TypeInit DEF IInv
<1>1. /\ ~Sent /\ calls = 0 /\ attempts = 0 /\ pay = "none" /\ pc = "start"
      /\ mem = NewRecord /\ disk = NewRecord /\ resume = NewRecord
  BY DEF Init, Sent
<1>2. NewRecord.state = "Created" /\ ~is_terminal(NewRecord.state)
  BY DEF NewRecord, is_terminal, TerminalStates
<1> QED
  BY <1>1, <1>2
     DEF RecordInv, FundingInv, FirstPayment, OverInv, GiveUpInv, Sent, Unpaid

\* One step of anybody keeps the invariant.
LEMMA InvStep == IInv /\ [Next]_vars => IInv'
<1> DEFINE Rest ==
      RecordInv /\ FundingInv /\ FirstPayment /\ OverInv /\ GiveUpInv
<1> SUFFICES ASSUME IInv, [Next]_vars PROVE Rest'
  BY TypeStep DEF IInv
<1> USE DEF chainVars, lnVars, recVars
<1>0. /\ mem \in Records /\ disk \in Records /\ resume \in Records
      /\ calls \in Nat /\ attempts \in Nat
      /\ pc \in Steps \cup {"done", "down"} /\ outcome \in TerminalStates
  BY DEF IInv, TypeOK
<1>s. /\ Steps = {"start", "wait", "waitTip", "guard", "guardSpend",
                  "guardPay", "status", "window", "claim", "send", "bump",
                  "intent", "pay", "paying", "finish"}
      /\ Fallible = Steps \ {"intent", "pay", "paying", "finish"}
  BY DEF Steps, Fallible
<1>d. pc \in Steps => ~is_terminal(disk.state) /\ ~is_terminal(mem.state)
  BY <1>s DEF IInv, OverInv
<1>t. \A s \in {"Expired", "Failed"} : is_terminal(s)
  BY DEF is_terminal, TerminalStates
\* Nothing was sent, or nothing can come of it.
<1>u. (~Sent => Unpaid) /\ (pay = "failed" => Unpaid)
  BY <1>0 DEF IInv, FirstPayment, Sent, Unpaid
\* A step that moves the driver within its run and nothing else.
<1>g. ASSUME UNCHANGED <<lnVars, recVars, resume>>, pc \in Steps,
             pc' \in Steps \ {"start", "pay"},
             pc' \in Ungated => pc \in Ungated,
             pc' \in {"wait", "waitTip"} => ~resume.funded,
             pc' \in {"guard", "guardSpend", "guardPay", "status", "window",
                      "intent"} => mem.funded,
             pc' \in {"window", "intent"} => ~Sent,
             pc' = "finish" /\ outcome' \in {"Expired", "Failed"} => Unpaid
      PROVE  Rest'
  <2>1. RecordInv'
    BY <1>g, <1>s DEF IInv, RecordInv, Sent
  <2>2. FundingInv'
    BY <1>g, <1>s DEF IInv, FundingInv
  <2>3. FirstPayment'
    BY <1>g, <1>s DEF IInv, FirstPayment, Sent
  <2>4. OverInv' /\ GiveUpInv'
    BY <1>d, <1>g, <1>t DEF IInv, OverInv, GiveUpInv, Unpaid
  <2> QED
    BY <2>1, <2>2, <2>3, <2>4
\* A step that writes a live record with every promise of the old one.
<1>w. ASSUME NEW r \in Records, mem' = r, disk' \in {disk, r},
             UNCHANGED <<lnVars, resume>>, pc \in Steps,
             mem.started => r.started, mem.funded => r.funded,
             ~is_terminal(r.state),
             pc' \in {"guard", "claim", "send", "finish"},
             pc' = "guard" => pc \in Ungated /\ r.funded,
             pc' = "finish" => Unpaid
      PROVE  Rest'
  <2>0. pc # "down"
    BY <1>s, <1>w
  <2>1. RecordInv'
    BY <1>w, <2>0 DEF IInv, RecordInv, Sent, Ungated
  <2>2. FundingInv'
    BY <1>w DEF FundingInv
  <2>3. FirstPayment'
    BY <1>w DEF IInv, FirstPayment, Sent
  <2>4. OverInv' /\ GiveUpInv'
    BY <1>d, <1>t, <1>w DEF OverInv, GiveUpInv, Unpaid
  <2> QED
    BY <2>1, <2>2, <2>3, <2>4
\* A step that writes such a record and re-enters the driver on it.
<1>n. ASSUME NEW r \in Records, mem' = r, disk' \in {disk, r}, Spawn(r),
             UNCHANGED lnVars, pc \in Steps,
             mem.started => r.started, mem.funded => r.funded,
             ~is_terminal(r.state)
      PROVE  Rest'
  <2>0. pc # "down" /\ pc' = "start" /\ resume' = r
    BY <1>n, <1>s DEF Spawn
  <2>1. RecordInv'
    BY <1>n, <2>0 DEF IInv, RecordInv, Sent, Ungated
  <2>2. FundingInv'
    BY <1>n, <2>0 DEF FundingInv
  <2>3. FirstPayment'
    BY <1>n, <2>0 DEF IInv, FirstPayment, Sent
  <2>4. OverInv' /\ GiveUpInv'
    BY <1>d, <1>t, <1>n, <2>0 DEF OverInv, GiveUpInv, Unpaid
  <2> QED
    BY <2>1, <2>2, <2>3, <2>4
<1>p. ASSUME NEW r, Put(r) PROVE mem' = r /\ disk' \in {disk, r}
  BY <1>p DEF Put, PutOk, PutFailed
<1>h. ASSUME HandBack, UNCHANGED lnVars, pc \in Steps PROVE Rest'
  <2> DEFINE r == [mem EXCEPT !.state = "InvoicePending"]
  <2>1. r \in Records /\ r.state = "InvoicePending" /\ r.started = mem.started
        /\ r.funded = mem.funded
    BY <1>0, StateFacts, LiveFacts
  <2>2. Put(r) /\ Spawn(r)
    BY <1>h DEF HandBack
  <2> HIDE DEF r
  <2> QED
    BY <1>h, <1>n, <1>p, <2>1, <2>2, LiveFacts
<1>1. CASE Start
  <2>1. resume = mem /\ pc \in Ungated
    BY <1>1 DEF Start, IInv, FundingInv, Ungated
  <2>2. CASE resume.funded /\ Visible("claim")
    BY <1>1, <1>g, <1>s, <2>2 DEF Start, OnlyControl, Return, Ungated
  <2>3. CASE resume.funded /\ ~Visible("claim")
    BY <1>1, <1>g, <1>s, <2>1, <2>3 DEF Start, OnlyControl, Goto
  <2>4. CASE ~resume.funded
    BY <1>1, <1>g, <1>s, <2>1, <2>4 DEF Start, OnlyControl, Goto
  <2> QED
    BY <2>2, <2>3, <2>4
<1>2. CASE FundingSeen
  <2> DEFINE r == [mem EXCEPT !.funded = TRUE, !.state = "LockupConfirmed"]
  <2>1. r \in Records /\ r.state = "LockupConfirmed" /\ r.started = mem.started
        /\ r.funded
    BY <1>0, MarkFacts
  <2>2. Put(r) /\ Goto("guard") /\ UNCHANGED lnVars /\ pc = "wait"
    BY <1>2 DEF FundingSeen
  <2> HIDE DEF r
  <2> QED
    BY <1>p, <1>s, <1>w, <2>1, <2>2, LiveFacts DEF Goto, Ungated
\* Waiting for a funding, nothing has been sent.
<1>x. pc \in {"wait", "waitTip"} => ~resume.funded /\ ~Sent /\ Unpaid
  BY <1>u DEF IInv, FundingInv, RecordInv, Ungated
<1>3. CASE FundingUnfit
  BY <1>3, <1>g, <1>s, <1>x DEF FundingUnfit, OnlyControl, Return, Ungated
<1>4. CASE FundingAbsent
  BY <1>4, <1>g, <1>s, <1>x DEF FundingAbsent, OnlyControl, Goto, Ungated
<1>5. CASE WaitTip
  <2>1. CASE height >= Timeout
    BY <1>5, <1>g, <1>s, <1>x, <2>1 DEF WaitTip, OnlyControl, Return, Ungated
  <2>2. CASE ~(height >= Timeout)
    BY <1>5, <1>g, <1>s, <1>x, <2>2 DEF WaitTip, OnlyControl, Goto, Ungated
  <2> QED
    BY <2>1, <2>2
<1>m. pc \in {"guard", "guardSpend", "guardPay", "status", "window", "intent"}
        => mem.funded
  BY DEF IInv, FundingInv
\* Before the gate, a run that was told of no payment has none to fear.
<1>y. pc \in Ungated /\ ~(resume.funded /\ resume.started) => ~Sent
  BY DEF IInv, RecordInv
<1>6. CASE Guard
  <2>1. \E g \in {"status", "guardSpend"} : Goto(g)
    BY <1>6 DEF Guard
  <2> QED
    BY <1>6, <1>g, <1>m, <1>s, <2>1 DEF Guard, OnlyControl, Goto, Ungated
<1>7. CASE GuardSpend
  <2>1. \/ Return("Claimed")
        \/ Goto("guardPay")
        \/ ~resume.started /\ Return("Failed")
    BY <1>7 DEF GuardSpend
  <2>2. pc = "guardSpend" /\ OnlyControl /\ pc \in Ungated
    BY <1>7 DEF GuardSpend, Ungated
  <2>3. ~resume.started => Unpaid
    BY <1>u, <1>y, <2>2
  <2> QED
    BY <1>g, <1>m, <1>s, <2>1, <2>2, <2>3
       DEF OnlyControl, Goto, Return, Ungated
<1>8. CASE GuardPay
  <2>1. CASE pay = "failed"
    BY <1>8, <1>g, <1>s, <1>u, <2>1 DEF GuardPay, Return, Ungated
  <2>2. CASE pay # "failed"
    BY <1>8, <1>h, <1>s, <2>2 DEF GuardPay
  <2> QED
    BY <2>1, <2>2
<1>i. ASSUME NEW r, r = [mem EXCEPT !.state = "InvoicePaid"], Put(r),
             Goto("claim"), UNCHANGED lnVars, pc \in Steps
      PROVE  Rest'
  <2>1. r \in Records /\ r.state = "InvoicePaid" /\ r.started = mem.started
        /\ r.funded = mem.funded
    BY <1>0, <1>i, StateFacts, LiveFacts
  <2> QED
    BY <1>i, <1>p, <1>w, <2>1, LiveFacts DEF Goto
<1>9. CASE AlreadyPaid
  BY <1>9, <1>i, <1>s DEF AlreadyPaid
<1>10. CASE AlreadyFailed
  BY <1>10, <1>g, <1>s, <1>u DEF AlreadyFailed, OnlyControl, Return, Ungated
<1>11. CASE Unresolved
  BY <1>11, <1>h, <1>s DEF Unresolved
<1>12. CASE NotYetPaid
  <2>1. pc = "status" /\ pc \in Ungated /\ OnlyControl /\ Goto("window")
    BY <1>12 DEF NotYetPaid, Ungated
  <2>2. ~Sent
    BY <1>12, <1>y, <2>1 DEF NotYetPaid, MayPay
  <2> QED
    BY <1>g, <1>m, <1>s, <2>1, <2>2 DEF OnlyControl, Goto, Ungated
<1>v. pc \in {"window", "intent", "pay"} => ~Sent /\ Unpaid
  BY <1>u DEF IInv, FirstPayment
<1>13. CASE ClaimWindow
  <2>1. /\ UNCHANGED <<calls, attempts, pay, recVars, resume>> /\ pc = "window"
        /\ \/ pc' = "intent"
           \/ pc' = "finish" /\ outcome' = "Failed"
    BY <1>13 DEF ClaimWindow, Goto, Return
  <2>2. RecordInv' /\ FundingInv'
    BY <1>m, <2>1 DEF IInv, RecordInv, FundingInv, Sent, Ungated
  <2>3. FirstPayment'
    BY <1>v, <2>1 DEF IInv, FirstPayment, Sent
  <2>4. OverInv' /\ GiveUpInv'
    BY <1>d, <1>s, <1>t, <1>v, <2>1 DEF OverInv, GiveUpInv, Unpaid
  <2> QED
    BY <2>2, <2>3, <2>4
<1>14. CASE PayIntent
  <2>1. /\ Started \in Records /\ Started.started /\ Started.funded
        /\ ~is_terminal(Started.state)
    BY <1>0, <1>14, <1>m, StartedFacts, LiveFacts DEF PayIntent
  <2>2. CASE PutOk(Started) /\ Goto("pay")
    <3>1. /\ mem' = Started /\ disk' = Started /\ pc' = "pay" /\ pc = "intent"
          /\ UNCHANGED <<lnVars, resume, outcome>>
      BY <1>14, <2>2 DEF PayIntent, PutOk, Goto
    <3>2. RecordInv' /\ FundingInv'
      BY <2>1, <3>1 DEF RecordInv, FundingInv, Ungated
    <3>3. FirstPayment'
      BY <1>v, <2>1, <3>1 DEF IInv, FirstPayment, Sent
    <3>4. OverInv' /\ GiveUpInv'
      BY <1>t, <1>v, <2>1, <3>1 DEF OverInv, GiveUpInv, Unpaid
    <3> QED
      BY <3>2, <3>3, <3>4
  <2>3. CASE mem' = Started /\ disk' \in {disk, Started} /\ Spawn(Started)
    BY <1>14, <1>n, <1>s, <2>1, <2>3 DEF PayIntent
  <2> QED
    BY <1>14, <2>2, <2>3 DEF PayIntent
<1>15. CASE CallPayInvoice
  <2>1. /\ pc = "pay" /\ calls' = calls + 1 /\ pc' = "paying"
        /\ UNCHANGED <<attempts, pay, mem, disk, resume>>
    BY <1>15 DEF CallPayInvoice, Goto
  <2>2. disk.started /\ disk.funded /\ calls = 0 /\ attempts = 0
    BY <1>0, <1>v, <2>1 DEF IInv, FirstPayment, Sent
  <2>3. RecordInv' /\ FundingInv'
    BY <2>1, <2>2 DEF IInv, RecordInv, FundingInv, Ungated
  <2>4. FirstPayment'
    BY <2>1, <2>2 DEF IInv, FirstPayment
  <2>5. OverInv' /\ GiveUpInv'
    BY <1>d, <1>s, <1>t, <2>1 DEF OverInv, GiveUpInv
  <2> QED
    BY <2>3, <2>4, <2>5
<1>16. CASE PayInvoiceOk
  BY <1>16, <1>i, <1>s DEF PayInvoiceOk
<1>17. CASE PayInvoiceRefused
  BY <1>17, <1>g, <1>s, <1>u
     DEF PayInvoiceRefused, OnlyControl, Return, Ungated, Unpaid
<1>18. CASE PayInvoiceBroke
  <2> DEFINE r == [mem EXCEPT !.state = "InvoicePending"]
  <2>1. r \in Records /\ r.state = "InvoicePending" /\ r.started = mem.started
        /\ r.funded = mem.funded
    BY <1>0, StateFacts, LiveFacts
  <2>2. /\ \/ Fault /\ mem' = r /\ disk' \in {disk, r}
           \/ pay = "none" /\ calls = 0 /\ Put(r)
        /\ Spawn(r) /\ UNCHANGED lnVars /\ pc = "paying"
    BY <1>18 DEF PayInvoiceBroke
  <2> HIDE DEF r
  <2> QED
    BY <1>n, <1>p, <1>s, <2>1, <2>2, LiveFacts
<1>19. CASE StartClaim
  <2> DEFINE r == [mem EXCEPT !.ours = TRUE]
  <2>1. r \in Records /\ r.state = mem.state /\ r.started = mem.started
        /\ r.funded = mem.funded
    BY <1>0, MarkFacts
  <2>2. /\ pc = "claim" /\ UNCHANGED lnVars
        /\ \/ Goto("bump") /\ UNCHANGED recVars
           \/ Put(r) /\ Goto("send")
    BY <1>19 DEF StartClaim
  <2> HIDE DEF r
  <2>3. CASE Goto("bump") /\ UNCHANGED recVars
    BY <1>g, <1>s, <2>2, <2>3 DEF Goto, Ungated
  <2>4. CASE Put(r) /\ Goto("send")
    BY <1>d, <1>p, <1>s, <1>w, <2>1, <2>2, <2>4 DEF Goto
  <2> QED
    BY <2>2, <2>3, <2>4
<1>20. CASE SendClaim
  BY <1>20, <1>g, <1>s DEF SendClaim, Goto, Ungated
\* A record that promises nothing has nothing to lose.
<1>r. pc \in Steps /\ ~funds_at_risk(mem) => Unpaid
  BY <1>s, <1>u DEF IInv, RecordInv, funds_at_risk
<1>21. CASE BroadcastError
  <2>1. CASE Spawn(mem)
    BY <1>0, <1>21, <1>d, <1>n, <1>p, <1>s, <2>1 DEF BroadcastError
  <2>2. CASE ~funds_at_risk(mem) /\ Return("Failed")
    BY <1>0, <1>21, <1>d, <1>p, <1>r, <1>s, <1>w, <2>2
       DEF BroadcastError, Return
  <2> QED
    BY <1>21, <2>1, <2>2 DEF BroadcastError, RetryOrGiveUp
<1>22. CASE ClaimConfirmed
  BY <1>22, <1>g, <1>s DEF ClaimConfirmed, OnlyControl, Return, Ungated
<1>23. CASE ConflictingSpend
  BY <1>23, <1>g, <1>s DEF ConflictingSpend, OnlyControl, Return, Ungated
<1>25. CASE ClaimGivesBack
  BY <1>25, <1>g, <1>s DEF ClaimGivesBack, Goto, Ungated
<1>26. CASE SetTerminal
  <2> DEFINE r == [mem EXCEPT !.state = outcome]
  <2>1. r \in Records /\ r.state = outcome /\ r.started = mem.started
        /\ r.funded = mem.funded
    BY <1>0, StateFacts
  <2>2. /\ mem' = r /\ disk' \in {disk, r} /\ pc = "finish" /\ pc' = "done"
        /\ UNCHANGED <<lnVars, resume>>
    BY <1>26, <1>p DEF SetTerminal, Goto
  <2> HIDE DEF r
  <2>3. RecordInv' /\ FundingInv'
    BY <2>1, <2>2 DEF IInv, RecordInv, FundingInv, Sent, Ungated
  <2>4. FirstPayment'
    BY <2>2 DEF IInv, FirstPayment, Sent
  <2>5. OverInv' /\ GiveUpInv'
    BY <1>s, <2>1, <2>2 DEF IInv, OverInv, GiveUpInv, Unpaid
  <2> QED
    BY <2>3, <2>4, <2>5
<1>27. CASE Restart
  <2>1. /\ pc = "down" /\ mem' = disk /\ UNCHANGED <<lnVars, disk>>
        /\ \/ is_terminal(disk.state) /\ Goto("done")
           \/ ~is_terminal(disk.state) /\ Spawn(disk)
    BY <1>27 DEF Restart
  <2>2. RecordInv' /\ FundingInv' /\ OverInv'
    BY <1>s, <2>1
       DEF IInv, RecordInv, FundingInv, OverInv, Sent, Goto, Spawn, Ungated
  <2>3. FirstPayment' /\ GiveUpInv'
    BY <2>1
       DEF IInv, FirstPayment, GiveUpInv, Sent, Unpaid, Goto, Spawn
  <2> QED
    BY <2>2, <2>3
<1>28. CASE DriverError
  <2>1. /\ pc \in Steps /\ mem' = mem /\ disk' \in {disk, mem}
        /\ UNCHANGED lnVars
    BY <1>28, <1>s DEF DriverError
  <2>2. CASE Spawn(mem)
    BY <1>0, <1>d, <1>n, <2>1, <2>2
  <2>3. CASE ~funds_at_risk(mem) /\ Return("Failed")
    BY <1>0, <1>d, <1>r, <1>w, <2>1, <2>3 DEF Return
  <2> QED
    BY <1>28, <2>2, <2>3 DEF DriverError, RetryOrGiveUp
<1>29. CASE Crash
  <2>1. UNCHANGED <<lnVars, recVars, resume>> /\ pc' = "down"
    BY <1>29 DEF Crash, Goto
  <2>2. RecordInv' /\ FundingInv' /\ OverInv'
    BY <1>s, <2>1 DEF IInv, RecordInv, FundingInv, OverInv, Sent, Ungated
  <2>3. FirstPayment' /\ GiveUpInv'
    BY <2>1 DEF IInv, FirstPayment, GiveUpInv, Sent, Unpaid
  <2> QED
    BY <2>2, <2>3
\* A step of the world leaves the driver alone and cannot send a payment.
<1>z. ASSUME UNCHANGED driverVars, calls' \in Nat, attempts' \in Nat,
             calls' + attempts' <= 1, Sent' => Sent,
             attempts' = 0 <=> pay' = "none", Unpaid => Unpaid'
      PROVE  Rest'
  <2> USE DEF driverVars
  <2>1. RecordInv'
    BY <1>z DEF IInv, RecordInv
  <2>2. FundingInv' /\ OverInv'
    BY <1>z DEF IInv, FundingInv, OverInv
  <2>3. FirstPayment'
    BY <1>z DEF IInv, FirstPayment
  <2>4. GiveUpInv'
    BY <1>z DEF IInv, GiveUpInv
  <2> QED
    BY <2>1, <2>2, <2>3, <2>4
<1>k. ASSUME UNCHANGED <<calls, attempts, pay, driverVars>> PROVE Rest'
  BY <1>0, <1>k, <1>z DEF IInv, FirstPayment, Sent, Unpaid
<1>24. CASE Rebroadcast
  BY <1>24, <1>k DEF Rebroadcast, driverVars
<1>30. CASE World
  <2>1. CASE NodeLaunches
    BY <1>0, <1>z, <2>1 DEF NodeLaunches, IInv, FirstPayment, Sent, Unpaid
  <2>2. CASE NodeRefuses
    BY <1>0, <1>z, <2>2 DEF NodeRefuses, IInv, FirstPayment, Sent, Unpaid
  <2>3. CASE PaymentResolves
    BY <1>0, <1>z, <2>3 DEF PaymentResolves, IInv, FirstPayment, Sent, Unpaid
  <2>4. CASE Block \/ MineFunding \/ MineSpend \/ Reorg
    BY <1>k, <2>4 DEF Block, MineFunding, MineSpend, Reorg
  <2>5. CASE CatchUp \/ Evict
    BY <1>k, <2>5 DEF CatchUp, Evict
  <2>6. CASE ClientFunds \/ ClientWithdraws \/ ClientRefunds
    BY <1>k, <2>6 DEF ClientFunds, ClientWithdraws, ClientRefunds
  <2> QED
    BY <1>30, <2>1, <2>2, <2>3, <2>4, <2>5, <2>6 DEF World
<1>31. CASE UNCHANGED vars
  BY <1>31, <1>k DEF vars, driverVars
<1> HIDE DEF Rest
<1> QED
  BY <1>1, <1>2, <1>3, <1>4, <1>5, <1>6, <1>7, <1>8, <1>9, <1>10, <1>11,
     <1>12, <1>13, <1>14, <1>15, <1>16, <1>17, <1>18, <1>19, <1>20, <1>21,
     <1>22, <1>23, <1>24, <1>25, <1>26, <1>27, <1>28, <1>29, <1>30, <1>31
     DEF Next, Driver

\* The invariant holds in every reachable state.
LEMMA Invariant == Spec => []IInv
  BY InvInit, InvStep, PTL DEF Spec

\* The node is asked to pay the client's invoice at most once, whatever
\* crashes, lost replies, failed writes and re-entries happen.
THEOREM PaidOnce == Spec => []PaysAtMostOnce
<1>1. IInv => PaysAtMostOnce
  BY DEF IInv, FirstPayment, PaysAtMostOnce
<1> QED
  BY <1>1, Invariant, PTL

\* Whenever a payment may be out, the record on disk names it and the funding
\* it has to be recovered from.
THEOREM OnRecord == Spec => []PaymentIsOnRecord
<1>1. IInv => PaymentIsOnRecord
  BY DEF IInv, RecordInv, Sent, PaymentIsOnRecord
<1> QED
  BY <1>1, Invariant, PTL

\* A swap recorded as expired or failed never pays, before or after.
THEOREM GiveUpIsSafe == Spec => []GivenUpMeansUnpaid
<1>1. IInv => GivenUpMeansUnpaid
  BY DEF IInv, GiveUpInv, Unpaid, GivenUpMeansUnpaid
<1> QED
  BY <1>1, Invariant, PTL

\* No step changes the state of a terminal record.
LEMMA OverStep ==
  ASSUME IInv, [Next]_vars, is_terminal(disk.state)
  PROVE  disk' = disk
<1>1. pc \in {"done", "down"} /\ pc \notin Steps /\ pc \notin Fallible
  BY DEF IInv, OverInv, Steps, Fallible
<1>2. CASE Driver
  BY <1>1, <1>2
     DEF Driver, Start, FundingSeen, FundingUnfit, FundingAbsent, WaitTip,
         Guard, GuardSpend, GuardPay, AlreadyPaid, AlreadyFailed, Unresolved,
         NotYetPaid, ClaimWindow, PayIntent, CallPayInvoice, PayInvoiceOk,
         PayInvoiceRefused, PayInvoiceBroke, StartClaim, SendClaim,
         BroadcastError, ClaimConfirmed, ConflictingSpend, Rebroadcast,
         ClaimGivesBack, SetTerminal, Restart
<1>3. CASE DriverError \/ Crash
  BY <1>1, <1>3 DEF DriverError, Crash, recVars
<1>4. CASE World
  BY <1>4
     DEF World, NodeLaunches, NodeRefuses, PaymentResolves, Block,
         MineFunding, MineSpend, Reorg, CatchUp, Evict, ClientFunds,
         ClientWithdraws, ClientRefunds, driverVars, recVars
<1>5. CASE UNCHANGED vars
  BY <1>5 DEF vars, recVars
<1> QED
  BY <1>2, <1>3, <1>4, <1>5 DEF Next

\* A terminal state is never changed: its driver has ended and a restart
\* leaves it alone.
THEOREM OverForGood == Spec => TerminalIsForever
<1>1. IInv /\ [Next]_vars =>
        [is_terminal(disk.state) => disk'.state = disk.state]_vars
  BY OverStep
<1> QED
  BY <1>1, Invariant, PTL DEF Spec, TerminalIsForever

-----------------------------------------------------------------------------
(* The payment ends before the claim window, less the blocks that came     *)
(* between the tip it was sized on and the launch.                         *)

\* One step of anybody keeps the payment's end.
LEMMA BudgetStep ==
  ASSUME IInv, BudgetInv, [Next]_vars
  PROVE  BudgetInv'
<1> USE DEF chainVars, lnVars, recVars
<1>0. calls \in Nat /\ height \in Nat /\ delay \in Nat
  BY SubmarineProviderAssumption DEF IInv, TypeOK
\* Steps that neither size, send, launch nor outwait a payment.
<1>q. ASSUME UNCHANGED <<height, limit, expiry, delay>>,
             calls' = calls \/ (calls > 0 /\ calls' = calls - 1),
             pay' = "inflight" => pay = "inflight",
             pc' \in {"intent", "pay"} => pc \in {"intent", "pay"}
      PROVE  BudgetInv'
  BY <1>0, <1>q DEF BudgetInv, Launching
<1>g. ASSUME UNCHANGED <<height, lnVars>>,
             \/ \E t : Return(t)
             \/ \E r : Spawn(r)
             \/ HandBack
             \/ \E g \in {"guard", "wait", "waitTip", "guardSpend", "guardPay",
                          "status", "window", "bump", "claim", "send", "done",
                          "down"} : Goto(g)
      PROVE  BudgetInv'
  BY <1>g, <1>q DEF Return, Spawn, HandBack, Goto
<1>1. CASE Start \/ FundingUnfit \/ FundingAbsent \/ WaitTip \/ Guard
  BY <1>1, <1>g
     DEF Start, FundingUnfit, FundingAbsent, WaitTip, Guard, OnlyControl
<1>2. CASE FundingSeen \/ AlreadyPaid \/ PayInvoiceOk \/ StartClaim
  BY <1>2, <1>g DEF FundingSeen, AlreadyPaid, PayInvoiceOk, StartClaim
<1>3. CASE GuardSpend \/ GuardPay \/ AlreadyFailed \/ Unresolved \/ NotYetPaid
  BY <1>3, <1>g
     DEF GuardSpend, GuardPay, AlreadyFailed, Unresolved, NotYetPaid,
         OnlyControl
<1>4. CASE ClaimWindow
  <2>1. /\ UNCHANGED <<height, calls, pay, expiry>> /\ calls = 0
        /\ pay = "none" /\ delay' = 0
        /\ \/ Budget > 0 /\ limit' = Budget /\ pc' = "intent"
           \/ pc' = "finish"
    BY <1>0, <1>4
       DEF ClaimWindow, Goto, Return, IInv, FirstPayment, TypeOK, Sent
  <2>2. Budget > 0 =>
          height + Budget + Params.min_claim_window_blocks = Timeout
    BY <1>0, BudgetFacts
  <2>3. Params.min_claim_window_blocks \in Nat /\ Timeout \in Int
        /\ Budget \in Nat
    BY <1>0, BudgetFacts, SubmarineProviderAssumption, TimelockAssumption
       DEF TimelockParams, U32, Timeout, onchain_timeout
  <2>4. Timeout' = Timeout
    BY DEF Timeout, onchain_timeout
  <2> HIDE DEF Budget
  <2> QED
    BY <1>0, <2>1, <2>2, <2>3, <2>4 DEF BudgetInv, Launching
<1>5. CASE PayIntent
  <2>1. /\ UNCHANGED <<height, lnVars>> /\ pc = "intent"
        /\ pc' \in {"pay", "start"}
    BY <1>5 DEF PayIntent, Goto, Spawn
  <2> QED
    BY <1>q, <2>1
<1>6. CASE CallPayInvoice
  <2>1. /\ UNCHANGED <<height, limit, expiry, delay, pay>>
        /\ pc = "pay" /\ pc' = "paying"
    BY <1>6 DEF CallPayInvoice, Goto
  <2> QED
    BY <2>1 DEF BudgetInv, Launching
<1>7. CASE PayInvoiceRefused \/ PayInvoiceBroke \/ BroadcastError
  BY <1>7, <1>g
     DEF PayInvoiceRefused, PayInvoiceBroke, BroadcastError, RetryOrGiveUp,
         OnlyControl
<1>8. CASE SendClaim \/ ClaimConfirmed \/ ConflictingSpend \/ ClaimGivesBack
  BY <1>8, <1>g
     DEF SendClaim, ClaimConfirmed, ConflictingSpend, ClaimGivesBack,
         Broadcast, OnlyControl
<1>9. CASE Rebroadcast
  BY <1>9, <1>q DEF Rebroadcast, Broadcast
<1>10. CASE SetTerminal \/ Restart \/ DriverError \/ Crash
  BY <1>10, <1>g
     DEF SetTerminal, Restart, DriverError, RetryOrGiveUp, Crash
<1>11. CASE World
  <2> USE DEF driverVars
  <2>1. CASE NodeLaunches
    BY <1>0, <2>1, SubmarineProviderAssumption
       DEF NodeLaunches, BudgetInv, Launching, Timeout, onchain_timeout
  <2>2. CASE NodeRefuses \/ PaymentResolves
    BY <1>0, <1>q, <2>2 DEF NodeRefuses, PaymentResolves
  <2>3. CASE Block
    <3>1. /\ height' \in Nat /\ height' >= height
          /\ delay' = IF Launching THEN delay + (height' - height) ELSE delay
          /\ UNCHANGED <<calls, pay, limit, expiry, pc>>
      BY <1>0, <2>3 DEF Block
    <3>2. /\ limit \in Nat /\ expiry \in Nat /\ Timeout \in Int /\ Timeout' = Timeout
          /\ Params.min_claim_window_blocks \in Nat
      BY SubmarineProviderAssumption, TimelockAssumption
         DEF IInv, TypeOK, TimelockParams, U32, Timeout, onchain_timeout
    <3>3. Launching' = Launching
      BY <3>1 DEF Launching
    <3> QED
      BY <1>0, <3>1, <3>2, <3>3 DEF BudgetInv
  <2>4. CASE MineFunding \/ MineSpend \/ Reorg \/ CatchUp \/ Evict
    BY <1>q, <2>4 DEF MineFunding, MineSpend, Reorg, CatchUp, Evict
  <2>5. CASE ClientFunds \/ ClientWithdraws \/ ClientRefunds
    BY <1>q, <2>5 DEF ClientFunds, ClientWithdraws, ClientRefunds
  <2> QED
    BY <1>11, <2>1, <2>2, <2>3, <2>4, <2>5 DEF World
<1>12. CASE UNCHANGED vars
  BY <1>12, <1>q DEF vars
<1> QED
  BY <1>1, <1>2, <1>3, <1>4, <1>5, <1>6, <1>7, <1>8, <1>9, <1>10, <1>11,
     <1>12 DEF Next, Driver

\* Only the payee's settling makes a payment succeed, and it comes in time.
LEMMA SettledInTime ==
  ASSUME IInv, BudgetInv, [Next]_vars, pay' = "succeeded", pay # "succeeded"
  PROVE  height + Params.min_claim_window_blocks <= Timeout + delay
<1>1. PaymentResolves
  BY DEF Next, Driver, World, vars, Start, FundingSeen, FundingUnfit,
         FundingAbsent, WaitTip, Guard, GuardSpend, GuardPay, AlreadyPaid,
         AlreadyFailed, Unresolved, NotYetPaid, ClaimWindow, PayIntent,
         CallPayInvoice, PayInvoiceOk, PayInvoiceRefused, PayInvoiceBroke,
         StartClaim, SendClaim, BroadcastError, ClaimConfirmed,
         ConflictingSpend, Rebroadcast, ClaimGivesBack, SetTerminal, Restart,
         DriverError, Crash, NodeLaunches, NodeRefuses, Block, MineFunding,
         MineSpend, Reorg, CatchUp, Evict, ClientFunds, ClientWithdraws,
         ClientRefunds, OnlyControl, lnVars
<1>2. pay = "inflight" /\ height <= expiry
  BY <1>1 DEF PaymentResolves
<1>3. /\ height \in Nat /\ expiry \in Nat /\ delay \in Nat
      /\ Params.min_claim_window_blocks \in Nat /\ Timeout \in Int
  BY SubmarineProviderAssumption, TimelockAssumption
     DEF IInv, TypeOK, TimelockParams, U32, Timeout, onchain_timeout
<1> QED
  BY <1>2, <1>3 DEF BudgetInv

\* The payee cannot settle so late that the claim no longer fits before the
\* client's refund branch opens, but for the blocks that came between the tip the
\* payment was sized on and the node's launching it.
THEOREM PreimageInTime == Spec => PreimageLeavesClaimWindow
<1>1. Init => BudgetInv
  BY DEF Init, BudgetInv, Launching
<1>2. IInv /\ BudgetInv /\ [Next]_vars => BudgetInv'
  BY BudgetStep
<1>3. IInv /\ BudgetInv /\ [Next]_vars =>
        [pay' = "succeeded" /\ pay # "succeeded" =>
           height + Params.min_claim_window_blocks <= Timeout + delay]_vars
  BY SettledInTime
<1> QED
  BY <1>1, <1>2, <1>3, Invariant, PTL DEF Spec, PreimageLeavesClaimWindow
-----------------------------------------------------------------------------
(* The driver implements AtomicSwap.                                       *)

\* The HTLC is claimed only with the preimage bought, and refunded only from
\* its timeout on.
SpendInv ==
  /\ spend = "none" => depth = 0
  /\ spend = "claim" => pay = "succeeded"
  /\ spend = "refund" => height >= Timeout
  /\ pc \in {"claim", "send", "bump"} => pay = "succeeded"

\* One step of anybody keeps that.
LEMMA SpendStep ==
  ASSUME IInv, SpendInv, [Next]_vars
  PROVE  SpendInv'
<1> USE DEF chainVars, lnVars, recVars, Goto, Return, Spawn, HandBack,
            OnlyControl
<1>0. height \in Nat /\ calls \in Nat /\ attempts \in Nat /\ Timeout \in Nat
        /\ depth \in Nat
  BY SubmarineProviderAssumption, TimelockAssumption
     DEF IInv, TypeOK, TimelockParams, U32, Timeout, onchain_timeout
<1>1. CASE UNCHANGED vars
  BY <1>1 DEF vars, SpendInv
<1>2. CASE Driver
  BY <1>2
     DEF SpendInv, Driver, Start, FundingSeen, FundingUnfit, FundingAbsent,
         WaitTip, Guard, GuardSpend, GuardPay, AlreadyPaid, AlreadyFailed,
         Unresolved, NotYetPaid, ClaimWindow, PayIntent, CallPayInvoice,
         PayInvoiceOk, PayInvoiceRefused, PayInvoiceBroke, StartClaim,
         SendClaim, BroadcastError, RetryOrGiveUp, ClaimConfirmed,
         ConflictingSpend, Rebroadcast, ClaimGivesBack, SetTerminal, Restart,
         Broadcast
<1>3. CASE DriverError \/ Crash
  BY <1>3 DEF SpendInv, DriverError, RetryOrGiveUp, Crash
<1>4. CASE World
  <2> USE DEF driverVars
  \* A request the node has not received yet: nothing was bought.
  <2>1. calls > 0 => pay = "none"
    BY <1>0 DEF IInv, FirstPayment
  <2>2. CASE NodeLaunches \/ NodeRefuses \/ PaymentResolves
    BY <2>1, <2>2 DEF NodeLaunches, NodeRefuses, PaymentResolves, SpendInv
  <2>3. CASE Block
    <3>1. /\ height' >= height /\ UNCHANGED <<spend, pay, pc>>
          /\ depth = 0 => depth' = 0
      BY <1>0, <2>3 DEF Block
    <3>2. height' \in Nat /\ Timeout' = Timeout
      BY <1>0, <2>3 DEF Block, Timeout, onchain_timeout
    <3> QED
      BY <1>0, <3>1, <3>2 DEF SpendInv
  <2>4. CASE \/ MineFunding \/ MineSpend \/ Reorg \/ CatchUp \/ Evict
             \/ ClientFunds \/ ClientWithdraws \/ ClientRefunds
    <3>1. Timeout' = Timeout
      BY DEF Timeout, onchain_timeout
    <3> QED
      BY <2>4, <3>1
         DEF SpendInv, MineFunding, MineSpend, Reorg, CatchUp, Evict,
             ClientFunds, ClientWithdraws, ClientRefunds
  <2> QED
    BY <1>4, <2>2, <2>3, <2>4 DEF World
<1> QED
  BY <1>1, <1>2, <1>3, <1>4 DEF Next

\* A step of the driver moves no payment and no confirmed spend.
LEMMA DriverStep ==
  ASSUME Driver \/ DriverError \/ Crash
  PROVE  UNCHANGED <<attempts, pay, depth>> /\ (spend' = spend \/ depth = 0)
  BY DEF Driver, Start, FundingSeen, FundingUnfit, FundingAbsent,
         WaitTip, Guard, GuardSpend, GuardPay, AlreadyPaid, AlreadyFailed,
         Unresolved, NotYetPaid, ClaimWindow, PayIntent, CallPayInvoice,
         PayInvoiceOk, PayInvoiceRefused, PayInvoiceBroke, StartClaim,
         SendClaim, BroadcastError, ClaimConfirmed, ConflictingSpend,
         Rebroadcast, ClaimGivesBack, SetTerminal, Restart, Broadcast,
         DriverError, Crash, chainVars, lnVars, OnlyControl

\* Every step moves the legs as AtomicSwap allows, or not at all.
LEMMA LegsStep ==
  ASSUME IInv, BudgetInv, SpendInv, [Next]_vars
  PROVE  [Legs!Next]_(Legs!legs)
<1> USE DEF chainVars, lnVars, recVars, driverVars
<1>0. /\ calls \in Nat /\ attempts \in {0, 1} /\ height \in Nat
      /\ calls + attempts <= 1 /\ Timeout \in Nat
      /\ FINALITY_DEPTH \in Nat \ {0} /\ depth \in 0..FINALITY_DEPTH
      /\ pay \in {"none", "inflight", "succeeded", "failed"}
      /\ attempts = 0 <=> pay = "none"
      /\ spend \in {"none", "claim", "refund"}
  BY SubmarineProviderAssumption, TimelockAssumption
     DEF IInv, TypeOK, FirstPayment, TimelockParams, U32, Timeout,
         onchain_timeout
<1>1. CASE UNCHANGED vars
  BY <1>1 DEF vars, Legs!legs, given, got
<1>2. CASE Driver \/ DriverError \/ Crash
  <2>1. given' = given
    BY <1>2, DriverStep DEF given
  <2>2. CASE depth = FINALITY_DEPTH
    BY <1>0, <1>2, <2>1, <2>2, DriverStep DEF got, Legs!legs
  <2>3. CASE depth < FINALITY_DEPTH /\ is_terminal(disk.state)
    <3>1. disk' = disk /\ depth' = depth
      BY <1>2, <2>3, DriverStep, OverStep
    <3>2. got' = got
      BY <1>0, <2>3, <3>1 DEF got
    <3> QED
      BY <2>1, <3>2 DEF Legs!legs
  <2>4. CASE depth < FINALITY_DEPTH /\ ~is_terminal(disk.state)
    <3>1. got = "pending" /\ depth' = depth
      BY <1>0, <1>2, <2>4, DriverStep DEF got, is_terminal, TerminalStates
    <3>2. CASE disk'.state \in {"Expired", "Failed"}
      <4>1. pay' \in {"none", "failed"}
        BY <3>2, InvStep DEF IInv, GiveUpInv, Unpaid
      <4>2. given \in {"none", "back"}
        BY <1>0, <1>2, <4>1, DriverStep DEF given
      <4>3. got' = "waived"
        BY <1>0, <2>4, <3>1, <3>2 DEF got
      <4> QED
        BY <2>1, <3>1, <4>2, <4>3 DEF Legs!Next, Legs!Waive
    <3>3. CASE disk'.state \notin {"Expired", "Failed"}
      <4>1. got' = "pending"
        BY <1>0, <2>4, <3>1, <3>3 DEF got
      <4> QED
        BY <2>1, <3>1, <4>1 DEF Legs!legs
    <3> QED
      BY <3>2, <3>3
  <2> QED
    BY <1>0, <2>2, <2>3, <2>4
\* The request arrives with nothing bought, so no claim is buried, and no refund
\* either unless the timeout came before it.
<1>3. CASE NodeLaunches
  <2>1. calls > 0 /\ attempts = 0 /\ pay = "none"
    BY <1>0, <1>3 DEF NodeLaunches
  <2>2. height < Timeout \/ overtaken
    <3>1. limit > 0 /\ height + limit + Params.min_claim_window_blocks <= Timeout + delay
      BY <2>1 DEF BudgetInv, Launching
    <3>2. /\ limit \in Nat /\ delay \in Nat
          /\ Params.min_claim_window_blocks \in Nat
      BY SubmarineProviderAssumption, TimelockAssumption
         DEF IInv, TypeOK, TimelockParams, U32
    <3> QED
      BY <1>0, <3>1, <3>2 DEF overtaken
  <2>3. disk.state \notin {"Expired", "Failed"}
    BY <2>1 DEF IInv, GiveUpInv, Unpaid
  <2>4. /\ got = "pending" \/ (got = "lapsed" /\ overtaken)
        /\ got' = got
    <3>1. got' = got
      BY <1>3 DEF NodeLaunches, got
    <3>2. spend # "claim"
      BY <2>1 DEF SpendInv
    <3>3. CASE depth = FINALITY_DEPTH
      <4>1. spend = "refund"
        BY <1>0, <3>2, <3>3 DEF SpendInv
      <4>2. overtaken
        BY <1>0, <2>2, <4>1 DEF SpendInv
      <4>3. got = "lapsed"
        BY <1>0, <4>1, <3>3 DEF got
      <4> QED
        BY <3>1, <4>2, <4>3
    <3>4. CASE depth # FINALITY_DEPTH
      BY <1>0, <2>3, <3>1, <3>4 DEF got
    <3> QED
      BY <3>3, <3>4
  <2>5. given = "none" /\ given' = "locked"
    BY <1>3, <2>1 DEF NodeLaunches, given
  <2> QED
    BY <2>4, <2>5 DEF Legs!Next, Legs!Lock
<1>4. CASE PaymentResolves
  <2>1. got' = got
    BY <1>4 DEF PaymentResolves, got
  <2>2. given = "locked" /\ given' \in {"gone", "back"}
    BY <1>0, <1>4 DEF PaymentResolves, given
  <2> QED
    BY <2>1, <2>2 DEF Legs!Next, Legs!Give, Legs!Return
<1>5. CASE Block \/ MineSpend \/ Reorg
  <2>1. given' = given
    BY <1>5 DEF Block, MineSpend, Reorg, given
  <2>2. UNCHANGED <<spend, disk, pay, attempts>>
    BY <1>5 DEF Block, MineSpend, Reorg
  <2>3. CASE depth' = FINALITY_DEPTH /\ depth # FINALITY_DEPTH
    <3>1. depth < FINALITY_DEPTH /\ spend # "none"
      BY <1>0, <1>5, <2>3 DEF Block, MineSpend, Reorg, SpendInv
    <3>2. got \in {"pending", "waived"}
      BY <1>0, <3>1 DEF got
    <3>3. CASE spend = "claim"
      <4>1. pay = "succeeded"
        BY <3>3 DEF SpendInv
      <4>2. given = "gone"
        BY <1>0, <4>1 DEF given
      <4>3. got = "pending"
        BY <1>0, <3>1, <4>1 DEF got, IInv, GiveUpInv, Unpaid
      <4>4. got' = "taken"
        BY <1>0, <2>2, <2>3, <3>3 DEF got
      <4> QED
        BY <2>1, <4>2, <4>3, <4>4 DEF Legs!Next, Legs!Take
    <3>4. CASE spend # "claim"
      <4>1. got' = "lapsed"
        BY <1>0, <2>2, <2>3, <3>4 DEF got
      <4> QED
        BY <2>1, <3>2, <4>1 DEF Legs!Next, Legs!Lapse
    <3> QED
      BY <3>3, <3>4
  <2>4. CASE ~(depth' = FINALITY_DEPTH /\ depth # FINALITY_DEPTH)
    <3>1. depth' = depth \/ (depth < FINALITY_DEPTH /\ depth' < FINALITY_DEPTH)
      BY <1>0, <1>5, <2>4 DEF Block, MineSpend, Reorg, Fault
    <3>2. got' = got
      BY <1>0, <2>2, <3>1 DEF got
    <3> QED
      BY <2>1, <3>2 DEF Legs!legs
  <2> QED
    BY <2>3, <2>4
<1>6. CASE \/ NodeRefuses \/ MineFunding \/ CatchUp \/ Evict \/ ClientFunds
           \/ ClientWithdraws \/ ClientRefunds
  <2>1. UNCHANGED <<attempts, pay, disk, depth>> /\ (spend' = spend \/ depth = 0)
    BY <1>6
       DEF NodeRefuses, MineFunding, CatchUp, Evict, ClientFunds,
           ClientWithdraws, ClientRefunds
  <2>2. given' = given /\ got' = got
    BY <1>0, <2>1 DEF given, got
  <2> QED
    BY <2>2 DEF Legs!legs
<1> QED
  BY <1>1, <1>2, <1>3, <1>4, <1>5, <1>6 DEF Next, World

\* Whatever crashes, errors, blocks and reorgs happen, the provider pays once, and
\* only for an HTLC it may still claim unless more blocks than its claim window
\* overtook the payment; it claims only with the preimage bought and gives the HTLC
\* up only with nothing paid.
THEOREM SwapsAtomically == Spec => ImplementsAtomicSwap
<1>1. Init => Legs!Init
  <2> SUFFICES ASSUME Init PROVE Legs!Init
    OBVIOUS
  <2>1. attempts = 0 /\ depth = 0 /\ disk.state = "Created"
    BY DEF Init, NewRecord
  <2> QED
    BY <2>1, SubmarineProviderAssumption DEF Legs!Init, given, got
<1>2. Init => SpendInv /\ BudgetInv
  BY DEF Init, SpendInv, BudgetInv, Launching
<1>3. IInv /\ SpendInv /\ BudgetInv /\ [Next]_vars => SpendInv' /\ BudgetInv'
  BY SpendStep, BudgetStep
<1>4. IInv /\ SpendInv /\ BudgetInv /\ [Next]_vars => [Legs!Next]_(Legs!legs)
  BY LegsStep
<1> QED
  BY <1>1, <1>2, <1>3, <1>4, Invariant, PTL
     DEF Spec, ImplementsAtomicSwap, Legs!Spec
=============================================================================
