---------------------------- MODULE ServicesProofs ----------------------------
(***************************************************************************)
(* Proofs about the services that handlers and drivers call: the swap store, *)
(* the wake grants, the authorization of session requests, the wallets that  *)
(* fund contracts, the Lightning adapters and the listing that a restore is  *)
(* made from.  Each has an inductive invariant of its own.                   *)
(***************************************************************************)
EXTENDS Authorization, LightningNode, FundingWallet, SwapStore, WakeGrants, SwapListing,
  FiniteSetTheorems, TLAPS

-----------------------------------------------------------------------------
(* 1. The swap store.                                                      *)

StoreTypeOK ==
  /\ file \in Contents /\ kept \in Contents /\ mine \in Contents
  /\ writing \in [by : {"nobody", "driver", "signer", "monitor"},
                  step : {"none", "write", "rename", "dir"}, rec : Contents]
  /\ written \in [exists : BOOLEAN, rec : Contents]
  /\ time \in 1..2

\* A record that exists has its creation time; a driver's first copy has not.
Dated ==
  /\ \A f \in {file, kept} : f # Gone => f.born \in 1..2
  /\ mine # NoCopy => mine.born \in 0..2
  /\ writing.by # "nobody" => writing.rec.born \in 1..2
  /\ writing.by = "nobody" <=> writing.step = "none"

\* The driver's copy is of this record, and has all of the driver's markers.
CopyIsRecent ==
  mine # NoCopy =>
    /\ mine.born # 0 => file # Gone
    /\ file # Gone => mine.born \in {0, file.born} /\ mine.markers >= file.markers

\* A write keeps what it must not lose, and the driver has what it writes.
WriteIsRecent ==
  writing.by # "nobody" =>
    /\ file # Gone => /\ writing.rec.born = file.born
                      /\ file.contract => writing.rec.contract
                      /\ writing.rec.markers >= file.markers
    /\ mine # NoCopy => /\ mine.born \in {0, writing.rec.born}
                        /\ mine.markers >= writing.rec.markers
    /\ writing.step = "dir" => file = writing.rec

\* What was acknowledged is in the file and on the disk, whichever a power failure leaves.
SavedOnDisk ==
  written.exists =>
    \A f \in {file, kept} :
      /\ f # Gone /\ f.born = written.rec.born
      /\ written.rec.contract => f.contract
      /\ f.markers >= written.rec.markers

StoreInv == StoreTypeOK /\ Dated /\ CopyIsRecent /\ WriteIsRecent /\ SavedOnDisk

LEMMA GoneFacts ==
  /\ NewRecord \in Contents /\ Gone \in Contents /\ NoCopy = Gone
  /\ Gone.born = 999 /\ NewRecord.born = 0 /\ NewRecord.markers = 0
  /\ \A r \in Contents : r.born \in 0..2 => r # Gone
<1>1. NewRecord \in Contents /\ NewRecord.born = 0 /\ NewRecord.markers = 0
  BY StoreAssumption DEF NewRecord, Contents
<1>2. Gone \in Contents /\ Gone.born = 999
  BY <1>1 DEF Gone, Contents
<1> QED
  BY <1>1, <1>2 DEF NoCopy

LEMMA StoreInitInv == StoreInit => StoreInv
<1> SUFFICES ASSUME StoreInit PROVE StoreInv
  OBVIOUS
<1>1. StoreTypeOK
  BY GoneFacts DEF StoreInit, StoreTypeOK, NoWrite, Never
<1>2. Dated /\ CopyIsRecent /\ WriteIsRecent /\ SavedOnDisk
  BY GoneFacts DEF StoreInit, Dated, CopyIsRecent, WriteIsRecent, SavedOnDisk, NoWrite, Never
<1> QED
  BY <1>1, <1>2 DEF StoreInv

\* What a write is made of, when it is begun.
LEMMA BeginKeeps ==
  ASSUME StoreInv, NEW by \in {"driver", "signer", "monitor"}, NEW rec \in Contents,
         Begins(by, rec), mine' \in Contents,
         rec.born \in 0..2, rec.born # 0 => file # Gone,
         file # Gone => rec.born \in {0, file.born} /\ rec.markers >= file.markers,
         mine' # NoCopy => /\ mine'.born \in {0, rec.born}
                           /\ mine'.markers >= rec.markers
  PROVE  StoreInv'
<1>1. /\ stamped(rec) \in Contents /\ stamped(rec).born \in 1..2
      /\ stamped(rec).markers = rec.markers
      /\ file # Gone => /\ stamped(rec).born = file.born
                        /\ file.contract => stamped(rec).contract
      /\ rec.born # 0 => stamped(rec).born = rec.born
  <2>1. file \in Contents /\ time \in 1..2 /\ (file # Gone => file.born \in 1..2)
    BY DEF StoreInv, StoreTypeOK, Dated
  <2> DEFINE born == IF rec.born # 0 THEN rec.born ELSE IF Readable(file) THEN file.born ELSE time
             signed == rec.contract \/ (Readable(file) /\ file.contract)
  <2>2. born \in 1..2 /\ (file # Gone => born = file.born) /\ (rec.born # 0 => born = rec.born)
    BY <2>1 DEF Readable
  <2>3. signed \in BOOLEAN /\ (file # Gone /\ file.contract => signed)
    BY DEF Readable
  <2>4. stamped(rec) = [rec EXCEPT !.born = born, !.contract = signed]
    BY DEF stamped
  <2> HIDE DEF born, signed
  <2>5. born \in Nat
    BY <2>2
  <2>6. /\ stamped(rec) \in Contents /\ stamped(rec).born = born
        /\ stamped(rec).markers = rec.markers /\ (stamped(rec).contract <=> signed)
    <3>1. stamped(rec).contract = signed
      BY <2>4 DEF Contents
    <3>2. stamped(rec).born = born /\ stamped(rec).markers = rec.markers
      BY <2>4 DEF Contents
    <3>3. stamped(rec) \in Contents
      BY <2>3, <2>4, <2>5 DEF Contents
    <3> QED
      BY <3>1, <3>2, <3>3
  <2>7. file # Gone /\ file.contract => stamped(rec).contract
    BY <2>3, <2>6
  <2>8. /\ stamped(rec).born \in 1..2 /\ (rec.born # 0 => stamped(rec).born = rec.born)
        /\ file # Gone => stamped(rec).born = file.born
    BY <2>2, <2>6
  <2> QED
    BY <2>6, <2>7, <2>8
<1>2. /\ writing' = [by |-> by, step |-> "write", rec |-> stamped(rec)]
      /\ UNCHANGED <<file, kept, written, time>>
  BY DEF Begins
<1>3. StoreTypeOK'
  BY <1>1, <1>2 DEF StoreInv, StoreTypeOK
<1>4. /\ file \in Contents /\ rec.markers \in Nat /\ mine'.markers \in Nat /\ file.markers \in Nat
      /\ writing'.rec = stamped(rec) /\ writing'.by = by /\ writing'.step = "write"
  BY <1>2, StoreAssumption DEF StoreInv, StoreTypeOK, Contents
<1>5. Dated'
  BY <1>1, <1>2, <1>4, GoneFacts DEF StoreInv, Dated
<1>6. CopyIsRecent'
  BY <1>1, <1>2, <1>4, GoneFacts DEF CopyIsRecent
<1>7. WriteIsRecent'
  BY <1>1, <1>2, <1>4, GoneFacts DEF WriteIsRecent
<1>8. SavedOnDisk'
  BY <1>2 DEF StoreInv, SavedOnDisk
<1> QED
  BY <1>3, <1>5, <1>6, <1>7, <1>8 DEF StoreInv

LEMMA StoreStep ==
  ASSUME StoreInv, [StoreNext]_storeVars
  PROVE  StoreInv'
<1> USE DEF StoreInv
<1>1. /\ file \in Contents /\ kept \in Contents /\ mine \in Contents /\ writing.rec \in Contents
      /\ mine.markers \in Nat /\ file.markers \in Nat
  BY StoreAssumption DEF StoreTypeOK, Contents
<1>2. CASE put
  <2>1. PICK over \in BOOLEAN :
          /\ mine' = [mine EXCEPT !.markers = @ + 1, !.over = over]
          /\ Begins("driver", [mine EXCEPT !.markers = @ + 1, !.over = over])
    BY <1>2 DEF put
  <2> DEFINE rec == [mine EXCEPT !.markers = @ + 1, !.over = over]
  <2>2. /\ rec \in Contents /\ rec.born = mine.born /\ rec.markers = mine.markers + 1
    <3>1. mine.markers + 1 \in 0..MaxWrites
      BY <1>1, <1>2, StoreAssumption DEF put
    <3> QED
      BY <1>1, <3>1 DEF Contents
  <2>3. mine # NoCopy
    BY <1>2 DEF put
  <2> HIDE DEF rec
  <2>4. /\ rec.born \in 0..2 /\ (rec.born # 0 => file # Gone)
        /\ file # Gone => rec.born \in {0, file.born} /\ rec.markers >= file.markers
    BY <1>1, <2>2, <2>3 DEF Dated, CopyIsRecent
  <2>5. mine' = rec /\ Begins("driver", rec)
    BY <2>1 DEF rec
  <2>6. rec.markers \in Nat
    BY <1>1, <2>2
  <2> QED
    BY <2>2, <2>4, <2>5, <2>6, BeginKeeps
<1>3. CASE mutate("signer") \/ mutate("monitor")
  <2>1. PICK by \in {"signer", "monitor"} : mutate(by)
    BY <1>3
  <2> DEFINE rec == IF by = "signer" THEN [file EXCEPT !.contract = TRUE]
                    ELSE [file EXCEPT !.reorg = TRUE]
  <2>2. /\ rec \in Contents /\ rec.born = file.born /\ rec.markers = file.markers
    BY <1>1 DEF Contents
  <2>3. file # Gone /\ UNCHANGED mine /\ Begins(by, rec)
    BY <2>1 DEF mutate, Readable
  <2> HIDE DEF rec
  <2>4. file.born \in 1..2
    BY <2>3 DEF Dated
  <2>5. mine # NoCopy => mine.born \in {0, file.born} /\ mine.markers >= file.markers
    BY <2>3 DEF CopyIsRecent
  <2> QED
    BY <1>1, <2>2, <2>3, <2>4, <2>5, BeginKeeps
<1>4. CASE Sync_tmp
  <2>1. /\ writing.step = "write" /\ writing' = [writing EXCEPT !.step = "rename"]
        /\ UNCHANGED <<file, kept, written, mine, time>>
    BY <1>4 DEF Sync_tmp, Goes
  <2>2. writing'.by = writing.by /\ writing'.rec = writing.rec /\ writing'.step = "rename"
    BY <2>1 DEF StoreTypeOK
  <2> QED
    BY <2>1, <2>2 DEF StoreTypeOK, Dated, CopyIsRecent, WriteIsRecent, SavedOnDisk
<1>5. CASE Rename
  <2>1. /\ writing.step = "rename" /\ writing' = [writing EXCEPT !.step = "dir"]
        /\ file' = writing.rec /\ UNCHANGED <<kept, written, mine, time>>
    BY <1>5 DEF Rename, Goes
  <2>2. writing'.by = writing.by /\ writing'.rec = writing.rec /\ writing'.step = "dir"
    BY <2>1 DEF StoreTypeOK
  <2>3. writing.by # "nobody" /\ writing.rec.born \in 1..2 /\ writing.rec # Gone
    BY <1>1, <2>1, GoneFacts DEF Dated, StoreTypeOK
  <2>4. StoreTypeOK'
    BY <2>1 DEF StoreTypeOK
  <2>5. Dated'
    BY <2>1, <2>2, <2>3 DEF Dated
  <2>6. CopyIsRecent' /\ WriteIsRecent'
    BY <1>1, <2>1, <2>2, <2>3, StoreAssumption DEF CopyIsRecent, WriteIsRecent, Contents
  <2>7. SavedOnDisk'
    <3>1. written.rec.markers \in Nat /\ writing.rec.markers \in Nat
      BY <1>1, StoreAssumption DEF StoreTypeOK, Contents
    <3> QED
      BY <1>1, <2>1, <2>3, <3>1 DEF SavedOnDisk, WriteIsRecent
  <2> QED
    BY <2>4, <2>5, <2>6, <2>7
<1>6. CASE Acknowledge
  <2>1. /\ writing.step = "dir" /\ writing' = NoWrite /\ kept' = file
        /\ written' = [exists |-> TRUE, rec |-> file] /\ UNCHANGED <<file, mine, time>>
    BY <1>6 DEF Acknowledge
  <2>2. file = writing.rec /\ file.born \in 1..2 /\ file # Gone
    BY <1>1, <2>1, GoneFacts DEF WriteIsRecent, Dated
  <2>3. NoWrite.by = "nobody" /\ NoWrite.step = "none" /\ NoWrite.rec = Gone
    BY DEF NoWrite
  <2> QED
    BY <1>1, <2>1, <2>2, <2>3, GoneFacts
       DEF StoreTypeOK, Dated, CopyIsRecent, WriteIsRecent, SavedOnDisk, NoWrite
<1>7. CASE WriteFails
  <2>1. writing' = NoWrite /\ UNCHANGED <<file, kept, mine, written, time>>
    BY <1>7 DEF WriteFails
  <2> QED
    BY <2>1, GoneFacts DEF StoreTypeOK, Dated, CopyIsRecent, WriteIsRecent, SavedOnDisk, NoWrite
<1>8. CASE load
  <2>1. file # Gone /\ writing.by = "nobody" /\ mine' = file
        /\ UNCHANGED <<file, kept, writing, written, time>>
    BY <1>8 DEF load, Readable, Unlocked
  <2> QED
    BY <1>1, <2>1 DEF StoreTypeOK, Dated, CopyIsRecent, WriteIsRecent, SavedOnDisk
<1>9. CASE Crash \/ PowerLoss
  <2>1. /\ writing' = NoWrite /\ mine' = NoCopy /\ UNCHANGED <<written, time>>
        /\ file' \in {file, kept} /\ kept' \in {file, kept}
    BY <1>9 DEF Crash, PowerLoss
  <2> QED
    BY <1>1, <2>1, GoneFacts
       DEF StoreTypeOK, Dated, CopyIsRecent, WriteIsRecent, SavedOnDisk, NoWrite
<1>10. CASE ClockMoves
  <2>1. time' \in 1..2 /\ UNCHANGED <<file, kept, writing, mine, written>>
    BY <1>10 DEF ClockMoves, StoreTypeOK
  <2> QED
    BY <2>1 DEF StoreTypeOK, Dated, CopyIsRecent, WriteIsRecent, SavedOnDisk
<1>11. CASE prune_terminal
  <2>1. /\ file' = Gone /\ kept' = Gone /\ written' = Never /\ mine' = NoCopy
        /\ writing.by = "nobody" /\ UNCHANGED <<writing, time>>
    BY <1>11 DEF prune_terminal, Unlocked
  <2> QED
    BY <2>1, GoneFacts DEF StoreTypeOK, Dated, CopyIsRecent, WriteIsRecent, SavedOnDisk, Never
<1>12. CASE UNCHANGED storeVars
  BY <1>12 DEF storeVars, StoreTypeOK, Dated, CopyIsRecent, WriteIsRecent, SavedOnDisk
<1> QED
  BY <1>2, <1>3, <1>4, <1>5, <1>6, <1>7, <1>8, <1>9, <1>10, <1>11, <1>12 DEF StoreNext

\* Whatever the driver, the signer, the monitor and the pruner write, in whatever order and
\* through crashes and power failures, what an acknowledged write saved is there to read
\* (JsonFileSwapStore).
THEOREM WritesAreKept == StoreSpec => []SavedStays
<1>1. StoreInv => SavedStays
  BY DEF StoreInv, SavedOnDisk, SavedStays, Readable
<1> QED
  BY <1>1, StoreInitInv, StoreStep, PTL DEF StoreSpec

-----------------------------------------------------------------------------
(* 2. The authorization of requests.                                       *)

LooksAreRecords ==
  /\ clock \in Nat /\ record \in [Grants -> Nat]
  /\ at = [r \in Requests |-> at[r]] /\ look = [r \in Requests |-> look[r]]
  /\ \A r \in Requests :
       /\ look[r] = [generation |-> look[r].generation, to |-> look[r].to,
                     expires |-> look[r].expires]
       /\ look[r].expires \in Nat

\* What was read and has not expired was current while the request waited.
ReadWhileCurrent ==
  \A r \in Requests : at[r] = "check" /\ look[r].expires > clock => r \in current

AuthorizationInv == LooksAreRecords /\ ReadWhileCurrent /\ AuthorizedWhileWaiting

LEMMA AuthorizationInitInv == Init => AuthorizationInv
BY DEF Init, Blank, AuthorizationInv, LooksAreRecords, ReadWhileCurrent, AuthorizedWhileWaiting

LEMMA RecordIsNat ==
  ASSUME record \in [Grants -> Nat], NEW r \in Requests
  PROVE  Record(r) \in Nat
BY DEF Record

\* A step of the provider changes the state of one request.
LEMMA AuthorizationStep ==
  ASSUME AuthorizationInv, [Next]_vars
  PROVE  AuthorizationInv'
<1> USE DEF AuthorizationInv
<1> USE AuthorizationAssumption
<1>1. CASE UNCHANGED vars
  BY <1>1 DEF vars, LooksAreRecords, ReadWhileCurrent, AuthorizedWhileWaiting
<1>2. CASE Next
  <2>1. /\ current \subseteq current'
        /\ \A r \in Requests : Waiting(r) /\ Record(r)' > clock' => r \in current'
    BY <1>2 DEF Next
  <2>2. CASE Account
    <3>1. /\ UNCHANGED <<clock, at, look>> /\ record' \in [Grants -> Nat]
      <4>1. ASSUME NEW g \in Grants, authorize(g)
            PROVE  UNCHANGED <<clock, at, look>> /\ record' \in [Grants -> Nat]
        <5>1. g[1] \in Owners
          OBVIOUS
        <5>2. clock + Skew[g[1]] + AUTHORIZATION_LIFETIME \in Nat
          BY <5>1 DEF LooksAreRecords
        <5> QED
          BY <4>1, <5>2 DEF authorize, LooksAreRecords
      <4>2. ASSUME NEW g \in Grants, Withdraw(g)
            PROVE  UNCHANGED <<clock, at, look>> /\ record' \in [Grants -> Nat]
        BY <4>2 DEF Withdraw, LooksAreRecords
      <4>3. ASSUME NEW o \in Owners, Reach(o)
            PROVE  UNCHANGED <<clock, at, look>> /\ record' \in [Grants -> Nat]
        BY <4>3 DEF Reach, LooksAreRecords
      <4> QED
        BY <2>2, <4>1, <4>2, <4>3 DEF Account
    <3> QED
      BY <2>1, <3>1 DEF LooksAreRecords, ReadWhileCurrent, AuthorizedWhileWaiting
  <2>3. CASE Tick
    BY <2>1, <2>3 DEF Tick, LooksAreRecords, ReadWhileCurrent, AuthorizedWhileWaiting
  <2>4. ASSUME NEW r \in Requests,
               \/ Arrive(r) \/ StartLookup(r) \/ ResolveRoute(r) \/ Fetch(r)
               \/ Verify(r) \/ Refuse(r)
        PROVE  AuthorizationInv'
    <3>1. UNCHANGED <<clock, record>> /\ \E next : at' = [at EXCEPT ![r] = next]
      <4>1. PICK next : Step(r, next)
        BY <2>4 DEF Arrive, StartLookup, ResolveRoute, Fetch, Verify, Refuse
      <4> QED
        BY <4>1 DEF Step
    <3>2. /\ at' = [q \in Requests |-> at'[q]]
          /\ \A q \in Requests : q # r => at'[q] = at[q]
      BY <3>1 DEF LooksAreRecords
    <3>3. /\ look' = [q \in Requests |-> look'[q]]
          /\ \A q \in Requests : q # r => look'[q] = look[q]
      BY <2>4 DEF Arrive, StartLookup, ResolveRoute, Fetch, Verify, Refuse, LooksAreRecords
    <3>4. /\ look'[r] = [generation |-> look'[r].generation, to |-> look'[r].to,
                         expires |-> look'[r].expires]
          /\ look'[r].expires \in Nat
      <4>1. CASE Arrive(r) \/ Verify(r) \/ Refuse(r)
        BY <4>1 DEF Arrive, Verify, Refuse, LooksAreRecords
      <4>2. CASE StartLookup(r)
        <5>1. look'[r] = [Blank EXCEPT !.generation = client_for(Owner[r]).generation,
                                       !.to = client_for(Owner[r]).owners[Owner[r]].to]
          BY <4>2 DEF StartLookup, LooksAreRecords
        <5> DEFINE client == client_for(Owner[r])
        <5>2. look'[r] = [generation |-> client.generation, to |-> client.owners[Owner[r]].to,
                          expires |-> 0]
          BY <5>1 DEF Blank
        <5> HIDE DEF client
        <5> QED
          BY <5>2
      <4>3. CASE ResolveRoute(r)
        <5>1. look'[r] = [look[r] EXCEPT !.to = resolve_route(Owner[r])]
          BY <4>3 DEF ResolveRoute, LooksAreRecords
        <5> QED
          BY <5>1 DEF LooksAreRecords
      <4>4. CASE Fetch(r)
        <5>1. look'[r] = [look[r] EXCEPT !.expires = Record(r)]
          BY <4>4 DEF Fetch, LooksAreRecords
        <5> QED
          BY <5>1, RecordIsNat DEF LooksAreRecords
      <4> QED
        BY <2>4, <4>1, <4>2, <4>3, <4>4
    <3>5. at'[r] = "check" /\ look'[r].expires > clock => r \in current'
      <4>1. CASE Fetch(r)
        <5>1. look'[r] = [look[r] EXCEPT !.expires = Record(r)] /\ at'[r] = "check"
          BY <4>1 DEF Fetch, LooksAreRecords, Step
        <5>2. look'[r].expires = Record(r) /\ Waiting(r)
          BY <5>1 DEF LooksAreRecords, Waiting
        <5>3. Record(r)' = Record(r)
          BY <3>1 DEF Record
        <5> QED
          BY <2>1, <3>1, <5>2, <5>3
      <4>2. CASE ~Fetch(r)
        BY <2>4, <4>2 DEF Arrive, StartLookup, ResolveRoute, Verify, Refuse, Step, LooksAreRecords
      <4> QED
        BY <4>1, <4>2
    <3>6. at'[r] = "accepted" => r \in current'
      <4>1. at'[r] = "accepted" => Verify(r)
        BY <2>4 DEF Arrive, StartLookup, ResolveRoute, Fetch, Refuse, Step, LooksAreRecords
      <4>2. Verify(r) => at[r] = "check" /\ look[r].expires > clock
        BY DEF Verify, validate_authorization
      <4> QED
        BY <2>1, <4>1, <4>2 DEF ReadWhileCurrent
    <3>7. LooksAreRecords'
      <4>1. \A q \in Requests :
              /\ look'[q] = [generation |-> look'[q].generation, to |-> look'[q].to,
                             expires |-> look'[q].expires]
              /\ look'[q].expires \in Nat
        BY <3>3, <3>4 DEF LooksAreRecords
      <4> QED
        BY <3>1, <3>2, <3>3, <4>1 DEF LooksAreRecords
    <3>8. ReadWhileCurrent'
      BY <2>1, <3>1, <3>2, <3>3, <3>5 DEF ReadWhileCurrent
    <3>9. AuthorizedWhileWaiting'
      BY <2>1, <3>2, <3>6 DEF AuthorizedWhileWaiting
    <3> QED
      BY <3>7, <3>8, <3>9
  <2> QED
    BY <1>2, <2>2, <2>3, <2>4 DEF Next, Provider
<1> QED
  BY <1>1, <1>2

\* However the lookups of many accounts overlap and whatever the shared client keeps, no
\* request is let through that met no current authorization of its account while it waited
\* (AuthorizationVerifier::verify).
THEOREM RequestsAreAuthorized == Spec => []AuthorizedWhileWaiting
<1>1. AuthorizationInv => AuthorizedWhileWaiting
  BY DEF AuthorizationInv
<1> QED
  BY <1>1, AuthorizationInitInv, AuthorizationStep, PTL DEF Spec

-----------------------------------------------------------------------------
(* 3. Wake grants.                                                         *)

Held == WakeGrant \cup {NoGrant}
Spoilers == {"save", "reply", "hint", "mark", "midway", "restart"}

WakeTypeOK ==
  /\ shown \in [claimable : BOOLEAN, over : BOOLEAN]
  /\ watch \in [copy : BOOLEAN, step : {"watch", "take", "end", "over"}]
  /\ held \in Held /\ saved \in Held
  /\ ask \in [grant : Held, step : {"none", "read", "hold", "again", "tell"}]
  /\ outgoing \in [grant : Held, step : {"none", "wake", "hint"}]
  /\ offered \in [WakeGrant -> {"kept", "sent", "accepted", "told", "refused"}]
  /\ woken \in [WakeGrant -> Nat] /\ expired \subseteq WakeGrant /\ unasked \subseteq WakeGrant
  /\ hinted \in BOOLEAN /\ dms \in BOOLEAN /\ spoilt \in Seq(Spoilers)

\* What the handler takes in has not been answered.
AskIsOpen ==
  /\ ask.step = "none" <=> ask.grant = NoGrant
  /\ ask.grant # NoGrant => offered[ask.grant] = "sent"

\* The driver's copy and the record say the same unless a mark was not written.
CopyIsShown ==
  /\ shown.over <=> watch.step = "over"
  /\ watch.step = "take" => watch.copy
  /\ outgoing.step = "none" => outgoing.grant = NoGrant
  /\ outgoing.step = "wake" => outgoing.grant \in WakeGrant
  /\ ~Spoilt("mark") => (shown.claimable <=> watch.copy)

\* The announcement of a claimable swap has not been spawned.
Unannounced == ~watch.copy \/ watch.step = "take"

SpentOnce ==
  ~Spoilt("mark") =>
    /\ Unannounced => outgoing.step = "none"
    /\ Unannounced \/ outgoing.step = "wake" =>
         unasked = {} /\ \A g \in WakeGrant : woken[g] = 0
    /\ \A g \in WakeGrant : woken[g] <= IF g \in unasked THEN 0 ELSE 1

\* Before the announcement the accepted grant is held; afterwards it is spent or about to
\* be, and only a handler that will read again holds one.
AcceptedIsHeld ==
  Smoothly =>
    /\ saved = held
    /\ Unannounced /\ watch.step \in {"watch", "take"} =>
         /\ \A g \in WakeGrant : offered[g] = "accepted" => held = g
         /\ ask.step = "again" => held = ask.grant
    /\ ~Unannounced =>
         /\ \A g \in WakeGrant : offered[g] = "accepted" =>
              \/ woken[g] = 1 \/ g \in unasked
              \/ outgoing.step = "wake" /\ outgoing.grant = g
         /\ dms => hinted \/ outgoing.step \in {"wake", "hint"} \/ Spoilt("hint")
         /\ held # NoGrant => ask.step = "again"

WakeInv == WakeTypeOK /\ AskIsOpen /\ CopyIsShown /\ SpentOnce /\ AcceptedIsHeld

LEMMA WakeInitInv == WakeInit => WakeInv
<1> SUFFICES ASSUME WakeInit PROVE WakeInv
  OBVIOUS
<1>1. /\ shown.claimable = FALSE /\ shown.over = FALSE /\ watch.copy = FALSE /\ watch.step = "watch"
      /\ held = NoGrant /\ saved = NoGrant /\ ask.step = "none" /\ ask.grant = NoGrant
      /\ outgoing.step = "none" /\ outgoing.grant = NoGrant
      /\ unasked = {} /\ \A g \in WakeGrant : offered[g] = "kept" /\ woken[g] = 0
  BY DEF WakeInit, NoAsk, Silent
<1>2. WakeTypeOK
  <2>1. <<>> \in Seq(Spoilers)
    OBVIOUS
  <2> QED
    BY <2>1 DEF WakeInit, NoAsk, Silent, WakeTypeOK, Held
<1> QED
  BY <1>1, <1>2, WakeAssumption
     DEF WakeInv, AskIsOpen, CopyIsShown, SpentOnce, AcceptedIsHeld, Unannounced

\* What has gone wrong is not forgotten.
LEMMA SpoilFacts ==
  ASSUME WakeInv, NEW what \in Spoilers, Spoil(what)
  PROVE  /\ spoilt' \in Seq(Spoilers)
         /\ Spoilt(what)'
         /\ ~Spoilt("mark")' => ~Spoilt("mark")
         /\ ~Spoilt("hint")' => ~Spoilt("hint")
         /\ Smoothly' => Smoothly /\ what \notin {"save", "mark", "midway"}
<1>1. spoilt \in Seq(Spoilers) /\ spoilt' = Append(spoilt, what)
  BY DEF Spoil, WakeInv, WakeTypeOK
<1>2. /\ spoilt' \in Seq(Spoilers) /\ DOMAIN spoilt = 1..Len(spoilt)
      /\ DOMAIN spoilt' = 1..(Len(spoilt) + 1) /\ Len(spoilt) \in Nat
      /\ spoilt'[Len(spoilt) + 1] = what /\ \A i \in 1..Len(spoilt) : spoilt'[i] = spoilt[i]
  BY <1>1
<1>3. Spoilt(what)' /\ \A w : Spoilt(w) => Spoilt(w)'
  <2>1. Len(spoilt) + 1 \in DOMAIN spoilt' /\ DOMAIN spoilt \subseteq DOMAIN spoilt'
    BY <1>2
  <2> QED
    BY <1>2, <2>1 DEF Spoilt
<1> QED
  BY <1>2, <1>3 DEF Smoothly

LEMMA WellFacts ==
  ASSUME Well
  PROVE  /\ spoilt' = spoilt /\ (Spoilt("mark")' <=> Spoilt("mark")) /\ (Smoothly' <=> Smoothly)
         /\ (Spoilt("hint")' <=> Spoilt("hint"))
BY DEF Well, Spoilt, Smoothly

\* What has gone wrong before a step has gone wrong after it.
SpoiltStays ==
  /\ spoilt' \in Seq(Spoilers) /\ (Spoilt("mark") => Spoilt("mark")')
  /\ (Spoilt("hint") => Spoilt("hint")') /\ (Smoothly' => Smoothly)

LEMMA SpoilStays ==
  ASSUME WakeInv, Well \/ \E what \in Spoilers : Spoil(what)
  PROVE  SpoiltStays
BY SpoilFacts, WellFacts DEF SpoiltStays, WakeInv, WakeTypeOK

LEMMA HoldsFacts ==
  ASSUME WakeInv, NEW g \in Held, Holds(g)
  PROVE  held' = g /\ saved' \in Held /\ SpoiltStays /\ (Smoothly' => saved' = held')
<1>1. CASE Well /\ saved' = g
  BY <1>1, SpoilStays DEF Holds
<1>2. CASE Spoil("save") /\ UNCHANGED saved
  BY <1>2, SpoilStays, SpoilFacts DEF Holds, Spoilers, WakeInv, WakeTypeOK
<1> QED
  BY <1>1, <1>2 DEF Holds, save

LEMMA TakeFacts ==
  ASSUME WakeInv, take
  PROVE  held' = NoGrant /\ saved' \in Held /\ SpoiltStays /\ (Smoothly' => saved' = held')
<1>1. CASE held = NoGrant
  <2>1. UNCHANGED <<held, saved>> /\ Well
    BY <1>1 DEF take, Well
  <2> QED
    BY <1>1, <2>1, SpoilStays DEF WakeInv, WakeTypeOK, AcceptedIsHeld, SpoiltStays
<1>2. CASE held # NoGrant
  BY <1>2, HoldsFacts DEF take, Held
<1> QED
  BY <1>1, <1>2

LEMMA ReplyFacts ==
  ASSUME WakeInv, ask.step # "none",
         NEW answer \in {"accepted", "told", "refused"}, Reply(answer)
  PROVE  /\ ask' = NoAsk /\ ask'.grant = NoGrant /\ ask'.step = "none" /\ SpoiltStays
         /\ offered' \in [WakeGrant -> {"kept", "sent", "accepted", "told", "refused"}]
         /\ \A g \in WakeGrant : offered'[g] = "accepted" =>
              offered[g] = "accepted" \/ (g = ask.grant /\ answer = "accepted")
         /\ UNCHANGED <<shown, watch, held, saved, outgoing, expired, woken, unasked, hinted,
                        dms>>
<1> USE DEF WakeInv
<1>1. ask' = NoAsk /\ UNCHANGED <<shown, watch, held, saved, outgoing, expired, woken,
                                  unasked, hinted, dms>>
  BY DEF Reply
<1>2. ask.grant \in WakeGrant
  BY DEF AskIsOpen, WakeTypeOK, Held
<1>3. CASE Well /\ offered' = [offered EXCEPT ![ask.grant] = answer]
  BY <1>1, <1>2, <1>3, SpoilStays DEF WakeTypeOK, NoAsk
<1>4. CASE Spoil("reply") /\ UNCHANGED offered
  BY <1>1, <1>4, SpoilStays DEF WakeTypeOK, NoAsk, Spoilers
<1> QED
  BY <1>3, <1>4 DEF Reply

\* A reply that does not accept, or accepts a grant that is held for a swap that is not due.
LEMMA ReplyKeeps ==
  ASSUME WakeInv, ask.step # "none",
         NEW answer \in {"accepted", "told", "refused"}, Reply(answer),
         held # NoGrant /\ ask.step = "again" => answer = "accepted",
         answer = "accepted" => ask.step = "again" /\ ~shown.claimable
  PROVE  WakeInv'
<1> USE DEF WakeInv
<1>1. /\ UNCHANGED <<shown, watch, held, saved, outgoing, expired, woken, unasked, hinted, dms>>
      /\ ask'.grant = NoGrant /\ ask'.step = "none" /\ SpoiltStays
  BY ReplyFacts
<1>2. WakeTypeOK'
  BY ReplyFacts DEF WakeTypeOK, SpoiltStays, NoAsk, Held
<1>3. AskIsOpen' /\ CopyIsShown' /\ SpentOnce'
  BY <1>1 DEF AskIsOpen, CopyIsShown, SpentOnce, SpoiltStays, Unannounced
<1>4. AcceptedIsHeld'
  <2>1. ASSUME Smoothly' PROVE Smoothly /\ ~Spoilt("mark")
    BY <1>1, <2>1 DEF SpoiltStays, Smoothly
  <2>2. \A g \in WakeGrant : offered'[g] = "accepted" =>
              offered[g] = "accepted" \/ (g = ask.grant /\ answer = "accepted")
    BY ReplyFacts
  <2>3. (Smoothly' /\ answer = "accepted") => (~watch.copy /\ Unannounced)
    BY <2>1 DEF CopyIsShown, Unannounced
  <2>4. Unannounced' <=> Unannounced
    BY <1>1 DEF Unannounced
  <2> QED
    BY <1>1, <2>1, <2>2, <2>3, <2>4 DEF AcceptedIsHeld, SpoiltStays
<1> QED
  BY <1>2, <1>3, <1>4

\* The handler of a wake capability.
LEMMA HandlerKeeps ==
  ASSUME WakeInv,
         \/ \E g \in WakeGrant : Offer(g) \/ Expire(g)
         \/ accept_wake_capability \/ hold \/ RefuseGrant \/ Reread \/ TellClaimable
  PROVE  WakeInv'
<1> USE DEF WakeInv
<1>1. Smoothly => ~Spoilt("mark")
  BY DEF Smoothly
<1>2. ASSUME NEW g \in WakeGrant, Expire(g) PROVE WakeInv'
  <2>1. /\ expired' = expired \cup {g} /\ Well
        /\ UNCHANGED <<shown, watch, held, saved, ask, offered, outgoing, woken, unasked,
                       hinted, dms, spoilt>>
    BY <1>2 DEF Expire, Well
  <2>2. WakeTypeOK' /\ AskIsOpen' /\ CopyIsShown' /\ SpentOnce'
    BY <2>1, SpoilStays
       DEF WakeTypeOK, AskIsOpen, CopyIsShown, SpentOnce, SpoiltStays, Unannounced
  <2>3. AcceptedIsHeld'
    <3>1. Unannounced' <=> Unannounced
      BY <2>1 DEF Unannounced
    <3> QED
      BY <2>1, <3>1, SpoilStays DEF AcceptedIsHeld, SpoiltStays
  <2> QED
    BY <2>2, <2>3
<1>3. ASSUME NEW g \in WakeGrant, Offer(g) PROVE WakeInv'
  <2>1. /\ ask = NoAsk /\ offered' = [offered EXCEPT ![g] = "sent"]
        /\ ask' = [grant |-> g, step |-> "read"]
        /\ UNCHANGED <<shown, watch, held, saved, outgoing, expired, woken, unasked, hinted,
                       dms, spoilt>>
    BY <1>3 DEF Offer
  <2>2. /\ ask'.grant = g /\ ask'.step = "read" /\ ask.step = "none" /\ offered'[g] = "sent"
        /\ \A h \in WakeGrant : offered'[h] = "accepted" => offered[h] = "accepted"
        /\ g # NoGrant /\ SpoiltStays
    BY <2>1, WakeAssumption, SpoilStays DEF NoAsk, WakeTypeOK, Well
  <2>3. WakeTypeOK'
    BY <2>1 DEF WakeTypeOK, Held
  <2>4. AskIsOpen' /\ CopyIsShown' /\ SpentOnce'
    BY <2>1, <2>2 DEF AskIsOpen, CopyIsShown, SpentOnce, SpoiltStays, Unannounced
  <2>5. AcceptedIsHeld'
    <3>1. Unannounced' <=> Unannounced
      BY <2>1 DEF Unannounced
    <3> QED
      BY <2>1, <2>2, <3>1 DEF AcceptedIsHeld, SpoiltStays
  <2> QED
    BY <2>3, <2>4, <2>5
<1>4. CASE accept_wake_capability
  <2>1. CASE \E answer \in {"refused", "told"} : Reply(answer)
    BY <1>4, <2>1, ReplyKeeps DEF accept_wake_capability
  <2>2. CASE /\ ask' = [ask EXCEPT !.step = "hold"]
             /\ UNCHANGED <<shown, watch, held, saved, offered, outgoing, expired, woken,
                            unasked, hinted, dms,
                            spoilt>>
    <3>1. /\ ask'.grant = ask.grant /\ ask'.step = "hold" /\ ask.step = "read" /\ SpoiltStays
          /\ ask' \in [grant : Held, step : {"none", "read", "hold", "again", "tell"}]
      BY <1>4, <2>2, SpoilStays DEF accept_wake_capability, WakeTypeOK, Well
    <3>2. WakeTypeOK' /\ AskIsOpen' /\ CopyIsShown' /\ SpentOnce'
      BY <2>2, <3>1
         DEF WakeTypeOK, AskIsOpen, CopyIsShown, SpentOnce, SpoiltStays, Unannounced
    <3>3. AcceptedIsHeld'
      <4>1. Unannounced' <=> Unannounced
        BY <2>2 DEF Unannounced
      <4> QED
        BY <2>2, <3>1, <4>1 DEF AcceptedIsHeld, SpoiltStays
    <3> QED
      BY <3>2, <3>3
  <2> QED
    BY <1>4, <2>1, <2>2 DEF accept_wake_capability
<1>5. CASE hold
  <2>1. /\ ask' = [ask EXCEPT !.step = "again"] /\ ask.step = "hold"
        /\ held \in {NoGrant, ask.grant}
        /\ UNCHANGED <<shown, watch, offered, outgoing, expired, woken, unasked, hinted, dms>>
    BY <1>5 DEF hold
  <2>2. /\ ask'.grant = ask.grant /\ ask'.step = "again" /\ ask.grant \in WakeGrant
        /\ ask' \in [grant : Held, step : {"none", "read", "hold", "again", "tell"}]
    BY <2>1 DEF WakeTypeOK, AskIsOpen, Held
  <2>3. held' = ask.grant /\ saved' \in Held /\ SpoiltStays /\ (Smoothly' => saved' = held')
    <3>1. CASE held = NoGrant
      BY <1>5, <2>2, <3>1, HoldsFacts DEF hold, Held
    <3>2. CASE held # NoGrant
      <4>1. UNCHANGED <<held, saved>> /\ Well /\ held = ask.grant
        BY <1>5, <2>1, <3>2 DEF hold, Well
      <4> QED
        BY <4>1, SpoilStays DEF WakeTypeOK, AcceptedIsHeld, SpoiltStays
    <3> QED
      BY <3>1, <3>2
  <2>4. WakeTypeOK'
    BY <2>1, <2>2, <2>3 DEF WakeTypeOK, SpoiltStays, Held
  <2>5. AskIsOpen' /\ CopyIsShown' /\ SpentOnce'
    BY <2>1, <2>2, <2>3 DEF AskIsOpen, CopyIsShown, SpentOnce, SpoiltStays, Unannounced
  <2>6. AcceptedIsHeld'
    <3>1. Unannounced' <=> Unannounced
      BY <2>1 DEF Unannounced
    <3> QED
      BY <2>1, <2>2, <2>3, <3>1, WakeAssumption DEF AcceptedIsHeld, SpoiltStays
  <2> QED
    BY <2>4, <2>5, <2>6
<1>6. CASE RefuseGrant
  BY <1>6, ReplyKeeps DEF RefuseGrant
<1>7. CASE Reread
  <2>1. CASE ~Again /\ Reply("accepted")
    BY <1>7, <2>1, ReplyKeeps DEF Reread, Again
  <2>2. CASE /\ Again /\ take /\ ask' = [ask EXCEPT !.step = "tell"]
             /\ UNCHANGED <<shown, watch, offered, outgoing, expired, woken, unasked, hinted,
                            dms>>
    <3>1. /\ ask'.grant = ask.grant /\ ask'.step = "tell" /\ ask.step = "again"
          /\ ask' \in [grant : Held, step : {"none", "read", "hold", "again", "tell"}]
          /\ shown.claimable
      BY <1>7, <2>2 DEF Reread, WakeTypeOK, Again
    <3>2. held' = NoGrant /\ saved' \in Held /\ SpoiltStays /\ (Smoothly' => saved' = held')
      BY <2>2, TakeFacts
    <3>3. WakeTypeOK'
      BY <2>2, <3>1, <3>2 DEF WakeTypeOK, SpoiltStays, Held
    <3>4. AskIsOpen' /\ CopyIsShown' /\ SpentOnce'
      BY <2>2, <3>1, <3>2 DEF AskIsOpen, CopyIsShown, SpentOnce, SpoiltStays, Unannounced
    <3>5. AcceptedIsHeld'
      <4>1. Unannounced' <=> Unannounced
        BY <2>2 DEF Unannounced
      <4>2. Smoothly' => Smoothly /\ watch.copy
        BY <1>1, <3>1, <3>2 DEF SpoiltStays, CopyIsShown
      <4>3. ASSUME Smoothly', Unannounced, NEW g \in WakeGrant PROVE offered[g] # "accepted"
        <5>1. watch.step = "take"
          BY <4>2, <4>3 DEF Unannounced
        <5>2. held = ask.grant /\ (offered[g] = "accepted" => held = g)
          BY <3>1, <4>2, <4>3, <5>1 DEF AcceptedIsHeld
        <5>3. g # NoGrant
          BY WakeAssumption
        <5> QED
          BY <5>2, <5>3 DEF AskIsOpen
      <4> QED
        BY <2>2, <3>1, <3>2, <4>1, <4>2, <4>3 DEF AcceptedIsHeld, SpoiltStays
    <3> QED
      BY <3>3, <3>4, <3>5
  <2> QED
    BY <1>7, <2>1, <2>2 DEF Reread
<1>8. CASE TellClaimable
  BY <1>8, ReplyKeeps DEF TellClaimable
<1> QED
  BY <1>3, <1>4, <1>5, <1>6, <1>7, <1>8, <1>2

\* The driver, its announcement, and a restart.
LEMMA DriverKeeps ==
  ASSUME WakeInv,
         \/ claimable \/ TakeGrant \/ wake \/ announce_claimable
         \/ Forget \/ SetTerminal \/ Restart
  PROVE  WakeInv'
<1> USE DEF WakeInv
<1>1. Smoothly => ~Spoilt("mark")
  BY DEF Smoothly
<1>2. CASE claimable
  <2>1. /\ watch.step = "watch" /\ ~watch.copy /\ watch' = [copy |-> TRUE, step |-> "take"]
        /\ UNCHANGED <<held, saved, ask, offered, outgoing, expired, woken, unasked, hinted,
                       dms>>
    BY <1>2 DEF claimable
  <2>2. watch'.copy /\ watch'.step = "take" /\ Unannounced /\ Unannounced'
    BY <2>1 DEF Unannounced
  <2>3. /\ shown' \in [claimable : BOOLEAN, over : BOOLEAN] /\ (shown'.over <=> shown.over)
        /\ SpoiltStays /\ (~Spoilt("mark")' => shown'.claimable)
    <3>1. CASE Well /\ shown' = [shown EXCEPT !.claimable = TRUE]
      BY <3>1, SpoilStays DEF WakeTypeOK
    <3>2. CASE Spoil("mark") /\ UNCHANGED shown
      BY <3>2, SpoilStays, SpoilFacts DEF WakeTypeOK, Spoilers
    <3> QED
      BY <1>2, <3>1, <3>2 DEF claimable
  <2>4. WakeTypeOK' /\ AskIsOpen' /\ CopyIsShown'
    BY <2>1, <2>2, <2>3 DEF WakeTypeOK, AskIsOpen, CopyIsShown, SpoiltStays
  <2>5. SpentOnce' /\ AcceptedIsHeld'
    BY <2>1, <2>2, <2>3 DEF SpentOnce, AcceptedIsHeld, SpoiltStays
  <2> QED
    BY <2>4, <2>5
<1>3. CASE TakeGrant
  <2>1. /\ watch.step = "take" /\ take /\ watch' = [watch EXCEPT !.step = "watch"]
        /\ outgoing' = [grant |-> held, step |-> IF held = NoGrant THEN "hint" ELSE "wake"]
        /\ UNCHANGED <<shown, ask, offered, expired, woken, unasked, hinted, dms>>
    BY <1>3 DEF TakeGrant
  <2>2. /\ watch'.copy /\ watch'.step = "watch" /\ watch.copy
        /\ outgoing'.grant = held /\ outgoing'.step \in {"hint", "wake"}
        /\ (outgoing'.step = "wake" <=> held # NoGrant)
        /\ watch' \in [copy : BOOLEAN, step : {"watch", "take", "end", "over"}]
        /\ outgoing' \in [grant : Held, step : {"none", "wake", "hint"}]
    BY <2>1 DEF WakeTypeOK, CopyIsShown
  <2>3. held' = NoGrant /\ saved' \in Held /\ SpoiltStays /\ (Smoothly' => saved' = held')
    BY <2>1, TakeFacts
  <2>4. WakeTypeOK' /\ AskIsOpen'
    BY <2>1, <2>2, <2>3 DEF WakeTypeOK, AskIsOpen, SpoiltStays, Held
  <2>5. CopyIsShown'
    BY <2>1, <2>2, <2>3 DEF WakeTypeOK, CopyIsShown, SpoiltStays, Held
  <2>6. Unannounced /\ ~Unannounced'
    BY <2>1, <2>2 DEF Unannounced
  <2>7. SpentOnce' /\ AcceptedIsHeld'
    BY <2>1, <2>2, <2>3, <2>6, WakeAssumption DEF SpentOnce, AcceptedIsHeld, SpoiltStays
  <2> QED
    BY <2>4, <2>5, <2>7
<1>4. CASE wake
  <2>1. /\ outgoing.step = "wake" /\ outgoing' = [outgoing EXCEPT !.step = "hint"]
        /\ UNCHANGED <<shown, watch, held, saved, ask, offered, expired, hinted, dms, spoilt>>
    BY <1>4 DEF wake
  <2>2. /\ outgoing'.step = "hint" /\ outgoing'.grant = outgoing.grant /\ SpoiltStays
        /\ outgoing.grant \in WakeGrant /\ outgoing' \in [grant : Held, step : {"none", "wake", "hint"}]
    <3>1. outgoing.grant \in WakeGrant /\ SpoiltStays
      BY <2>1, SpoilStays DEF CopyIsShown, Well
    <3>2. /\ outgoing'.step = "hint" /\ outgoing'.grant = outgoing.grant
          /\ outgoing' \in [grant : Held, step : {"none", "wake", "hint"}]
      BY <2>1 DEF WakeTypeOK
    <3> QED
      BY <3>1, <3>2
  <2>3. /\ woken' \in [WakeGrant -> Nat] /\ unasked' \subseteq WakeGrant
        /\ \/ /\ woken'[outgoing.grant] = woken[outgoing.grant] + 1 /\ unasked' = unasked
              /\ \A g \in WakeGrant : g # outgoing.grant => woken'[g] = woken[g]
           \/ unasked' = unasked \cup {outgoing.grant} /\ woken' = woken
    <3>1. CASE woken' = [woken EXCEPT ![outgoing.grant] = @ + 1] /\ UNCHANGED unasked
      BY <2>2, <3>1 DEF WakeTypeOK
    <3>2. CASE unasked' = unasked \cup {outgoing.grant} /\ UNCHANGED woken
      BY <2>2, <3>2 DEF WakeTypeOK
    <3> QED
      BY <1>4, <3>1, <3>2 DEF wake
  <2>4. WakeTypeOK' /\ AskIsOpen' /\ CopyIsShown'
    BY <2>1, <2>2, <2>3 DEF WakeTypeOK, AskIsOpen, CopyIsShown, SpoiltStays
  <2>5. Unannounced' <=> Unannounced
    BY <2>1 DEF Unannounced
  <2>6. ~Spoilt("mark")' =>
          ~Unannounced /\ unasked = {} /\ \A g \in WakeGrant : woken[g] = 0
    BY <2>1, <2>2 DEF SpentOnce, SpoiltStays
  <2>7. ~Spoilt("mark")' =>
          /\ woken'[outgoing.grant] = 1 \/ outgoing.grant \in unasked'
          /\ \A g \in WakeGrant : woken'[g] <= IF g \in unasked' THEN 0 ELSE 1
    BY <2>2, <2>3, <2>6
  <2>8. SpentOnce'
    BY <2>2, <2>5, <2>6, <2>7 DEF SpentOnce
  <2>9. AcceptedIsHeld'
    <3>1. Smoothly' => Smoothly /\ ~Spoilt("mark")' /\ ~Unannounced'
      BY <2>2, <2>5, <2>6 DEF SpoiltStays, Smoothly
    <3>2. ASSUME Smoothly', NEW g \in WakeGrant, offered[g] = "accepted"
          PROVE  woken'[g] = 1 \/ g \in unasked'
      <4>1. outgoing.grant = g
        BY <2>5, <2>6, <3>1, <3>2 DEF AcceptedIsHeld
      <4> QED
        BY <2>7, <3>1, <3>2, <4>1
    <3> QED
      BY <2>1, <2>2, <2>5, <3>1, <3>2 DEF AcceptedIsHeld
  <2> QED
    BY <2>4, <2>8, <2>9
<1>5. CASE announce_claimable
  <2>1. /\ outgoing.step = "hint" /\ outgoing' = Silent
        /\ UNCHANGED <<shown, watch, held, saved, ask, offered, expired, woken, unasked, dms>>
    BY <1>5 DEF announce_claimable
  <2>2. SpoiltStays /\ hinted' \in BOOLEAN /\ (dms => hinted' \/ Spoilt("hint")')
    <3>1. CASE Well /\ hinted' = (hinted \/ dms)
      BY <3>1, SpoilStays DEF WakeTypeOK
    <3>2. CASE Spoil("hint") /\ UNCHANGED hinted
      BY <3>2, SpoilStays, SpoilFacts DEF WakeTypeOK, Spoilers
    <3> QED
      BY <1>5, <3>1, <3>2 DEF announce_claimable
  <2>3. /\ outgoing'.step = "none" /\ outgoing'.grant = NoGrant
        /\ outgoing' \in [grant : Held, step : {"none", "wake", "hint"}]
    BY <2>1 DEF Silent, Held
  <2>4. WakeTypeOK' /\ AskIsOpen' /\ CopyIsShown'
    BY <2>1, <2>2, <2>3 DEF WakeTypeOK, AskIsOpen, CopyIsShown, SpoiltStays
  <2>5. Unannounced' <=> Unannounced
    BY <2>1 DEF Unannounced
  <2>6. SpentOnce' /\ AcceptedIsHeld'
    BY <2>1, <2>2, <2>3, <2>5 DEF SpentOnce, AcceptedIsHeld, SpoiltStays
  <2> QED
    BY <2>4, <2>6
<1>6. CASE Forget
  <2>1. /\ watch.step = "watch" /\ take /\ watch' = [watch EXCEPT !.step = "end"]
        /\ UNCHANGED <<shown, ask, offered, outgoing, expired, woken, unasked, hinted, dms>>
    BY <1>6 DEF Forget
  <2>2. /\ (watch'.copy <=> watch.copy) /\ watch'.step = "end"
        /\ watch' \in [copy : BOOLEAN, step : {"watch", "take", "end", "over"}]
    BY <2>1 DEF WakeTypeOK
  <2>3. held' = NoGrant /\ saved' \in Held /\ SpoiltStays /\ (Smoothly' => saved' = held')
    BY <2>1, TakeFacts
  <2>4. WakeTypeOK' /\ AskIsOpen' /\ CopyIsShown'
    BY <2>1, <2>2, <2>3 DEF WakeTypeOK, AskIsOpen, CopyIsShown, SpoiltStays, Held
  <2>5. Unannounced' <=> Unannounced
    BY <2>1, <2>2 DEF Unannounced
  <2>6. SpentOnce' /\ AcceptedIsHeld'
    BY <2>1, <2>2, <2>3, <2>5 DEF SpentOnce, AcceptedIsHeld, SpoiltStays
  <2> QED
    BY <2>4, <2>6
<1>7. CASE SetTerminal
  <2>1. /\ watch.step = "end" /\ watch' = [watch EXCEPT !.step = "over"]
        /\ shown' = [claimable |-> watch.copy, over |-> TRUE]
        /\ UNCHANGED <<held, saved, ask, offered, outgoing, expired, woken, unasked, hinted,
                       dms, spoilt>>
    BY <1>7 DEF SetTerminal
  <2>2. /\ (watch'.copy <=> watch.copy) /\ watch'.step = "over" /\ SpoiltStays
        /\ watch' \in [copy : BOOLEAN, step : {"watch", "take", "end", "over"}]
        /\ shown' \in [claimable : BOOLEAN, over : BOOLEAN]
        /\ shown'.over /\ (shown'.claimable <=> watch.copy)
    BY <2>1, SpoilStays DEF WakeTypeOK, Well
  <2>3. WakeTypeOK' /\ AskIsOpen' /\ CopyIsShown'
    BY <2>1, <2>2 DEF WakeTypeOK, AskIsOpen, CopyIsShown, SpoiltStays
  <2>4. Unannounced' <=> Unannounced
    BY <2>1, <2>2 DEF Unannounced
  <2>5. SpentOnce' /\ AcceptedIsHeld'
    BY <2>1, <2>2, <2>4 DEF SpentOnce, AcceptedIsHeld, SpoiltStays
  <2> QED
    BY <2>3, <2>5
<1>8. CASE Restart
  <2>1. /\ held' = saved /\ ask' = NoAsk /\ outgoing' = Silent
        /\ watch' = [copy |-> shown.claimable, step |-> IF shown.over THEN "over" ELSE "watch"]
        /\ UNCHANGED <<shown, saved, offered, expired, woken, unasked, hinted, dms>>
    BY <1>8 DEF Restart
  <2>2. /\ ask'.grant = NoGrant /\ ask'.step = "none"
        /\ outgoing'.grant = NoGrant /\ outgoing'.step = "none"
        /\ (watch'.copy <=> shown.claimable)
        /\ watch'.step \in {"over", "watch"} /\ (watch'.step = "over" <=> shown.over)
        /\ watch' \in [copy : BOOLEAN, step : {"watch", "take", "end", "over"}]
    BY <2>1 DEF NoAsk, Silent, WakeTypeOK
  <2>3. SpoiltStays /\ (Smoothly' => ~Midway)
    BY <1>8, SpoilStays, SpoilFacts DEF Restart, Spoilers
  <2>4. WakeTypeOK' /\ AskIsOpen' /\ CopyIsShown'
    BY <2>1, <2>2, <2>3
       DEF WakeTypeOK, AskIsOpen, CopyIsShown, SpoiltStays, Held, NoAsk, Silent
  <2>5. SpentOnce'
    BY <2>1, <2>2, <2>3 DEF SpentOnce, CopyIsShown, SpoiltStays, Unannounced
  <2>6. ASSUME Smoothly' PROVE /\ Smoothly /\ ask.step = "none" /\ outgoing.step = "none"
                               /\ watch.step \in {"watch", "over"}
                               /\ (watch'.copy <=> watch.copy) /\ watch'.step = watch.step
    <3>1. Smoothly /\ ~Midway /\ ~Spoilt("mark")
      BY <1>1, <2>3, <2>6 DEF SpoiltStays
    <3>2. ask = NoAsk /\ outgoing = Silent /\ watch.step \in {"watch", "over"}
      BY <3>1 DEF Midway, WakeTypeOK
    <3> QED
      BY <2>2, <3>1, <3>2 DEF NoAsk, Silent, CopyIsShown
  <2>7. AcceptedIsHeld'
    BY <2>1, <2>2, <2>3, <2>6 DEF AcceptedIsHeld, Unannounced, SpoiltStays
  <2> QED
    BY <2>4, <2>5, <2>7
<1> QED
  BY <1>2, <1>3, <1>4, <1>5, <1>6, <1>7, <1>8

\* Through restarts between any two steps that are not under way, replies and updates that
\* are lost and grants that expire, an owner whose grant was accepted is woken once when its
\* swap is claimable, or its grant had expired by then; the record says so in any case, and
\* no grant is left behind (ReverseProgress::claimable, accept_wake_capability, Waker::wake).
THEOREM OwnersHear == WakeSpec => []OwnerHears
<1>1. WakeInv /\ [WakeNext]_wakeVars => WakeInv'
  <2> SUFFICES ASSUME WakeInv, [WakeNext]_wakeVars PROVE WakeInv'
    OBVIOUS
  <2>1. CASE UNCHANGED wakeVars
    BY <2>1 DEF wakeVars, WakeInv, WakeTypeOK, AskIsOpen, CopyIsShown, SpentOnce,
       AcceptedIsHeld, Unannounced, Smoothly, Spoilt
  <2> QED
    BY <2>1, HandlerKeeps, DriverKeeps DEF WakeNext
<1>2. WakeInv => OwnerHears
  <2> SUFFICES ASSUME WakeInv PROVE OwnerHears
    OBVIOUS
  <2>1. ASSUME Settled, watch.copy, Smoothly
        PROVE  /\ shown.claimable
               /\ \A g \in WakeGrant : offered[g] = "accepted" => woken[g] = 1 \/ g \in unasked
               /\ dms => hinted \/ Spoilt("hint")
               /\ held = NoGrant /\ saved = NoGrant
    <3>1. ask = NoAsk /\ outgoing = Silent /\ watch.step \in {"watch", "over"}
      BY <2>1 DEF Settled, Midway
    <3>2. ~Unannounced /\ ask.step = "none" /\ outgoing.step = "none"
      BY <2>1, <3>1 DEF Unannounced, NoAsk, Silent
    <3> QED
      BY <2>1, <3>2 DEF WakeInv, AcceptedIsHeld, CopyIsShown, Smoothly
  <2> QED
    BY <2>1 DEF OwnerHears, WakeInv, SpentOnce
<1> QED
  BY <1>1, <1>2, WakeInitInv, PTL DEF WakeSpec

-----------------------------------------------------------------------------
(* 4. The wallets.                                                         *)

ActRecords ==
  [what : {"none", "balance", "fund", "bump", "address"},
   step : {"done", "sync", "send", "mark", "build", "child", "tell", "broadcast"},
   for : Payees \cup {"none"}, knows : SUBSET Coins,
   coin : Coins \cup {"none"}, says : {"none", "ok", "error"}]

Databases ==
  [exists : BOOLEAN, shown : SUBSET Coins, marker : {"none", "current", "stale", "missed"}]

WalletTypeOK ==
  /\ purse \in Purses
  /\ disk \in Databases
  /\ daemon \in [up : BOOLEAN, owes : BOOLEAN]
  /\ coins \subseteq Coins /\ owed \subseteq Coins /\ late \subseteq Payees
  /\ act \in ActRecords
  /\ \A f \in wire : f.for \in Payees \cup {"none"} /\ f.coin \in Coins

\* The step that a call is at, by the kind of wallet and what was called.
ActIsPlaced ==
  /\ ~daemon.up => act = NoAct
  /\ IsBdk => act.step # "send" /\ late = {}
  /\ ~IsBdk => act.step \in {"done", "send"}
  /\ act.what = "fund" => act.for \in Payees
  /\ act.step \in {"build", "broadcast"} => act.what = "fund"
  /\ act.step = "child" => act.what = "bump"
  /\ act.step = "tell" => act.what = "balance"
  /\ act.step # "done" => act.says = "none" /\ act.what \in {"balance", "fund", "bump"}

\* A database that need not be scanned has revealed the address of every coin, unless a
\* marker that outlived another one says so of it; a marker without a database is stale.
AllIsShown ==
  IsBdk =>
    /\ \/ daemon.up /\ ~daemon.owes /\ disk.marker # "missed"
       \/ act.step = "mark"
       \/ disk.exists /\ disk.marker = "current"
       => coins \subseteq disk.shown
    /\ IF disk.exists THEN disk.marker # "stale" ELSE disk.marker \in {"none", "stale"}
    /\ daemon.up => disk.exists /\ "child" \in disk.shown
    /\ act.what = "address" => "deposit" \in disk.shown
    /\ act.step \in {"build", "child", "tell"} =>
         ~daemon.owes /\ act.knows = coins \cap disk.shown
    /\ act.step = "broadcast" => act.coin \in coins /\ Change(act.for) \in disk.shown

\* A coin that was spent is gone for good: nothing pays to its address again.
CoinsAreSpentOnce ==
  /\ \A f \in wire : f.coin \notin coins
  /\ \A f \in wire : f.coin \in Payees => \E g \in wire : g.for = f.coin
  /\ \A s \in Payees : s \in coins \cup owed => \E g \in wire : g.for = s
  /\ "child" \in coins => \E g \in wire : g.coin = "deposit"
  /\ \A f \in wire : f.coin = "child" => \E g \in wire : g.coin = "deposit"

\* A funding that may still be made has not been made.
FundingsToCome ==
  \A f \in wire :
    f.for \notin late /\ (act.what = "fund" /\ act.step # "done" => f.for # act.for)
FundedBySelf == act.what = "fund" /\ act.step # "done" => act.for \notin late

WalletInv ==
  /\ WalletTypeOK /\ ActIsPlaced /\ AllIsShown /\ CoinsAreSpentOnce /\ FundingsToCome
  /\ FundedBySelf /\ FundsAreAccountedFor

LEMMA NoActFacts ==
  /\ NoAct \in ActRecords /\ NoAct.what = "none" /\ NoAct.step = "done" /\ NoAct.knows = {}
  /\ NoAct.says = "none" /\ NoAct.for = "none"
BY DEF NoAct, ActRecords

LEMMA WalletInitInv == WalletInit => WalletInv
<1> SUFFICES ASSUME WalletInit PROVE WalletInv
  OBVIOUS
<1>1. /\ disk \in Databases
      /\ daemon \in [up : BOOLEAN, owes : BOOLEAN] /\ ~disk.exists /\ ~daemon.up
      /\ disk.marker = "none"
      /\ coins = {"history"} /\ wire = {} /\ owed = {} /\ late = {} /\ purse \in Purses
  BY DEF WalletInit, Databases
<1>2. act = NoAct
  BY DEF WalletInit
<1>3. WalletTypeOK
  BY <1>1, <1>2, NoActFacts DEF WalletTypeOK, Coins
<1>4. ActIsPlaced /\ AllIsShown /\ FundingsToCome /\ FundedBySelf /\ FundsAreAccountedFor
  BY <1>1, <1>2, NoActFacts
     DEF ActIsPlaced, AllIsShown, FundingsToCome, FundedBySelf, FundsAreAccountedFor
<1>5. CoinsAreSpentOnce
  BY <1>1, WalletAssumption DEF CoinsAreSpentOnce
<1> QED
  BY <1>3, <1>4, <1>5 DEF WalletInv

\* Starting, and dying.
LEMMA StartsKeep ==
  ASSUME WalletInv, from_mnemonic \/ Vanish \/ connect
  PROVE  WalletInv'
<1> USE DEF WalletInv
<1>1. ~daemon.up /\ UNCHANGED <<purse, coins, wire, act, late, owed>> /\ act = NoAct
  BY DEF from_mnemonic, Vanish, connect, ActIsPlaced
<1>2. CoinsAreSpentOnce' /\ FundingsToCome' /\ FundedBySelf' /\ FundsAreAccountedFor'
  BY <1>1, NoActFacts DEF CoinsAreSpentOnce, FundingsToCome, FundedBySelf, FundsAreAccountedFor
<1>3. ActIsPlaced'
  BY <1>1, NoActFacts DEF ActIsPlaced, IsBdk
<1>4. CASE from_mnemonic
  <2> DEFINE opened == [disk EXCEPT !.exists = TRUE, !.shown = @ \cup {"child"}]
  <2>1. /\ opened \in Databases /\ opened.exists /\ opened.marker = disk.marker
        /\ opened.shown = disk.shown \cup {"child"}
        /\ \A kind \in {"none", "missed"} :
             /\ [opened EXCEPT !.marker = kind] \in Databases
             /\ [opened EXCEPT !.marker = kind].exists
             /\ [opened EXCEPT !.marker = kind].marker = kind
             /\ [opened EXCEPT !.marker = kind].shown = disk.shown \cup {"child"}
    BY DEF WalletTypeOK, Coins, Databases
  <2>2. IsBdk
    BY <1>4 DEF from_mnemonic
  <2>3. CASE /\ disk' = IF disk.exists THEN opened ELSE [opened EXCEPT !.marker = "none"]
             /\ daemon' = [up |-> TRUE, owes |-> owes_full_scan(~disk.exists)]
    <3>1. /\ disk' \in Databases
          /\ disk'.shown = disk.shown \cup {"child"} /\ disk'.exists
          /\ disk'.marker = IF disk.exists THEN disk.marker ELSE "none"
      BY <2>1, <2>3
    <3>2. /\ daemon' \in [up : BOOLEAN, owes : BOOLEAN]
          /\ (~daemon'.owes => disk.exists /\ disk.marker # "none")
      BY <2>3 DEF WalletTypeOK, owes_full_scan
    <3>3. WalletTypeOK'
      BY <1>1, <3>1, <3>2 DEF WalletTypeOK
    <3>4. disk.marker \in {"none", "current", "stale", "missed"}
      BY DEF WalletTypeOK, Databases
    <3>5. AllIsShown'
      BY <1>1, <2>2, <3>1, <3>2, <3>4, NoActFacts DEF AllIsShown, IsBdk
    <3> QED
      BY <1>2, <1>3, <3>3, <3>5
  <2>4. CASE /\ disk' = IF disk.marker = "stale" THEN [opened EXCEPT !.marker = "missed"]
                        ELSE opened
             /\ UNCHANGED daemon
    <3>1. /\ disk' \in Databases
          /\ disk'.shown = disk.shown \cup {"child"} /\ disk'.exists
          /\ disk'.marker = IF disk.marker = "stale" THEN "missed" ELSE disk.marker
      BY <2>1, <2>4
    <3>2. WalletTypeOK'
      BY <1>1, <2>4, <3>1 DEF WalletTypeOK
    <3>3. AllIsShown'
      BY <1>1, <2>4, <2>2, <3>1, NoActFacts DEF AllIsShown, IsBdk
    <3> QED
      BY <1>2, <1>3, <3>2, <3>3
  <2> QED
    BY <1>4, <2>3, <2>4 DEF from_mnemonic
<1>5. CASE Vanish
  <2>1. /\ UNCHANGED daemon
        /\ disk' = [exists |-> FALSE, shown |-> {},
                    marker |-> IF disk.marker = "none" THEN "none" ELSE "stale"]
    BY <1>5 DEF Vanish
  <2>2. /\ disk' \in Databases /\ ~disk'.exists /\ disk'.marker \in {"none", "stale"}
    BY <2>1 DEF WalletTypeOK, Databases
  <2>3. WalletTypeOK'
    BY <1>1, <2>1, <2>2 DEF WalletTypeOK
  <2>4. AllIsShown'
    BY <1>1, <2>1, <2>2, NoActFacts DEF AllIsShown, IsBdk
  <2> QED
    BY <1>2, <1>3, <2>3, <2>4
<1>6. CASE connect
  <2>1. /\ ~IsBdk /\ daemon' = [up |-> TRUE, owes |-> FALSE] /\ UNCHANGED disk
    BY <1>6 DEF connect
  <2>2. WalletTypeOK' /\ AllIsShown'
    BY <1>1, <2>1 DEF WalletTypeOK, AllIsShown, IsBdk
  <2> QED
    BY <1>2, <1>3, <2>2
<1> QED
  BY <1>4, <1>5, <1>6

LEMMA DieKeeps ==
  ASSUME WalletInv, Die
  PROVE  WalletInv'
<1> USE DEF WalletInv
<1>1. /\ daemon' = [up |-> FALSE, owes |-> FALSE] /\ act' = NoAct
      /\ late' = late \cup (IF act.step = "send" /\ act.what = "fund" THEN {act.for} ELSE {})
      /\ UNCHANGED <<purse, disk, coins, wire, owed>>
  BY DEF Die
<1>2. late' \subseteq Payees /\ (IsBdk => late' = {})
  BY <1>1 DEF WalletTypeOK, ActIsPlaced
<1>3. WalletTypeOK'
  BY <1>1, <1>2, NoActFacts DEF WalletTypeOK
<1>4. ActIsPlaced' /\ AllIsShown'
  BY <1>1, <1>2, NoActFacts DEF ActIsPlaced, AllIsShown, IsBdk
<1>5. CoinsAreSpentOnce' /\ FundedBySelf' /\ FundsAreAccountedFor'
  BY <1>1, NoActFacts DEF CoinsAreSpentOnce, FundedBySelf, FundsAreAccountedFor
<1>6. FundingsToCome'
  BY <1>1, NoActFacts DEF FundingsToCome
<1> QED
  BY <1>3, <1>4, <1>5, <1>6

\* A call begins, or goes to its next step; nothing moves on chain.
LEMMA QuietKeeps ==
  ASSUME WalletInv, UNCHANGED <<purse, coins, wire, late>>, act' \in ActRecords,
         disk' \in Databases,
         daemon' \in [up : BOOLEAN, owes : BOOLEAN], owed' \in {owed, coins},
         ActIsPlaced', AllIsShown',
         act'.what = "fund" /\ act'.step # "done" =>
           act'.for \notin late /\ \A f \in wire : f.for # act'.for,
         act'.what = "balance" /\ act'.says = "ok" =>
           IF disk'.marker = "missed" THEN owed' \cap coins \cap disk'.shown \subseteq act'.knows
           ELSE owed' \cap coins \subseteq act'.knows
  PROVE  WalletInv'
<1> USE DEF WalletInv
<1>1. WalletTypeOK'
  BY DEF WalletTypeOK
<1>2. CoinsAreSpentOnce'
  BY DEF CoinsAreSpentOnce
<1>3. FundingsToCome' /\ FundedBySelf' /\ FundsAreAccountedFor'
  BY DEF FundingsToCome, FundedBySelf, FundsAreAccountedFor
<1> QED
  BY <1>1, <1>2, <1>3

LEMMA CallKeeps ==
  ASSUME WalletInv, NEW what \in {"balance", "fund", "bump"}, NEW for \in Payees \cup {"none"},
         Call(what, for),
         what = "fund" => for \in Payees /\ for \notin late /\ \A f \in wire : f.for # for
  PROVE  WalletInv'
<1> USE DEF WalletInv
<1>1. /\ daemon.up /\ act.step = "done" /\ owed' = coins
      /\ UNCHANGED <<purse, disk, daemon, coins, wire, late, mishaps>>
      /\ act' = [what |-> what, step |-> IF IsBdk THEN "sync" ELSE "send", for |-> for,
                 knows |-> act.knows, coin |-> "none", says |-> "none"]
  BY DEF Call, Free
<1>2. /\ act' \in ActRecords /\ act'.what = what /\ act'.for = for /\ act'.says = "none"
      /\ act'.step = IF IsBdk THEN "sync" ELSE "send"
  BY <1>1 DEF WalletTypeOK, ActRecords
<1>3. ActIsPlaced' /\ AllIsShown'
  BY <1>1, <1>2 DEF ActIsPlaced, AllIsShown, IsBdk
<1> QED
  BY <1>1, <1>2, <1>3, QuietKeeps DEF WalletTypeOK

LEMMA SyncsKeep ==
  ASSUME WalletInv,
         \/ FullScan \/ Mark \/ Sync \/ SyncFails \/ Tell \/ BumpFails \/ NodeTells
         \/ \E c \in Coins : Build(c)
  PROVE  WalletInv'
<1> USE DEF WalletInv
<1>1. /\ act \in ActRecords /\ UNCHANGED <<purse, coins, wire, late, owed>>
      /\ disk \in Databases
      /\ daemon \in [up : BOOLEAN, owes : BOOLEAN]
  BY DEF WalletTypeOK, FullScan, Mark, Sync, SyncFails, Tell, BumpFails, NodeTells, Build
<1>2. daemon.up
  <2>1. act.step # "done"
    BY DEF FullScan, Mark, Sync, SyncFails, Tell, BumpFails, NodeTells, Build
  <2> QED
    BY <2>1, NoActFacts DEF ActIsPlaced
<1>3. CASE FullScan
  <2>1. /\ act.step = "sync" /\ disk' = [disk EXCEPT !.shown = @ \cup coins]
        /\ act' = [act EXCEPT !.step = "mark"] /\ UNCHANGED daemon
    BY <1>3 DEF FullScan, Proceed
  <2>2. /\ act' \in ActRecords /\ act'.step = "mark"
        /\ act'.what = act.what /\ act'.for = act.for /\ act'.says = act.says
    BY <1>1, <2>1 DEF ActRecords
  <2>3. /\ disk' \in Databases
        /\ disk'.shown = disk.shown \cup coins /\ (disk'.exists <=> disk.exists)
        /\ disk'.marker = disk.marker
    BY <1>1, <2>1 DEF WalletTypeOK, Databases
  <2>4. ActIsPlaced' /\ AllIsShown'
    BY <1>1, <1>2, <2>1, <2>2, <2>3 DEF ActIsPlaced, AllIsShown, IsBdk
  <2> QED
    BY <1>1, <2>1, <2>2, <2>3, <2>4, QuietKeeps DEF ActIsPlaced, FundingsToCome, FundedBySelf
<1>4. CASE Mark \/ Sync
  <2>1. /\ act.step \in {"mark", "sync"} /\ (disk' = disk \/ disk' = [disk EXCEPT !.marker = "current"])
        /\ (act.step = "sync" => ~daemon.owes /\ disk' = disk)
        /\ act' = [act EXCEPT !.step = After, !.knows = coins \cap disk.shown]
        /\ daemon' = [daemon EXCEPT !.owes = FALSE]
    BY <1>1, <1>4 DEF Mark, Sync
  <2>2. /\ act' \in ActRecords /\ act'.knows = coins \cap disk.shown
        /\ act'.what = act.what /\ act'.for = act.for /\ act'.says = act.says
        /\ act'.step = After /\ act.says = "none" /\ act.what \in {"balance", "fund", "bump"}
    <3>1. After \in {"build", "child", "tell"}
      BY DEF After
    <3>2. coins \cap disk.shown \in SUBSET Coins
      BY DEF WalletTypeOK
    <3>3. act.says = "none" /\ act.what \in {"balance", "fund", "bump"}
      BY <2>1 DEF ActIsPlaced
    <3> HIDE DEF WalletInv
    <3> QED
      BY <1>1, <2>1, <3>1, <3>2, <3>3 DEF ActRecords
  <2>3. /\ disk' \in Databases
        /\ disk'.shown = disk.shown /\ (disk'.exists <=> disk.exists)
        /\ disk'.marker \in {disk.marker, "current"}
        /\ disk'.marker = "current" => act.step = "mark" \/ disk.marker = "current"
        /\ daemon' \in [up : BOOLEAN, owes : BOOLEAN] /\ daemon'.up /\ ~daemon'.owes
    BY <1>1, <1>2, <2>1 DEF Databases
  <2>4. IsBdk /\ disk.exists /\ (act.step = "mark" \/ disk.marker # "missed" => coins \subseteq disk.shown)
    BY <1>2, <2>1 DEF ActIsPlaced, AllIsShown
  <2>5. ActIsPlaced' /\ AllIsShown'
    BY <1>1, <2>1, <2>2, <2>3, <2>4 DEF ActIsPlaced, AllIsShown, IsBdk, After
  <2> QED
    BY <1>1, <2>1, <2>2, <2>3, <2>5, QuietKeeps DEF ActIsPlaced, FundingsToCome, FundedBySelf
<1>5. CASE SyncFails \/ Tell \/ BumpFails \/ NodeTells
  <2>1. act.step # "done" /\ UNCHANGED <<disk, daemon>>
    BY <1>5 DEF SyncFails, Tell, BumpFails, NodeTells
  <2>2. /\ act' \in ActRecords /\ act'.what = act.what /\ act'.step = "done"
        /\ act'.for = act.for
        /\ act'.says = "ok" =>
             \/ act.step = "tell" /\ act'.knows = act.knows
             \/ act.step = "send" /\ act'.knows = coins
    <3>1. CASE SyncFails \/ BumpFails
      <4>1. PICK answer \in {"none", "error"} : Finish(answer)
        BY <3>1 DEF SyncFails, BumpFails
      <4> QED
        BY <1>1, <4>1 DEF Finish, ActRecords
    <3>2. CASE Tell
      BY <1>1, <3>2 DEF Tell, Finish, ActRecords
    <3>3. CASE NodeTells
      <4>1. coins \in SUBSET Coins
        BY DEF WalletTypeOK
      <4> QED
        BY <1>1, <3>3, <4>1 DEF NodeTells, ActRecords
    <3> QED
      BY <1>5, <3>1, <3>2, <3>3
  <2>3. act'.what = "balance" /\ act'.says = "ok" =>
          IF disk.marker = "missed" THEN owed \cap coins \cap disk.shown \subseteq act'.knows
          ELSE owed \cap coins \subseteq act'.knows
    <3>1. act.step = "tell" =>
            act.knows = coins \cap disk.shown /\ (disk.marker # "missed" => coins \subseteq disk.shown)
      BY <1>2 DEF AllIsShown, ActIsPlaced
    <3> QED
      BY <2>2, <3>1
  <2>4. ActIsPlaced' /\ AllIsShown'
    BY <1>1, <1>2, <2>1, <2>2 DEF ActIsPlaced, AllIsShown, IsBdk
  <2> QED
    BY <1>1, <2>1, <2>2, <2>3, <2>4, QuietKeeps
<1>6. ASSUME NEW c \in Coins, Build(c) PROVE WalletInv'
  <2>1. /\ act.step = "build" /\ c \in act.knows /\ UNCHANGED daemon
        /\ disk' = [disk EXCEPT !.shown = @ \cup {act.for}]
        /\ act' = [act EXCEPT !.step = "broadcast", !.coin = c]
    BY <1>6 DEF Build, persist, Change
  <2>2. /\ act' \in ActRecords /\ act'.step = "broadcast" /\ act'.coin = c
        /\ act'.what = act.what /\ act'.for = act.for /\ act'.says = act.says
    BY <1>1, <2>1 DEF ActRecords
  <2>3. act.for \in Payees /\ IsBdk /\ act.knows \subseteq coins
    BY <2>1 DEF ActIsPlaced, AllIsShown
  <2>4. /\ disk' \in Databases
        /\ disk'.shown = disk.shown \cup {act.for} /\ (disk'.exists <=> disk.exists)
        /\ disk'.marker = disk.marker
    BY <1>1, <2>1, <2>3 DEF Coins, Databases
  <2>5. ActIsPlaced'
    BY <1>1, <1>2, <2>1, <2>2 DEF ActIsPlaced, IsBdk
  <2>6. AllIsShown'
    BY <1>1, <1>2, <2>1, <2>2, <2>3, <2>4 DEF AllIsShown, ActIsPlaced, IsBdk, Change
  <2> QED
    BY <1>1, <2>1, <2>2, <2>4, <2>5, <2>6, QuietKeeps DEF ActIsPlaced, FundingsToCome, FundedBySelf
<1> QED
  BY <1>3, <1>4, <1>5, <1>6

\* Receiving.
LEMMA ReceivesKeep ==
  ASSUME WalletInv, fresh_receive_spk \/ Deposit
  PROVE  WalletInv'
<1> USE DEF WalletInv
<1>1. CASE fresh_receive_spk
  <2>1. /\ daemon.up /\ act.step = "done" /\ UNCHANGED <<purse, daemon, coins, wire, late,
                                                         owed>>
        /\ act' = [NoAct EXCEPT !.what = "address", !.says = "ok", !.knows = act.knows]
        /\ disk' = IF IsBdk THEN [disk EXCEPT !.shown = @ \cup {"deposit"}] ELSE disk
    BY <1>1 DEF fresh_receive_spk, Free
  <2>2. /\ act' \in ActRecords /\ act'.what = "address" /\ act'.step = "done"
    BY <2>1 DEF ActRecords, NoAct, WalletTypeOK
  <2>3. /\ disk' \in Databases
        /\ disk.shown \subseteq disk'.shown /\ (disk'.exists <=> disk.exists)
        /\ disk'.marker = disk.marker /\ (IsBdk => "deposit" \in disk'.shown)
    BY <2>1 DEF WalletTypeOK, Coins, Databases
  <2>4. ActIsPlaced' /\ AllIsShown'
    BY <2>1, <2>2, <2>3 DEF ActIsPlaced, AllIsShown, IsBdk
  <2> QED
    BY <2>1, <2>2, <2>3, <2>4, QuietKeeps DEF WalletTypeOK
<1>2. CASE Deposit
  <2>1. /\ act.what = "address" /\ coins' = coins \cup {"deposit"}
        /\ \A f \in wire : f.coin # "deposit"
        /\ UNCHANGED <<purse, disk, daemon, wire, act, late, owed>>
    BY <1>2 DEF Deposit
  <2>2. act.step = "done" /\ "deposit" \in Coins /\ "deposit" \notin Payees
    BY <2>1, WalletAssumption DEF ActIsPlaced, Coins
  <2>3. WalletTypeOK' /\ ActIsPlaced'
    BY <2>1, <2>2 DEF WalletTypeOK, ActIsPlaced, IsBdk
  <2>4. AllIsShown'
    BY <2>1, <2>2 DEF AllIsShown, IsBdk
  <2>5. CoinsAreSpentOnce'
    BY <2>1, <2>2 DEF CoinsAreSpentOnce
  <2>6. FundingsToCome' /\ FundedBySelf' /\ FundsAreAccountedFor'
    BY <2>1 DEF FundingsToCome, FundedBySelf, FundsAreAccountedFor
  <2> QED
    BY <2>3, <2>4, <2>5, <2>6
<1> QED
  BY <1>1, <1>2

\* A swap is funded that was not: the coin goes, and the change is new.
LEMMA SpendsFacts ==
  ASSUME WalletInv, NEW s \in Payees, NEW c \in coins, Spends(s, c), UNCHANGED owed,
         \A f \in wire : f.for # s
  PROVE  /\ coins' = (coins \ {c}) \cup {s} /\ coins' \subseteq Coins /\ s \notin owed
         /\ \A f \in wire' : f \in wire \/ (f.for = s /\ f.coin = c)
         /\ \A f \in wire' : f.for \in Payees \cup {"none"} /\ f.coin \in Coins
         /\ CoinsAreSpentOnce'
         /\ \A f, g \in wire' : f # g => f.coin # g.coin /\ (f.for = g.for => f.for = "none")
<1> USE DEF WalletInv
<1> DEFINE new == Funding(s, c)
<1>1. new.for = s /\ new.coin = c /\ wire' = wire \cup {new} /\ coins' = (coins \ {c}) \cup {s}
  BY DEF Funding, Spends, Change
<1> HIDE DEF new
<1>2. s \notin coins /\ s \notin owed /\ s # c /\ (\A f \in wire : f.coin # s)
  BY DEF CoinsAreSpentOnce
<1>3. s # "child" /\ s # "deposit" /\ s \in Coins /\ c \in Coins
  BY WalletAssumption DEF Coins, WalletTypeOK
<1>4. coins' \subseteq Coins
  BY <1>1, <1>3 DEF WalletTypeOK
<1>5. \A f \in wire' : f.for \in Payees \cup {"none"} /\ f.coin \in Coins
  BY <1>1, <1>3 DEF WalletTypeOK
<1>6. CoinsAreSpentOnce'
  <2>1. \A f \in wire' : f.coin \notin coins'
    BY <1>1, <1>2 DEF CoinsAreSpentOnce
  <2>2. \A f \in wire' : f.coin \in Payees => \E g \in wire' : g.for = f.coin
    BY <1>1 DEF CoinsAreSpentOnce
  <2>3. \A p \in Payees : p \in coins' \cup owed' => \E g \in wire' : g.for = p
    BY <1>1 DEF CoinsAreSpentOnce
  <2>4. "child" \in coins' => \E g \in wire' : g.coin = "deposit"
    BY <1>1, <1>3 DEF CoinsAreSpentOnce
  <2>5. \A f \in wire' : f.coin = "child" => \E g \in wire' : g.coin = "deposit"
    BY <1>1 DEF CoinsAreSpentOnce
  <2> QED
    BY <2>1, <2>2, <2>3, <2>4, <2>5 DEF CoinsAreSpentOnce
<1>7. \A f, g \in wire' : f # g => f.coin # g.coin /\ (f.for = g.for => f.for = "none")
  BY <1>1 DEF CoinsAreSpentOnce, FundsAreAccountedFor
<1> QED
  BY <1>1, <1>2, <1>4, <1>5, <1>6, <1>7

LEMMA FundsKeep ==
  ASSUME WalletInv,
         \/ Broadcast \/ GiveUp
         \/ \E c \in Coins : Send(c)
         \/ \E s \in Payees : SendLate(s)
  PROVE  WalletInv'
<1> USE DEF WalletInv
<1>1. act \in ActRecords
  BY DEF WalletTypeOK
<1>2. CASE Broadcast \/ \E c \in Coins : Send(c)
  <2>1. PICK c : /\ c \in coins /\ Spends(act.for, c) /\ act.step \in {"broadcast", "send"}
                 /\ act.what = "fund" /\ \E answer \in {"ok", "error"} : Finish(answer)
                 /\ UNCHANGED <<purse, disk, daemon, late, owed>>
                 /\ (IsBdk => act.for \in disk.shown)
    BY <1>2 DEF Broadcast, Send, AllIsShown, ActIsPlaced, Change
  <2>2. /\ act' \in ActRecords /\ act'.what = "fund" /\ act'.step = "done" /\ act'.for = act.for
    BY <1>1, <2>1 DEF Finish, ActRecords
  <2>3. act.for \in Payees /\ act.for \notin late /\ \A f \in wire : f.for # act.for
    BY <2>1 DEF ActIsPlaced, FundingsToCome, FundedBySelf
  <2>4. /\ coins' = (coins \ {c}) \cup {act.for} /\ coins' \subseteq Coins
        /\ \A f \in wire' : f \in wire \/ (f.for = act.for /\ f.coin = c)
        /\ \A f \in wire' : f.for \in Payees \cup {"none"} /\ f.coin \in Coins
        /\ CoinsAreSpentOnce'
        /\ \A f, g \in wire' : f # g => f.coin # g.coin /\ (f.for = g.for => f.for = "none")
    BY <2>1, <2>3, SpendsFacts
  <2>5. WalletTypeOK'
    BY <2>1, <2>2, <2>4 DEF WalletTypeOK
  <2>6. daemon.up
    BY <2>1, NoActFacts DEF ActIsPlaced
  <2>7. ActIsPlaced' /\ AllIsShown'
    BY <2>1, <2>2, <2>3, <2>4, <2>6 DEF ActIsPlaced, AllIsShown, IsBdk
  <2>8. FundingsToCome' /\ FundedBySelf' /\ FundsAreAccountedFor'
    BY <2>1, <2>2, <2>3, <2>4 DEF FundingsToCome, FundedBySelf, FundsAreAccountedFor
  <2> QED
    BY <2>4, <2>5, <2>7, <2>8
<1>3. CASE GiveUp
  <2>1. /\ act.step = "send" /\ Finish("error") /\ UNCHANGED <<purse, disk, daemon, coins,
                                                               wire, owed>>
        /\ late' \in {late, IF act.what = "fund" THEN late \cup {act.for} ELSE late}
    BY <1>3 DEF GiveUp
  <2>2. /\ act' \in ActRecords /\ act'.what = act.what /\ act'.step = "done" /\ act'.for = act.for
        /\ act'.says = "error"
    BY <1>1, <2>1 DEF Finish, ActRecords
  <2>3. daemon.up /\ ~IsBdk /\ late' \subseteq Payees
    BY <2>1, NoActFacts DEF ActIsPlaced, WalletTypeOK
  <2>4. WalletTypeOK' /\ ActIsPlaced' /\ AllIsShown'
    BY <2>1, <2>2, <2>3 DEF WalletTypeOK, ActIsPlaced, AllIsShown, IsBdk
  <2>5. CoinsAreSpentOnce' /\ FundedBySelf' /\ FundsAreAccountedFor'
    BY <2>1, <2>2 DEF CoinsAreSpentOnce, FundedBySelf, FundsAreAccountedFor
  <2>6. FundingsToCome'
    BY <2>1, <2>2 DEF FundingsToCome
  <2> QED
    BY <2>4, <2>5, <2>6
<1>4. ASSUME NEW s \in Payees, SendLate(s) PROVE WalletInv'
  <2>1. PICK c \in coins : /\ Spends(s, c) /\ s \in late /\ late' = late \ {s}
                           /\ UNCHANGED <<purse, disk, daemon, act, owed>>
    BY <1>4 DEF SendLate
  <2>2. ~IsBdk /\ \A f \in wire : f.for # s
    BY <2>1 DEF ActIsPlaced, FundingsToCome
  <2>3. /\ coins' = (coins \ {c}) \cup {s} /\ coins' \subseteq Coins /\ s \notin owed
        /\ \A f \in wire' : f \in wire \/ (f.for = s /\ f.coin = c)
        /\ \A f \in wire' : f.for \in Payees \cup {"none"} /\ f.coin \in Coins
        /\ CoinsAreSpentOnce'
        /\ \A f, g \in wire' : f # g => f.coin # g.coin /\ (f.for = g.for => f.for = "none")
    BY <2>1, <2>2, SpendsFacts
  <2>4. WalletTypeOK' /\ ActIsPlaced' /\ AllIsShown'
    BY <2>1, <2>2, <2>3 DEF WalletTypeOK, ActIsPlaced, AllIsShown, IsBdk
  <2>5. FundingsToCome'
    BY <2>1, <2>3 DEF FundingsToCome, FundedBySelf
  <2>6. FundedBySelf' /\ FundsAreAccountedFor'
    BY <2>1, <2>3 DEF FundedBySelf, FundsAreAccountedFor
  <2> QED
    BY <2>3, <2>4, <2>5, <2>6
<1> QED
  BY <1>2, <1>3, <1>4

\* Pulling a sweep in.
LEMMA BumpKeeps ==
  ASSUME WalletInv, Bump
  PROVE  WalletInv'
<1> USE DEF WalletInv
<1> DEFINE child == [for |-> "none", coin |-> "deposit", number |-> 0]
<1>1. /\ wire' = wire \cup {child} /\ coins' = (coins \ {"deposit"}) \cup {"child"}
      /\ Finish("ok") /\ UNCHANGED <<purse, disk, daemon, late, owed>>
      /\ act.step \in {"child", "send"} /\ act.what = "bump"
      /\ "deposit" \in coins
  BY DEF Bump, ActIsPlaced, AllIsShown
<1>2. child.for = "none" /\ child.coin = "deposit"
  OBVIOUS
<1> HIDE DEF child
<1>3. /\ act' \in ActRecords /\ act'.what = "bump" /\ act'.step = "done" /\ daemon.up
  BY <1>1, NoActFacts DEF Finish, ActRecords, WalletTypeOK, ActIsPlaced
<1>4. "none" \notin Payees /\ "child" \notin Payees /\ "deposit" \notin Payees
  BY WalletAssumption
<1>5. WalletTypeOK'
  BY <1>1, <1>2, <1>3 DEF WalletTypeOK, Coins
<1>6. ActIsPlaced' /\ AllIsShown'
  BY <1>1, <1>3 DEF ActIsPlaced, AllIsShown, IsBdk
<1>7. CoinsAreSpentOnce'
  <2>1. \A f \in wire : f.coin # "child" /\ f.coin # "deposit"
    BY <1>1 DEF CoinsAreSpentOnce
  <2>2. \A f \in wire' : f.coin \notin coins'
    BY <1>1, <1>2, <2>1 DEF CoinsAreSpentOnce
  <2>3. \A f \in wire' : f.coin \in Payees => \E g \in wire' : g.for = f.coin
    BY <1>1, <1>2, <1>4 DEF CoinsAreSpentOnce
  <2>4. \A p \in Payees : p \in coins' \cup owed' => \E g \in wire' : g.for = p
    BY <1>1, <1>4 DEF CoinsAreSpentOnce
  <2> QED
    BY <1>1, <1>2, <2>2, <2>3, <2>4 DEF CoinsAreSpentOnce
<1>8. FundingsToCome' /\ FundedBySelf'
  BY <1>1, <1>2, <1>3, <1>4 DEF FundingsToCome, FundedBySelf, WalletTypeOK
<1>9. FundsAreAccountedFor'
  BY <1>1, <1>2, <1>3 DEF FundsAreAccountedFor, CoinsAreSpentOnce
<1> QED
  BY <1>5, <1>6, <1>7, <1>8, <1>9

\* Through crashes, lost databases and answers that are lost, a balance counts every coin of
\* the seed, or after a start that missed a stale marker every coin of the addresses that
\* the database has revealed, and no coin is spent twice nor a swap funded twice (BdkWallet,
\* LndWallet, BeignetWallet).
THEOREM FundsAreCounted == WalletSpec => []FundsAreAccountedFor
<1>1. WalletInv /\ [WalletNext]_walletVars => WalletInv'
  <2> SUFFICES ASSUME WalletInv, [WalletNext]_walletVars PROVE WalletInv'
    OBVIOUS
  <2>1. CASE UNCHANGED walletVars
    BY <2>1 DEF walletVars, WalletInv, WalletTypeOK, ActIsPlaced, AllIsShown,
       CoinsAreSpentOnce, FundingsToCome, FundedBySelf, FundsAreAccountedFor, IsBdk
  <2>2. CASE Call("balance", "none") \/ cpfp_bump
    BY <2>2, CallKeeps DEF cpfp_bump
  <2>3. ASSUME NEW s \in Payees, fund_htlc(s) PROVE WalletInv'
    BY <2>3, CallKeeps DEF fund_htlc
  <2> QED
    BY <2>1, <2>2, <2>3, StartsKeep, DieKeeps, SyncsKeep, ReceivesKeep, FundsKeep, BumpKeeps
       DEF WalletNext
<1>2. WalletInv => FundsAreAccountedFor
  BY DEF WalletInv
<1> QED
  BY <1>1, <1>2, WalletInitInv, PTL DEF WalletSpec

-----------------------------------------------------------------------------
(* 5. The Lightning adapters.                                              *)

NodeStates ==
  [hold : {"none", "open", "accepted", "settled", "cancelled"}, delta : Nat,
   plain : {"none", "open", "settled", "cancelled"},
   pay : {"none", "initiated", "live", "failed", "paid"}]
CallOps == {"none", "create", "lookup", "settle", "cancel", "plain", "ofHold", "ofPlain",
            "pay", "track"}
CallSteps == {"done", "create", "held", "decode", "drop", "lookup", "settle", "check", "cancel",
              "plain", "status", "received", "terms", "pay", "waiting", "track", "proof"}
CallAnswers ==
  {"none", "ok", "backend", "notImplemented", "invoiceNotFound", "open", "accepted", "settled",
   "cancelled", "failed", "paid", "live", "notFound", "unknown"}

NodeTypeOK ==
  /\ backend \in Backends /\ (Lnd => backend.honours)
  /\ node \in NodeStates
  /\ call \in [op : CallOps, step : CallSteps, tries : Nat, says : CallAnswers]

\* The request that a call is at belongs to the call, and was made for a reason that
\* still holds.
RequestIsPlaced ==
  /\ ~Ready => backend.kind # "stub"
  /\ ~Ready /\ call.op = "pay" => Lnd \/ ~backend.bounded
  /\ call.step \in {"pay", "waiting", "terms"} => call.op = "pay"
  /\ call.step \in {"track", "proof"} => call.op \in {"pay", "track"}
  /\ call.op = "pay" /\ call.step \in {"terms", "track"} => Beignet
  /\ call.step \in {"create", "decode", "drop"} => call.op = "create"
  /\ call.step \in {"decode", "drop"} => node.hold # "none"
  /\ call.step \in {"settle", "check"} => call.op = "settle"
  /\ call.step \in {"cancel", "lookup", "plain"} => call.op = call.step
  /\ call.step \in {"status", "received"} => call.op \in {"ofHold", "ofPlain"}
  /\ call.step = "held" => call.op \in {"create", "ofHold", "ofPlain"}
  /\ call.step = "proof" => node.pay = "paid"

\* A payment that cannot carry its limit is never asked for.
NeverUnbounded == backend.kind = "stub" \/ (Beignet /\ backend.bounded) => node.pay = "none"

NodeInv == NodeTypeOK /\ RequestIsPlaced /\ NeverUnbounded /\ AnswersAreTrue

LEMMA NodeInitInv == NodeInit => NodeInv
<1> SUFFICES ASSUME NodeInit PROVE NodeInv
  OBVIOUS
<1>1. backend \in Backends /\ (Lnd => backend.honours)
  BY DEF NodeInit, Lnd
<1>2. /\ node \in NodeStates /\ node.pay = "none"
      /\ call \in [op : CallOps, step : CallSteps, tries : Nat, says : CallAnswers]
      /\ call.op = "none" /\ call.step = "done" /\ call.says = "none"
  BY DEF NodeInit, Idle, NodeStates, CallOps, CallSteps, CallAnswers
<1> QED
  BY <1>1, <1>2 DEF NodeInv, NodeTypeOK, RequestIsPlaced, NeverUnbounded,
     AnswersAreTrue, Said, Ready

\* What happens to an invoice or a payment by itself.
LEMMA NodeMovesKeep ==
  ASSUME NodeInv, NodeMoves
  PROVE  NodeInv'
<1>1. /\ UNCHANGED <<backend, call>> /\ node'.delta = node.delta
      /\ node' \in NodeStates
  BY DEF NodeInv, NodeTypeOK, NodeStates, NodeMoves, Move
<1>2. /\ node'.hold # node.hold => node.hold \in {"open", "accepted"} /\ node'.hold # "none"
      /\ node'.plain # node.plain => node.plain = "open"
      /\ node'.pay # node.pay => node.pay \in {"initiated", "live"} /\ node'.pay # "none"
  BY DEF NodeInv, NodeTypeOK, NodeStates, NodeMoves, Move
<1>3. NodeTypeOK' /\ RequestIsPlaced' /\ NeverUnbounded'
  BY <1>1, <1>2 DEF NodeInv, NodeTypeOK, RequestIsPlaced, NeverUnbounded, Lnd, Beignet, Ready
<1>4. AnswersAreTrue'
  BY <1>1, <1>2 DEF NodeInv, NodeTypeOK, AnswersAreTrue, Said, Ready, Unpaid, Beignet, IsHeld
<1> QED
  BY <1>3, <1>4 DEF NodeInv

LEMMA AttemptsAreNat == ASSUME NEW step PROVE Attempts(step) \in Nat
BY NodeAssumption DEF Attempts

\* A call that is begun has been answered nothing yet.
LEMMA BeginFacts ==
  ASSUME NodeInv, NEW op \in CallOps, NEW step \in CallSteps \ {"done"}, Begin(op, step)
  PROVE  /\ Ready /\ backend.kind # "stub" /\ UNCHANGED <<backend, node>>
         /\ call'.op = op /\ call'.step = step
         /\ NodeTypeOK' /\ AnswersAreTrue' /\ NeverUnbounded'
<1>1. /\ Ready /\ backend.kind # "stub" /\ UNCHANGED <<backend, node>>
      /\ call' = [op |-> op, step |-> step, tries |-> Attempts(step), says |-> "none"]
  BY DEF Begin
<1>2. call'.op = op /\ call'.step = step /\ call'.step # "done"
  BY <1>1
<1>3. call' \in [op : CallOps, step : CallSteps, tries : Nat, says : CallAnswers]
  BY <1>1, AttemptsAreNat DEF CallAnswers
<1>4. NodeTypeOK' /\ NeverUnbounded'
  BY <1>1, <1>3 DEF NodeInv, NodeTypeOK, NeverUnbounded, Lnd, Beignet
<1>5. AnswersAreTrue'
  BY <1>2 DEF AnswersAreTrue, Said, Ready
<1> QED
  BY <1>1, <1>2, <1>4, <1>5

\* One refused asked nothing of the node.
LEMMA RefusedKeeps ==
  ASSUME NodeInv, NEW op \in CallOps, NEW why \in {"backend", "notImplemented"},
         Refused(op, why),
         op = "pay" => why = "backend" \/ node.pay = "none"
  PROVE  NodeInv'
<1>1. /\ UNCHANGED <<backend, node>>
      /\ call' = [op |-> op, step |-> "done", tries |-> 0, says |-> why]
  BY DEF Refused
<1>2. /\ call'.op = op /\ call'.step = "done" /\ call'.says = why
      /\ call' \in [op : CallOps, step : CallSteps, tries : Nat, says : CallAnswers]
  BY <1>1 DEF CallSteps, CallAnswers
<1>3. NodeTypeOK' /\ RequestIsPlaced' /\ NeverUnbounded'
  BY <1>1, <1>2 DEF NodeInv, NodeTypeOK, RequestIsPlaced, NeverUnbounded, Lnd, Beignet, Ready
<1>4. AnswersAreTrue'
  BY <1>1, <1>2 DEF AnswersAreTrue, Said, Ready, Unpaid
<1> QED
  BY <1>3, <1>4 DEF NodeInv

LEMMA CallsKeep ==
  ASSUME NodeInv, Calls
  PROVE  NodeInv'
<1> USE DEF NodeInv
<1>1. ASSUME NEW op \in CallOps, NEW step \in CallSteps \ {"done"}, Begin(op, step),
             <<op, step>> \in
               {<<"create", "create">>, <<"create", "held">>, <<"lookup", "lookup">>,
                <<"settle", "settle">>, <<"cancel", "cancel">>, <<"plain", "plain">>,
                <<"ofHold", "held">>, <<"ofHold", "status">>, <<"ofPlain", "held">>,
                <<"ofPlain", "status">>, <<"pay", "pay">>, <<"pay", "terms">>,
                <<"track", "track">>},
             op = "pay" => Lnd \/ ~backend.bounded,
             step = "terms" => Beignet
      PROVE  NodeInv'
  <2>1. RequestIsPlaced'
    BY <1>1, BeginFacts DEF RequestIsPlaced, Lnd, Beignet, Ready
  <2> QED
    BY <1>1, <2>1, BeginFacts
<1>2. CASE create_hold_invoice
  BY <1>1, <1>2, RefusedKeeps DEF create_hold_invoice, CallOps, CallSteps
<1>3. CASE lookup_hold_invoice \/ settle_hold_invoice \/ cancel_hold_invoice
  BY <1>1, <1>3, RefusedKeeps
     DEF lookup_hold_invoice, settle_hold_invoice, cancel_hold_invoice, CallOps, CallSteps
<1>4. CASE create_invoice \/ payment_status
  BY <1>1, <1>4, RefusedKeeps DEF create_invoice, payment_status, CallOps, CallSteps
<1>5. CASE invoice_status("ofHold") \/ invoice_status("ofPlain")
  BY <1>1, <1>5 DEF invoice_status, CallOps, CallSteps
<1>6. CASE pay_invoice
  <2>1. CASE Lnd /\ Begin("pay", "pay")
    BY <1>1, <2>1 DEF CallOps, CallSteps
  <2>2. CASE Beignet /\ ~backend.bounded /\ Begin("pay", "terms")
    BY <1>1, <2>2 DEF CallOps, CallSteps
  <2>3. CASE Beignet /\ backend.bounded /\ Refused("pay", "notImplemented")
    BY <2>3, RefusedKeeps DEF NeverUnbounded, CallOps
  <2> QED
    BY <1>6, <2>1, <2>2, <2>3 DEF pay_invoice
<1>7. CASE StubCall
  BY <1>7, RefusedKeeps DEF StubCall, NeverUnbounded, CallOps
<1> QED
  BY <1>2, <1>3, <1>4, <1>5, <1>6, <1>7 DEF Calls

\* What a request does to the node.
LEMMA EffectFacts ==
  ASSUME NodeInv
  PROVE  /\ Effect \in NodeStates
         /\ call.step # "pay" => Effect.pay = node.pay
         /\ call.step # "plain" => Effect.plain = node.plain
         /\ call.step \notin {"create", "cancel", "drop", "settle"} =>
              Effect.hold = node.hold /\ Effect.delta = node.delta
         /\ node.hold # "none" => Effect.hold # "none"
         /\ call.step = "create" => Effect.hold # "none"
         /\ call.step = "create" /\ Lnd /\ node.hold = "none" => Effect.delta >= backend.asked
         /\ call.step = "settle" /\ node.hold = "accepted" => Effect.hold = "settled"
         /\ call.step = "cancel" => Effect.hold \notin {"open", "accepted"}
         /\ \/ Effect.pay = node.pay
            \/ backend.kind # "stub" /\ (Lnd \/ ~backend.bounded)
         /\ node.pay # "none" => Effect.pay # "none"
<1> USE DEF NodeInv, NodeTypeOK
<1>1. backend.asked \in Nat /\ NodeDelta \in Nat /\ (Lnd => backend.honours)
  BY NodeAssumption DEF Backends
<1>2. CASE call.step = "create"
  <2>1. Effect = Minted /\ call.step # "pay" /\ call.step # "plain"
    BY <1>2 DEF Effect
  <2>2. CASE Lnd /\ node.hold # "none"
    BY <1>2, <2>1, <2>2 DEF Minted, NodeStates
  <2>3. CASE ~(Lnd /\ node.hold # "none")
    <3> DEFINE delta == IF backend.honours THEN backend.asked ELSE NodeDelta
    <3>1. Effect = [node EXCEPT !.hold = "open", !.delta = delta]
      BY <2>1, <2>3 DEF Minted
    <3>2. delta \in Nat /\ (Lnd => delta = backend.asked)
      BY <1>1
    <3> HIDE DEF delta
    <3>3. /\ Effect \in NodeStates /\ Effect.hold = "open" /\ Effect.delta = delta
          /\ Effect.pay = node.pay /\ Effect.plain = node.plain
      BY <3>1, <3>2 DEF NodeStates
    <3> QED
      BY <1>1, <1>2, <3>2, <3>3
  <2> QED
    BY <2>2, <2>3
<1>3. CASE call.step \in {"plain", "cancel", "drop", "settle"}
  BY <1>3 DEF Effect, IsHeld, NodeStates
<1>4. CASE call.step = "pay"
  <2>1. Effect = Taken
    BY <1>4 DEF Effect
  <2>2. backend.kind # "stub" /\ (Lnd \/ ~backend.bounded)
    BY <1>4 DEF RequestIsPlaced, Ready
  <2> QED
    BY <1>4, <2>1, <2>2 DEF Taken, NodeStates
<1>5. CASE call.step \notin {"create", "plain", "cancel", "drop", "settle", "pay"}
  BY <1>5 DEF Effect, NodeStates
<1> QED
  BY <1>2, <1>3, <1>4, <1>5

LEMMA SayFacts ==
  ASSUME NodeInv, NEW answer \in CallAnswers, Say(answer)
  PROVE  /\ call'.op = call.op /\ call'.step = "done" /\ call'.says = answer
         /\ call' \in [op : CallOps, step : CallSteps, tries : Nat, says : CallAnswers]
BY DEF NodeInv, NodeTypeOK, Say, CallSteps

LEMMA AskFacts ==
  ASSUME NodeInv, NEW step \in CallSteps \ {"done"}, Ask(step)
  PROVE  /\ call'.op = call.op /\ call'.step = step
         /\ call' \in [op : CallOps, step : CallSteps, tries : Nat, says : CallAnswers]
BY AttemptsAreNat DEF NodeInv, NodeTypeOK, Ask

\* What stays whatever a request did and whoever answers.
LEMMA AfterRequest ==
  ASSUME NodeInv, UNCHANGED backend, node' \in {node, Effect},
         call' \in [op : CallOps, step : CallSteps, tries : Nat, says : CallAnswers]
  PROVE  NodeTypeOK' /\ NeverUnbounded'
BY EffectFacts DEF NodeInv, NodeTypeOK, NeverUnbounded, Lnd, Beignet

\* A reply leads to the next request of the call.
LEMMA NextIsAsked ==
  ASSUME NodeInv, UNCHANGED backend, node' = Effect, ~Ready,
         NEW step \in CallSteps \ {"done"}, Then(step),
         <<call.op, step>> \in
           {<<"create", "create">>, <<"create", "decode">>, <<"create", "drop">>,
            <<"settle", "check">>, <<"ofHold", "received">>, <<"ofPlain", "received">>,
            <<"pay", "pay">>, <<"pay", "waiting">>, <<"pay", "proof">>, <<"track", "proof">>},
         step \in {"decode", "drop"} => Effect.hold # "none",
         step = "proof" => Effect.pay = "paid"
  PROVE  NodeInv'
<1>1. /\ call'.op = call.op /\ call'.step = step
      /\ call' \in [op : CallOps, step : CallSteps, tries : Nat, says : CallAnswers]
  BY AskFacts DEF Then
<1>2. NodeTypeOK' /\ NeverUnbounded'
  BY <1>1, AfterRequest
<1>3. RequestIsPlaced'
  BY <1>1 DEF NodeInv, RequestIsPlaced, Ready, Lnd, Beignet
<1>4. AnswersAreTrue'
  BY <1>1 DEF AnswersAreTrue, Said, Ready
<1> QED
  BY <1>2, <1>3, <1>4 DEF NodeInv

\* A reply ends the call, and its answer is so.
LEMMA ReplyIsTrue ==
  ASSUME NodeInv, UNCHANGED backend, node' = Effect, NEW answer \in CallAnswers, Say(answer),
         call.op = "pay" /\ answer \in {"failed", "notImplemented"} =>
           Effect.pay \in {"none", "failed"} \/ (Beignet /\ ~backend.bounded),
         call.op = "track" /\ answer \in {"notFound", "failed"} =>
           Effect.pay \in {"none", "failed"},
         call.op \in {"pay", "track"} /\ answer = "paid" => Effect.pay = "paid",
         call.op \in {"create", "lookup"} /\ answer = "ok" =>
           Effect.hold # "none" /\ Effect.delta >= backend.asked,
         call.op = "lookup" /\ answer = "none" => Effect.hold = "none",
         call.op = "settle" /\ answer = "ok" => Effect.hold = "settled",
         call.op = "cancel" /\ answer = "ok" => Effect.hold \notin {"open", "accepted"},
         call.op = "ofHold" /\ answer = "settled" => Effect.hold = "settled",
         call.op = "ofPlain" /\ answer = "settled" => Effect.plain = "settled"
  PROVE  NodeInv'
<1>1. /\ call'.op = call.op /\ call'.step = "done" /\ call'.says = answer
      /\ call' \in [op : CallOps, step : CallSteps, tries : Nat, says : CallAnswers]
  BY SayFacts
<1>2. NodeTypeOK' /\ NeverUnbounded'
  BY <1>1, AfterRequest
<1>3. RequestIsPlaced'
  BY <1>1 DEF RequestIsPlaced, Ready
<1>4. AnswersAreTrue'
  BY <1>1 DEF AnswersAreTrue, Said, Ready, Unpaid, IsHeld, Beignet
<1> QED
  BY <1>2, <1>3, <1>4 DEF NodeInv

LEMMA RepliesKeep ==
  ASSUME NodeInv, Replies
  PROVE  NodeInv'
<1> USE DEF NodeInv, Reaches, CallSteps, CallAnswers
<1>1. /\ node.delta \in Nat /\ Effect.delta \in Nat /\ backend.asked \in Nat
      /\ (Lnd <=> backend.kind = "lnd") /\ (Beignet <=> backend.kind = "beignet")
      /\ backend.kind \in {"lnd", "beignet", "stub"}
  BY EffectFacts, NodeAssumption DEF NodeTypeOK, NodeStates, Backends, Lnd, Beignet
<1>2. CASE Reuse
  BY <1>2, EffectFacts, NextIsAsked, ReplyIsTrue DEF Reuse, IsHeld, Ready
<1>3. CASE Mint
  <2>1. call.op = "create" /\ ~Ready
    BY <1>3 DEF Mint, RequestIsPlaced, Ready
  <2> QED
    BY <1>3, <2>1, EffectFacts, NextIsAsked, ReplyIsTrue DEF Mint
<1>4. CASE Decode
  BY <1>1, <1>4, EffectFacts, NextIsAsked, ReplyIsTrue
     DEF Decode, RequestIsPlaced, Ready, DeltaIsKept
<1>5. CASE Drop
  BY <1>5, EffectFacts, ReplyIsTrue DEF Drop
<1>6. CASE Lookup
  <2>1. call.op = "lookup" /\ Effect.hold = node.hold /\ Effect.delta = node.delta
    BY <1>6, EffectFacts DEF Lookup, RequestIsPlaced
  <2>2. \E answer \in CallAnswers :
          /\ Say(answer)
          /\ answer = "ok" => node.hold # "none" /\ node.delta >= backend.asked
          /\ answer = "none" => node.hold = "none"
    BY <1>1, <1>6 DEF Lookup, IsHeld
  <2> QED
    BY <1>6, <2>1, <2>2, ReplyIsTrue DEF Lookup
<1>7. CASE Settle
  <2>1. call.op = "settle" /\ ~Ready
    BY <1>7 DEF Settle, RequestIsPlaced, Ready
  <2> QED
    BY <1>7, <2>1, EffectFacts, NextIsAsked, ReplyIsTrue DEF Settle
<1>8. CASE Check
  <2>1. call.op = "settle" /\ Effect.hold = node.hold
    BY <1>8, EffectFacts DEF Check, RequestIsPlaced
  <2> QED
    BY <1>8, <2>1, ReplyIsTrue DEF Check
<1>9. CASE Cancel
  <2>1. call.op = "cancel" /\ Effect.hold \notin {"open", "accepted"}
    BY <1>9, EffectFacts DEF Cancel, RequestIsPlaced
  <2> QED
    BY <1>9, <2>1, ReplyIsTrue DEF Cancel
<1>10. CASE MintPlain
  <2>1. call.op = "plain"
    BY <1>10 DEF MintPlain, RequestIsPlaced
  <2> QED
    BY <1>10, <2>1, ReplyIsTrue DEF MintPlain
<1>11. CASE StatusHeld
  <2>1. ~Ready /\ Effect.hold = node.hold /\ node.hold \in CallAnswers
    BY <1>11, EffectFacts DEF StatusHeld, Ready, NodeTypeOK, NodeStates
  <2> QED
    BY <1>11, <2>1, NextIsAsked, ReplyIsTrue DEF StatusHeld
<1>12. CASE Received \/ Status
  <2>1. /\ call.op \in {"ofHold", "ofPlain"} /\ Effect.hold = node.hold
        /\ Effect.plain = node.plain /\ node.hold \in CallAnswers /\ node.plain \in CallAnswers
    BY <1>12, EffectFacts DEF Received, Status, RequestIsPlaced, NodeTypeOK, NodeStates
  <2>2. CASE Received
    BY <2>1, <2>2, ReplyIsTrue DEF Received
  <2>3. CASE Status
    BY <2>1, <2>3, ReplyIsTrue DEF Status
  <2> QED
    BY <1>12, <2>2, <2>3
<1>13. CASE Terms
  <2>1. ~Ready /\ Beignet /\ ~backend.bounded
    BY <1>1, <1>13 DEF Terms, RequestIsPlaced, Ready
  <2> QED
    BY <1>13, <2>1, NextIsAsked, ReplyIsTrue DEF Terms
<1>14. CASE Pays \/ PayEnds
  <2>1. ~Ready /\ call.op = "pay" /\ (Lnd \/ (Beignet /\ ~backend.bounded))
    BY <1>1, <1>14 DEF Pays, PayEnds, RequestIsPlaced, Ready
  <2>2. CASE Pays
    BY <1>1, <2>1, <2>2, NextIsAsked, ReplyIsTrue DEF Pays
  <2>3. CASE PayEnds
    <3>1. Effect.pay = node.pay
      BY <2>3, EffectFacts DEF PayEnds
    <3> QED
      BY <1>1, <2>1, <2>3, <3>1, NextIsAsked, ReplyIsTrue DEF PayEnds
  <2> QED
    BY <1>14, <2>2, <2>3
<1>15. CASE Track
  <2>1. ~Ready /\ Effect.pay = node.pay /\ node.pay \in {"none", "initiated", "live", "failed", "paid"}
    BY <1>15, EffectFacts DEF Track, Ready, NodeTypeOK, NodeStates
  <2> QED
    BY <1>15, <2>1, NextIsAsked, ReplyIsTrue DEF Track, Tracked
<1>16. CASE PayTracked
  <2>1. ~Ready /\ Beignet /\ ~backend.bounded /\ Effect.pay = node.pay
    BY <1>1, <1>16, EffectFacts DEF PayTracked, RequestIsPlaced, Ready
  <2> QED
    BY <1>16, <2>1, NextIsAsked, ReplyIsTrue DEF PayTracked
<1>17. CASE Proof
  <2>1. Effect.pay = "paid" /\ call.op \in {"pay", "track"}
    BY <1>17, EffectFacts DEF Proof, RequestIsPlaced
  <2> QED
    BY <1>17, <2>1, ReplyIsTrue DEF Proof
<1> QED
  BY <1>2, <1>3, <1>4, <1>5, <1>6, <1>7, <1>8, <1>9, <1>10, <1>11, <1>12, <1>13, <1>14, <1>15,
     <1>16, <1>17 DEF Replies

LEMMA BreaksKeep ==
  ASSUME NodeInv, Breaks
  PROVE  NodeInv'
<1> USE DEF NodeInv
<1>1. /\ UNCHANGED backend /\ node' \in {node, Effect} /\ ~Ready
  BY DEF Breaks
<1>2. \/ call.tries > 1 /\ call' = [call EXCEPT !.tries = @ - 1]
      \/ Beignet /\ call.step \in {"pay", "waiting"} /\ Ask("track")
      \/ Say("backend")
  BY DEF Breaks, Then, Unanswered
<1>3. /\ call' \in [op : CallOps, step : CallSteps, tries : Nat, says : CallAnswers]
      /\ call'.op = call.op
      /\ \/ call'.step = call.step
         \/ Beignet /\ call.op = "pay" /\ call'.step = "track"
         \/ call'.step = "done" /\ call'.says = "backend"
  <2>1. CASE call.tries > 1 /\ call' = [call EXCEPT !.tries = @ - 1]
    <3>1. call.tries - 1 \in Nat
      BY <2>1 DEF NodeTypeOK
    <3> QED
      BY <2>1, <3>1 DEF NodeTypeOK
  <2>2. CASE Beignet /\ call.step \in {"pay", "waiting"} /\ Ask("track")
    BY <2>2, AskFacts DEF CallSteps, RequestIsPlaced
  <2>3. CASE Say("backend")
    BY <2>3, SayFacts DEF CallAnswers
  <2> QED
    BY <1>2, <2>1, <2>2, <2>3
<1>4. NodeTypeOK' /\ NeverUnbounded'
  BY <1>1, <1>3, AfterRequest
<1>5. RequestIsPlaced'
  BY <1>1, <1>3, EffectFacts DEF RequestIsPlaced, Lnd, Beignet, Ready
<1>6. AnswersAreTrue'
  BY <1>1, <1>3 DEF AnswersAreTrue, Said, Ready
<1> QED
  BY <1>4, <1>5, <1>6

\* Through requests and answers that are lost, repeated and given up, what a driver is told
\* of an invoice or a payment is so (LndBackend, BeignetBackend).
THEOREM AnswersHold == NodeSpec => []AnswersAreTrue
<1>1. NodeInv /\ [NodeNext]_nodeVars => NodeInv'
  <2> SUFFICES ASSUME NodeInv, [NodeNext]_nodeVars PROVE NodeInv'
    OBVIOUS
  <2>1. CASE UNCHANGED nodeVars
    BY <2>1 DEF nodeVars, NodeInv, NodeTypeOK, RequestIsPlaced, NeverUnbounded, AnswersAreTrue,
       Said, Ready, Unpaid, Lnd, Beignet, IsHeld
  <2> QED
    BY <2>1, NodeMovesKeep, CallsKeep, RepliesKeep, BreaksKeep DEF NodeNext
<1>2. NodeInv => AnswersAreTrue
  BY DEF NodeInv
<1> QED
  BY <1>1, <1>2, NodeInitInv, PTL DEF NodeSpec

-----------------------------------------------------------------------------
(* 6. The listing.                                                         *)

Stages == {"absent", "creating", "created", "held", "funded", "ended", "pruned"}
Snapshots == [id : Swaps, stage : Stages]
Restored == {"none", "created", "invoicePending", "lockupConfirmed", "claimed"}
Cursors == [born : 0..(Now + 1), id : Nat]

ListingTypeOK ==
  /\ book \in [Swaps -> [born : {0, Now}, stage : Stages]]
  /\ listing \in [active : BOOLEAN, cursor : Cursors, pages : Nat, got : Seq(Snapshots),
                  done : Nat, step : {"none", "page", "restore"}]
  /\ always \subseteq Swaps /\ wallet \in [Swaps -> Restored]

\* Sequences of snapshots, and what is appended to one.
LEMMA SeqFacts ==
  ASSUME NEW T, NEW s \in Seq(T)
  PROVE  Len(s) \in Nat /\ DOMAIN s = 1..Len(s) /\ \A i \in DOMAIN s : s[i] \in T
  OBVIOUS

LEMMA AppendedFacts ==
  ASSUME NEW T, NEW s \in Seq(T), NEW t \in Seq(T)
  PROVE  /\ s \o t \in Seq(T)
         /\ \A i \in DOMAIN s : i \in DOMAIN (s \o t) /\ (s \o t)[i] = s[i]
         /\ \A i \in DOMAIN t : Len(s) + i \in DOMAIN (s \o t) /\ (s \o t)[Len(s) + i] = t[i]
         /\ \A i \in DOMAIN (s \o t) :
              \/ i \in DOMAIN s /\ (s \o t)[i] = s[i]
              \/ i - Len(s) \in DOMAIN t /\ (s \o t)[i] = t[i - Len(s)]
<1>1. Len(s) \in Nat /\ Len(t) \in Nat /\ DOMAIN s = 1..Len(s) /\ DOMAIN t = 1..Len(t)
  OBVIOUS
<1>2. s \o t \in Seq(T) /\ Len(s \o t) = Len(s) + Len(t) /\ DOMAIN (s \o t) = 1..(Len(s) + Len(t))
  OBVIOUS
<1>3. \A i \in 1..(Len(s) + Len(t)) :
        (s \o t)[i] = IF i <= Len(s) THEN s[i] ELSE t[i - Len(s)]
  OBVIOUS
<1> QED
  BY <1>1, <1>2, <1>3

\* Two different records have different keys, and one of them comes first.
LEMMA KeysAreOrdered ==
  ASSUME ListingTypeOK
  PROVE  /\ \A s \in Swaps : list_key(s) \in Cursors /\ list_key(s).id = s
                             /\ list_key(s) # NoCursor /\ Past(list_key(s), NoCursor)
         /\ \A k \in Cursors : ~Past(k, k)
         /\ \A j, k \in Cursors : Past(j, k) => ~Past(k, j)
         /\ \A j, k \in Cursors : j.id # k.id => Past(j, k) \/ Past(k, j)
         /\ \A i, j, k \in Cursors : Past(i, j) /\ Past(j, k) => Past(i, k)
<1>1. \A s \in Swaps : list_key(s) \in Cursors /\ list_key(s).id = s
                       /\ list_key(s) # NoCursor /\ Past(list_key(s), NoCursor)
  BY ListingAssumption DEF ListingTypeOK, list_key, Cursors, NoCursor, Past, Now
<1>2. \A k \in Cursors : k.born \in Nat /\ k.id \in Nat
  BY DEF Cursors, Now
<1> QED
  BY <1>1, <1>2 DEF Past

\* sort_by_key puts the records of a set in the order of their keys, each once.
LEMMA SortedFacts ==
  ASSUME ListingTypeOK, NEW S \in SUBSET Swaps
  PROVE  LET n == Cardinality(S)
             all == sort_by_key(S)
         IN  /\ n \in Nat /\ all \in [1..n -> S]
             /\ \A s \in S : \E i \in 1..n : all[i] = s
             /\ \A i, j \in 1..n : i < j => Past(list_key(all[j]), list_key(all[i]))
<1> DEFINE n == Cardinality(S)
           all == sort_by_key(S)
           rank(s) == Cardinality(Before(s, S))
           f == [s \in S |-> rank(s)]
<1>1. IsFiniteSet(S) /\ n \in Nat
  BY ListingAssumption, FS_Subset, FS_CardinalityType
<1>2. \A s \in S : s \in Swaps /\ list_key(s) \in Cursors /\ list_key(s).id = s
  BY KeysAreOrdered
<1>3. ASSUME NEW s \in S PROVE IsFiniteSet(Before(s, S)) /\ rank(s) \in 0..(n - 1)
  <2>1. Before(s, S) \in SUBSET S /\ s \notin Before(s, S)
    BY <1>2, KeysAreOrdered DEF Before
  <2>2. IsFiniteSet(Before(s, S)) /\ rank(s) \in Nat /\ rank(s) <= n /\ rank(s) # n
    BY <1>1, <2>1, FS_Subset, FS_CardinalityType
  <2> QED
    BY <1>1, <2>2
<1>4. ASSUME NEW s \in S, NEW t \in S, Past(list_key(t), list_key(s)) PROVE rank(s) < rank(t)
  <2>1. Before(s, S) \in SUBSET Before(t, S)
    BY <1>2, <1>4, KeysAreOrdered DEF Before
  <2>2. s \in Before(t, S) /\ s \notin Before(s, S)
    BY <1>2, <1>4, KeysAreOrdered DEF Before
  <2>3. rank(s) <= rank(t) /\ rank(s) # rank(t)
    BY <1>3, <2>1, <2>2, FS_Subset
  <2> QED
    BY <1>3, <2>3
<1>5. \A s, t \in S : s # t => rank(s) # rank(t)
  BY <1>2, <1>3, <1>4, KeysAreOrdered
<1>6. f \in Injection(S, 0..(n - 1))
  BY <1>3, <1>5 DEF Injection, IsInjective
<1>7. IsFiniteSet(0..(n - 1)) /\ Cardinality(0..(n - 1)) = n
  BY <1>1, FS_Interval
<1>8. f \in Surjection(S, 0..(n - 1))
  BY <1>1, <1>6, <1>7, FS_Injection
<1>9. \A k \in 0..(n - 1) : \E s \in S : rank(s) = k
  BY <1>8 DEF Surjection
<1>10. ASSUME NEW i \in 1..n PROVE all[i] \in S /\ rank(all[i]) = i - 1
  <2>1. PICK s \in S : rank(s) = i - 1
    BY <1>1, <1>9
  <2>2. all[i] = CHOOSE x \in S : Cardinality(Before(x, S)) = i - 1
    BY DEF sort_by_key
  <2> QED
    BY <2>1, <2>2
<1>11. all \in [1..n -> S]
  BY <1>10 DEF sort_by_key
<1>12. ASSUME NEW s \in S PROVE \E i \in 1..n : all[i] = s
  <2>1. rank(s) + 1 \in 1..n /\ rank(all[rank(s) + 1]) = rank(s)
    BY <1>1, <1>3, <1>10
  <2> QED
    BY <1>5, <1>10, <2>1
<1>13. ASSUME NEW i \in 1..n, NEW j \in 1..n, i < j
       PROVE  Past(list_key(all[j]), list_key(all[i]))
  <2>1. rank(all[i]) < rank(all[j]) /\ all[i] \in S /\ all[j] \in S
    BY <1>10, <1>13
  <2>2. ~Past(list_key(all[i]), list_key(all[j])) /\ all[i] # all[j]
    BY <1>3, <1>4, <2>1
  <2> QED
    BY <1>2, <2>1, <2>2, KeysAreOrdered
<1> QED
  BY <1>1, <1>11, <1>12, <1>13

\* A cursor skips the records that are not past it, which come first.
LEMMA StartFacts ==
  ASSUME ListingTypeOK, NEW S \in SUBSET Swaps, NEW cursor \in Cursors
  PROVE  LET n == Cardinality(S)
             all == sort_by_key(S)
         IN  /\ start(all, cursor) \in 0..n
             /\ \A i \in 1..n : Past(list_key(all[i]), cursor) <=> i > start(all, cursor)
<1> DEFINE n == Cardinality(S)
           all == sort_by_key(S)
           J == {i \in DOMAIN all : ~Past(list_key(all[i]), cursor)}
           c == Cardinality(J)
<1>1. /\ n \in Nat /\ all \in [1..n -> S]
      /\ \A i, j \in 1..n : i < j => Past(list_key(all[j]), list_key(all[i]))
  BY SortedFacts
<1>2. \A i \in 1..n : list_key(all[i]) \in Cursors
  BY <1>1, KeysAreOrdered
<1>3. J \in SUBSET (1..n) /\ IsFiniteSet(1..n) /\ Cardinality(1..n) = n
  BY <1>1, FS_Interval
<1>4. IsFiniteSet(J) /\ c \in Nat /\ c <= n
  BY <1>1, <1>3, FS_Subset, FS_CardinalityType
<1>5. \A i \in J, j \in 1..n : j < i => j \in J
  BY <1>1, <1>2, KeysAreOrdered
<1>6. ASSUME NEW i \in J PROVE i <= c
  <2>1. i \in 1..n /\ i \in Nat
    BY <1>1, <1>3
  <2>2. \A j \in 1..i : j \in 1..n /\ (j = i \/ j < i)
    BY <1>1, <2>1
  <2>3. 1..i \in SUBSET J
    BY <1>5, <2>2
  <2>4. Cardinality(1..i) = i
    BY <2>1, FS_Interval
  <2> QED
    BY <1>4, <2>1, <2>4, <2>3, FS_Subset
<1>7. J \in SUBSET (1..c) /\ Cardinality(1..c) = c /\ IsFiniteSet(1..c)
  BY <1>3, <1>4, <1>6, FS_Interval
<1>8. J = 1..c
  BY <1>7, FS_Subset
<1>9. start(all, cursor) = c
  BY DEF start
<1>10. \A i \in 1..n : i \in J <=> ~Past(list_key(all[i]), cursor)
  BY <1>1
<1> HIDE DEF J
<1> QED
  BY <1>1, <1>4, <1>8, <1>9, <1>10

Rebuilt ==
  \A i \in 1..listing.done :
    /\ i \in DOMAIN listing.got
    /\ (listing.got[i].stage # "ended" /\ listing.got[i].id \in Reversed \cap Keyed
        => wallet[listing.got[i].id] # "none")

\* What has been listed so far, and what is still to come.
ListedInOrder ==
  /\ \A i \in DOMAIN listing.got :
       listing.got[i].id \in Owned /\ book[listing.got[i].id].stage # "absent"
  /\ \A i, j \in DOMAIN listing.got : i # j => listing.got[i].id # listing.got[j].id
  /\ listing.step = "none" => always = {}
  /\ \A s \in always : Listed(s, listing.active)
  /\ listing.step = "page" =>
       /\ listing.done = 0
       /\ \A i \in DOMAIN listing.got : ~Past(list_key(listing.got[i].id), listing.cursor)
       /\ \A s \in always : s \in Ids(listing.got) \/ Past(list_key(s), listing.cursor)
  /\ listing.step = "restore" => always \subseteq Ids(listing.got)

\* A page has the next of the records past the cursor, in their order; those that are
\* left are past its own cursor, if it has one.
LEMMA PageFacts ==
  ASSUME ListingTypeOK, NEW active \in BOOLEAN, NEW cursor \in Cursors
  PROVE  LET list == swap_list(active, cursor)
             page == list.snapshots
             after == {s \in Swaps : Listed(s, active) /\ Past(list_key(s), cursor)}
         IN  /\ page \in Seq(Snapshots) /\ list.next \in Cursors
             /\ \A i \in DOMAIN page : page[i].id \in after
             /\ \A i, j \in DOMAIN page : i # j => page[i].id # page[j].id
             /\ list.next = NoCursor => after \subseteq Ids(page)
             /\ list.next # NoCursor =>
                  /\ list.next # cursor
                  /\ \A i \in DOMAIN page : ~Past(list_key(page[i].id), list.next)
                  /\ \A s \in Swaps : Past(list_key(s), list.next) => Past(list_key(s), cursor)
                  /\ \A s \in after : s \in Ids(page) \/ Past(list_key(s), list.next)
<1> DEFINE S == {s \in Swaps : Listed(s, active)}
           n == Cardinality(S)
           all == sort_by_key(S)
           from == start(all, cursor)
           size == IF from + PAGE < n THEN PAGE ELSE n - from
           page == [i \in 1..size |-> [id |-> all[from + i], stage |-> book[all[from + i]].stage]]
           next == IF size > 0 /\ from + size < n THEN list_key(all[from + size]) ELSE NoCursor
           after == {s \in S : Past(list_key(s), cursor)}
<1>1. /\ n \in Nat /\ all \in [1..n -> S]
      /\ \A s \in S : \E i \in 1..n : all[i] = s
      /\ \A i, j \in 1..n : i < j => Past(list_key(all[j]), list_key(all[i]))
  BY SortedFacts
<1>2. /\ from \in 0..n
      /\ \A i \in 1..n : Past(list_key(all[i]), cursor) <=> i > from
  BY StartFacts
<1>3. swap_list(active, cursor) = [snapshots |-> page, next |-> next]
  <2>1. owned(active) = all /\ Len(all) = n
    BY <1>1 DEF owned
  <2> QED
    BY <2>1 DEF swap_list
<1>4. /\ size \in 0..(n - from) /\ PAGE \in Nat \ {0}
      /\ size > 0 /\ from + size < n => size = PAGE
  BY <1>1, <1>2, ListingAssumption
<1>5. \A s \in Swaps : list_key(s) \in Cursors /\ list_key(s) # NoCursor
  BY KeysAreOrdered
<1> HIDE DEF n, all, from, size
<1>6. \A i \in 1..size : from + i \in 1..n /\ from + i > from /\ all[from + i] \in S
  BY <1>1, <1>2, <1>4
<1>7. page \in Seq(Snapshots) /\ DOMAIN page = 1..size
  <2>1. \A s \in Swaps : book[s].stage \in Stages
    BY DEF ListingTypeOK
  <2>2. \A i \in 1..size : page[i] \in Snapshots
    BY <1>6, <2>1 DEF Snapshots
  <2> QED
    BY <1>4, <2>2
<1>8. \A i \in DOMAIN page : page[i].id = all[from + i] /\ page[i].id \in after
  BY <1>2, <1>6, <1>7
<1>9. \A i, j \in DOMAIN page : i # j => page[i].id # page[j].id
  <2>1. \A i, j \in 1..n : i < j => all[i] # all[j]
    BY <1>1, <1>5, KeysAreOrdered
  <2> QED
    BY <1>2, <1>4, <1>6, <1>7, <1>8, <2>1
<1>10. /\ NoCursor \in Cursors /\ next \in Cursors
       /\ next # NoCursor => /\ size = PAGE /\ from + size \in 1..n /\ size \in 1..size
                             /\ next = list_key(all[from + size]) /\ Past(next, cursor)
  <2>1. NoCursor \in Cursors
    BY DEF NoCursor, Cursors, Now
  <2>2. CASE size > 0 /\ from + size < n
    <3>1. size \in 1..size /\ size = PAGE /\ next = list_key(all[from + size])
      BY <1>4, <2>2
    <3>2. from + size \in 1..n /\ all[from + size] \in S /\ Past(list_key(all[from + size]), cursor)
      BY <1>2, <1>6, <3>1
    <3> QED
      BY <1>5, <2>1, <3>1, <3>2
  <2>3. CASE ~(size > 0 /\ from + size < n)
    BY <2>1, <2>3
  <2> QED
    BY <2>2, <2>3
<1>11. \A s \in after : \E i \in 1..n : all[i] = s /\ i > from
  BY <1>1, <1>2
<1>12. \A i \in 1..n : i > from /\ i <= from + size => all[i] \in Ids(page)
  <2> SUFFICES ASSUME NEW i \in 1..n, i > from, i <= from + size
               PROVE  all[i] \in Ids(page)
    OBVIOUS
  <2>1. i - from \in 1..size /\ from + (i - from) = i
    BY <1>1, <1>2, <1>4
  <2>2. i - from \in DOMAIN page /\ page[i - from].id = all[i]
    BY <1>7, <1>8, <2>1
  <2> QED
    BY <2>2 DEF Ids
<1>13. next = NoCursor => after \subseteq Ids(page)
  <2> SUFFICES ASSUME next = NoCursor, NEW s \in after PROVE s \in Ids(page)
    OBVIOUS
  <2>1. PICK i \in 1..n : all[i] = s /\ i > from
    BY <1>11
  <2>2. size > 0 /\ from + size < n => all[from + size] \in Swaps
    BY <1>4, <1>6
  <2>3. ~(size > 0 /\ from + size < n)
    BY <1>5, <2>2
  <2>4. from + size >= n
    BY <1>1, <1>2, <1>4, <2>1, <2>3 DEF size
  <2>5. i > from /\ i <= from + size /\ s = all[i]
    BY <1>1, <1>2, <1>4, <2>1, <2>4
  <2> HIDE DEF page, next
  <2> QED
    BY <1>12, <2>5
<1>14. next # NoCursor =>
         /\ next # cursor
         /\ \A i \in DOMAIN page : ~Past(list_key(page[i].id), next)
         /\ \A s \in Swaps : Past(list_key(s), next) => Past(list_key(s), cursor)
         /\ \A s \in after : s \in Ids(page) \/ Past(list_key(s), next)
  <2> SUFFICES ASSUME next # NoCursor
               PROVE  /\ next # cursor
                      /\ \A i \in DOMAIN page : ~Past(list_key(page[i].id), next)
                      /\ \A s \in Swaps : Past(list_key(s), next) => Past(list_key(s), cursor)
                      /\ \A s \in after : s \in Ids(page) \/ Past(list_key(s), next)
    OBVIOUS
  <2> DEFINE last == from + size
  <2>1. last \in 1..n /\ next = list_key(all[last]) /\ Past(next, cursor) /\ next \in Cursors
    BY <1>10
  <2> HIDE DEF next, page
  <2>2. \A i \in 1..n : list_key(all[i]) \in Cursors
    BY <1>1, <1>5
  <2>3. \A i \in DOMAIN page : ~Past(list_key(page[i].id), next)
    <3> SUFFICES ASSUME NEW i \in DOMAIN page PROVE ~Past(list_key(all[from + i]), next)
      BY <1>8
    <3>1. from + i \in 1..n /\ (from + i = last \/ from + i < last)
      BY <1>2, <1>4, <1>6, <1>7
    <3>2. from + i < last => Past(next, list_key(all[from + i]))
      BY <1>1, <2>1, <3>1
    <3> QED
      BY <2>1, <2>2, <3>1, <3>2, KeysAreOrdered
  <2>4. \A s \in Swaps : Past(list_key(s), next) => Past(list_key(s), cursor)
    BY <1>5, <2>1, KeysAreOrdered
  <2>5. ASSUME NEW s \in after PROVE s \in Ids(page) \/ Past(list_key(s), next)
    <3>1. PICK i \in 1..n : all[i] = s /\ i > from
      BY <1>11
    <3>2. CASE i <= last
      BY <1>12, <3>1, <3>2
    <3>3. CASE i > last
      BY <1>1, <2>1, <3>1, <3>3
    <3> QED
      BY <1>1, <2>1, <3>2, <3>3
  <2>6. next # cursor
    BY <2>1, KeysAreOrdered
  <2> QED
    BY <2>3, <2>4, <2>5, <2>6
<1> QED
  BY <1>3, <1>7, <1>8, <1>9, <1>10, <1>13, <1>14

-----------------------------------------------------------------------------
ListingInv == ListingTypeOK /\ ListedInOrder /\ Rebuilt

LEMMA ListingInitInv == ListingInit => ListingInv
<1> SUFFICES ASSUME ListingInit PROVE ListingInv
  OBVIOUS
<1>1. listing = NoListing /\ always = {} /\ NoListing.got = <<>> /\ NoListing.done = 0
      /\ NoListing.step = "none"
  BY DEF ListingInit, NoListing
<1>2. book \in [Swaps -> [born : {0, Now}, stage : Stages]]
  BY DEF ListingInit, Stages
<1>3. NoListing \in [active : BOOLEAN, cursor : Cursors, pages : Nat, got : Seq(Snapshots),
                     done : Nat, step : {"none", "page", "restore"}]
  BY DEF NoListing, NoCursor, Cursors, Now
<1>4. wallet \in [Swaps -> Restored]
  BY DEF ListingInit, Restored
<1> QED
  BY <1>1, <1>2, <1>3, <1>4 DEF ListingInv, ListingTypeOK, ListedInOrder, Rebuilt

\* The provider's steps leave the keys of its records alone, and what it ends or prunes
\* is no longer owed.
LEMMA ProviderKeeps ==
  ASSUME ListingInv,
         \/ \E s \in Swaps : Admit(s)
         \/ \E s \in Swaps, from \in SUBSET Stages, to \in Stages \ {"absent", "creating"} :
              "absent" \notin from /\ Stage(s, from, to)
  PROVE  ListingInv'
<1> SUFFICES ASSUME NEW s \in Swaps,
                    \/ Admit(s)
                    \/ \E from \in SUBSET Stages, to \in Stages \ {"absent", "creating"} :
                         "absent" \notin from /\ Stage(s, from, to)
             PROVE  ListingInv'
  OBVIOUS
<1>1. UNCHANGED <<listing, wallet>> /\ always' \subseteq always
  BY DEF Admit, Stage
<1>2. book' \in [Swaps -> [born : {0, Now}, stage : Stages]]
  <2>1. book \in [Swaps -> [born : {0, Now}, stage : Stages]]
    BY DEF ListingInv, ListingTypeOK
  <2>2. book[s] \in [born : {0, Now}, stage : Stages]
    BY <2>1
  <2>3. ASSUME Admit(s) PROVE book' \in [Swaps -> [born : {0, Now}, stage : Stages]]
    <3>1. [born |-> Now, stage |-> "creating"] \in [born : {0, Now}, stage : Stages]
      BY DEF Stages
    <3>2. book' = [book EXCEPT ![s] = [born |-> Now, stage |-> "creating"]]
      BY <2>3 DEF Admit
    <3> QED
      BY <2>1, <3>1, <3>2
  <2>4. ASSUME NEW from \in SUBSET Stages, NEW to \in Stages, Stage(s, from, to)
        PROVE  book' \in [Swaps -> [born : {0, Now}, stage : Stages]]
    <3>1. [book[s] EXCEPT !.stage = to] \in [born : {0, Now}, stage : Stages]
      BY <2>2
    <3>2. book' = [book EXCEPT ![s] = [book[s] EXCEPT !.stage = to]]
      BY <2>1, <2>4 DEF Stage
    <3> QED
      BY <2>1, <3>1, <3>2
  <2> QED
    BY <2>3, <2>4
<1>3. \A x \in Swaps : book[x].stage # "absent" =>
        list_key(x)' = list_key(x) /\ book'[x].stage # "absent"
  BY DEF ListingInv, ListingTypeOK, Admit, Stage, list_key, Stages
<1>4. \A x \in always' : Listed(x, listing.active)'
  <2> SUFFICES ASSUME NEW x \in always' PROVE Listed(x, listing.active)'
    OBVIOUS
  <2>1. x \in always /\ x \in Swaps /\ Listed(x, listing.active) /\ listing' = listing
    BY <1>1 DEF ListingInv, ListedInOrder, ListingTypeOK
  <2>2. CASE x # s
    BY <2>1, <2>2 DEF Listed, Shows, Admit, Stage, ListingInv, ListingTypeOK
  <2>3. CASE x = s
    <3>1. ~Admit(s)
      BY <2>1, <2>3 DEF Listed, Shows, Admit
    <3>2. PICK from \in SUBSET Stages, to \in Stages \ {"absent", "creating"} :
            "absent" \notin from /\ Stage(s, from, to)
      BY <3>1
    <3>3. book'[s].stage = to /\ to # "pruned" /\ ~(listing.active /\ to = "ended")
      BY <2>3, <3>2 DEF Stage, ListingInv, ListingTypeOK
    <3> QED
      BY <2>1, <2>3, <3>2, <3>3 DEF Listed, Shows
  <2> QED
    BY <2>2, <2>3
<1>5. \A i \in DOMAIN listing.got : listing.got[i].id \in Swaps
  <2>1. listing.got \in Seq(Snapshots)
    BY DEF ListingInv, ListingTypeOK
  <2>2. \A i \in DOMAIN listing.got : listing.got[i] \in Snapshots
    BY <2>1, SeqFacts
  <2> QED
    BY <2>2 DEF Snapshots
<1>6. \A x \in always : x \in Swaps /\ book[x].stage # "absent"
  BY DEF ListingInv, ListedInOrder, ListingTypeOK, Listed, Shows
<1>7. ListedInOrder'
  <2>1. \A i \in DOMAIN listing.got :
          /\ listing.got[i].id \in Owned /\ book'[listing.got[i].id].stage # "absent"
          /\ list_key(listing.got[i].id)' = list_key(listing.got[i].id)
    BY <1>1, <1>3, <1>5 DEF ListingInv, ListedInOrder
  <2>2. \A x \in always' : list_key(x)' = list_key(x) /\ x \in always
    BY <1>1, <1>3, <1>6
  <2>3. \A x \in always' : Ids(listing.got)' = Ids(listing.got)
    BY <1>1 DEF Ids
  <2>4. listing' = listing /\ (listing.step = "none" => always' = {})
    BY <1>1 DEF ListingInv, ListedInOrder
  <2> QED
    <3>1. \A i \in DOMAIN listing.got :
            Past(list_key(listing.got[i].id), listing.cursor)' =
            Past(list_key(listing.got[i].id), listing.cursor)
      BY <2>1, <2>4 DEF Past
    <3>2. \A x \in always' : Past(list_key(x), listing.cursor)' = Past(list_key(x), listing.cursor)
      BY <2>2, <2>4 DEF Past
    <3>3. \A i \in DOMAIN listing'.got :
            listing'.got[i].id \in Owned /\ book'[listing'.got[i].id].stage # "absent"
      BY <2>1, <2>4
    <3>4. listing'.step = "page" =>
            /\ listing'.done = 0
            /\ \A i \in DOMAIN listing'.got : ~Past(list_key(listing.got[i].id), listing.cursor)'
            /\ \A x \in always' : x \in Ids(listing.got)' \/ Past(list_key(x), listing.cursor)'
      BY <2>2, <2>3, <2>4, <3>1, <3>2 DEF ListingInv, ListedInOrder
    <3>5. listing'.step = "restore" => always' \subseteq Ids(listing.got)'
      BY <2>2, <2>3, <2>4 DEF ListingInv, ListedInOrder
    <3>6. \A i, j \in DOMAIN listing'.got : i # j => listing'.got[i].id # listing'.got[j].id
      BY <2>4 DEF ListingInv, ListedInOrder
    <3> QED
      BY <1>4, <2>4, <3>3, <3>4, <3>5, <3>6 DEF ListedInOrder
<1> QED
  BY <1>1, <1>2, <1>7 DEF ListingInv, ListingTypeOK, Rebuilt

\* The client's steps: a page is appended where the last one ended.
LEMMA PageKeeps ==
  ASSUME ListingInv, list_swaps
  PROVE  ListingInv'
<1> DEFINE list == swap_list(listing.active, listing.cursor)
           page == list.snapshots
           got == listing.got
           after == {s \in Swaps : Listed(s, listing.active) /\ Past(list_key(s), listing.cursor)}
<1> USE DEF ListingInv
<1>1. /\ listing.active \in BOOLEAN /\ listing.cursor \in Cursors /\ got \in Seq(Snapshots)
      /\ always \in SUBSET Swaps /\ listing.step = "page" /\ listing.done = 0 /\ listing.pages \in Nat
  BY DEF ListingTypeOK, ListedInOrder, list_swaps
<1>2. /\ page \in Seq(Snapshots) /\ list.next \in Cursors
      /\ \A i \in DOMAIN page : page[i].id \in after
      /\ \A i, j \in DOMAIN page : i # j => page[i].id # page[j].id
      /\ list.next = NoCursor => after \subseteq Ids(page)
      /\ list.next # NoCursor =>
           /\ list.next # listing.cursor
           /\ \A i \in DOMAIN page : ~Past(list_key(page[i].id), list.next)
           /\ \A s \in Swaps : Past(list_key(s), list.next) => Past(list_key(s), listing.cursor)
           /\ \A s \in after : s \in Ids(page) \/ Past(list_key(s), list.next)
  BY <1>1, PageFacts
<1>3. /\ listing' = [listing EXCEPT !.pages = @ + 1, !.got = got \o page, !.cursor = list.next,
                       !.step = IF list.next # NoCursor THEN "page" ELSE "restore"]
      /\ UNCHANGED <<book, always, wallet>>
  BY <1>1, <1>2 DEF list_swaps
<1> HIDE DEF list
<1>4. /\ listing'.got = got \o page /\ listing'.cursor = list.next /\ listing'.done = 0
      /\ listing'.active = listing.active
      /\ listing'.step = IF list.next # NoCursor THEN "page" ELSE "restore"
  BY <1>1, <1>2, <1>3 DEF ListingTypeOK
<1> DEFINE all == got \o page
<1>5. got \in Seq(Snapshots) /\ page \in Seq(Snapshots)
  BY <1>1, <1>2
<1> HIDE DEF got, page
<1>6. /\ all \in Seq(Snapshots)
      /\ \A i \in DOMAIN got : i \in DOMAIN all /\ all[i] = got[i]
      /\ \A i \in DOMAIN page : Len(got) + i \in DOMAIN all /\ all[Len(got) + i] = page[i]
      /\ \A i \in DOMAIN all : \/ i \in DOMAIN got /\ all[i] = got[i]
                               \/ i - Len(got) \in DOMAIN page /\ all[i] = page[i - Len(got)]
  BY <1>5, AppendedFacts
<1> HIDE DEF all
<1>7. /\ \A i \in DOMAIN all : i \in Nat
      /\ Len(got) \in Nat /\ \A i \in DOMAIN got : got[i] \in Snapshots
      /\ \A i \in DOMAIN page : page[i] \in Snapshots
  <2>1. Len(all) \in Nat /\ DOMAIN all = 1..Len(all)
    BY <1>6, SeqFacts
  <2> QED
    BY <1>5, <2>1, SeqFacts
<1> USE DEF got, page
<1>8. Ids(all) = Ids(got) \cup Ids(page)
  BY <1>6, <1>7 DEF Ids
<1>9. \A i \in DOMAIN got : /\ got[i].id \in Owned /\ got[i].id \in Swaps
                            /\ book[got[i].id].stage # "absent"
                            /\ ~Past(list_key(got[i].id), listing.cursor)
  BY <1>1, <1>7 DEF ListedInOrder, Snapshots
<1>10. \A i \in DOMAIN page : /\ page[i].id \in Owned /\ page[i].id \in Swaps
                              /\ book[page[i].id].stage # "absent"
                              /\ Past(list_key(page[i].id), listing.cursor)
  BY <1>2 DEF Listed, Shows
<1>11. \A i \in DOMAIN all : all[i].id \in Owned /\ book[all[i].id].stage # "absent"
  BY <1>6, <1>9, <1>10
<1>12. \A i, j \in DOMAIN got : i # j => got[i].id # got[j].id
  BY DEF ListedInOrder
<1>13. ASSUME NEW i \in DOMAIN all, NEW j \in DOMAIN all, i # j PROVE all[i].id # all[j].id
  <2>1. CASE i \in DOMAIN got /\ all[i] = got[i]
    <3>1. CASE j \in DOMAIN got /\ all[j] = got[j]
      BY <1>12, <1>13, <2>1, <3>1
    <3>2. CASE j - Len(got) \in DOMAIN page /\ all[j] = page[j - Len(got)]
      BY <1>9, <1>10, <2>1, <3>2
    <3> QED
      BY <1>6, <3>1, <3>2
  <2>2. CASE i - Len(got) \in DOMAIN page /\ all[i] = page[i - Len(got)]
    <3>1. CASE j \in DOMAIN got /\ all[j] = got[j]
      BY <1>9, <1>10, <2>2, <3>1
    <3>2. CASE j - Len(got) \in DOMAIN page /\ all[j] = page[j - Len(got)]
      <4>1. i - Len(got) # j - Len(got)
        BY <1>7, <1>13
      <4> QED
        BY <1>2, <2>2, <3>2, <4>1
    <3> QED
      BY <1>6, <3>1, <3>2
  <2> QED
    BY <1>6, <2>1, <2>2
<1>14. \A s \in always : /\ Listed(s, listing.active) /\ s \in Swaps
                         /\ s \in Ids(got) \/ s \in after
  BY <1>1 DEF ListedInOrder
<1>15. \A s \in always :
         \/ s \in Ids(all)
         \/ list.next # NoCursor /\ Past(list_key(s), list.next)
  BY <1>2, <1>8, <1>14
<1>16. list.next # NoCursor => \A i \in DOMAIN all : ~Past(list_key(all[i].id), list.next)
  BY <1>2, <1>6, <1>9
<1>17. ListedInOrder'
  <2>1. /\ listing'.got = all /\ always' = always /\ book' = book
        /\ \A s \in Swaps : list_key(s)' = list_key(s) /\ Listed(s, listing.active)' = Listed(s, listing.active)
    BY <1>3, <1>4 DEF list_key, Listed, Shows, all
  <2> QED
    BY <1>1, <1>4, <1>11, <1>13, <1>14, <1>15, <1>16, <2>1
       DEF ListedInOrder, Ids, Past, list_key, Listed, Shows
<1>18. ListingTypeOK'
  <2>1. all \in Seq(Snapshots) /\ listing'.got = all
    BY <1>4, <1>6 DEF all
  <2>2. /\ listing' = [listing EXCEPT !.pages = @ + 1, !.got = all, !.cursor = list.next,
                         !.step = IF list.next # NoCursor THEN "page" ELSE "restore"]
    BY <1>3 DEF all
  <2>3. /\ book' \in [Swaps -> [born : {0, Now}, stage : Stages]]
        /\ always' \subseteq Swaps /\ wallet' \in [Swaps -> Restored]
    BY <1>3 DEF ListingTypeOK
  <2>4. listing \in [active : BOOLEAN, cursor : Cursors, pages : Nat, got : Seq(Snapshots),
                     done : Nat, step : {"none", "page", "restore"}]
    BY DEF ListingTypeOK
  <2>5. list.next \in Cursors /\ listing.pages + 1 \in Nat
    BY <1>1, <1>2
  <2> HIDE DEF ListingInv
  <2> DEFINE Sequences == Seq(Snapshots)
  <2>6. listing' \in [active : BOOLEAN, cursor : Cursors, pages : Nat, got : Sequences,
                      done : Nat, step : {"none", "page", "restore"}]
    <3> HIDE DEF all, page, got, after
    <3>1. all \in Sequences /\ listing \in [active : BOOLEAN, cursor : Cursors, pages : Nat,
                      got : Sequences, done : Nat, step : {"none", "page", "restore"}]
      BY <1>6, <2>4
    <3> HIDE DEF Sequences
    <3> QED
      BY <2>2, <2>5, <3>1
  <2> QED
    BY <2>3, <2>6 DEF ListingTypeOK
<1>19. Rebuilt'
  BY <1>3, <1>4 DEF Rebuilt
<1> QED
  BY <1>17, <1>19, <1>18

\* The client's other steps.
LEMMA ClientKeeps ==
  ASSUME ListingInv, list_all_swaps \/ Abandon \/ restore_snapshots \/ \E s \in Swaps : Resume(s)
  PROVE  ListingInv'
<1>1. NoListing \in [active : BOOLEAN, cursor : Cursors, pages : Nat, got : Seq(Snapshots),
                     done : Nat, step : {"none", "page", "restore"}]
      /\ NoListing.got = <<>> /\ NoListing.done = 0 /\ NoListing.step = "none"
      /\ NoListing.cursor = NoCursor
  BY DEF NoListing, NoCursor, Cursors, Now
<1>2. ASSUME list_all_swaps PROVE ListingInv'
  <2>1. PICK active \in BOOLEAN :
          /\ listing' = [NoListing EXCEPT !.active = active, !.step = "page"]
          /\ always' = {s \in Swaps : Listed(s, active)}
          /\ UNCHANGED <<book, wallet>>
    BY <1>2 DEF list_all_swaps
  <2>2. /\ listing'.active = active /\ listing'.got = <<>> /\ listing'.done = 0
        /\ listing'.step = "page" /\ listing'.cursor = NoCursor
        /\ listing' \in [active : BOOLEAN, cursor : Cursors, pages : Nat, got : Seq(Snapshots),
                         done : Nat, step : {"none", "page", "restore"}]
    BY <1>1, <2>1
  <2>3. ListingTypeOK'
    BY <2>1, <2>2 DEF ListingInv, ListingTypeOK
  <2>4. \A s \in always' : Past(list_key(s), listing.cursor)' /\ Listed(s, listing.active)'
    BY <2>1, <2>2, KeysAreOrdered DEF ListingInv, Past, list_key, Listed, Shows
  <2>5. DOMAIN listing'.got = {}
    BY <2>2
  <2>6. ListedInOrder'
    BY <2>2, <2>4, <2>5 DEF ListedInOrder
  <2> QED
    BY <2>2, <2>3, <2>6 DEF ListingInv, Rebuilt
<1>3. ASSUME Abandon PROVE ListingInv'
  <2>1. listing' = NoListing /\ always' = {} /\ UNCHANGED <<book, wallet>>
    BY <1>3 DEF Abandon
  <2> QED
    BY <1>1, <2>1 DEF ListingInv, ListingTypeOK, ListedInOrder, Rebuilt
<1>4. ASSUME restore_snapshots \/ \E s \in Swaps : Resume(s) PROVE ListingInv'
  <2>1. /\ listing' = listing \/ listing' = [listing EXCEPT !.done = @ + 1]
        /\ UNCHANGED <<book, always>>
    BY <1>4 DEF restore_snapshots, Resume
  <2>2. listing \in [active : BOOLEAN, cursor : Cursors, pages : Nat, got : Seq(Snapshots),
                     done : Nat, step : {"none", "page", "restore"}]
    BY DEF ListingInv, ListingTypeOK
  <2>3. /\ listing'.active = listing.active /\ listing'.cursor = listing.cursor
        /\ listing'.got = listing.got /\ listing'.step = listing.step
        /\ listing' \in [active : BOOLEAN, cursor : Cursors, pages : Nat, got : Seq(Snapshots),
                     done : Nat, step : {"none", "page", "restore"}]
    BY <2>1, <2>2
  <2>4. listing.step = "page" => listing'.done = listing.done
    BY <1>4 DEF restore_snapshots, Resume
  <2>5. wallet' \in [Swaps -> Restored]
    BY <1>4 DEF restore_snapshots, Resume, ListingInv, ListingTypeOK, Restored, restored_state
  <2>6. ListingTypeOK' /\ ListedInOrder'
    BY <2>1, <2>3, <2>4, <2>5
       DEF ListingInv, ListingTypeOK, ListedInOrder, Past, list_key, Listed, Shows, Ids
  <2>7. \A s \in Swaps : wallet[s] # "none" => wallet'[s] # "none"
    BY <1>4 DEF restore_snapshots, Resume, Rebuilds, restored_state, ListingInv, ListingTypeOK
  <2>8. \A i \in 1..listing.done : i \in DOMAIN listing.got => listing.got[i].id \in Swaps
    <3>1. listing.got \in Seq(Snapshots)
      BY <2>2
    <3>2. \A i \in DOMAIN listing.got : listing.got[i] \in Snapshots
      BY <3>1, SeqFacts
    <3> QED
      BY <3>2 DEF Snapshots
  <2>9. ASSUME restore_snapshots PROVE Rebuilt'
    <3> DEFINE n == listing.done + 1
               snapshot == listing.got[n]
    <3>1. /\ n \in Nat /\ listing.done < Len(listing.got) /\ listing'.done = n
          /\ wallet' = IF Rebuilds(snapshot)
                       THEN [wallet EXCEPT ![snapshot.id] = restored_state(snapshot)] ELSE wallet
      BY <2>2, <2>9 DEF restore_snapshots
    <3>2. Len(listing.got) \in Nat /\ DOMAIN listing.got = 1..Len(listing.got)
          /\ \A i \in DOMAIN listing.got : listing.got[i] \in Snapshots
      BY <2>2, SeqFacts
    <3>3. n \in DOMAIN listing.got
      BY <2>2, <3>1, <3>2
    <3>4. n \in DOMAIN listing.got /\ snapshot.id \in Swaps
      BY <3>2, <3>3 DEF Snapshots
    <3>5. snapshot.stage # "ended" /\ snapshot.id \in Reversed \cap Keyed
          => wallet'[snapshot.id] # "none"
      BY <3>1, <3>4 DEF Rebuilds, restored_state, ListingInv, ListingTypeOK
    <3>6. \A i \in 1..listing.done : i \in DOMAIN listing.got
      BY <2>2, <3>1, <3>2
    <3>7. \A i \in 1..listing'.done : i \in 1..listing.done \/ i = n
      BY <2>2, <3>1
    <3> QED
      BY <2>3, <2>7, <2>8, <3>4, <3>5, <3>6, <3>7 DEF ListingInv, Rebuilt
  <2>10. ASSUME NEW s \in Swaps, Resume(s) PROVE Rebuilt'
    BY <2>7, <2>8, <2>10 DEF Resume, ListingInv, Rebuilt
  <2>11. Rebuilt'
    BY <1>4, <2>9, <2>10
  <2> QED
    BY <2>6, <2>11 DEF ListingInv
<1> QED
  BY <1>2, <1>3, <1>4

\* Whatever a provider admits, ends and prunes between the pages, a restore lists every swap
\* that was there all along, once, and takes what it can of it (list_all_swaps,
\* restore_snapshots).
THEOREM RestoresAreWhole == ListingSpec => []RestoreIsWhole
<1>1. ListingInv /\ [ListingNext]_listingVars => ListingInv'
  <2> SUFFICES ASSUME ListingInv, [ListingNext]_listingVars PROVE ListingInv'
    OBVIOUS
  <2>1. CASE UNCHANGED listingVars
    BY <2>1 DEF listingVars, ListingInv, ListingTypeOK, ListedInOrder, Rebuilt, Past, list_key,
       Listed, Shows, Ids
  <2>2. ASSUME NEW s \in Swaps, Admit(s) PROVE ListingInv'
    BY <2>2, ProviderKeeps
  <2>3. ASSUME NEW s \in Swaps, Drives(s) \/ Prune(s) PROVE ListingInv'
    <3>1. \E from \in SUBSET Stages, to \in Stages \ {"absent", "creating"} :
            "absent" \notin from /\ Stage(s, from, to)
      <4>1. Stage(s, {"ended"}, "pruned") \/ Stage(s, {"creating"}, "created")
            \/ Stage(s, {"created"}, "held") \/ Stage(s, {"held"}, "funded")
            \/ Stage(s, {"created", "held", "funded"}, "ended")
        BY <2>3 DEF Drives, Prune
      <4>2. /\ {"ended"} \in SUBSET Stages /\ {"creating"} \in SUBSET Stages
            /\ {"created"} \in SUBSET Stages /\ {"held"} \in SUBSET Stages
            /\ {"created", "held", "funded"} \in SUBSET Stages
            /\ \A x \in {"pruned", "created", "held", "funded", "ended"} :
                 x \in Stages \ {"absent", "creating"}
        BY DEF Stages
      <4> QED
        BY <4>1, <4>2
    <3> QED
      BY <3>1, ProviderKeeps
  <2> QED
    BY <2>1, <2>2, <2>3, PageKeeps, ClientKeeps DEF ListingNext
<1>2. ListingInv => RestoreIsWhole
  BY DEF ListingInv, ListedInOrder, Rebuilt, RestoreIsWhole, Ids
<1> QED
  BY <1>1, <1>2, ListingInitInv, PTL DEF ListingSpec
=============================================================================
