------------------------------- MODULE SwapStore -------------------------------
(***************************************************************************)
(* One record of JsonFileSwapStore (swap-common/src/store.rs) and those who  *)
(* write it: the swap's driver, whole from its own copy; the signer of the   *)
(* contract and the reorg monitor, one field of what is on disk; and the     *)
(* pruner.  A client has a driver only, and its record_* functions read the  *)
(* record anew before each write.                                           *)
(*                                                                          *)
(* Writes are serialised by the store's lock; each is a temporary file of   *)
(* its own, synced, renamed, and the directory synced.  A power failure     *)
(* loses what was not synced; the directory's sync is taken to succeed, the *)
(* code does not look at its result.  MaxWrites bounds the driver's writes  *)
(* and MaxAccidents crashes and writes that fail.                            *)
(***************************************************************************)
EXTENDS Naturals

CONSTANTS MaxWrites, MaxAccidents

ASSUME StoreAssumption == MaxWrites \in Nat /\ MaxAccidents \in Nat

VARIABLES
  file,     \* the record as the running system reads it, or Gone
  kept,     \* the record as the disk keeps it through a power failure
  writing,  \* the write in progress: by, its step, what it writes
  mine,     \* the driver's copy, NoCopy when it does not run
  written,  \* what writes that were acknowledged have saved
  time,     \* of the clock that stamps records
  accidents

storeVars == <<file, kept, writing, mine, written, time, accidents>>

-----------------------------------------------------------------------------
\* The fields that tell writers apart: created_at_unix, cap_contract, the driver's
\* markers (a count of its writes), reorg_seen_at_height, and whether the swap is over
\* and safe_to_prune.
Contents ==
  [born : Nat, contract : BOOLEAN, markers : 0..MaxWrites, reorg : BOOLEAN, over : BOOLEAN]
NewRecord == [born |-> 0, contract |-> FALSE, markers |-> 0, reorg |-> FALSE, over |-> FALSE]
Gone == [NewRecord EXCEPT !.born = 999]
NoCopy == Gone
Readable(f) == f # Gone
NoWrite == [by |-> "nobody", step |-> "none", rec |-> Gone]
Never == [exists |-> FALSE, rec |-> NewRecord]

StoreInit ==
  /\ file = Gone /\ kept = Gone /\ writing = NoWrite /\ mine = NewRecord
  /\ written = Never /\ time = 1 /\ accidents = 0

Accident == accidents < MaxAccidents /\ accidents' = accidents + 1
Unlocked == writing.by = "nobody"

-----------------------------------------------------------------------------
(* 1. Writes.                                                              *)

stamped_AsGiven(rec) == [rec EXCEPT !.born = IF rec.born = 0 THEN time ELSE rec.born]

\* Creation time is stamped once and the contract is kept, "even when the caller's
\* snapshot predates" them.
stamped(rec) ==
  [rec EXCEPT !.born = IF rec.born # 0 THEN rec.born
                       ELSE IF Readable(file) THEN file.born ELSE time,
              !.contract = rec.contract \/ (Readable(file) /\ file.contract)]

Begins(by, rec) ==
  /\ Unlocked /\ writing' = [by |-> by, step |-> "write", rec |-> stamped(rec)]
  /\ UNCHANGED <<file, kept, written, time, accidents>>

\* put and mark_terminal.
put ==
  /\ mine # NoCopy /\ mine.markers < MaxWrites /\ ~mine.over
  /\ \E over \in BOOLEAN :
       LET rec == [mine EXCEPT !.markers = @ + 1, !.over = over] IN
       mine' = rec /\ Begins("driver", rec)

\* "Held across the read and the write"; a record that is gone is left alone.
mutate(by) ==
  /\ Readable(file) /\ UNCHANGED mine
  /\ Begins(by, IF by = "signer" THEN [file EXCEPT !.contract = TRUE]
                ELSE [file EXCEPT !.reorg = TRUE])

Goes(from, to) ==
  /\ writing.step = from /\ writing' = [writing EXCEPT !.step = to]
  /\ UNCHANGED <<mine, time, accidents>>

Sync_tmp == Goes("write", "rename") /\ UNCHANGED <<file, kept, written>>

Rename == Goes("rename", "dir") /\ file' = writing.rec /\ UNCHANGED <<kept, written>>

\* The directory is synced and the caller hears that its write is done.
Acknowledge ==
  /\ writing.step = "dir" /\ writing' = NoWrite /\ kept' = file
  /\ written' = [exists |-> TRUE, rec |-> file]
  /\ UNCHANGED <<file, mine, time, accidents>>

\* The write fails before the rename; the temporary file stays behind.
WriteFails ==
  /\ writing.step \in {"write", "rename"} /\ Accident /\ writing' = NoWrite
  /\ UNCHANGED <<file, kept, mine, written, time>>

-----------------------------------------------------------------------------
(* 2. Readers, restarts and accidents.                                     *)

\* A resumed driver, or a client between two of its steps; load_all leaves out a
\* record that cannot be read.
load ==
  /\ Unlocked /\ Readable(file) /\ mine' = file
  /\ UNCHANGED <<file, kept, writing, written, time, accidents>>

Crash ==
  /\ Accident /\ writing' = NoWrite /\ mine' = NoCopy
  /\ UNCHANGED <<file, kept, written, time>>

\* A rename that was not synced may be lost, never the data behind one that was not.
PowerLoss ==
  /\ Accident /\ writing' = NoWrite /\ mine' = NoCopy
  /\ \E f \in {file, kept} : file' = f /\ kept' = f
  /\ UNCHANGED <<written, time>>

ClockMoves ==
  time < 2 /\ time' = time + 1 /\ UNCHANGED <<file, kept, writing, mine, written, accidents>>

\* "Serialize eligibility and deletion"; of records that are over and safe to prune.
prune_terminal ==
  /\ Unlocked /\ Readable(file) /\ file.over
  /\ file' = Gone /\ kept' = Gone /\ written' = Never /\ mine' = NoCopy
  /\ UNCHANGED <<writing, time, accidents>>

-----------------------------------------------------------------------------
StoreNext ==
  \/ put \/ mutate("signer") \/ mutate("monitor") \/ Sync_tmp \/ Rename \/ Acknowledge
  \/ WriteFails \/ load \/ Crash \/ PowerLoss \/ ClockMoves \/ prune_terminal

StoreSpec == StoreInit /\ [][StoreNext]_storeVars

-----------------------------------------------------------------------------
(* Properties.                                                             *)

\* What an acknowledged write saved is there to be read, through crashes and whoever
\* writes next: the record with its creation time, the signed contract, which the
\* driver's older copy does not have, and the driver's own markers, which the monitor
\* must not put back.
SavedStays ==
  written.exists =>
    /\ Readable(file) /\ file.born = written.rec.born
    /\ written.rec.contract => file.contract
    /\ file.markers >= written.rec.markers
=============================================================================
