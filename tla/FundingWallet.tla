---------------------------- MODULE FundingWallet ----------------------------
(***************************************************************************)
(* The wallets that fund contracts and receive sweeps: the OnchainWallet     *)
(* trait over a seed of its own (BdkWallet, swap-common/src/wallet.rs), over *)
(* LND's wallet (lightning/src/lnd_wallet.rs) and over beignet's             *)
(* (beignet-backend/src/wallet.rs).                                          *)
(*                                                                          *)
(* The seed may be one that is restored: a coin stands for its history,     *)
(* known only to a full scan.  Each swap is funded by one call, once.  The  *)
(* servers show every transaction they have accepted; amounts, fee rates    *)
(* and LND's reserve are left out.  BDK is external: a transaction that was *)
(* built is known to the wallet only when a sync has shown it.  A request to *)
(* send is never repeated (Retry::Never).  MaxMishaps bounds crashes and    *)
(* requests that fail.                                                      *)
(***************************************************************************)
EXTENDS Naturals, FiniteSets

CONSTANTS
  Purses,      \* the kinds of wallet, of "bdk", "lnd", "beignet"
  Payees,      \* the swaps to fund
  MaxMishaps

ASSUME WalletAssumption ==
  /\ Purses \subseteq {"bdk", "lnd", "beignet"}
  /\ Payees \cap {"history", "deposit", "child", "none"} = {} /\ MaxMishaps \in Nat

VARIABLES
  purse,    \* the kind of wallet
  disk,     \* BDK's database: exists, shown (coins whose addresses it has revealed);
            \* and the marker of a finished full scan, beside it: "none", "current",
            \* "stale" (its database is gone), or "missed" by the start that made
            \* the next one; the code only sees whether there is one
  daemon,   \* up, and whether it still owes a full scan
  coins,    \* coins on chain, unspent
  wire,     \* fundings on the wire: the swap, the coin it spends, its number
  act,      \* the call in progress: what, its step, the coins it knows, its answer
  late,     \* sends that were given up by their caller and may still be carried out
  owed,     \* coins that were unspent when the call began
  mishaps

walletVars == <<purse, disk, daemon, coins, wire, act, late, owed, mishaps>>

-----------------------------------------------------------------------------
Change(s) == s   \* the change of a swap's funding
Coins == {"history", "deposit", "child"} \cup Payees
NoAct == [what |-> "none", step |-> "done", for |-> "none",
          knows |-> {}, coin |-> "none", says |-> "none"]

WalletInit ==
  /\ purse \in Purses /\ wire = {} /\ act = NoAct /\ late = {} /\ owed = {} /\ mishaps = 0
  /\ disk = [exists |-> FALSE, shown |-> {}, marker |-> "none"]
  /\ daemon = [up |-> FALSE, owes |-> FALSE]
  /\ coins = {"history"}

Free == daemon.up /\ act.step = "done"
Mishap == mishaps < MaxMishaps /\ mishaps' = mishaps + 1
Smooth == UNCHANGED mishaps
IsBdk == purse = "bdk"
Proceed(step) == act' = [act EXCEPT !.step = step]
Finish(answer) == act' = [act EXCEPT !.step = "done", !.says = answer]

-----------------------------------------------------------------------------
(* 1. Starting, and dying.                                                 *)

owes_full_scan_IfNew(new) == new

\* "Whether a full scan is still owed is a fact about the wallet on disk."
owes_full_scan(new) == new \/ disk.marker = "none"

\* The database is loaded or made, with a first address, before the server is
\* connected to; only after that is a marker removed that outlived its database.  A
\* start that fails in between leaves it beside a database that was never scanned.
from_mnemonic ==
  /\ IsBdk /\ ~daemon.up /\ UNCHANGED <<purse, coins, wire, act, late, owed>>
  /\ LET opened == [disk EXCEPT !.exists = TRUE, !.shown = @ \cup {"child"}] IN
     \/ /\ Smooth
        /\ disk' = IF disk.exists THEN opened ELSE [opened EXCEPT !.marker = "none"]
        /\ daemon' = [up |-> TRUE, owes |-> owes_full_scan(~disk.exists)]
     \/ /\ Mishap /\ UNCHANGED daemon
        /\ disk' = IF disk.marker = "stale" THEN [opened EXCEPT !.marker = "missed"]
                   ELSE opened

\* An operator deletes the database, and not the marker.
Vanish ==
  /\ disk.exists /\ ~daemon.up /\ Mishap
  /\ disk' = [exists |-> FALSE, shown |-> {},
              marker |-> IF disk.marker = "none" THEN "none" ELSE "stale"]
  /\ UNCHANGED <<purse, daemon, coins, wire, act, late, owed>>

\* A wallet that is a node's asks it for an address, and keeps nothing.
connect ==
  /\ ~IsBdk /\ ~daemon.up /\ daemon' = [up |-> TRUE, owes |-> FALSE]
  /\ UNCHANGED <<purse, disk, coins, wire, act, late, owed, mishaps>>

Die ==
  /\ daemon.up /\ Mishap /\ daemon' = [up |-> FALSE, owes |-> FALSE]
  /\ late' = late \cup (IF act.step = "send" /\ act.what = "fund" THEN {act.for} ELSE {})
  /\ act' = NoAct /\ UNCHANGED <<purse, disk, coins, wire, owed>>

-----------------------------------------------------------------------------
(* 2. Syncing, under the wallet's lock.                                    *)

Call(what, for) ==
  /\ Free /\ owed' = coins
  /\ act' = [what |-> what, step |-> IF IsBdk THEN "sync" ELSE "send", for |-> for,
             knows |-> act.knows, coin |-> "none", says |-> "none"]
  /\ UNCHANGED <<purse, disk, daemon, coins, wire, late, mishaps>>

After == CASE act.what = "fund" -> "build" [] act.what = "bump" -> "child" [] OTHER -> "tell"

\* A full scan finds the whole history of the seed.  The update is on disk before
\* the marker, and the marker before the flag is cleared; writing it may fail.
FullScan ==
  /\ act.step = "sync" /\ daemon.owes
  /\ disk' = [disk EXCEPT !.shown = @ \cup coins]
  /\ Proceed("mark") /\ UNCHANGED <<purse, daemon, coins, wire, late, owed, mishaps>>

Mark ==
  /\ act.step = "mark" /\ daemon' = [daemon EXCEPT !.owes = FALSE]
  /\ \/ Smooth /\ disk' = [disk EXCEPT !.marker = "current"]
     \/ Mishap /\ UNCHANGED disk
  /\ act' = [act EXCEPT !.step = After, !.knows = coins \cap disk.shown]
  /\ UNCHANGED <<purse, coins, wire, late, owed>>

\* Afterwards a sync asks for the addresses that have been revealed.
Sync ==
  /\ act.step = "sync" /\ ~daemon.owes
  /\ act' = [act EXCEPT !.step = After, !.knows = coins \cap disk.shown]
  /\ UNCHANGED <<purse, disk, daemon, coins, wire, late, owed, mishaps>>

\* The server does not answer, or the coins do not suffice.
SyncFails ==
  /\ \/ act.step = "sync" /\ Mishap
     \/ act.step = "build" /\ act.knows = {} /\ Smooth
  /\ Finish("error")
  /\ UNCHANGED <<purse, disk, daemon, coins, wire, late, owed>>

\* balance and spendable_balance_sat.
Tell ==
  /\ act.step = "tell" /\ Finish("ok")
  /\ UNCHANGED <<purse, disk, daemon, coins, wire, late, owed, mishaps>>

-----------------------------------------------------------------------------
(* 3. Receiving: an address is on disk before it is handed out.            *)

fresh_receive_spk ==
  /\ Free /\ act' = [NoAct EXCEPT !.what = "address", !.says = "ok", !.knows = act.knows]
  /\ disk' = IF IsBdk THEN [disk EXCEPT !.shown = @ \cup {"deposit"}] ELSE disk
  /\ UNCHANGED <<purse, daemon, coins, wire, late, owed, mishaps>>

\* Someone pays to an address that was handed out.
Deposit ==
  /\ act.what = "address" /\ coins' = coins \cup {"deposit"}
  /\ \A f \in wire : f.coin # "deposit"
  /\ UNCHANGED <<purse, disk, daemon, wire, act, late, owed, mishaps>>

-----------------------------------------------------------------------------
(* 4. Funding a contract.                                                  *)

Funding(s, c) == [for |-> s, coin |-> c, number |-> Cardinality({f \in wire : f.for = s})]

\* What a funding that spends c does on chain: its change is the wallet's.
Spends(s, c) ==
  /\ wire' = wire \cup {Funding(s, c)}
  /\ coins' = (coins \ {c}) \cup {Change(s)}

fund_htlc(s) ==
  /\ \A f \in wire : f.for # s
  /\ s \notin late /\ Call("fund", s)

\* The transaction spends a coin the wallet knows; "the wallet has ... revealed a
\* change address to build this".  On disk before the broadcast.
persist(s) == [disk EXCEPT !.shown = @ \cup {Change(s)}]

Build(c) ==
  /\ act.step = "build" /\ c \in act.knows /\ disk' = persist(act.for)
  /\ act' = [act EXCEPT !.step = "broadcast", !.coin = c]
  /\ UNCHANGED <<purse, daemon, coins, wire, late, owed, mishaps>>

\* A coin that is spent already makes a conflict, which a server takes when it pays more.
Broadcast ==
  /\ act.step = "broadcast" /\ Spends(act.for, act.coin)
  /\ \/ Smooth /\ Finish("ok")
     \/ Mishap /\ Finish("error")
  /\ UNCHANGED <<purse, disk, daemon, late, owed>>

\* A node's wallet chooses a coin of its own.  The caller hears the outcome, or an
\* error: an answer that was lost, or one that does not name the output it paid.
Send(c) ==
  /\ act.step = "send" /\ act.what = "fund" /\ c \in coins /\ Spends(act.for, c)
  /\ \/ Smooth /\ Finish("ok")
     \/ Mishap /\ Finish("error")
  /\ UNCHANGED <<purse, disk, daemon, late, owed>>

\* The bridge stops waiting for a call that goes on without it, or the request is lost.
GiveUp ==
  /\ act.step = "send" /\ Mishap /\ Finish("error")
  /\ \/ UNCHANGED late
     \/ act.what = "fund" /\ late' = late \cup {act.for}
  /\ UNCHANGED <<purse, disk, daemon, coins, wire, owed>>

SendLate(s) ==
  /\ s \in late /\ late' = late \ {s}
  /\ \E c \in coins : Spends(s, c)
  /\ UNCHANGED <<purse, disk, daemon, act, owed, mishaps>>

-----------------------------------------------------------------------------
(* 5. Pulling a sweep in: a child that spends the wallet's output of it.   *)

cpfp_bump == "deposit" \in coins /\ Call("bump", "none")

\* For a node's wallet, the node's BumpFee or /tx/boost; errors are only logged.
Bump ==
  /\ \/ act.step = "child" /\ "deposit" \in act.knows
     \/ act.step = "send" /\ act.what = "bump" /\ "deposit" \in coins
  /\ wire' = wire \cup {[for |-> "none", coin |-> "deposit", number |-> 0]}
  /\ coins' = (coins \ {"deposit"}) \cup {"child"}
  /\ Finish("ok") /\ UNCHANGED <<purse, disk, daemon, late, owed, mishaps>>

BumpFails ==
  /\ \/ act.step = "child" /\ "deposit" \notin act.knows
     \/ act.step = "send" /\ act.what = "bump" /\ "deposit" \notin coins
  /\ Finish("none")
  /\ UNCHANGED <<purse, disk, daemon, coins, wire, late, owed, mishaps>>

NodeTells ==
  /\ act.step = "send" /\ act.what = "balance"
  /\ act' = [act EXCEPT !.step = "done", !.says = "ok", !.knows = coins]
  /\ UNCHANGED <<purse, disk, daemon, coins, wire, late, owed, mishaps>>

-----------------------------------------------------------------------------
WalletNext ==
  \/ from_mnemonic \/ Vanish \/ connect \/ Die
  \/ Call("balance", "none") \/ FullScan \/ Mark \/ Sync \/ SyncFails \/ Tell
  \/ fresh_receive_spk \/ Deposit \/ cpfp_bump \/ Bump \/ BumpFails \/ NodeTells
  \/ \E s \in Payees : fund_htlc(s) \/ SendLate(s)
  \/ \E c \in Coins : Build(c) \/ Send(c)
  \/ Broadcast \/ GiveUp

WalletSpec == WalletInit /\ [][WalletNext]_walletVars

-----------------------------------------------------------------------------
(* Properties.                                                             *)

\* A balance that is reported, which admission promises from and an operator reads,
\* counts every coin of the seed: those of a restored history, the change of fundings
\* that a crash cut short, and payments to every address that was handed out.  No two
\* transactions of the wallet spend one coin, so that none displaces another, and a
\* swap has one funding, whatever became of the call that made it.  Only a marker that
\* the start of a new database missed hides coins: those of addresses that this
\* database has not revealed, for good.
FundsAreAccountedFor ==
  /\ act.what = "balance" /\ act.says = "ok" =>
       IF disk.marker = "missed" THEN owed \cap coins \cap disk.shown \subseteq act.knows
       ELSE owed \cap coins \subseteq act.knows
  /\ \A f, g \in wire : f # g => f.coin # g.coin /\ (f.for = g.for => f.for = "none")
=============================================================================
