# pubky-swap: TLA+ models and proofs

pubky-swap trades bitcoin between Lightning and the chain with hash time-locked
contracts. A *reverse* swap takes a Lightning payment (a hold invoice) and pays
on chain; a *submarine* swap takes an on-chain payment and pays a Lightning
invoice. The daemon `swap-provider` drives its side of every swap in a task of
its own, the library `swap-client` drives the other, and they negotiate over
direct streams and over messages left at homeservers. Everything either side
leans on (Lightning node, Electrum server, wallet, disk, homeserver, the other
side) may fail, lag or lose an answer, and both must come out of a crash at any
point without paying twice and without leaving coins behind.

This directory models that logic, checks it with TLC and proves it with TLAPS.
`PROJECT.json` lists components, runs, mutants, the map from definitions to
source lines, hazards and theorems.

## 1. Inventory

| Component | State | Operations | What makes it hard | What makes it correct |
|---|---|---|---|---|
| Timelocks, `swap-common/src/timelock.rs` | none (pure, `u32`) | the gates before funding, paying, accepting, claiming; the startup check | two clocks, checked addition, windows that must not overlap | gates of both legs agree at every height |
| Terms: `messages.rs`, `validate.rs`, `pricing.rs`, `access.rs` | offers, quotes | price, quote, accept, check each other's terms | prices and blocks move between the steps; each side checks with its own limits | an honest provider is refused only for a stated reason |
| Contracts and scripts, `swap-common/src/htlc*`, `taproot` | none | build, validate, spend | three leaves, two contract kinds, fees out of the output | the sweep both sides priced can be built |
| Reverse driver, `swap-provider/src/reverse.rs` | its position, `settled`, the record | wait for the invoice, establish the funding, watch for the claim, settle, refund | crash or lost reply around an irreversible funding, a lagging server, a claim racing the refund | fund once, always on record, never cancel or end while exposed, end at last |
| Submarine driver, `swap-provider/src/submarine.rs` | its position, the record | wait for the funding, reorg guard, pay the invoice, claim | crash or lost reply around an irreversible payment, a payee that settles late, a refund racing the claim | pay once, always on record, never give up what was bought, keep the claim window |
| Spend watcher, `swap-common/src/fee_bump.rs` | the live transaction, the set of ours | broadcast, adopt, bump, re-broadcast, hand back | replacement, eviction, reorg, a rival's spend | a claim is given up only to a spend that is not ours |
| Record store, `swap-common/src/store.rs` | one JSON record per swap | `put`, `mutate`, `mark_terminal`, `load_active`, `prune_terminal` | four writers with different copies, failed and torn writes | a write that was acknowledged stays |
| Daemon, `swap-provider/src/lib.rs` | drivers, quotes, records, the progress sink | requests, spawn, finish, restart, reorg reaction, listings | retries, re-entry, restarts | terminal is for good, a live swap is driven |
| Risk limits, `swap-provider/src/risk.rs` | reservations, counters, funding claims | reserve, release, claim wallet funds, restore | concurrent admissions, drop guards, restart | ceilings hold, the wallet is not promised twice |
| Signed swaps, `cap_adapter.rs`, `paykit.rs`, `swap-client` | contracts, published keys | contract, commit, status; setup, publish, rotate | rotations and lost replies in the middle of an exchange | the contract the client goes by is the one stored |
| Delivery, `pubky-transport` outbox, `delivery.rs` | journal, file, what is stored | prepare, publish, retry, retain, clean up, repair | crash between send and persist, sends racing deletions | nothing at the homeserver that no journal owns |
| Inbox, `journal.rs`, `poll.rs`, the dispatcher | journal, leases, poll set | poll, save, lease, acknowledge, wake, evict | redelivery, evictions, slots | what is acknowledged was carried out; every peer has its turn |
| Streams, `p2p.rs`; `authorization.rs` | connections, permits; lookups | call, accept, serve; authorize | every timeout races an answer | "not sent" means not executed; permits come back |
| Wake-ups, `wake.rs` | held grants, the claimable mark | accept, mark, spend | restart between mark and wake | the owner is woken once, or told |
| Clients, `swap-client` | negotiation record, drivers | negotiate, create, recover, pay or fund, claim or refund, restore | the mirror image of the provider | one swap at a time, no second payment or funding |
| Backends, `lightning`, `beignet-backend`, `wallet.rs` | the node's, the wallet's | three Lightning adapters, three wallets | retries, lost answers, a scan that is half done | what is reported is so; no coin is counted wrong |
| Command line programs | | argument handling | none for the swap | not modelled |

A request admitted by the daemon (access, pricing, risk) becomes a record and a
spawned driver. A driver calls the Lightning backend, the chain and the wallet,
and writes every fact through `StoreProgress`. `finish_driver_run` decides
whether its return is the end, a re-entry or a retry; `resume_swaps` starts over
from disk. The reorg monitor writes into the same records. Requests reach the
daemon over streams (authorized per request) or through the inbox; replies leave
over the stream or through the outbox, which the delivery worker owns. The
client's program recovers what its last run left, drives it to the end, and only
then negotiates anew.

## 2. Modules

| Modules | Model | Run | Proofs |
|---|---|---|---|
| `Timelock`, `SwapTimeline`, `Terms`, `HtlcContract`, `SpendRace` | each extends the one before: the gates, two clocks, the agreement, the contract, the race for its output | `Terms` | `SwapTimelineProofs` |
| `AtomicSwap` | what a party promises itself in any swap; abstract | | |
| `ReverseProvider`, `SubmarineProvider` | the provider's two drivers with record, restarts, reorg marker; each implements `AtomicSwap` | `Reverse`, `Submarine` | `ReverseProviderProofs`, `SubmarineProviderProofs` |
| `ReverseClient`, `SubmarineClient` | the client's two drivers | `ReverseClient`, `SubmarineClient` | `ReverseClientProofs`, `SubmarineClientProofs` |
| `RiskManager`, `Admission` | the accounting as operators, and everything that calls it | `AdmissionSafety` | `AdmissionProofs` |
| `Negotiation` | the client's program with one provider | `Negotiation` | `ExchangeProofs` |
| `SessionRpc` | requests over direct streams | `SessionRpc` | `ExchangeProofs` |
| `PublishedKeys`, `CapExchange` | key rotation, and signed swaps across it | `CapExchange` | `ExchangeProofs` |
| `Outbox`, `Delivery` | the journal as operators, and everything that calls it | `Delivery` | `ExchangeProofs` |
| `Inbox`; `PollSchedule` | receiving; when each peer is polled | `Inbox`; `Terms` | `ExchangeProofs` |
| `Authorization`, `LightningNode`, `FundingWallet`, `SwapStore`, `WakeGrants`, `SwapListing` | the services beside the drivers, with no state in common | `Services` | `ServicesProofs` |

An `MC*` module extends the module that a run checks and gives its constants
values. `MCServices` and `MCTerms` put modules without common state side by
side: a variable `subject`, chosen at the start, says whose steps a behaviour
takes, so their state spaces add up instead of multiplying. No module that is
proved about reaches a RECURSIVE operator.

What is left to do is in section 7.

## 3. The models

One action is one step between two awaited calls, or between two points at which
another party can change what the code looks at. `MaxFaults` and its like bound
everything that goes wrong in one behaviour, together.

### Timelock, SwapTimeline, Terms, HtlcContract and SpendRace (run `Terms`)

`Timelock` translates `timelock.rs`: a check that returns `Ok` is a true
predicate, `checked_add` is the exact sum plus `Fits`, `saturating_sub` is
`SaturatingSub`, the `Option` of `submarine_cltv_budget` is 0 for `None`.
`SwapTimeline` lets blocks arrive, and a client pay the hold invoice at any
height with the delta it was asked for or a longer one, and asks whether the
separate gates add up. Proved only:
`InvoiceDeltaIsEnough` (an honest payment passes the check on its realised
expiry), `FundingLeavesRoom` (what the funding gate admits is still claimable
once confirmed and refundable before the node's own cancel),
`PayeeCannotOutlast` and `ClientWindowIsWhole`.

`Terms` is the way to such a swap: the provider's offer, priced from the
mempool, its quote, the creation, the acceptance with contract and invoice, and
the client's checks of each, while the offer is repriced, the access policy
edited, blocks are found and time passes. Both sides are honest; the question of
`HonestTermsAreTaken` is whether an honest provider can be refused, and why.
`PromptFundingIsPaid`: a client whose funding is deep enough within the grace the
startup check allows for is paid, that is, the driver finds neither its claim
window closed (`check_submarine_before_pay`) nor itself without a CLTV budget
(`submarine_cltv_budget`). The startup check admits a configuration with no
`Slack` at all, and there the last block of the grace has no budget left: that
block is the exception the property names (section 5). The payee's own demand on
the budget, `min_final_cltv`, is met wherever the slack is greater.
`HtlcContract` has the two kinds of contract, who can spend one and when, what a
spend weighs and may cost. `SpendRace` drives one party's claim or refund of the
agreed output by `confirm_or_bump` through replacements, evictions, a
reorganisation, a crash and lost answers, against a counterparty that may spend
whenever Bitcoin lets it: `LossIsReal` (a claim is given up only to a spend that
is another's, or to one of ours that the code cannot know, see section 5), and
`SweepCanBeBuilt` (what both sides priced leaves an output above dust).

The protocol constants have full size, `u32::MAX` is scaled down; seven
configurations, the degenerate ones included (no block to spare, no claim
window, greatest depth, one the startup check refuses); two amounts, fee
estimates absent or high. The race follows the smallest swap only, where a fee
matters most, without estimates or with a nonsense estimate, against one rival
rate, with a list of three own spends instead of sixteen and finality at two:
full lists, adopted spends and the ceiling on the rate are all reached. `PollSchedule`
is checked in the same run, in behaviours of its own; it is described with
`Inbox`.

### AtomicSwap, ReverseProvider and SubmarineProvider (runs `Reverse`, `Submarine`)

`AtomicSwap` is the promise: a party gives one leg and gets the other; what it
gives is locked once and ends with the other party or back with it; it takes
only what it gave something for; it gives up what it gets only with nothing
locked and nothing given, and locks nothing after that. The drivers implement
it: `Legs == INSTANCE AtomicSwap WITH given <- given, got <- got`, where `given`
and `got` are functions of the chain and the invoice, and `ImplementsAtomicSwap`
is a property of both runs.

`ReverseProvider` has the chain (`height`, the HTLC output `fund`, its live
`spend` and that spend's `depth`, an Electrum server that may `lag`), the wallet
(`wallet` requests received, `broadcasts` made), the hold invoice (`inv`, `by`,
`ln_expiry`), and the driver (`pc`, the record in memory `mem`, on `disk`, the
`resume` snapshot, `settled`, `outcome`). A `?` anywhere is `DriverError`, which
is `finish_driver_run` with an `Err`: count the failure, write it, and re-enter
or give up as `after_failure` says. `Put` writes the whole record or fails and
leaves the disk as it was, as `StoreProgress::update` ignores. The environment
may crash the daemon at every step, lose the wallet's reply after the broadcast,
fail any call or write, reorganise whatever is not buried `FINALITY_DEPTH` deep,
evict an unconfirmed spend, hide the script from the Electrum server, pay,
claim, expire or force-cancel at any time.

`SubmarineProvider` has the same shape, for the driver that pays. The funding is
`good`, `bad` (short, implausible or split), absent or double-spent; `conf` is
its depth up to what the swap requires. A payment is requested (`calls`),
launched by the node (`attempts`, `pay`, `expiry`), may be held by the payee
until its HTLC expires, and a `limit` of zero means the node's own default.
Blocks may come between the tip the limit was computed from and the node's launch,
as many as there are; `delay` is a history variable that counts them.
`PreimageLeavesClaimWindow` says that the claim window a late payee leaves is
short by no more than `delay`, and in `AtomicSwap` the input `overtaken` says that
the delay was longer than the whole claim window, in which case the client's
refund may have gone before the payment (the reverse driver is never overtaken).
`HandBack` is a non-terminal return, which stores the state and re-enters.

Abstractions: all refund transactions share one identity, and so do all claims
(`SpendRace` has the rates); in `ReverseProvider` the funding is in a block or
not, and whether that is deep enough for a marked record is free, nobody else
pays the script, and the claimable hint is left out (`WakeGrants`); in
`SubmarineProvider` whether an unfunded swap has retries left is free (the count
is `ReverseProvider`'s), a preimage always matches its hash, and `Lost` is
`Failed` with the reason that the client's refund won. Backoff delays are out.

Run `Reverse`: three faults, five heights past the accept height, a timeout of
three blocks, hold deltas shorter and longer than the clock: two crashes around
the funding with a lost reply or a reorganisation fit into one behaviour. Run
`Submarine`: four faults, a timeout of four blocks, so that a payment may get
one, two or three. One constant names what the code relies on and does not
force. `DoubtEndsInTime`: a funding becomes visible to the server before the
timeout (`await_recorded_funding` relies on it; with `FALSE` a swap may end
`Expired`, cancelled, with an HTLC on the wire). `SettleIdempotent` is the
adapter's answer to a second settle, see section 5.

### ReverseClient and SubmarineClient (runs of the same names)

`execute_reverse_swap` and `execute_submarine_swap` with the record's
write-ahead markers, the runs `resume_unfinished` starts again, and a record
restored on another device; every write of `RecordProgress` loads the record,
changes it and puts it back. The provider funds, settles, cancels, pays, claims
and refunds when it likes. Checked: the invoice is paid once
(`NoSecondPayment`), the provider gets both legs only if the refund branch
opened before the claim was in a block (`PaidIsNotRefunded`), runs end
(`EveryRunEnds`); the HTLC is funded once (`FundsAtMostOnce`), nothing is called
over that still holds the client's coins (`OverMeansNothingLocked`), and a
funded swap ends (`FundedSwapEnds`). `AnswersUnknown` lets the node's payment
call come back with neither outcome. A clock of four or five blocks has heights
before, in and after each margin. Left out: keys, fee rates, the routing-fee
cap, the extraction of the preimage from the witness.

### RiskManager and Admission (run `AdmissionSafety`)

`RiskManager` translates `risk.rs` as operators on the record behind its mutex:
the reservations, the counters per peer and in total, the hourly starts and the
funding claims. A sum over a set of swaps, `Total`, is the number of satoshis
marked with their swap, so that it can be proved about without recursion.
`Admission` is everything that calls it. A swap is named by the quote it comes
from. Variables: the quote book (`book`, `redeemed`, and `lookups` for a signed
quote on its way back), the `creation` lock, one `task` per handler and one for
the startup pass (its position, swap, hash and the balance it read), `risk`, the
records on `disk`, the `drivers` running, and the wallet's `balance`; `overdrawn`
is a history variable. `Request`
takes the lock and looks at the store, `TakeAndReserve`, `ReadBalance`, `Claim`,
`PersistIntent`, `CreateHoldInvoice`, `PersistAccepted` and `Spawn` follow, and
`Fails` may come at any of them, as an error, a refusal or the 60 seconds of a
stream running out. `Crash` may come anywhere; `Restart` to `Serve` are
`resume_swaps`.

The run: two peers with three quotes, two hashes, a book of two. One handler and
the startup pass are enough: a handler holds the `creation` lock from its first look
at the store to its last write, so that a second one adds no state (with two the
run has the same states); the theorems cover any number.
The ceilings admit any two swaps but not all three nor both of one peer's, and
the wallet starts with exactly what both reverse swaps need or one satoshi less,
so every limit is reached and refused at. Failures and crashes are unbounded.

Abstractions: sending the acceptance cannot stop a handler that answers a stream
(the reply goes to a channel), and one that answers a direct message has no
deadline, so nothing aborts a handler between the completed record and the
spawn; a driver is what this module needs of it (it funds once, it ends, and it
never funds a swap that it has brought to an end before); a re-entered driver
keeps its reservation, so a re-entry is no step here. Coins come back to the
wallet only outside the model, nobody else spends them, a funding call does not
outlive the process, and the wallet always reports a balance (without one
`claim_funding` checks nothing). The store can be read at startup, records are
not pruned while their quote is alive.

`risk.rs` calls its check "a preflight, not a guarantee": the balance is read
before the lock is taken, and a driver may fund in between. `WalletCovers` says
what the claims are good for nevertheless: the wallet has the coins of every live
swap still to be funded, and the reserve, but for `overdrawn`, the most that one
admission did not see leave the wallet before its claim. The shortfalls of several
admissions do not add up.

### Negotiation (run `Negotiation`)

The client's program with one provider: `recover_pending` over what the last run
left, resume, then one new negotiation; creation over a stream or over DMs, in
the three transport modes; the replay and the status queries by which a creation
that may have gone through is settled; the DM channel's inbox and receipts. The
provider admits, answers, completes what it began, and may change its answer.
Two quotes and two faults (crash, failed write, broken stream, lost answer):
enough for a creation whose answer is lost, a restart, and a second quote while
the first is in doubt. `OneSwapAtATime`: the provider never holds, nor can come
to hold, two swaps the client has not finished. `DeclineIsTrue`: a refusal the
caller is told of leaves no swap and nothing under way that could make one.
`CreatedIsRecorded`: what the provider created reaches the client's record, but
for one case (section 5).

### SessionRpc (run `SessionRpc`)

`RpcClient` with its pooled connection and its slots, the accept loop with its
permits, one stream per request and the task that handles it. A request opens
one stream at most and dials at most twice. Every timeout races the answer.
`ResultIsTrue`: "not sent" means never executed, so another transport may be
tried, and a reply means executed once.

`PermitsComeBack`: a connection gives its permit back, unless its client is served
again and again. `last_reply` starts anew with every reply (p2p.rs, 350 to 376), so a
client that is answered within each window of `idle + stream` keeps its permit
for good, and nothing in the code limits that. Every other connection is closed:
that of a client that is silent, that stalls its streams, or that keeps overlapping
streams of which none is answered. To have such clients at all, the `others` of a
connection are further streams of its client that come and go without end, are
answered (`OthersServed`) or end unanswered (`OthersFail`). Without the timer on
replies the property fails.

Two requests of one client compete for one connection and two streams, beside one
other stream at a time, under one fault, with a provider that is new or old. A
session client of an old provider has one stream per connection and keeps none.

### PublishedKeys and CapExchange (run `CapExchange`)

`PublishedKeys` has the registry entry, the authorization and the delegation of
a provider's identity, each a key generation; `--paykit-setup`, which writes all
three; and the publisher's loop that keeps the delegation current and moves the
signer. `CapExchange` is the contract/commit/status exchange across that: a
handler whose caller has gone runs on, replies are lost, quotes are evicted and
restored, both sides restart. `ContractStands`: the contract the client holds is
the one stored with its swap. `SwapReachesClient`: a client that keeps asking
takes every swap its commits created; `OutOfReach` names when it cannot. One
quote, one operator's tool, two rotations, one fault and one loss.

### Outbox and Delivery (run `Delivery`)

`Outbox` translates `outbox.rs` as operators that take a journal and return it
changed: a journal maps resources to entries, a resource stands for the bytes of
one content in one scope. `Delivery` is everything that calls it for one swap.
Variables: the `clock`, the swap's `record` (settled or not, and since when), the
journal in memory (`outbox`) and on disk (`outboxFile`), the `outbox_failed`
latch, what is `stored` at the homeserver, per role and resource one `task`
(waiting for the resource's lock, or its request sent), and per refresher the
position of its `worker` with the time and the record it read. Roles are a
foreground sender and the worker's publisher and cleaner. `Send` is
`prepare_scoped`; `Lock` the re-check under the resource's lock; `Succeed` and
`Fail` the request with the note of its outcome; `Load`, `Plan`, `CheckReply`,
`EnqueueReply`, `Schedule` are `refresh_retention`; `SelectPending`,
`SelectCleanup` and `Join` are `process_outbox`; `Restart` reads the file again.
A write fails before or after its rename; a request that is cut off may or may
not have happened.

The run: an acceptance and a final reply in the two scopes of one swap, two
instants with a grace of one, one fault (a failed write, a dropped handler, a
crash) at any step, one reopening, one refresher, one failed request.
`NothingOrphaned`, `FinalReplyKept`, `PreparedIsPublished`, `SettledIsCleaned`.

Abstractions: read-only replies, their quota and expiry, and the byte budget are
left out; which entry goes first among equals is free; a settled swap has one
final reply; an operator resumes only what is paused; pruning of records after
30 days is left out. Once a request is given up it does not happen any more:
`transports.md` promises the order for a running transport only.
`FinalReplyKept` leaves out swaps that reopen.

### Inbox and PollSchedule (runs `Inbox` and `Terms`)

`Inbox`: clients publish and ring, the provider registers, lists, retrieves,
remembers what it read in the receive journal, delivers it under leases to the
peer's worker and acknowledges it once the handler is done; idle peers are
evicted. Resources without a message (`Bodyless`) are acknowledged as they are
remembered, those that do not parse (`Invalid`) as they are delivered. The
dispatcher defers what exceeds a worker's queue or the `capacity` of them all, and
a handler waits for one of `max_handlers` permits unless its message is an
admission. Other peers come and go in the journal (`strangers`), which takes no
new peer at `MAX_REGISTERED_PEERS`. A write of the journal that fails may or may
not have reached the disk, and stops the journal until a restart.

`AcknowledgedMeansHandled`, and `PublishedIsHandled`: what is published is carried
out, unless its sender is no registered peer and the journal stays full of others
for ever ("receive peer capacity reached"). Two peers, two messages each (one does
not parse, one has no body, one is an admission), a journal for two peers and two
pending messages, one place among the workers, one stranger, one fault, one
eviction. With one place the permits are never contended; the theorem covers any number
of places and permits.

`PollSchedule` is the loop of `PeerInbox::recv` with its slots, deadlines and
turns; what a poll reads is `Inbox`'s, an interval is one of a set, whatever
backoff and jitter made it, and a deadline doubles with every timeout in a row up
to 64 times the base. `EveryPeerHasItsTurn`: a doorbell is followed by a
poll that began after it, woken and overdue peers pass each other at most once
more than they have had their turn, and no slot stays free over time while a
peer that may start is due. Turns are counted anew for a peer that a launch had
no place for because stretched peers of its kind filled the list and were skipped
(section 5). Three peers for two slots, two doorbells, two instants: stretched
deadlines, evictions during a poll and both queues at once occur; a second timeout
in a row does not, and is the theorem's.

### The services (run `Services`)

- `Authorization`: the verifier over the one HTTP client that all lookups share,
  with its owners, routes and generations. `AuthorizedWhileWaiting`: a request
  is let through only if its account's record was current while it waited. Three
  requests of two accounts, a client that keeps one owner, skewed clocks.
- `LightningNode`: the adapters of LND, beignet and the stub as programs over a
  node; requests and answers are lost. `AnswersAreTrue`: what a driver is told of
  an invoice or a payment is so. Two attempts, two upsets.
- `FundingWallet`: the wallets over BDK, LND and beignet. `FundsAreAccountedFor`:
  a balance counts every coin, no coin is spent twice, no swap funded twice. A
  marker that outlives its database is `stale`, and `missed` once a start has made
  a new database and failed before removing it; a balance of such a wallet counts
  only the coins of addresses it has revealed (section 5). Two
  payees, three mishaps; a seed that is new or restored.
- `SwapStore`: one record and its four writers, the file protocol with failed
  syncs, crashes and power losses. `SavedStays`: what was acknowledged is read
  back. Three writes of the driver, two accidents.
- `WakeGrants`: the grant's handler and the driver that spends it. The wake checks
  the grant a second time and drops one that has expired (wake.rs:250), the update
  over messages is given up when the history cannot be read or the send fails
  (lib.rs, 960 to 975). `OwnerHears`: once a swap is claimable and nothing is under
  way, the record says so, the gateway has been asked once with every grant that was
  accepted and had not expired by then, an owner that talks over messages has an
  update on its way unless that one failed, and no grant is left, through a restart
  or a lost reply. An owner in both exceptions hears of it from the record alone.
  What the gateway answers is left out. Two grants, two spoils.
- `SwapListing`: a wallet with only its seed pages through the swaps it owns and
  rebuilds its records while the provider admits, ends and prunes.
  `RestoreIsWhole`: what could be listed all along is listed, once, and restored.
  Three swaps, a page each, at most two pages.

## 4. Fairness

Safety needs none. Liveness assumes what the code schedules, or the world does by
itself:

- `Reverse`, `Submarine`: the driver task keeps taking steps (a spawned tokio
  task in a polling loop), blocks keep arriving and include what is in the
  mempool, the wallet and the node answer, the server catches up. `LiveSpec` adds
  that a client whose claim has paid for the swap keeps it on the wire: without
  that a settled driver waits for ever. Nothing else is assumed of the client.
- `ReverseClient`, `SubmarineClient`: the driver runs, a run that stopped is
  started again, blocks arrive and include the mempool, the node admits and
  resolves a payment it took, the wallet broadcasts. Nothing is assumed of the
  provider.
- `Negotiation`: the program runs and is started again, a recovery window ends,
  the provider answers and completes what it began.
- `CapExchange`: the publisher's loop and the handlers run, and a client that has
  committed keeps asking. Nothing is assumed of `--paykit-setup`.
- `Delivery`: time passes, the worker's loop runs, a request is answered in the
  end, and the worker gets a resource's lock it waits for (tokio's mutex is first
  come, first served, hence strong fairness of `Lock`). Nothing is assumed of
  senders, of the operator or of the swap.
- `Inbox`: the scheduler gives every peer its turns, reads and handlers end, a
  process whose journal failed is restarted, all weakly fair. A client that gets no
  answer rings again, and is heard if the journal has a place again and again
  (strong fairness of `Ring`; other peers may take the place in between).
- `SessionRpc`: the provider's tasks and timers run, those of the other streams
  included. Nothing is assumed of clients, network or homeserver.

`CHECK_DEADLOCK FALSE` is set where a swap, or the clock, really comes to an end.

## 5. Where the code and its documents disagree

No run is spent on these: each is a constant, an exception in a property or a
sentence here, so that what holds without them can be checked and proved.

Swap drivers:

- Through the lnd adapter a settle that already happened is an error, so a
  driver restarted after settling never ends. With `SettleIdempotent = FALSE`
  TLC refutes `FundedSwapEnds` of `ReverseProvider`.
- A settled driver whose claim vanished waits for it again, for ever if need be,
  and never falls back to the refund (reverse.rs:624 against 633).
- The reorg monitor's marker is erased by the driver's next write of its own
  copy (lib.rs:761 and 3348), and `react_to_reorg` promises a re-broadcast it
  leaves to the driver (lib.rs, near 3330).
- The submarine guard takes the client's own refund for an earlier claim
  (submarine.rs:291); after a restart an unconfirmed claim is the end of the
  swap (193), and a refund seen only in the mempool ends the claim (563).
- `resume_unfinished` of the client waits for an unspent output even when its
  claim was confirmed in between, until its time is over.
- A lost answer to a replacement makes `confirm_or_bump` take its own
  transaction for the counterparty's and report a loss (fee_bump.rs, 256 to 296,
  against 14 to 17); the list of 16 own spends (store.rs:366, 483) can be
  outgrown with the same effect, and the second pass after six hours starts from
  the list of the first. `LossIsReal` names these cases. An adopted spend at a
  higher rate than the ceiling is never bumped, and every two-second poll may
  bump by a quarter.

Terms and timelocks:

- With `MAX_REQUIRED_CONFIRMATIONS` (12) the invoice-expiry floor leaves no slack
  (timelock.rs, 57 to 67); a timeout near the client's limit of 1008 blocks is
  refused after any lag although `ACCEPT_TIMEOUT_SLACK_BLOCKS` is 6 (86, 447);
  at the effective minimum amount the fee alone is about a tenth, above the
  client's default ceiling of a twentieth. `HonestTermsAreTaken` names them.
- `validate_params` (407 to 434) admits a timeout of exactly confirmations, grace
  and claim window. A client whose funding takes the whole grace is then found
  without a CLTV budget, and the swap ends `Failed` with its funds in the HTLC until
  the timeout (submarine.rs, 410 to 420). It also admits
  `min_claim_window_blocks = 0`, where `check_submarine_before_pay` refuses at the
  timeout itself. `PromptFundingIsPaid` names that last block.
- The CLTV limit is computed from a tip read before the marker is written and the
  payment launched (submarine.rs:388); blocks found in between come off the claim
  window. `PreimageLeavesClaimWindow` counts them.

Exchange:

- A creation that was started and then refused for good stays on record, neither
  unfinished nor over, and later runs replay it (negotiation_recovery.rs:33)
  before they negotiate, where `docs/CLIENT_ADAPTERS.md:75` answers the refusal
  with a new quote. An acceptance that comes back with changed terms is never
  discarded and holds up every later exchange over DMs (negotiate.rs:560).
- `restore_quote` refuses the replay of a commit once the quote has expired or
  was signed in an earlier run (cap_adapter.rs, 323 to 350); a rotation takes up
  to a minute to reach the signer, a read-then-put in `ensure_delegation` races
  the setup tool, and a contract signed before a rotation cannot be verified by a
  client that restarts after it.
- One doorbell that meets the eviction of its peer is lost, although a returning
  client "makes eviction lossless" (p2p.rs:18); the client must ring again.
- "A doorbell then waits behind at most one overdue poll" (poll.rs, `launch`):
  not when the woken list, cut to the free slots, holds peers on a stretched
  deadline that are skipped. Two slots and five peers suffice; counting turns
  through such launches (`CutOff` never true), TLC refutes
  `EveryPeerHasItsTurn`.
- The journal's room is measured before a read and filled after it, so several
  concurrent reads can overshoot its caps, by no more than their number.
- "A swap created while paging sorts before the first page"
  (`docs/CLIENT_ADAPTERS.md:140`) fails for one of the same second with a larger
  id; "Sixteen snapshots a page" (negotiate.rs:653) are ten by default.
- The wake is sent once and not again: a grant that has expired since it was
  accepted, a gateway that fails and a failed update each leave the owner to read
  the record ("best effort throughout", lib.rs:935).
- A grant is held after the driver has forgotten it (lib.rs:2407), against
  wake.rs:8; a failed write of the claimable mark delays the wake to a restart.

Backends and storage:

- A start that makes a new wallet database beside the marker of an earlier one and
  then fails, at the connection to the server for instance, leaves the marker in
  place (swap-common/src/wallet.rs, 165 to 206): the next start takes the scan for
  done, and a restored seed's coins are never counted, against the comment at 203.
  `FundsAreAccountedFor` names that wallet and what it still counts.
- beignet's `pay_invoice` reports `PaymentFailed` after a broken call for a
  payment that is in flight or unknown to the node, against its own comment
  (lightning.rs, 300 to 309), and likewise for one that is a duplicate or timed
  out (error.rs); only the client pays this way, without a CLTV limit.
  `create_hold_invoice` is called "not idempotent" and retried as safe.
- A failed sync of the store's directory is ignored (store.rs:718).

## 6. Proofs

Every safety invariant and action property of the runs is a theorem, for every
value of the constants that satisfies the `ASSUME` of its module: any numbers of
swaps, peers, handlers, quotes and messages, any limits, heights and numbers of
faults. Three theorems of `ReverseProviderProofs` also assume `DoubtEndsInTime` and
a non-empty reverse window, and say so (below); no other assumes more.
`RaceInvariant` and a dozen more theorems state facts that no run checks. A proof follows one pattern: `Init => Inv`, one lemma per action (or
group of actions) that it keeps `Inv`, `Inv => Property`.

- `SwapTimelineProofs`. Types, then each gate by arithmetic from it. The
  agreement's invariant `DealInv` says what the clock, a quote, a creation and an
  acceptance imply (`ClockInv`, `QuoteInv`, `AskedInv`, `SwapInv`):
  `HonestTermsAreTaken` needs it because a price is checked a step after it was
  made. The race adds `RaceInv`: before it starts nothing is spent (`QuietInv`),
  a live spend has a shape and a cost (`ShapeInv`), and each own spend that nodes
  know is unheard of, in a full list, or remembered (`SpendInv`).
  `LossIsReal` is not inductive without that last case split.
  `SweepCanBeBuilt` comes from the bound on the sweep's 279 virtual bytes.
- `ReverseProviderProofs`. The core relates the three copies of the record:
  whatever the disk says of a funding the snapshot a driver resumes from says too
  once the driver is past the point of deciding, a request to the wallet is made
  only from a state in which the disk carries the marker and no driver will fund
  again, terminal records belong to runs that are over. `FundedAtMostOnce` alone
  is not inductive: a driver that may fund must hold a snapshot without markers
  *and* the wallet must never have been asked. `TerminalMeansBuried` and
  `NeverCancelsWhileExposed` come in a second stage, under `DoubtEndsInTime` and
  a non-empty reverse window, from what the driver knows at each position.
- `SubmarineProviderProofs`. The record invariant, the funding invariant (a
  payment only follows a recorded, fitting funding), the first-payment invariant
  (nothing was asked of the node while a driver may still ask), what a finished
  run implies; then the budget invariant that carries the
  CLTV limit from the tip it was sized on, through `delay`, to the expiry of the
  payment.
- Both prove `SwapsAtomically`: the driver implements `AtomicSwap`, the initial
  state to the initial state and each step to a step or a stutter, from the
  invariants above.
- `AdmissionProofs`. The creation lock and the daemon's mode let one task run at
  a time (`LocksHeld`, `Alone`), what that task knows of its swap at each
  position (`TaskFits`), a driver has its reservation and is not on the startup
  list (`DriversFit`), a live swap is driven, handed over or listed (`LiveFits`),
  and `QuotesFit` carries single use through expiry and a restart that forgets
  `redeemed`. The sums: `Accounts` says the counters count the reservations
  (`CountersAgree`), what has been taken is under the ceilings (`UnderCeilings`)
  and whatever a live swap still wants of the wallet is
  claimed, and covered but for `overdrawn` (`CallsFit`, `CoinsFit`). Totals are cardinalities of sets
  of marked satoshis, so the library's theorems about finite sets carry them.
- `ReverseClientProofs`, `SubmarineClientProofs`. A payment or a funding that may
  be out is on record, a spend is buried before it is called final, and what is
  too late to claim is not paid (`PaymentInv`, `SpendInv`, `BuriedInv`,
  `LateInv`; `FundingInv`, `SpendInv`, `RefundInv`, `OverInv`).
- `ServicesProofs`. One invariant per service: `StoreInv` (which of the file's
  copies holds what was acknowledged), `AuthorizationInv` (what a lookup in flight
  may still answer), `NodeInv`, `WalletInv` (which coins a wallet in each state of
  its marker knows or will scan for), `WakeInv`, `ListingInv` (a record's
  place is its rank among the keys, pages continue where the last ended, records
  that stay keep their keys).
- `ExchangeProofs`. `RpcInv` (which of a request's copies can still be executed),
  `NegotiationInv` and `DeclineInv` (one creation at a time, and what each stage
  rules out on the other side), `CapInv`, `DeliveryInv` and `FinalInv` (the file
  owns what is stored, also while the latch is set), `InboxInv`, `PollInv`. In
  `PollInv` the bound on turns depends on whose turn is next (`InTurn`), and a
  turn is taken out of order only when nobody of the other kind is in line: this
  needs `PlaceInv`, that whoever may start and has no place in a launch has as
  many peers before it as there are slots. The run's three peers are too few for
  the exception in `EveryPeerHasItsTurn`; the theorem covers any number.

Only model-checked: liveness (`FundedSwapEnds` of both kinds,
`AttemptedSwapEnds`, `EveryRunEnds`, `CreatedIsRecorded`, `PublishedIsHandled`,
`PermitsComeBack`, `PreparedIsPublished`, `SettledIsCleaned`,
`SwapReachesClient`). Fairness and ENABLED are outside the prover's reach.

## 7. What is not modelled, and what is left

The components' notes in `PROJECT.json` say what each leaves out. The main
things: the command line programs (argument handling); the Electrum protocol,
package rules and the arithmetic of keys and signatures; encodings, config files
and the migration of old records; metrics and status pages; live price feeds;
quotas of read-only replies; `ReorgMonitor::observe`, of which only the reaction
is modelled; the maintenance of completed swaps.

`AtomicSwap` is the provider's promise and not a client's: a client whose payment
failed may try it again, and its claim stands if the payment fails after the
preimage is out, so it may get its leg and keep what it gave. What a client
promises itself is stated of its own run instead (`NoSecondPayment`,
`PaidIsNotRefunded`, `FundsAtMostOnce`, `OverMeansNothingLocked`).

Worth doing next: an abstract specification of the client's side; the overshoot of
the receive journal as a property of concurrent reads; the wake grant and the
driver in one model; a second refresher and a longer batch in `Delivery`.
