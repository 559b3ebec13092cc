------------------------------ MODULE SwapListing ------------------------------
(***************************************************************************)
(* Restoring a wallet that has only its seed: it pages through the swaps it  *)
(* owns at a provider (swap_list of swap-provider/src/lib.rs, list_all_swaps *)
(* of swap-client/src/negotiate.rs) and rebuilds the records of its open     *)
(* reverse swaps (swap-client/src/restore.rs), while the provider admits,    *)
(* drives, ends and prunes swaps and the client drives what it has restored. *)
(*                                                                          *)
(* Swap ids are numbers, so that they have an order.  A page is read at      *)
(* once; a call that gets no answer ends the listing.                        *)
(***************************************************************************)
EXTENDS Naturals, Sequences, FiniteSets

CONSTANTS
  Swaps, Owned,        \* all swaps, and those this client made
  Reversed, Keyed,     \* reverse swaps, and those the resolver finds keys for
  PAGE, MAX_LIST_PAGES

ASSUME ListingAssumption ==
  IsFiniteSet(Swaps) /\ Swaps \subseteq Nat /\ PAGE \in Nat \ {0}

VARIABLES
  book,     \* the provider's records: when each was born and where it stands
  listing,  \* the client's: active_only, cursor, pages, snapshots, how many are restored
  always,   \* owned swaps that could be listed ever since the listing began
  wallet    \* the client's records

listingVars == <<book, listing, always, wallet>>

-----------------------------------------------------------------------------
Now == 1  \* the second of every admission; swaps admitted before have this one or an earlier
NoCursor == [born |-> Now + 1, id |-> 0]
NoListing ==
  [active |-> FALSE, cursor |-> NoCursor, pages |-> 0, got |-> <<>>, done |-> 0, step |-> "none"]

\* An admission that is still creating its invoice has nothing to show.
Shows(s) == book[s].stage \notin {"absent", "creating", "pruned"}
Listed(s, active) ==
  s \in Owned /\ Shows(s) /\ (active => book[s].stage # "ended")

ListingInit ==
  /\ book \in [Swaps -> [born : {0, Now}, stage : {"absent", "funded"}]]
  /\ \A s \in Swaps : book[s].stage = "absent" => book[s].born = 0
  /\ listing = NoListing /\ always = {} /\ wallet = [s \in Swaps |-> "none"]

-----------------------------------------------------------------------------
(* 1. The provider.                                                        *)

\* created_at_unix is stamped when the admission is first saved.
Admit(s) ==
  /\ book[s] = [born |-> 0, stage |-> "absent"]
  /\ book' = [book EXCEPT ![s] = [born |-> Now, stage |-> "creating"]]
  /\ UNCHANGED <<listing, always, wallet>>

Stage(s, from, to) ==
  /\ book[s].stage \in from /\ book' = [book EXCEPT ![s].stage = to]
  /\ always' = always \ {x \in {s} : to = "pruned" \/ (listing.active /\ to = "ended")}
  /\ UNCHANGED <<listing, wallet>>

\* Its acceptance is saved; then the driver's steps; a record that is over is pruned.
Drives(s) ==
  \/ Stage(s, {"creating"}, "created") \/ Stage(s, {"created"}, "held")
  \/ Stage(s, {"held"}, "funded") \/ Stage(s, {"created", "held", "funded"}, "ended")
Prune(s) == Stage(s, {"ended"}, "pruned")

\* "Newest first, then by id, so paging never depends on a field that changes while swaps
\* run."
list_key(s) == [born |-> book[s].born, id |-> s]
Past(key, cursor) ==
  key.born < cursor.born \/ (key.born = cursor.born /\ key.id > cursor.id)

\* The records in the order of their keys: each has its place by how many come before it.
Before(s, S) == {x \in S : Past(list_key(s), list_key(x))}
sort_by_key(S) ==
  [i \in 1..Cardinality(S) |-> CHOOSE s \in S : Cardinality(Before(s, S)) = i - 1]
owned(active) == sort_by_key({s \in Swaps : Listed(s, active)})

start_AtRecord(all, cursor) ==
  IF cursor = NoCursor THEN 0
  ELSE IF \E i \in DOMAIN all : list_key(all[i]) = cursor
       THEN CHOOSE i \in DOMAIN all : list_key(all[i]) = cursor
       ELSE Len(all)

\* How many records a cursor skips: all that are not past it.
start(all, cursor) ==
  Cardinality({i \in DOMAIN all : ~Past(list_key(all[i]), cursor)})

\* The snapshots of a page, and the cursor of the next: the key of the last of them.
swap_list(active, cursor) ==
  LET all == owned(active)
      from == start(all, cursor)
      size == IF from + PAGE < Len(all) THEN PAGE ELSE Len(all) - from
  IN [snapshots |-> [i \in 1..size |-> [id |-> all[from + i], stage |-> book[all[from + i]].stage]],
      next |-> IF size > 0 /\ from + size < Len(all) THEN list_key(all[from + size]) ELSE NoCursor]

-----------------------------------------------------------------------------
(* 2. The client.                                                          *)

\* restore_from_provider: the provider's offer has swap-list-v1.
list_all_swaps ==
  /\ listing.step = "none"
  /\ \E active \in BOOLEAN :
       /\ listing' = [NoListing EXCEPT !.active = active, !.step = "page"]
       /\ always' = {s \in Swaps : Listed(s, active)}
  /\ UNCHANGED <<book, wallet>>

\* "A cursor that does not move would page forever."
list_swaps ==
  /\ listing.step = "page" /\ listing.pages < MAX_LIST_PAGES
  /\ LET list == swap_list(listing.active, listing.cursor) IN
     listing' = [listing EXCEPT
       !.pages = @ + 1, !.got = @ \o list.snapshots, !.cursor = list.next,
       !.step = IF list.next \notin {NoCursor, listing.cursor} THEN "page" ELSE "restore"]
  /\ UNCHANGED <<book, always, wallet>>

\* A page that gets no answer, too many pages, or the end of the program.
Abandon ==
  /\ listing.step # "none" /\ listing' = NoListing /\ always' = {}
  /\ UNCHANGED <<book, wallet>>

\* What a record says of a swap that is only now learnt of.
restored_state(snapshot) ==
  IF snapshot.stage = "funded" THEN "lockupConfirmed"
  ELSE IF snapshot.stage = "created" THEN "created" ELSE "invoicePending"

\* reverse_record: the keys are there, and match what was listed.
Rebuilds(snapshot) ==
  /\ wallet[snapshot.id] = "none" /\ snapshot.stage # "ended"
  /\ snapshot.id \in Reversed \cap Keyed

\* One snapshot after the other; a swap that is known is left as it is.
restore_snapshots ==
  /\ listing.step = "restore" /\ listing.done < Len(listing.got)
  /\ LET snapshot == listing.got[listing.done + 1] IN
     wallet' = IF Rebuilds(snapshot)
               THEN [wallet EXCEPT ![snapshot.id] = restored_state(snapshot)] ELSE wallet
  /\ listing' = [listing EXCEPT !.done = @ + 1]
  /\ UNCHANGED <<book, always>>

\* resume drives a restored swap on.
Resume(s) ==
  /\ wallet[s] \notin {"none", "claimed"} /\ wallet' = [wallet EXCEPT ![s] = "claimed"]
  /\ UNCHANGED <<book, listing, always>>

-----------------------------------------------------------------------------
ListingNext ==
  \/ \E s \in Swaps : Admit(s) \/ Drives(s) \/ Prune(s) \/ Resume(s)
  \/ list_all_swaps \/ list_swaps \/ Abandon \/ restore_snapshots

ListingSpec == ListingInit /\ [][ListingNext]_listingVars

-----------------------------------------------------------------------------
(* Properties.                                                             *)

Ids(got) == {got[i].id : i \in DOMAIN got}

\* When the last page is in, whatever the provider has admitted, ended and pruned in
\* between, every swap of this client that could be listed all along has been listed,
\* each once, and none of another's; and of those restored so far, each
\* reverse swap that was open and has its keys is in the wallet.
RestoreIsWhole ==
  /\ \A i, j \in DOMAIN listing.got : i # j => listing.got[i].id # listing.got[j].id
  /\ Ids(listing.got) \subseteq Owned
  /\ listing.step = "restore" => always \subseteq Ids(listing.got)
  /\ \A i \in 1..listing.done :
       /\ listing.got[i].stage # "ended" /\ listing.got[i].id \in Reversed \cap Keyed
       => wallet[listing.got[i].id] # "none"
=============================================================================
