---------------------------- MODULE Authorization ----------------------------
(***************************************************************************)
(* The authorization of a session's requests.  An application publishes at   *)
(* the account's homeserver that a transport key may ask one provider for   *)
(* swaps, and the provider's AuthorizationVerifier reads that record for     *)
(* every request, over one HTTP client that all lookups share.              *)
(*                                                                          *)
(* A request names its account and comes from a key that QUIC has            *)
(* authenticated; derive_transport_secret gives every account, provider and *)
(* scope a key of its own, so a record is found by the account and the key. *)
(* An account keeps its homeserver.  An instant of the clock is longer than *)
(* ROUTE_TTL; an application's clock runs Skew[o] ahead.  MaxFaults bounds  *)
(* lookups that fail, records withdrawn and changes of what can be reached, *)
(* together, and MaxClock the time.                                         *)
(***************************************************************************)
EXTENDS Naturals, FiniteSets

CONSTANTS
  Owners, Keys,
  Grants,                 \* the keys that accounts use, a set of <<owner, key>>
  Skew,                   \* [Owners -> Nat]
  Icann,                  \* the owners whose homeserver publishes a domain as well
  Requests, Owner, Key,   \* what each request says, and where it comes from
  MAX_CONCURRENT_LOOKUPS, MAX_OWNERS_PER_CLIENT,
  AUTHORIZATION_LIFETIME,
  MaxSkew,                \* the 60 seconds that validate_authorization adds
  MaxClock, MaxFaults

ASSUME AuthorizationAssumption ==
  /\ Grants \subseteq Owners \X Keys /\ Icann \subseteq Owners
  /\ Skew \in [Owners -> Nat]
  /\ Owner \in [Requests -> Owners] /\ Key \in [Requests -> Keys]
  /\ MAX_CONCURRENT_LOOKUPS \in Nat \ {0} /\ MAX_OWNERS_PER_CLIENT \in Nat \ {0}
  /\ AUTHORIZATION_LIFETIME \in Nat \ {0} /\ MaxSkew \in Nat
  /\ MaxClock \in Nat /\ MaxFaults \in Nat

VARIABLES
  clock,
  record,     \* per grant: when its published authorization expires, 0 for none
  reachable,  \* owners whose homeserver answers at its direct endpoint
  at,         \* per request: "new", "queued", "resolve", "fetch", "check",
              \* "accepted" or "refused"
  look,       \* per request: the generation and route its lookup took, and what it read
  shared,     \* the shared client: its generation, and its owners' routes with the
              \* generation of the client that chose them
  current,    \* requests that waited while their account's record was current
  faults

vars == <<clock, record, reachable, at, look, shared, current, faults>>

-----------------------------------------------------------------------------
NoRoute == [by |-> 0, to |-> "none"]
Blank == [generation |-> 0, to |-> "none", expires |-> 0]
Record(r) == IF <<Owner[r], Key[r]>> \in Grants THEN record[<<Owner[r], Key[r]>>] ELSE 0

Init ==
  /\ clock = 1 /\ record = [g \in Grants |-> 0] /\ reachable = Owners
  /\ at = [r \in Requests |-> "new"] /\ look = [r \in Requests |-> Blank]
  /\ shared = [generation |-> 1, owners |-> [o \in {} |-> NoRoute]]
  /\ current = {} /\ faults = 0

Fault == faults < MaxFaults /\ faults' = faults + 1
NoFault == UNCHANGED faults
KnownOwners == DOMAIN shared.owners

-----------------------------------------------------------------------------
(* 1. The account's application and its homeserver.                        *)

\* "Renew authorization immediately before each request".
authorize(g) ==
  /\ record' = [record EXCEPT ![g] = clock + Skew[g[1]] + AUTHORIZATION_LIFETIME]
  /\ UNCHANGED <<clock, reachable, at, look, shared, faults>>

Withdraw(g) ==
  /\ record[g] # 0 /\ record' = [record EXCEPT ![g] = 0] /\ Fault
  /\ UNCHANGED <<clock, reachable, at, look, shared>>

Reach(o) ==
  /\ reachable' = IF o \in reachable THEN reachable \ {o} ELSE reachable \cup {o}
  /\ Fault /\ UNCHANGED <<clock, record, at, look, shared>>

\* Routes grow too old to be used.
Tick ==
  /\ clock < MaxClock /\ clock' = clock + 1
  /\ shared' = [shared EXCEPT !.owners = [o \in KnownOwners |-> NoRoute]]
  /\ UNCHANGED <<record, reachable, at, look, faults>>

Account == (\E g \in Grants : authorize(g) \/ Withdraw(g)) \/ (\E o \in Owners : Reach(o))

-----------------------------------------------------------------------------
(* 2. The provider: AuthorizationVerifier::verify.                         *)

Step(r, next) ==
  at' = [at EXCEPT ![r] = next] /\ UNCHANGED <<clock, record, reachable>>

Arrive(r) ==
  /\ at[r] = "new" /\ Step(r, "queued") /\ UNCHANGED <<look, shared, faults>>

Lookups == {r \in Requests : at[r] \in {"resolve", "fetch", "check"}}

\* The shared client, replaced first when the owner would take it past its limit.
client_for(o) ==
  IF o \in KnownOwners THEN shared
  ELSE LET full == Cardinality(KnownOwners) >= MAX_OWNERS_PER_CLIENT
           kept == IF full THEN {} ELSE KnownOwners IN
       [generation |-> IF full THEN shared.generation + 1 ELSE shared.generation,
        owners |-> [p \in kept \cup {o} |->
                      IF p = o THEN NoRoute ELSE shared.owners[p]]]

StartLookup(r) ==
  LET client == client_for(Owner[r])
      route == client.owners[Owner[r]].to IN
  /\ at[r] = "queued" /\ Cardinality(Lookups) < MAX_CONCURRENT_LOOKUPS
  /\ shared' = client
  /\ look' = [look EXCEPT ![r] = [Blank EXCEPT !.generation = client.generation,
                                               !.to = route]]
  /\ Step(r, IF route = "none" THEN "resolve" ELSE "fetch") /\ UNCHANGED faults

\* Pubky's transport choice: the direct endpoint, unless there is a domain as
\* well and the direct endpoint cannot be reached.
resolve_route(o) == IF o \in Icann /\ o \notin reachable THEN "icann" ELSE "direct"

\* Kept only while the client that chose the route is still the shared one.
remember_route(o, generation, route) ==
  IF shared.generation = generation /\ o \in KnownOwners
  THEN [shared EXCEPT !.owners[o] = [by |-> generation, to |-> route]] ELSE shared

ResolveRoute(r) ==
  LET route == resolve_route(Owner[r]) IN
  /\ at[r] = "resolve" /\ Step(r, "fetch")
  /\ look' = [look EXCEPT ![r].to = route]
  /\ shared' = remember_route(Owner[r], look[r].generation, route)
  /\ UNCHANGED faults

Answers(r) == look[r].to = "icann" \/ Owner[r] \in reachable

\* Every request fetches the current record.
Fetch(r) ==
  /\ at[r] = "fetch" /\ Answers(r) /\ Record(r) # 0 /\ Step(r, "check")
  /\ look' = [look EXCEPT ![r].expires = Record(r)] /\ UNCHANGED <<shared, faults>>

validate_authorization_Early(r) == look[r].expires <= clock + AUTHORIZATION_LIFETIME + MaxSkew

validate_authorization(r) ==
  /\ look[r].expires > clock
  /\ look[r].expires <= clock + AUTHORIZATION_LIFETIME + MaxSkew

Verify(r) ==
  /\ at[r] = "check" /\ validate_authorization(r) /\ Step(r, "accepted")
  /\ UNCHANGED <<look, shared, faults>>

\* No answer, no record or one that does not match, or the lookup's 15 seconds are over.
Refuse(r) ==
  /\ at[r] \in {"queued", "resolve", "fetch", "check"} /\ Step(r, "refused")
  /\ IF \/ at[r] = "fetch" /\ (~Answers(r) \/ Record(r) = 0)
        \/ at[r] = "check" /\ ~validate_authorization(r)
     THEN NoFault ELSE Fault
  /\ UNCHANGED <<look, shared>>

Provider ==
  \E r \in Requests : \/ Arrive(r) \/ StartLookup(r) \/ ResolveRoute(r) \/ Fetch(r)
                      \/ Verify(r) \/ Refuse(r)

-----------------------------------------------------------------------------
\* The requests that have met a current record while they waited at the provider.
Waiting(r) == at'[r] \in {"queued", "resolve", "fetch", "check"}
Next ==
  /\ Account \/ Tick \/ Provider
  /\ current' = current \cup {r \in Requests : Waiting(r) /\ Record(r)' > clock'}

Spec == Init /\ [][Next]_vars

-----------------------------------------------------------------------------
(* Properties.                                                             *)

TypeOK ==
  /\ clock \in 1..MaxClock /\ record \in [Grants -> Nat] /\ reachable \subseteq Owners
  /\ at \in [Requests -> {"new", "queued", "resolve", "fetch", "check",
                          "accepted", "refused"}]
  /\ \A r \in Requests : /\ look[r].generation \in Nat /\ look[r].expires \in Nat
                         /\ look[r].to \in {"none", "direct", "icann"}
  /\ shared.generation \in Nat /\ KnownOwners \subseteq Owners
  /\ current \subseteq Requests /\ faults \in 0..MaxFaults

\* A request is let through only if the account it names had a current
\* authorization for its key at some moment while it waited, whatever earlier
\* lookups found and however long this one took ("Authorization decisions are
\* never cached ... removal and expiry take effect at once").
AuthorizedWhileWaiting == \A r \in Requests : at[r] = "accepted" => r \in current
=============================================================================
