------------------------------- MODULE Outbox -------------------------------
(***************************************************************************)
(* The journal of outgoing messages: what each operation of Outbox makes   *)
(* of the entries it holds.  A journal maps the resources it has an entry  *)
(* for to those entries; a resource stands for the encrypted bytes of one  *)
(* content in one scope.  How a journal reaches the disk, and the network  *)
(* calls it is consulted for, are in module Delivery.                      *)
(***************************************************************************)
EXTENDS Naturals, FiniteSets, FiniteSetsExt, Functions, TLC

CONSTANTS
  Resources, Scopes,
  ScopeOf,       \* the delivery scope of each resource
  MAX_ENTRIES,
  MAX_DELAY,     \* the longest pause between two attempts, 300 s in the code
  MAX_BATCH      \* entries a worker takes up in one pass

ASSUME OutboxAssumption ==
  /\ ScopeOf \in [Resources -> Scopes] /\ IsFiniteSet(Resources)
  /\ MAX_ENTRIES \in Nat /\ MAX_DELAY \in Nat \ {0} /\ MAX_BATCH \in Nat \ {0}

\* A deadline is the empty set while there is none.
Entries == [published : BOOLEAN, attempts : Nat, next_retry_at : Nat,
            publication_paused : BOOLEAN,
            cleanup_after : {s \in SUBSET Nat : Cardinality(s) <= 1},
            cleanup_attempts : Nat, next_cleanup_at : Nat,
            cleanup_paused : BOOLEAN]

IsJournal(j) == DOMAIN j \subseteq Resources /\ j \in [DOMAIN j -> Entries]

NewEntry == [published |-> FALSE, attempts |-> 0, next_retry_at |-> 0,
             publication_paused |-> FALSE, cleanup_after |-> {},
             cleanup_attempts |-> 0, next_cleanup_at |-> 0,
             cleanup_paused |-> FALSE]

cleanup_due(e, now) == \E d \in e.cleanup_after : d <= now

\* retry: the pause doubles with each attempt, up to MAX_DELAY.
NextAttempt(attempts, now) ==
  now + (IF 2^attempts < MAX_DELAY THEN 2^attempts ELSE MAX_DELAY)

InScope(j, scope) == {r \in DOMAIN j : ScopeOf[r] = scope}

has_scope(j, scope) == InScope(j, scope) # {}

has_completed_scope(j, scope) ==
  \E r \in InScope(j, scope) : j[r].cleanup_after # {}

\* A reservation that exists is used again; a new one needs room and a scope
\* that is not completed.
MayPrepare(j, r) ==
  r \in DOMAIN j \/ /\ Cardinality(DOMAIN j) < MAX_ENTRIES
                    /\ ~has_completed_scope(j, ScopeOf[r])

Prepared(j, r) ==
  [x \in DOMAIN j \cup {r} |-> IF x \in DOMAIN j THEN j[x] ELSE NewEntry]

MarkPublished(j, r) ==
  [j EXCEPT ![r].published = TRUE, ![r].publication_paused = FALSE]

MarkFailed(j, r, now, retryable) ==
  LET Failed(e) ==
        IF e.published \/ now < e.next_retry_at
        THEN [e EXCEPT !.publication_paused = ~retryable]
        ELSE [e EXCEPT !.publication_paused = ~retryable, !.attempts = @ + 1,
                       !.next_retry_at = NextAttempt(e.attempts, now)]
  IN  [x \in DOMAIN j |-> IF x = r /\ ~cleanup_due(j[x], now)
                          THEN Failed(j[x]) ELSE j[x]]

\* The first deadline is kept.
CompleteScope(j, scope, deadline) ==
  [r \in DOMAIN j |-> IF ScopeOf[r] = scope /\ j[r].cleanup_after = {}
                      THEN [j[r] EXCEPT !.cleanup_after = {deadline}] ELSE j[r]]

ReopenScope(j, scope) ==
  LET Reopened(e) ==
        [e EXCEPT !.published = FALSE, !.attempts = 0, !.next_retry_at = 0,
                  !.cleanup_after = {}, !.cleanup_attempts = 0, !.next_cleanup_at = 0]
  IN  [r \in DOMAIN j |-> IF ScopeOf[r] = scope /\ j[r].cleanup_after # {}
                          THEN Reopened(j[r]) ELSE j[r]]

MarkCleanupFailed(j, r, now, retryable) ==
  LET Failed(e) ==
        IF now < e.next_cleanup_at
        THEN [e EXCEPT !.cleanup_paused = ~retryable]
        ELSE [e EXCEPT !.cleanup_paused = ~retryable,
                       !.cleanup_attempts = @ + 1,
                       !.next_cleanup_at = NextAttempt(e.cleanup_attempts, now)]
  IN  [x \in DOMAIN j |-> IF x = r /\ cleanup_due(j[x], now)
                          THEN Failed(j[x]) ELSE j[x]]

\* An operator resumes one operation of an entry.
MayRetryPublication(j, r, now) == r \in DOMAIN j /\ ~cleanup_due(j[r], now)

RetryPublication(j, r, now) ==
  [j EXCEPT ![r].publication_paused = FALSE, ![r].published = FALSE,
            ![r].next_retry_at = now]

MayRetryCleanup(j, r) == r \in DOMAIN j /\ j[r].cleanup_after # {}

RetryCleanup(j, r, now) ==
  [j EXCEPT ![r].cleanup_paused = FALSE, ![r].next_cleanup_at = now]

\* What is not due is not forgotten; what is missing already is.
MayForget(j, r, now) == r \in DOMAIN j => cleanup_due(j[r], now)

Forget(j, r) == Restrict(j, DOMAIN j \ {r})

-----------------------------------------------------------------------------
(* What the workers are handed.                                            *)

\* A batch: as many as the limit allows, those that have waited longest.
Batches(waiting, since) ==
  {b \in SUBSET waiting :
     /\ Cardinality(b) = IF Cardinality(waiting) < MAX_BATCH
                         THEN Cardinality(waiting) ELSE MAX_BATCH
     /\ \A r \in b, x \in waiting \ b : since[r] <= since[x]}

due_pending_Once(j, now) ==
  Batches({r \in DOMAIN j :
             /\ ~j[r].published /\ ~j[r].publication_paused
             /\ j[r].attempts = 0 /\ ~cleanup_due(j[r], now)},
          [r \in DOMAIN j |-> j[r].next_retry_at])

due_pending(j, now) ==
  Batches({r \in DOMAIN j :
             /\ ~j[r].published /\ ~j[r].publication_paused
             /\ j[r].next_retry_at <= now /\ ~cleanup_due(j[r], now)},
          [r \in DOMAIN j |-> j[r].next_retry_at])

can_cleanup(j, r, now) ==
  /\ r \in DOMAIN j /\ cleanup_due(j[r], now)
  /\ ~j[r].cleanup_paused /\ j[r].next_cleanup_at <= now

eligible_cleanup(j, now) ==
  LET waiting == {r \in DOMAIN j : can_cleanup(j, r, now)}
  IN Batches(waiting, [r \in waiting |->
                         Max(j[r].cleanup_after \cup {j[r].next_cleanup_at})])

can_publish(j, r, now) ==
  r \in DOMAIN j /\ ~j[r].publication_paused /\ ~cleanup_due(j[r], now)
=============================================================================
