------------------------------ MODULE WakeGrants ------------------------------
(***************************************************************************)
(* Telling the owner of a reverse swap that its lockup is at depth           *)
(* (swap-provider/src/wake.rs, ReverseProgress and accept_wake_capability of *)
(* swap-provider/src/lib.rs).  The owner hands the provider a wake grant for *)
(* the swap; the driver marks the swap claimable, takes the grant and spends *)
(* it on one wake.  Handler and driver share the record on disk and the      *)
(* table of held grants, which has a lock and a file of its own.             *)
(*                                                                          *)
(* A grant passes the checks (version, allowlist, topic, token, expiry) or   *)
(* not; one that passed may later have expired, or its gateway have left the *)
(* allowlist.  A wake is what was asked of the gateway, whatever it answered.*)
(* MaxSpoils bounds what goes wrong: a restart of the provider, a write that *)
(* fails, a reply or an update that is lost.                                *)
(***************************************************************************)
EXTENDS Naturals, Sequences

CONSTANTS WakeGrant, NoGrant, MaxSpoils

ASSUME WakeAssumption == NoGrant \notin WakeGrant /\ MaxSpoils \in Nat

VARIABLES
  shown,    \* the record on disk: claimable_at_unix is set, the swap has ended
  watch,    \* the driver: its copy of claimable_at_unix, and its step
  held,     \* the grant held for this swap in memory
  saved,    \* and in the file of held grants
  ask,      \* the capability the handler is taking in
  offered,  \* each grant: not sent, sent, accepted, told (claimable) or refused
  outgoing, \* the announcement that was spawned, and its step
  expired,  \* grants that no longer pass the checks
  woken,    \* wakes asked of the gateway, per grant
  unasked,  \* grants spent without asking: they had expired when their turn came
  hinted,   \* a claimable update is in the outbox
  dms,      \* the owner talks over direct messages
  spoilt    \* what has gone wrong

wakeVars == <<shown, watch, held, saved, ask, offered, outgoing, expired, woken, unasked, hinted,
              dms, spoilt>>

-----------------------------------------------------------------------------
NoAsk == [grant |-> NoGrant, step |-> "none"]
Silent == [grant |-> NoGrant, step |-> "none"]

WakeInit ==
  /\ shown = [claimable |-> FALSE, over |-> FALSE]
  /\ watch = [copy |-> FALSE, step |-> "watch"]
  /\ held = NoGrant /\ saved = NoGrant /\ ask = NoAsk /\ outgoing = Silent
  /\ offered = [g \in WakeGrant |-> "kept"] /\ woken = [g \in WakeGrant |-> 0]
  /\ expired = {} /\ unasked = {} /\ hinted = FALSE /\ dms \in BOOLEAN /\ spoilt = <<>>

Spoil(what) == Len(spoilt) < MaxSpoils /\ spoilt' = Append(spoilt, what)
Well == UNCHANGED spoilt
Spoilt(what) == \E i \in DOMAIN spoilt : spoilt[i] = what

-----------------------------------------------------------------------------
(* 1. The table of held grants.                                            *)

\* "Best effort: a grant that fails to save still wakes, unless the process restarts
\* first."
save(g) ==
  \/ Well /\ saved' = g
  \/ Spoil("save") /\ UNCHANGED saved

Holds(g) == held' = g /\ save(g)

take == IF held = NoGrant THEN UNCHANGED <<held, saved, spoilt>> ELSE Holds(NoGrant)

-----------------------------------------------------------------------------
(* 2. The handler of a SwapWakeCapability.                                 *)

\* The grant runs out, or its gateway leaves the allowlist.
Expire(g) ==
  /\ g \notin expired /\ expired' = expired \cup {g}
  /\ UNCHANGED <<shown, watch, held, saved, ask, offered, outgoing, woken, unasked, hinted,
                 dms,
                 spoilt>>

\* The owner sends a grant, and again when it has not heard of it.
Offer(g) ==
  /\ ask = NoAsk /\ offered[g] \in {"kept", "sent"} /\ offered' = [offered EXCEPT ![g] = "sent"]
  /\ ask' = [grant |-> g, step |-> "read"]
  /\ UNCHANGED <<shown, watch, held, saved, outgoing, expired, woken, unasked, hinted, dms,
                 spoilt>>

\* The reply reaches the owner or is lost.
Reply(answer) ==
  /\ ask' = NoAsk
  /\ \/ Well /\ offered' = [offered EXCEPT ![ask.grant] = answer]
     \/ Spoil("reply") /\ UNCHANGED offered
  /\ UNCHANGED <<shown, watch, held, saved, outgoing, expired, woken, unasked, hinted, dms>>

\* "A swap already claimable says so and needs no wake"; one that has ended takes none.
accept_wake_capability ==
  /\ ask.step = "read"
  /\ \/ shown.over /\ Reply("refused")
     \/ ~shown.over /\ shown.claimable /\ Reply("told")
     \/ ~shown.over /\ ~shown.claimable /\ ask' = [ask EXCEPT !.step = "hold"]
        /\ UNCHANGED <<shown, watch, held, saved, offered, outgoing, expired, woken,
                       unasked, hinted, dms, spoilt>>

\* "The same one again is accepted, so a resend after a lost reply is not refused; a
\* different one is."
hold ==
  /\ ask.step = "hold" /\ ask.grant \notin expired /\ held \in {NoGrant, ask.grant}
  /\ ask' = [ask EXCEPT !.step = "again"]
  /\ IF held = NoGrant THEN Holds(ask.grant) ELSE UNCHANGED <<held, saved, spoilt>>
  /\ UNCHANGED <<shown, watch, offered, outgoing, expired, woken, unasked, hinted, dms>>

\* Another is held, or the grant does not pass the checks.
RefuseGrant == ask.step = "hold" /\ Reply("refused")

Again_None == FALSE

\* "Read again after holding: a swap claimable now may have fired before this grant
\* was held."
Again == shown.claimable

Reread ==
  /\ ask.step = "again"
  /\ \/ ~Again /\ Reply("accepted")
     \/ Again /\ take /\ ask' = [ask EXCEPT !.step = "tell"]
        /\ UNCHANGED <<shown, watch, offered, outgoing, expired, woken, unasked, hinted, dms>>

TellClaimable == ask.step = "tell" /\ Reply("told")

-----------------------------------------------------------------------------
(* 3. The driver: claimable is raised once, marked first.                  *)

\* Its copy counts whether the write lands or not.
claimable ==
  /\ watch.step = "watch" /\ ~watch.copy /\ watch' = [copy |-> TRUE, step |-> "take"]
  /\ \/ Well /\ shown' = [shown EXCEPT !.claimable = TRUE]
     \/ Spoil("mark") /\ UNCHANGED shown
  /\ UNCHANGED <<held, saved, ask, offered, outgoing, expired, woken, unasked, hinted, dms>>

TakeGrant ==
  /\ watch.step = "take" /\ take /\ watch' = [watch EXCEPT !.step = "watch"]
  /\ outgoing' = [grant |-> held, step |-> IF held = NoGrant THEN "hint" ELSE "wake"]
  /\ UNCHANGED <<shown, ask, offered, expired, woken, unasked, hinted, dms>>

\* announce_claimable: "off the driver's path".  The grant is checked again: one that has
\* expired since it was held is dropped, and the gateway is not asked.
wake ==
  /\ outgoing.step = "wake" /\ outgoing' = [outgoing EXCEPT !.step = "hint"]
  /\ \/ /\ outgoing.grant \notin expired
        /\ woken' = [woken EXCEPT ![outgoing.grant] = @ + 1] /\ UNCHANGED unasked
     \/ /\ outgoing.grant \in expired
        /\ unasked' = unasked \cup {outgoing.grant} /\ UNCHANGED woken
  /\ UNCHANGED <<shown, watch, held, saved, ask, offered, expired, hinted, dms, spoilt>>

\* "One status update over DMs, if that is how it talks to us ... Best effort": nothing is
\* sent when the message history cannot be read or the sending fails.
announce_claimable ==
  /\ outgoing.step = "hint" /\ outgoing' = Silent
  /\ \/ Well /\ hinted' = (hinted \/ dms)
     \/ dms /\ Spoil("hint") /\ UNCHANGED hinted
  /\ UNCHANGED <<shown, watch, held, saved, ask, offered, expired, woken, unasked, dms>>

\* finish_driver_run: the grant is forgotten, then the outcome is recorded.
Forget ==
  /\ watch.step = "watch" /\ take /\ watch' = [watch EXCEPT !.step = "end"]
  /\ UNCHANGED <<shown, ask, offered, outgoing, expired, woken, unasked, hinted, dms>>

SetTerminal ==
  /\ watch.step = "end" /\ watch' = [watch EXCEPT !.step = "over"]
  /\ shown' = [claimable |-> watch.copy, over |-> TRUE]
  /\ UNCHANGED <<held, saved, ask, offered, outgoing, expired, woken, unasked, hinted, dms,
                 spoilt>>

-----------------------------------------------------------------------------
\* A restart takes back the grants in the file, and the driver its record.
Midway == ask # NoAsk \/ outgoing # Silent \/ watch.step \in {"take", "end"}
Restart ==
  /\ Spoil(IF Midway THEN "midway" ELSE "restart")
  /\ held' = saved /\ ask' = NoAsk /\ outgoing' = Silent
  /\ watch' = [copy |-> shown.claimable, step |-> IF shown.over THEN "over" ELSE "watch"]
  /\ UNCHANGED <<shown, saved, offered, expired, woken, unasked, hinted, dms>>

WakeNext ==
  \/ \E g \in WakeGrant : Offer(g) \/ Expire(g)
  \/ accept_wake_capability \/ hold \/ RefuseGrant \/ Reread \/ TellClaimable
  \/ claimable \/ TakeGrant \/ wake \/ announce_claimable \/ Forget \/ SetTerminal \/ Restart

WakeSpec == WakeInit /\ [][WakeNext]_wakeVars

-----------------------------------------------------------------------------
(* Properties.                                                             *)

Settled == ~Midway /\ watch.step \in {"watch", "over"}
Smoothly == ~\E what \in {"save", "mark", "midway"} : Spoilt(what)

\* Once the swap is claimable and nothing is under way, through restarts and lost replies:
\* the record says so to whoever reads it; an owner whose grant was accepted has been woken
\* with it, unless it had expired when its turn came; one that talks over messages has an
\* update on its way, unless that very update failed; and no grant stays behind.  An owner
\* in both exceptions is told by nobody and has the record alone.  One grant is never spent
\* twice unless the mark that it was due could not be written.
OwnerHears ==
  /\ Settled /\ watch.copy /\ Smoothly =>
       /\ shown.claimable
       /\ \A g \in WakeGrant : offered[g] = "accepted" => woken[g] = 1 \/ g \in unasked
       /\ dms => hinted \/ Spoilt("hint")
       /\ held = NoGrant /\ saved = NoGrant
  /\ ~Spoilt("mark") => \A g \in WakeGrant : woken[g] <= IF g \in unasked THEN 0 ELSE 1
=============================================================================
