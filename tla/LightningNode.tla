---------------------------- MODULE LightningNode ----------------------------
(***************************************************************************)
(* What the drivers hear of their Lightning node: the LightningBackend trait *)
(* over LND (lightning/src/lnd.rs), over beignet's HTTP daemon               *)
(* (beignet-backend) and over the stub a provider falls back to.             *)
(*                                                                          *)
(* One caller, one swap: a hold invoice, an ordinary invoice and an outgoing *)
(* payment.  A call is a few requests; a request reaches the node or does    *)
(* not, and an answer that is lost leaves what the node did.  A request that *)
(* was given up is not carried out later.  The node's own behaviour is       *)
(* external.  MaxUpsets bounds the requests that break.                      *)
(***************************************************************************)
EXTENDS Naturals

CONSTANTS
  Deltas,      \* final CLTV deltas a swap may ask of a hold invoice
  NodeDelta,   \* the delta of a node that ignores the one asked for
  ATTEMPTS,    \* BeignetConfig.attempts
  MaxUpsets

ASSUME NodeAssumption ==
  Deltas \subseteq Nat /\ NodeDelta \in Nat /\ ATTEMPTS \in Nat \ {0} /\ MaxUpsets \in Nat

VARIABLES
  backend,  \* the adapter and what its caller asks: kind, honours (whether the node
            \* applies a delta), asked (the delta), bounded (whether payments carry
            \* a cltv_limit)
  node,     \* the node: hold, delta, plain, pay
  call,     \* the caller's last call: op, the request it is at, attempts left, answer
  heard,    \* the last that was heard of the payment, "nothing" before the first call
  upsets

nodeVars == <<backend, node, call, heard, upsets>>

-----------------------------------------------------------------------------
Idle == [op |-> "none", step |-> "done", tries |-> 0, says |-> "none"]

\* make_backend: beignet, LND, or the stub when none is configured or connects.
Backends ==
  [kind : {"lnd", "beignet", "stub"}, honours : BOOLEAN, asked : Deltas, bounded : BOOLEAN]

NodeInit ==
  /\ backend \in {b \in Backends : b.kind = "lnd" => b.honours}
  /\ node = [hold |-> "none", delta |-> 0, plain |-> "none", pay |-> "none"]
  /\ call = Idle /\ heard = "nothing" /\ upsets = 0

Ready == call.step = "done"
Lnd == backend.kind = "lnd"
Beignet == backend.kind = "beignet"
IsHeld == node.hold \in {"open", "accepted"}

\* Retry::Safe requests are repeated, a payment is Retry::Never; LND's are made once.
Attempts(step) == IF Beignet /\ step # "pay" THEN ATTEMPTS ELSE 1
Ask(step) == call' = [call EXCEPT !.step = step, !.tries = Attempts(step)]
Begin(op, step) ==
  /\ Ready /\ backend.kind # "stub" /\ UNCHANGED <<backend, node, heard, upsets>>
  /\ call' = [op |-> op, step |-> step, tries |-> Attempts(step), says |-> "none"]
Refused(op, why) ==
  /\ Ready /\ call' = [op |-> op, step |-> "done", tries |-> 0, says |-> why]
  /\ UNCHANGED <<backend, node, upsets>>
  /\ heard' = IF op \in {"pay", "track"} THEN why ELSE heard
Say(answer) ==
  /\ call' = [call EXCEPT !.step = "done", !.tries = 0, !.says = answer]
  /\ heard' = IF call.op \in {"pay", "track"} THEN answer ELSE heard

-----------------------------------------------------------------------------
(* 1. The node: what a request does to it, and what happens to it by itself. *)

Minted ==
  IF Lnd /\ node.hold # "none" THEN node
  ELSE [node EXCEPT !.hold = "open",
                    !.delta = IF backend.honours THEN backend.asked ELSE NodeDelta]
Taken == IF node.pay \in {"none", "failed"} THEN [node EXCEPT !.pay = "initiated"] ELSE node

Effect ==
  CASE call.step = "create" -> Minted
    [] call.step = "plain" -> [node EXCEPT !.plain = "open"]
    [] call.step \in {"cancel", "drop"} /\ IsHeld -> [node EXCEPT !.hold = "cancelled"]
    [] call.step = "settle" /\ node.hold = "accepted" -> [node EXCEPT !.hold = "settled"]
    [] call.step = "pay" -> Taken
    [] OTHER -> node

Move(field, from, to) ==
  /\ node[field] \in from /\ node' = [node EXCEPT ![field] = to]
  /\ UNCHANGED <<backend, call, heard, upsets>>
NodeMoves ==
  \/ Move("hold", {"open"}, "accepted") \/ Move("hold", {"open", "accepted"}, "cancelled")
  \/ Move("plain", {"open"}, "settled") \/ Move("plain", {"open"}, "cancelled")
  \/ Move("pay", {"initiated"}, "live") \/ Move("pay", {"initiated", "live"}, "failed")
  \/ Move("pay", {"live"}, "paid")

-----------------------------------------------------------------------------
(* 2. Requests.                                                            *)

\* The request of this step reaches the node, and its answer comes back.
Reaches(step) ==
  call.step = step /\ node' = Effect /\ UNCHANGED <<backend, upsets>>

Then(step) == Ask(step) /\ UNCHANGED heard

\* A call whose request cannot be answered says nothing of what the node did:
\* "the stream closing says nothing about the payment it carried".
Unanswered_AsFailure(step) == IF step = "waiting" THEN "failed" ELSE "backend"

Unanswered(step) == "backend"

\* The request, or its answer, is lost (repeated when it may be), or the answer
\* cannot be read (never repeated).  A payment beignet was asked for and did not
\* answer about is looked up.
Breaks ==
  /\ ~Ready /\ upsets < MaxUpsets /\ upsets' = upsets + 1 /\ UNCHANGED backend
  /\ \E done \in BOOLEAN : node' = IF done THEN Effect ELSE node
  /\ \/ call.tries > 1 /\ call' = [call EXCEPT !.tries = @ - 1] /\ UNCHANGED heard
     \/ call.tries <= 1 /\ Beignet /\ call.step \in {"pay", "waiting"} /\ Then("track")
     \/ call.tries <= 1 /\ ~(Beignet /\ call.step \in {"pay", "waiting"})
        /\ Say(Unanswered(call.step))
     \/ call.step # "waiting" /\ Say("backend")

-----------------------------------------------------------------------------
(* 3. Hold invoices.                                                       *)

\* "Refusing here keeps the failure at swap setup"; beignet reuses an invoice it
\* holds for this hash.
create_hold_invoice ==
  \/ backend.asked = 0 /\ Refused("create", "backend")
  \/ backend.asked # 0 /\ Begin("create", IF Beignet THEN "held" ELSE "create")

Reuse ==
  /\ call.op = "create" /\ Reaches("held")
  /\ \/ IsHeld /\ (Then("decode") \/ Say("backend"))    \* with its bolt11, or without
     \/ ~IsHeld /\ Then("create")

DeltaIsKept == node.delta >= backend.asked

Mint ==
  /\ Reaches("create")
  /\ \/ Beignet /\ Then("decode")
     \/ Lnd /\ Say(IF node.hold = "none" THEN "ok" ELSE "backend")

\* "Verify what we actually got rather than trusting what we asked for"; an invoice
\* that will not be used is cancelled.
Decode ==
  /\ call.op = "create" /\ Reaches("decode")
  /\ IF DeltaIsKept THEN Say("ok") ELSE Then("drop")

Drop == Reaches("drop") /\ Say("backend")

\* Recovering an invoice whose creation may have been lost; beignet cannot.
lookup_hold_invoice ==
  \/ Lnd /\ Begin("lookup", "lookup")
  \/ Beignet /\ Refused("lookup", "notImplemented")

Lookup ==
  /\ Reaches("lookup")
  /\ Say(IF node.hold = "none" THEN "none"
         ELSE IF IsHeld /\ node.delta = backend.asked THEN "ok" ELSE "backend")

settle_hold_invoice == Begin("settle", "settle")

\* beignet answers NOT_FOUND for an invoice that it does not hold; "a settle that
\* fails because it already happened is success".
Settle ==
  /\ Reaches("settle")
  /\ IF node.hold = "accepted" THEN Say("ok")
     ELSE IF Beignet THEN Then("check") ELSE Say("backend")

Check ==
  Reaches("check") /\ Say(IF node.hold = "settled" THEN "ok" ELSE "invoiceNotFound")

cancel_hold_invoice == Begin("cancel", "cancel")

Cancel ==
  Reaches("cancel") /\ Say(IF Beignet \/ node.hold \in {"open", "accepted", "cancelled"}
                           THEN "ok" ELSE "backend")

-----------------------------------------------------------------------------
(* 4. Ordinary invoices, and the state of either kind.                     *)

\* beignet "issues invoices in whole satoshis".
create_invoice ==
  Begin("plain", "plain") \/ (Beignet /\ Refused("plain", "backend"))

MintPlain == Reaches("plain") /\ Say("ok")

invoice_status(kind) == Begin(kind, IF Beignet THEN "held" ELSE "status")

\* beignet lists the invoices it holds; any other shows only as a payment.
StatusHeld ==
  /\ call.op \in {"ofHold", "ofPlain"} /\ Reaches("held")
  /\ IF call.op = "ofHold" /\ node.hold # "none" THEN Say(node.hold) ELSE Then("received")

Received ==
  /\ Reaches("received")
  /\ Say(IF call.op = "ofPlain" /\ node.plain \in {"settled", "cancelled"}
         THEN node.plain ELSE "invoiceNotFound")

Status ==
  /\ Reaches("status")
  /\ LET state == IF call.op = "ofHold" THEN node.hold ELSE node.plain IN
     Say(IF state = "none" THEN "backend" ELSE state)

-----------------------------------------------------------------------------
(* 5. Payments.                                                            *)

\* "Implementations must either enforce the limit or fail."
pay_invoice ==
  /\ heard \in {"nothing", "notFound", "failed"}
  /\ \/ Lnd /\ Begin("pay", "pay")
     \/ Beignet /\ ~backend.bounded /\ Begin("pay", "terms")
     \/ Beignet /\ backend.bounded /\ Refused("pay", "notImplemented")

\* An invoice without an amount "would let the payee choose".
Terms == call.op = "pay" /\ Reaches("terms") /\ (Then("pay") \/ Say("failed"))

\* The node takes the payment, or refuses one that it has under way or has made:
\* DUPLICATE_PAYMENT is a failed payment to beignet's adapter.
Pays ==
  /\ Reaches("pay")
  /\ IF node.pay \in {"none", "failed"} THEN Then("waiting")
     ELSE Say(IF Beignet THEN "failed" ELSE "backend")

\* LND's stream tells when the payment has ended; beignet's answer may also be
\* PAYMENT_TIMEOUT.
PayEnds ==
  /\ Reaches("waiting")
  /\ \/ node.pay \in {"paid", "failed"} /\ Say(node.pay)
     \/ Beignet /\ node.pay = "paid" /\ Then("proof")
     \/ Beignet /\ node.pay \in {"initiated", "live"} /\ Say("failed")

payment_status == Begin("track", "track")

\* "INITIATED is a payment LND has recorded but not yet sent an HTLC for.  Reporting
\* it as unknown would let a caller pay a second time."
Tracked == IF node.pay = "none" THEN "notFound"
           ELSE IF node.pay = "initiated" THEN "live" ELSE node.pay

\* LND's stream may end before it says anything, and beignet may name a state that
\* the adapter does not know.
Track ==
  /\ call.op = "track" /\ Reaches("track")
  /\ \/ Say(Tracked) \/ Say("unknown")
     \/ Beignet /\ node.pay = "paid" /\ Then("proof")

\* "Reporting failure here would make the caller abandon a swap it has possibly already
\* paid for, so ask the node": whatever else it reports is a failed payment.
PayTracked ==
  /\ call.op = "pay" /\ Reaches("track")
  /\ \/ node.pay # "paid" /\ Say("failed")
     \/ node.pay = "paid" /\ (Say("paid") \/ Then("proof"))

\* The preimage of a payment whose record does not carry it (payment_result).
Proof == Reaches("proof") /\ Say("paid")

-----------------------------------------------------------------------------
StubCall == backend.kind = "stub" /\ \E op \in {"create", "lookup", "settle", "cancel", "plain",
                                               "ofHold", "pay", "track"} :
              Refused(op, "notImplemented")

Calls ==
  \/ create_hold_invoice \/ lookup_hold_invoice \/ settle_hold_invoice
  \/ cancel_hold_invoice \/ create_invoice \/ invoice_status("ofHold")
  \/ invoice_status("ofPlain") \/ pay_invoice \/ payment_status \/ StubCall
Replies ==
  \/ Reuse \/ Mint \/ Decode \/ Drop \/ Lookup \/ Settle \/ Check \/ Cancel
  \/ MintPlain \/ StatusHeld \/ Received \/ Status \/ Terms \/ Pays \/ PayEnds \/ Track
  \/ PayTracked \/ Proof

NodeNext == NodeMoves \/ Calls \/ Replies \/ Breaks
NodeSpec == NodeInit /\ [][NodeNext]_nodeVars

-----------------------------------------------------------------------------
(* Properties.                                                             *)

Said(op, answers) == Ready /\ call.op = op /\ call.says \in answers
Unpaid == node.pay \in {"none", "failed"}

\* An answer a driver acts on is true, and stays true until its next call: a payment
\* reported failed, refused or unknown to the node (the bounded one of a submarine
\* swap) is not under way and cannot succeed, one reported made is made; an invoice
\* that was created or found has the delta that was asked for; one reported absent,
\* settled or cancelled is.
AnswersAreTrue ==
  /\ Said("pay", {"failed", "notImplemented"}) => (Unpaid \/ (Beignet /\ ~backend.bounded))
  /\ Said("track", {"notFound", "failed"}) => Unpaid
  /\ \A op \in {"pay", "track"} : Said(op, {"paid"}) => node.pay = "paid"
  /\ \A op \in {"create", "lookup"} :
       Said(op, {"ok"}) => node.hold # "none" /\ node.delta >= backend.asked
  /\ Said("lookup", {"none"}) => node.hold = "none"
  /\ Said("settle", {"ok"}) => node.hold = "settled"
  /\ Said("cancel", {"ok"}) => ~IsHeld
  /\ Said("ofHold", {"settled"}) => node.hold = "settled"
  /\ Said("ofPlain", {"settled"}) => node.plain = "settled"
=============================================================================
