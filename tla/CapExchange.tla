----------------------------- MODULE CapExchange -----------------------------
(***************************************************************************)
(* Signed swaps: the paykit-cap.* requests of a client's CapChannel and      *)
(* CapClient, answered by the provider's cap_adapter, while the provider's   *)
(* keys are rotated (PublishedKeys), requests outlive their callers, replies *)
(* are lost and both sides restart.                                          *)
(*                                                                          *)
(* One client, one request of it at a time.  A handler whose caller has gone *)
(* runs on and its reply goes nowhere.  Of the engine there is what a commit *)
(* meets: the quote book, the quotes redeemed in this run and the store     *)
(* (Admission has the rest).  MaxLosses bounds requests given up, restarts, *)
(* evicted quotes and admissions that fail, together.                        *)
(***************************************************************************)
EXTENDS PublishedKeys

CONSTANTS CapQuotes, MaxLosses

ASSUME CapExchangeAssumption == MaxLosses \in Nat

VARIABLES
  \* the provider
  signedBy,  \* per quote: what signed it, or Unsigned
  book,      \* quotes the engine holds
  redeemed,  \* quotes redeemed in this run
  swaps,     \* quotes with a swap in the store
  contract,  \* per quote: what signed the contract stored with its swap, or Unsigned
  lapsed,    \* quotes past their validity
  aged,      \* quotes signed by an earlier run
  handlers,  \* requests at work: [kind, quote, pc, by, asked]
  \* the client
  ask,       \* the request it waits on: [kind, quote, first]
  reply,     \* the answer on its way to it: [kind, quote, by]
  trusted,   \* capability signing keys that allow_signer has admitted
  proofs,    \* quotes it holds with their signature
  commits,   \* quotes it has committed to in this run
  pending,   \* quotes it has on disk as committed to
  opened,    \* per quote: what signed the contract it took, Plain without one
  refused,   \* quotes whose commit was refused outright
  losses

engine == <<signedBy, book, redeemed, swaps, contract, lapsed, aged>>
client == <<trusted, proofs, commits, pending, opened, refused>>
capVars == <<keyVars, engine, handlers, ask, reply, client, losses>>

-----------------------------------------------------------------------------
Loss == losses < MaxLosses /\ losses' = losses + 1
NoLoss == UNCHANGED losses

Unsigned == 0 - 1
Plain == 0 - 2
AnyQuote == CHOOSE q \in CapQuotes : TRUE
NoReply == [kind |-> "none", quote |-> AnyQuote, by |-> Unsigned]
NoAsk == [kind |-> "none", quote |-> AnyQuote, first |-> FALSE]

CapInit ==
  /\ KeysInit
  /\ signedBy = [q \in CapQuotes |-> Unsigned] /\ contract = [q \in CapQuotes |-> Unsigned]
  /\ book = {} /\ redeemed = {} /\ swaps = {} /\ lapsed = {} /\ aged = {}
  /\ handlers = {} /\ ask = NoAsk /\ reply = NoReply
  /\ trusted = {} /\ proofs = {} /\ commits = {} /\ pending = {} /\ refused = {}
  /\ opened = [q \in CapQuotes |-> Unsigned] /\ losses = 0

-----------------------------------------------------------------------------
(* 1. The client: CapChannel::exchange and CapClient.                      *)

SendCap(kind, q, first) ==
  /\ ask' = [kind |-> kind, quote |-> q, first |-> first] /\ reply' = NoReply
  /\ handlers' = handlers \cup
       {[kind |-> IF kind = "replay" THEN "commit" ELSE kind, quote |-> q,
         pc |-> "new", by |-> Unsigned, asked |-> TRUE]}

\* The caller is done with its request.
Finish ==
  /\ ask' = NoAsk /\ reply' = NoReply
  /\ handlers' = {[h EXCEPT !.asked = FALSE] : h \in handlers}

Waits == ask.kind # "none"
Wants(q) == opened[q] = Unsigned /\ q \notin refused

AskQuote ==
  /\ ~Waits /\ \E q \in CapQuotes : signedBy[q] = Unsigned
  /\ SendCap("quote", AnyQuote, TRUE) /\ UNCHANGED <<keyVars, engine, client, losses>>

\* A commit carries its quote as it was signed.
SendCommit(q) ==
  /\ ~Waits /\ Wants(q) /\ q \in proofs /\ SendCap("commit", q, q \notin pending)
  /\ commits' = commits \cup {q} /\ pending' = pending \cup {q}
  /\ UNCHANGED <<keyVars, engine, trusted, proofs, opened, refused, losses>>

AskStatus(q) ==
  /\ ~Waits /\ Wants(q) /\ q \in pending /\ SendCap("status", q, FALSE)
  /\ UNCHANGED <<keyVars, engine, client, losses>>

\* A signer other than the identity key is looked up at the homeserver.
allows(k) == k = 0 \/ k \in trusted \/ resolve_signing_key(k)
allow_delegated_signer(k) ==
  trusted' = IF resolve_signing_key(k) THEN trusted \cup {k} ELSE trusted

ReceiveQuote ==
  /\ reply.kind = "quote" /\ allow_delegated_signer(reply.by) /\ Finish
  /\ proofs' = IF allows(reply.by) THEN proofs \cup {reply.quote} ELSE proofs
  /\ UNCHANGED <<keyVars, engine, commits, pending, opened, refused, losses>>

\* The contract over this client's commit, in answer to it or with a status.
ReceiveContract ==
  /\ ask.kind # "replay" /\ reply.kind \in {"contract", "status"} /\ reply.by # Unsigned
  /\ allow_delegated_signer(reply.by) /\ Finish
  /\ opened' = IF allows(reply.by) THEN [opened EXCEPT ![reply.quote] = reply.by] ELSE opened
  /\ UNCHANGED <<keyVars, engine, proofs, commits, pending, refused, losses>>

ReceivePlainStatus_NoReplay ==
  /\ reply.kind = "status" /\ reply.by = Unsigned /\ Finish
  /\ opened' = IF reply.quote \in commits THEN opened
               ELSE [opened EXCEPT ![reply.quote] = Plain]
  /\ UNCHANGED <<keyVars, engine, trusted, proofs, commits, pending, refused, losses>>

\* A run that committed does not take the swap without its contract, and replays
\* the commit; a restarted client takes the swap as the status has it.
ReceivePlainStatus ==
  /\ reply.kind = "status" /\ reply.by = Unsigned
  /\ IF reply.quote \in commits
     THEN SendCap("replay", reply.quote, FALSE) /\ UNCHANGED opened
     ELSE Finish /\ opened' = [opened EXCEPT ![reply.quote] = Plain]
  /\ UNCHANGED <<keyVars, engine, trusted, proofs, commits, pending, refused, losses>>

\* The answer to a replay is not read.
ReplayDone ==
  /\ ask.kind = "replay" /\ reply.kind # "none" /\ Finish
  /\ UNCHANGED <<keyVars, engine, client, losses>>

\* A refusal is believed where no earlier attempt can have got through.
ReceiveRefusal ==
  /\ ask.kind # "replay" /\ reply.kind = "refusal" /\ Finish
  /\ refused' = IF ask.kind = "commit" /\ ask.first THEN refused \cup {ask.quote} ELSE refused
  /\ UNCHANGED <<keyVars, engine, trusted, proofs, commits, pending, opened, losses>>

\* The stream breaks, or the request's time is over.
AbandonAsk ==
  /\ Waits /\ Finish
  /\ IF reply.kind = "none" /\ \A h \in handlers : ~h.asked THEN NoLoss ELSE Loss
  /\ UNCHANGED <<keyVars, engine, client>>

ClientRestarts ==
  /\ trusted' = {} /\ proofs' = {} /\ commits' = {} /\ Finish /\ Loss
  /\ UNCHANGED <<keyVars, engine, pending, opened, refused>>

Receive ==
  ReceiveQuote \/ ReceiveContract \/ ReceivePlainStatus \/ ReplayDone \/ ReceiveRefusal

-----------------------------------------------------------------------------
(* 2. The provider: handle_cap_request.                                    *)

Respond(h, kind, q, by) ==
  /\ handlers' = handlers \ {h}
  /\ reply' = IF h.asked THEN [kind |-> kind, quote |-> q, by |-> by] ELSE reply

MoveOn(h, pc, by) ==
  /\ handlers' = (handlers \ {h}) \cup {[h EXCEPT !.pc = pc, !.by = by]}
  /\ UNCHANGED reply

\* The engine's quote, signed with the signer of the moment.
sign_quote(h) ==
  /\ h.kind = "quote"
  /\ \E q \in CapQuotes :
       /\ signedBy[q] = Unsigned /\ signedBy' = [signedBy EXCEPT ![q] = signer]
       /\ book' = book \cup {q} /\ Respond(h, "quote", q, signer)
  /\ UNCHANGED <<redeemed, swaps, contract, lapsed, aged>>

\* No quote is left to issue within the bound.
NoQuote(h) ==
  /\ h.kind = "quote" /\ \A q \in CapQuotes : signedBy[q] # Unsigned
  /\ Respond(h, "refusal", h.quote, Unsigned) /\ UNCHANGED engine

\* restore_quote: what the book does not hold must come with a signature of this
\* run's and in time, and is put back unless a swap or this run has used it.
Restorable(q) == signed_by_me(signedBy[q]) /\ q \notin lapsed
Restored(q) ==
  IF q \in book \cup swaps \cup redeemed THEN book ELSE book \cup {q}

RefuseCommit(h) ==
  LET q == h.quote IN
  /\ h.kind = "commit" /\ h.pc = "new"
  /\ q \notin book
  /\ ~Restorable(q) \/ q \in redeemed \ swaps
  /\ Respond(h, "refusal", q, Unsigned) /\ UNCHANGED engine

\* An identical commit for a swap on record is answered from the record.
ReplaySwap(h) ==
  LET q == h.quote IN
  /\ h.kind = "commit" /\ h.pc = "new" /\ q \in swaps /\ Restorable(q)
  /\ MoveOn(h, "created", Unsigned) /\ UNCHANGED engine

take_valid_quote(h) ==
  LET q == h.quote IN
  /\ h.kind = "commit" /\ h.pc = "new" /\ q \notin swaps
  /\ q \in book \/ (Restorable(q) /\ q \in Restored(q))
  /\ book' = Restored(q) \ {q} /\ redeemed' = redeemed \cup {q}
  /\ MoveOn(h, "redeemed", Unsigned)
  /\ UNCHANGED <<signedBy, swaps, contract, lapsed, aged>>

PersistSwap(h) ==
  /\ h.kind = "commit" /\ h.pc = "redeemed" /\ swaps' = swaps \cup {h.quote}
  /\ MoveOn(h, "created", Unsigned)
  /\ UNCHANGED <<signedBy, book, redeemed, contract, lapsed, aged>>

\* stored_contract: the contract that is stored stands, or one is signed now.
stored_contract(h) ==
  LET q == h.quote IN
  /\ h.kind = "commit" /\ h.pc = "created"
  /\ IF contract[q] # Unsigned THEN Respond(h, "contract", q, contract[q])
     ELSE MoveOn(h, "signed", signer)
  /\ UNCHANGED engine

StoreContract_Overwrites(h) ==
  /\ h.kind = "commit" /\ h.pc = "signed"
  /\ contract' = [contract EXCEPT ![h.quote] = h.by]
  /\ Respond(h, "contract", h.quote, h.by)
  /\ UNCHANGED <<signedBy, book, redeemed, swaps, lapsed, aged>>

\* A second handler may have stored its contract since.
StoreContract(h) ==
  LET q == h.quote
      kept == IF contract[q] = Unsigned THEN h.by ELSE contract[q] IN
  /\ h.kind = "commit" /\ h.pc = "signed"
  /\ contract' = [contract EXCEPT ![q] = kept] /\ Respond(h, "contract", q, kept)
  /\ UNCHANGED <<signedBy, book, redeemed, swaps, lapsed, aged>>

AnswerStatus(h) ==
  LET q == h.quote IN
  /\ h.kind = "status"
  /\ IF q \in swaps THEN Respond(h, "status", q, contract[q])
     ELSE Respond(h, "refusal", q, Unsigned)
  /\ UNCHANGED engine

Work ==
  /\ \E h \in handlers :
       \/ sign_quote(h) \/ NoQuote(h) \/ RefuseCommit(h) \/ ReplaySwap(h)
       \/ take_valid_quote(h) \/ PersistSwap(h) \/ stored_contract(h)
       \/ StoreContract(h) \/ AnswerStatus(h)
  /\ UNCHANGED <<keyVars, client, ask, losses>>

\* Admission refuses the swap, or its time runs out.
CapAdmissionFails ==
  /\ \E h \in handlers : h.pc = "redeemed" /\ Respond(h, "refusal", h.quote, Unsigned)
  /\ Loss /\ UNCHANGED <<keyVars, engine, client, ask>>

Lapse(q) ==
  /\ signedBy[q] # Unsigned /\ q \notin lapsed /\ lapsed' = lapsed \cup {q}
  /\ book' = book \ {q} /\ redeemed' = redeemed \ {q}
  /\ UNCHANGED <<keyVars, signedBy, swaps, contract, aged, handlers, ask, reply, client, losses>>

\* Newer quotes fill the book.
EvictQuote(q) ==
  /\ q \in book /\ book' = book \ {q} /\ Loss
  /\ UNCHANGED <<keyVars, signedBy, redeemed, swaps, contract, lapsed, aged, handlers,
                 ask, reply, client>>

ProviderRestarts ==
  /\ PublisherRestarts /\ book' = {} /\ redeemed' = {} /\ handlers' = {}
  /\ aged' = {q \in CapQuotes : signedBy[q] # Unsigned}
  /\ Loss /\ UNCHANGED <<records, tool, keyFaults, signedBy, swaps, contract, lapsed,
                          ask, reply, client>>

-----------------------------------------------------------------------------
Keys ==
  /\ (\E t \in Tools : Setup(t)) \/ Overwrite \/ Publisher
  /\ UNCHANGED <<engine, handlers, ask, reply, client, losses>>

CapClientStep ==
  \/ AskQuote \/ (\E q \in CapQuotes : SendCommit(q) \/ AskStatus(q))
  \/ Receive \/ AbandonAsk \/ ClientRestarts

CapProviderStep ==
  \/ Work \/ CapAdmissionFails \/ ProviderRestarts
  \/ \E q \in CapQuotes : Lapse(q) \/ EvictQuote(q)

CapNext == Keys \/ CapClientStep \/ CapProviderStep

CapSpec == CapInit /\ [][CapNext]_capVars

\* The publisher's loop and the provider's handlers run, and a client that has
\* committed keeps asking for its swap.  Nothing is assumed of --paykit-setup.
FairCapSpec ==
  /\ CapSpec
  /\ WF_capVars(Keys /\ (sign_in \/ ensure_delegation \/ ensure_signer))
  /\ WF_capVars(Keys /\ NextCheck)
  /\ WF_capVars(Work) /\ WF_capVars(Receive) /\ WF_capVars(AbandonAsk)
  /\ \A q \in CapQuotes : SF_capVars(AskStatus(q))

-----------------------------------------------------------------------------
(* Properties.                                                             *)

CapTypeOK ==
  /\ {registry, authorization, delegation, signer} \subseteq 0..MaxGeneration
  /\ writer.pc \in {"none", "check", "write", "ready"}
  /\ \A t \in Tools : tool[t].pc \in {"idle", "registry", "authorize", "delegate"}
  /\ signedBy \in [CapQuotes -> {Unsigned} \cup 0..MaxGeneration]
  /\ contract \in [CapQuotes -> {Unsigned} \cup 0..MaxGeneration]
  /\ opened \in [CapQuotes -> {Plain, Unsigned} \cup 0..MaxGeneration]
  /\ book \cup redeemed \cup swaps \cup lapsed \cup aged \subseteq CapQuotes
  /\ proofs \cup commits \cup pending \cup refused \subseteq CapQuotes
  /\ trusted \subseteq Generations /\ keyFaults \in 0..MaxKeyFaults /\ losses \in 0..MaxLosses

\* However commits are repeated, handled at the same time and answered across
\* rotations and restarts, the client holds the contract that is stored with its
\* swap ("The first one stored stands").
ContractStands ==
  \A q \in CapQuotes : opened[q] >= 0 => opened[q] = contract[q]

\* What keeps a contract from a client for good: its signer was rotated away, an
\* interrupted setup keeps the publisher from restoring its delegation, or it is
\* unsigned and restore_quote no longer takes the commit's quote back.
OutOfReach(q) ==
  IF contract[q] # Unsigned
  THEN contract[q] # 0 /\ (contract[q] # authorization \/ ~is_healthy)
  ELSE ~Restorable(q) \/ q \notin commits

\* A client that keeps asking takes every swap its commits have created, with
\* the contract where it can still be had.
SwapReachesClient ==
  \A q \in CapQuotes :
    <>[](q \in swaps \cap pending => opened[q] # Unsigned \/ OutOfReach(q))
=============================================================================
