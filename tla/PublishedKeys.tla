---------------------------- MODULE PublishedKeys ----------------------------
(***************************************************************************)
(* The keys a provider's identity publishes at its homeserver: the App       *)
(* Registry entry, the Noise Key Authorization and the delegation to the     *)
(* capability signing key, each for one key generation; --paykit-setup,     *)
(* which writes all three; the provider's descriptor publisher, which keeps  *)
(* the delegation current and moves the signer; and readers of the chain.    *)
(*                                                                          *)
(* All keys derive from one identity secret, so a record is its generation, *)
(* 0 for a record that is absent, and a signer is the generation of its      *)
(* capability signing key, 0 for the identity key.  A Tool is one run of     *)
(* --paykit-setup, by whoever holds the secret.  MaxKeyFaults bounds failed  *)
(* calls, tools that die and other applications' writes, together.          *)
(***************************************************************************)
EXTENDS Naturals, Sequences, FiniteSets

CONSTANTS Tools, MaxGeneration, MaxKeyFaults

ASSUME PublishedKeysAssumption == MaxGeneration \in Nat \ {0} /\ MaxKeyFaults \in Nat

VARIABLES
  registry, authorization, delegation,
  tool,     \* per tool: [pc, generation, current]
  writer,   \* the publisher's session: [pc, generation]
  signer,   \* what the provider signs quotes, contracts and descriptors with
  ownKeys,  \* every key this run has signed with that it still takes back
  keyFaults

records == <<registry, authorization, delegation>>
publisher == <<writer, signer, ownKeys>>
keyVars == <<records, publisher, tool, keyFaults>>

-----------------------------------------------------------------------------
Generations == 1..MaxGeneration
NoTool == [pc |-> "idle", generation |-> 0, current |-> 0]
NoWriter == [pc |-> "none", generation |-> 0]

KeysInit ==
  /\ registry = 0 /\ authorization = 0 /\ delegation = 0
  /\ tool = [t \in Tools |-> NoTool]
  /\ writer = NoWriter /\ signer = 0 /\ ownKeys = <<0>> /\ keyFaults = 0

KeyFault == keyFaults < MaxKeyFaults /\ keyFaults' = keyFaults + 1

-----------------------------------------------------------------------------
(* 1. --paykit-setup: sign_in_and_setup and setup.                         *)

Move(t, pc) == tool' = [tool EXCEPT ![t].pc = pc]
End(t) == tool' = [tool EXCEPT ![t] = NoTool]

\* Any generation may be asked for; with none given it is the published one or
\* the first.  Generations go up one at a time, and never back.
ReadAuthorization(t) ==
  /\ tool[t].pc = "idle"
  /\ \E g \in Generations :
       /\ authorization = 0 \/ g \in {authorization, authorization + 1}
       /\ tool' = [tool EXCEPT ![t] = [pc |-> "registry", generation |-> g,
                                       current |-> authorization]]
  /\ UNCHANGED <<records, publisher, keyFaults>>

\* The update names the revision it was made from, so it is one step or fails.
publish_registry(t) ==
  LET g == tool[t].generation IN
  /\ tool[t].pc = "registry"
  /\ IF registry \in {0, g, g - 1}
     THEN registry' = g /\ Move(t, "authorize")
     ELSE UNCHANGED registry /\ End(t)
  /\ UNCHANGED <<authorization, delegation, publisher, keyFaults>>

\* paykit-rs refuses a generation that is neither the published one nor the next.
Publishable(g) == authorization = 0 \/ g \in {authorization, authorization + 1}

PublishAuthorization(t) ==
  LET g == tool[t].generation
      approved == tool[t].current = g IN
  /\ tool[t].pc = "authorize"
  /\ authorization' = IF ~approved /\ Publishable(g) THEN g ELSE authorization
  /\ IF approved \/ Publishable(g) THEN Move(t, "delegate") ELSE End(t)
  /\ UNCHANGED <<registry, delegation, publisher, keyFaults>>

\* Every application writes the same bytes for one generation.
publish_delegation(g) == delegation' = g

PublishDelegation(t) ==
  /\ tool[t].pc = "delegate" /\ publish_delegation(tool[t].generation) /\ End(t)
  /\ UNCHANGED <<registry, authorization, publisher, keyFaults>>

\* The tool is stopped, or a call fails.
SetupFails(t) ==
  /\ tool[t].pc # "idle" /\ End(t) /\ KeyFault
  /\ UNCHANGED <<records, publisher>>

Setup(t) ==
  \/ ReadAuthorization(t) \/ publish_registry(t)
  \/ PublishAuthorization(t) \/ PublishDelegation(t) \/ SetupFails(t)

\* Another application of the identity leaves an older delegation, or none.
Overwrite ==
  /\ \E g \in 0..MaxGeneration : g < authorization /\ delegation' = g
  /\ KeyFault /\ UNCHANGED <<registry, authorization, publisher, tool>>

-----------------------------------------------------------------------------
(* 2. The provider: spawn_descriptor_publisher and ensure_signer.          *)

is_healthy == authorization # 0 /\ registry = authorization

\* DescriptorWriter::sign_in
sign_in ==
  /\ writer.pc = "none" /\ is_healthy
  /\ writer' = [pc |-> "check", generation |-> authorization]
  /\ UNCHANGED <<records, signer, ownKeys, tool, keyFaults>>

\* ensure_delegation reads the authorization again before it writes.
ensure_delegation ==
  /\ writer.pc = "check"
  /\ writer' = IF authorization = writer.generation
               THEN [writer EXCEPT !.pc = "write"] ELSE NoWriter
  /\ UNCHANGED <<records, signer, ownKeys, tool, keyFaults>>

\* The identity key and the last two capability signing keys stay own.
set_signer(g) ==
  /\ signer' = g
  /\ ownKeys' = IF signer = g THEN ownKeys
                ELSE LET own == SelectSeq(ownKeys, LAMBDA k : k # g) \o <<g>> IN
                     IF Len(own) > 3 THEN <<own[1]>> \o Tail(Tail(own)) ELSE own

ensure_signer ==
  /\ writer.pc = "write" /\ publish_delegation(writer.generation)
  /\ set_signer(writer.generation) /\ writer' = [writer EXCEPT !.pc = "ready"]
  /\ UNCHANGED <<registry, authorization, tool, keyFaults>>

\* The write may have reached the homeserver.
EnsureFails ==
  /\ writer.pc = "write" /\ writer' = NoWriter
  /\ delegation' \in {delegation, writer.generation}
  /\ KeyFault /\ UNCHANGED <<registry, authorization, signer, ownKeys, tool>>

\* DELEGATION_CHECK is over, or there is an offer to describe.
NextCheck ==
  /\ writer.pc = "ready" /\ writer' = [writer EXCEPT !.pc = "check"]
  /\ UNCHANGED <<records, signer, ownKeys, tool, keyFaults>>

\* The session has grown old, or the attempt has failed.
DropWriter ==
  /\ writer.pc # "none" /\ writer' = NoWriter
  /\ UNCHANGED <<records, signer, ownKeys, tool>> /\ KeyFault

Publisher ==
  sign_in \/ ensure_delegation \/ ensure_signer \/ EnsureFails \/ NextCheck
  \/ DropWriter

\* Another run of the provider starts with the identity key.
PublisherRestarts == writer' = NoWriter /\ signer' = 0 /\ ownKeys' = <<0>>

signed_by_me(k) == \E i \in 1..Len(ownKeys) : ownKeys[i] = k

-----------------------------------------------------------------------------
(* 3. Readers: resolve_signing_key.                                        *)

\* The delegation is good only under the authorization of its generation.
resolve_signing_key(k) == k # 0 /\ authorization = k /\ delegation = k
=============================================================================
