---------------------------- MODULE HtlcContract ----------------------------
(***************************************************************************)
(* The HTLC output of a swap: the two contracts the provider can make, who  *)
(* can spend one and when, what a spend weighs and what it may cost.         *)
(*                                                                          *)
(* A party stands for its key and a hash for its preimage.  An address, a    *)
(* script and a Taproot commitment determine the contract they stand for     *)
(* (hashes do not collide), so a contract is compared as a whole.           *)
(***************************************************************************)
EXTENDS Integers

Scripts == {"P2wsh", "TaprootBoltz"}

\* build_htlc_script, under its P2WSH address.
htlc_p2wsh(hash, claim, refund, timeout) ==
  [script |-> "P2wsh", claim |-> [key |-> claim, hash |-> hash],
   refund |-> [key |-> refund, height |-> timeout], internal_key |-> <<>>]

\* The provider's key comes first in the aggregate, in both directions.
aggregate_internal_key(direction, claim, refund) ==
  IF direction = "submarine" THEN <<claim, refund>> ELSE <<refund, claim>>

BoltzTaprootSwap(direction, hash, claim, refund, timeout) ==
  [script |-> "TaprootBoltz", claim |-> [key |-> claim, hash |-> hash],
   refund |-> [key |-> refund, height |-> timeout],
   internal_key |-> aggregate_internal_key(direction, claim, refund)]

\* Heights end where Bitcoin reads a lock time as a date.
MaxLockHeight == 499999999
validate_parameters(claim, refund, timeout) ==
  claim # refund /\ timeout \in 1..MaxLockHeight

claimer(direction) == IF direction = "reverse" THEN "client" ELSE "provider"
refunder(direction) == IF direction = "reverse" THEN "provider" ELSE "client"

\* As the provider builds it for a new swap, and as a client derives it from the
\* accepted fields alone.
contract(script, direction, hash, timeout) ==
  LET claim == claimer(direction)
      refund == refunder(direction) IN
  IF script = "P2wsh" THEN htlc_p2wsh(hash, claim, refund, timeout)
  ELSE BoltzTaprootSwap(direction, hash, claim, refund, timeout)

verify_contract(sent, script, direction, hash, timeout) ==
  /\ sent.script = script
  /\ script = "TaprootBoltz" =>
       validate_parameters(claimer(direction), refunder(direction), timeout)
  /\ sent = contract(script, direction, hash, timeout)

\* A resumed driver works on the contract that the counterparty was sent.
validate_persisted_contract(kept, accepted, direction, hash) ==
  kept.script = "TaprootBoltz" =>
    /\ accepted = kept
    /\ kept = contract("TaprootBoltz", direction, hash, kept.refund.height)

-----------------------------------------------------------------------------
(* Spends.                                                                 *)

\* A refund carries the contract's timeout as its lock time, a claim none.
lock_time(c, path) == IF path = "refund" THEN c.refund.height ELSE 0

unsigned_spend(c, path, key, preimage, value) ==
  [path |-> path, key |-> key, preimage |-> preimage,
   lock_time |-> lock_time(c, path), value |-> value]

\* What Bitcoin asks of a spend in the next block.
Satisfies(c, spend, height) ==
  /\ spend.lock_time <= height
  /\ \/ /\ spend.path = "claim" /\ spend.key = c.claim.key
        /\ spend.preimage = c.claim.hash
     \/ /\ spend.path = "refund" /\ spend.key = c.refund.key
        /\ spend.lock_time >= c.refund.height

\* The preimage that a spend reveals.
extract_preimage(c, spend) == spend.path = "claim" /\ spend.preimage = c.claim.hash

\* Bytes of the scripts, with a timeout of three bytes.
P2wshScript == 114
ClaimLeaf(direction) == IF direction = "reverse" THEN 61 ELSE 57
RefundLeaf == 39
ControlBlock == 65

\* Item counts and lengths included.
Witness(script, direction, path) ==
  IF script = "P2wsh"
  THEN 1 + 73 + 1 + P2wshScript + (IF path = "claim" THEN 33 + 2 ELSE 1)
  ELSE 1 + 65 + (1 + ControlBlock) +
         (IF path = "claim" THEN 33 + 1 + ClaimLeaf(direction) ELSE 1 + RefundLeaf)

\* To a P2WPKH destination; rounded up.
spend_vsize(script, direction, path) ==
  LET base == 4 + 1 + 36 + 1 + 4 + 1 + 8 + 1 + 22 + 4 IN
  (4 * base + Witness(script, direction, path) + 2 + 3) \div 4

-----------------------------------------------------------------------------
(* Fees, in sat and sat/vB.                                                *)

CLAIM_FEE_TARGET_BLOCKS == 3
REFUND_FEE_TARGET_BLOCKS == 6
ABSOLUTE_MAX_FEE_RATE_SAT_VB == 1000
DEFAULT_MAX_FEE_BPS == 2000
DUST_THRESHOLD == 546

Larger(a, b) == IF a > b THEN a ELSE b
Smaller(a, b) == IF a < b THEN a ELSE b

\* An estimate of 0 stands for none.
resolve_fee_rate(estimate, floor, cap) ==
  Smaller(Larger(IF estimate = 0 THEN floor ELSE estimate, floor), Larger(cap, floor))

fee_rate_cap_Absolute(value, vsize, floor) == Larger(ABSOLUTE_MAX_FEE_RATE_SAT_VB, floor)

fee_rate_cap(value, vsize, floor) ==
  Larger(Smaller(((value * DEFAULT_MAX_FEE_BPS) \div 10000) \div Larger(vsize, 1),
                 ABSOLUTE_MAX_FEE_RATE_SAT_VB), floor)

target_for_remaining(remaining) ==
  CASE remaining <= 3 -> 1 [] remaining \in 4..9 -> 2 [] remaining \in 10..19 -> 3
    [] remaining \in 20..49 -> 6 [] remaining >= 50 -> 12

\* At least a quarter more than the spend it replaces, and everything there is in
\* the last two blocks.  NoDeadline is a refund's; estimate is a function of the target.
NoDeadline == 0
deadline_fee_rate(height, deadline, previous, estimate, floor, cap) ==
  LET ceiling == Larger(cap, floor)
      min_bump == Larger(previous + previous \div 4 + 1, floor)
      remaining == IF deadline = NoDeadline THEN 100
                   ELSE Larger(deadline - height, 0) IN
  IF remaining <= 2 THEN ceiling
  ELSE Smaller(Larger(estimate[target_for_remaining(remaining)], min_bump), ceiling)

\* The builders refuse a fee of nothing in Taproot, and an output that is dust.
CanBuild(script, value, fee) ==
  /\ value - fee >= DUST_THRESHOLD
  /\ script = "TaprootBoltz" => fee > 0
=============================================================================
