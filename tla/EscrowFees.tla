----------------------------- MODULE EscrowFees -----------------------------
(***************************************************************************)
(* The arithmetic of contracts/escrow/src/helpers/payout.rs and of         *)
(* distribute_to_payees in internal.rs: fees in basis points and the split *)
(* of a settlement between payees.  Amounts are i128 in the code and every *)
(* operation is checked, so an operation either returns the mathematical   *)
(* result or the call reverts; integers are unbounded here.                *)
(***************************************************************************)
EXTENDS Integers, Sequences

BASIS_POINTS == 10000
MAX_ESCROW_FEE_BPS == 300
MAX_ARBITRATION_FEE_BPS == 500
MAX_PROTOCOL_FEE_BPS == 500
MAX_COMBINED_FEE_BPS == 1000
MAX_PLATFORM_FEE_BPS == 200
MIN_APPEAL_FEE_BPS == 10
MAX_APPEAL_FEE_BPS == 500
MAX_PAYEES == 10
MAX_BASKET_SIZE == 20
MIN_MAX_APPEALS == 1
MAX_MAX_APPEALS == 10

(* Mutant of calculate_fee: the remainder modulo 10000 pays no fee.        *)
fee_of_whole_units(amount, fee_bps) == (amount \div BASIS_POINTS) * fee_bps

(* The split form the code uses to keep amount * fee_bps inside an i128.   *)
calculate_fee(amount, fee_bps) ==
    (amount \div BASIS_POINTS) * fee_bps
        + ((amount % BASIS_POINTS) * fee_bps) \div BASIS_POINTS

(* helpers::payout::payout skips amounts that are not positive.            *)
payout(amount) == IF amount > 0 THEN amount ELSE 0

(* Mutants of payee_share: rounded up; divided before it is multiplied.    *)
share_rounded_up(amount, bps) == (amount * bps + BASIS_POINTS - 1) \div BASIS_POINTS
share_of_whole_units(amount, bps) == (amount \div BASIS_POINTS) * bps

(* The floored share of one payee other than the primary one.              *)
payee_share(amount, bps) == (amount * bps) \div BASIS_POINTS

(* What payees[1..N-1] of the code (2..N here) receive together.           *)
co_payee_total(amount, payees) ==
    LET total[n \in 0..Len(payees)] ==
            IF n <= 1 THEN 0
            ELSE total[n - 1] + payout(payee_share(amount, payees[n].bps))
    IN  total[Len(payees)]

(* Mutant of primary_payee_share: the primary share is floored like the    *)
(* others, so the dust stays behind.                                       *)
primary_share_floored(amount, payees) == payee_share(amount, payees[1].bps)

(* The primary payee receives everything that is left.                     *)
primary_payee_share(amount, payees) ==
    amount - co_payee_total(amount, payees)

(* All that distribute_to_payees moves out of the contract.                *)
distribute_to_payees(amount, payees) ==
    co_payee_total(amount, payees) + payout(primary_payee_share(amount, payees))

bps_total(payees) ==
    LET total[n \in 0..Len(payees)] ==
            IF n = 0 THEN 0 ELSE total[n - 1] + payees[n].bps
    IN  total[Len(payees)]

validate_payees(payees) ==
    /\ Len(payees) \in 1..MAX_PAYEES
    /\ bps_total(payees) = BASIS_POINTS

validate_appeal_fee_bps(fee_bps) ==
    fee_bps = 0 \/ fee_bps \in MIN_APPEAL_FEE_BPS..MAX_APPEAL_FEE_BPS
=============================================================================
