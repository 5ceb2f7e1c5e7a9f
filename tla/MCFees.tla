------------------------------- MODULE MCFees -------------------------------
(***************************************************************************)
(* The fee arithmetic compared with what it is meant to compute, for every *)
(* amount of a few ranges around the multiples of 10000, every rate the    *)
(* contract accepts at its limits, and payee lists of one to three.        *)
(***************************************************************************)
EXTENDS EscrowFees

VARIABLES amount, fee_bps, payees

pay(list) == [i \in DOMAIN list |-> [bps |-> list[i]]]

(* Amounts start at one of these and grow by Span.                         *)
Starts == {0, 9990, 19995, 123450}
Span == 25
Rates == {0, 1, 10, 200, 299, 300, 500, 3333, 9999}
PayeeLists == {pay(<<10000>>), pay(<<5000, 5000>>), pay(<<1, 9999>>),
               pay(<<0, 10000>>), pay(<<10000, 0>>), pay(<<3333, 3333, 3334>>),
               pay(<<1, 4999, 5000>>)}

Init ==
    /\ amount \in Starts
    /\ fee_bps \in Rates
    /\ payees \in PayeeLists

Next ==
    /\ \E s \in Starts : amount \in s..(s + Span - 1)
    /\ amount' = amount + 1
    /\ UNCHANGED <<fee_bps, payees>>

Spec == Init /\ [][Next]_<<amount, fee_bps, payees>>
-----------------------------------------------------------------------------
(* The split form of calculate_fee returns floor(amount * bps / 10000),    *)
(* the result of the single multiplication that could overflow an i128.    *)
FeeIsFloor ==
    calculate_fee(amount, fee_bps) = (amount * fee_bps) \div BASIS_POINTS

(* Every list used is one the contract accepts, and distribute_to_payees   *)
(* moves exactly the amount it is given: no dust stays in the contract.    *)
SplitIsExact ==
    validate_payees(payees) /\ distribute_to_payees(amount, payees) = amount

(* The primary payee never gets less than its exact share and gains less   *)
(* than one stroop per other payee by the rounding.                        *)
DustIsBounded ==
    LET bias == BASIS_POINTS * primary_payee_share(amount, payees)
                    - amount * payees[1].bps
    IN  bias = 0 \/ (0 < bias /\ bias < BASIS_POINTS * (Len(payees) - 1))
=============================================================================
