------------------------- MODULE ConditionalPayment -------------------------
(***************************************************************************)
(* What an escrow promises to the people who use it, without saying how:   *)
(* a payment is held until it goes to one side, whole but for the fees.    *)
(* Payments do not know of each other.                                     *)
(*                                                                         *)
(* A step relates a payment p to the payment q it becomes.                 *)
(***************************************************************************)
EXTENDS Integers

CONSTANTS
    Payments,   \* the payments there are
    Undecided   \* no verdict

VARIABLE payment

New == [phase |-> "Unfunded", verdict |-> Undecided, settled |-> FALSE,
        deposit |-> 0, to_buyer |-> 0, to_payees |-> 0, fees |-> 0]

Init == payment = [id \in Payments |-> New]

(* What of the deposit has not been paid to anyone.                        *)
held(p) == p.deposit - p.to_buyer - p.to_payees - p.fees

(* Some of what is held may go into fees, never more.                      *)
charged(p, q) == q.fees - p.fees \in 0..held(p)

Fund(p, q) ==
    /\ p.phase = "Unfunded"
    /\ q.deposit > 0
    /\ q = [p EXCEPT !.phase = "Held", !.deposit = q.deposit]

Contest(p, q) ==
    /\ p.phase = "Held"
    /\ q = [p EXCEPT !.phase = "Contested"]

(* The fees of the decision are settled by the first one.                  *)
Decide(p, q) ==
    /\ p.phase = "Contested"
    /\ q.verdict \in {"Release", "Refund"}
    /\ charged(p, q)
    /\ p.settled => q.fees = p.fees
    /\ q = [p EXCEPT !.phase = "Decided", !.verdict = q.verdict,
                     !.settled = TRUE, !.fees = q.fees]

Appeal(p, q) ==
    /\ p.phase = "Decided"
    /\ q = [p EXCEPT !.phase = "Contested", !.verdict = Undecided]

(* Everything that is held leaves: the fees, and the rest to one side.     *)
Release(p, q) ==
    /\ \/ p.phase = "Held"
       \/ p.phase = "Decided" /\ p.verdict = "Release"
    /\ charged(p, q)
    /\ q = [p EXCEPT !.phase = "Released", !.verdict = Undecided, !.fees = q.fees,
                     !.to_payees = held(p) - (q.fees - p.fees)]

Refund(p, q) ==
    /\ p.phase = "Decided" /\ p.verdict = "Refund"
    /\ charged(p, q)
    /\ q = [p EXCEPT !.phase = "Returned", !.verdict = Undecided, !.fees = q.fees,
                     !.to_buyer = held(p) - (q.fees - p.fees)]

(* The buyer gets back all there is, by agreement or in an emergency.      *)
Return(p, q) ==
    /\ p.phase \in {"Unfunded", "Held", "Contested", "Decided"}
    /\ q = [p EXCEPT !.phase = "Returned", !.verdict = Undecided,
                     !.to_buyer = held(p)]

Step(p, q) ==
    \/ Fund(p, q)
    \/ Contest(p, q)
    \/ Decide(p, q)
    \/ Appeal(p, q)
    \/ Release(p, q)
    \/ Refund(p, q)
    \/ Return(p, q)

Next ==
    \E id \in Payments :
        /\ Step(payment[id], payment'[id])
        /\ payment' = [payment EXCEPT ![id] = payment'[id]]

Spec == Init /\ [][Next]_payment
=============================================================================
