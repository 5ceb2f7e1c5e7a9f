-------------------------- MODULE EscrowRefinement --------------------------
(***************************************************************************)
(* The contract implements a conditional payment for every escrow.  The    *)
(* eleven states of the code are six phases of the payment; a shipment, a  *)
(* delivery, a vote, a rotation, a proposal or a setting is no step of it. *)
(***************************************************************************)
EXTENDS EscrowContract

phase(state) ==
    CASE state \in {"Absent", "Pending"} -> "Unfunded"
      [] state \in {"Funded", "Shipped", "RefundRequested"} -> "Held"
      [] state = "Disputed" -> "Contested"
      [] state = "PendingFinalization" -> "Decided"
      [] state = "Completed" -> "Released"
      [] state \in {"Refunded", "Canceled", "Expired"} -> "Returned"

(* A verdict counts while it waits for its appeal window; the fees are     *)
(* everybody's but the two sides'.                                         *)
payment_of(id) ==
    [phase |-> phase(escrow[id].state),
     verdict |-> IF escrow[id].state = "PendingFinalization"
                 THEN get_resolution(dispute[id].resolution) ELSE None,
     settled |-> dispute[id].fees_charged,
     deposit |-> ledger[id].deposited,
     to_buyer |-> ledger[id].to_buyer,
     to_payees |-> ledger[id].to_payees,
     fees |-> ledger[id].to_collector + ledger[id].to_resolver
                  + ledger[id].to_treasury]

Payment == INSTANCE ConditionalPayment
    WITH Payments <- Ids, Undecided <- None,
         payment <- [id \in Ids |-> payment_of(id)]

(* Whatever thirty entry points do in whatever order: a deposit is held    *)
(* until it goes to one side, whole but for fees that are settled once; a  *)
(* decided payment goes where the verdict says unless it is appealed or    *)
(* the buyer is refunded in full; and no step touches two escrows.         *)
ImplementsPayment == Payment!Spec
=============================================================================
