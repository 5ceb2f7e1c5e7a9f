--------------------------- MODULE EscrowDisputes ---------------------------
(***************************************************************************)
(* Disputes (disputes.rs, resolve_or_vote_internal of lib.rs and the vote  *)
(* helpers of internal.rs).  A dispute is raised by the buyer, decided by  *)
(* the resolvers' votes, by the majority of a deadlocked vote or by        *)
(* timeout, may be appealed while its window is open, and is paid out by   *)
(* finalize_dispute.                                                       *)
(***************************************************************************)
EXTENDS EscrowState

-----------------------------------------------------------------------------
(* Votes: a sequence with at most one entry per resolver.                  *)

votes_for(v, r) == Cardinality({i \in DOMAIN v : v[i].resolution = r})

(* Mutant of add_or_update_vote: every call appends.                       *)
append_vote(v, resolver, r) ==
    Append(v, [resolver |-> resolver, resolution |-> r])

(* A resolver's earlier vote is changed in place, a first one is appended. *)
add_or_update_vote(v, resolver, r) ==
    IF \E i \in DOMAIN v : v[i].resolver = resolver
    THEN [i \in DOMAIN v |->
            IF v[i].resolver = resolver THEN [v[i] EXCEPT !.resolution = r] ELSE v[i]]
    ELSE Append(v, [resolver |-> resolver, resolution |-> r])

(* Mutant of tally_votes: one vote short of the threshold is enough.       *)
tally_one_short(v, needed) ==
    CASE votes_for(v, "Release") + 1 >= needed -> "Release"
      [] /\ votes_for(v, "Release") + 1 < needed
         /\ votes_for(v, "Refund") + 1 >= needed -> "Refund"
      [] OTHER -> None

(* Release is tried first; None when neither side has enough votes.        *)
tally_votes(v, needed) ==
    CASE votes_for(v, "Release") >= needed -> "Release"
      [] /\ votes_for(v, "Release") < needed
         /\ votes_for(v, "Refund") >= needed -> "Refund"
      [] OTHER -> None

(* A tie goes to the buyer.                                                *)
tally_votes_majority(v) ==
    IF votes_for(v, "Release") > votes_for(v, "Refund") THEN "Release" ELSE "Refund"

(* The first resolver whose vote matches: the one a deadlock credits.      *)
voter_for(v, r) ==
    LET first == CHOOSE i \in DOMAIN v :
                    /\ v[i].resolution = r
                    /\ \A j \in DOMAIN v : v[j].resolution = r => i <= j
    IN  v[first].resolver

buyer_and_seller(e) == {e.buyer, primary_payee(e)}
-----------------------------------------------------------------------------
(* Mutant of first_charge: recorded zero fees are taken for "not yet       *)
(* charged".                                                               *)
no_fee_recorded(d) == d.arbitration_fee = 0 /\ d.resolver_fee = 0

(* Whether this dispute may still be charged its fees.                     *)
first_charge(d) == ~d.fees_charged

(* execute_resolution_transition: the dispute is decided and waits for its *)
(* appeal window.  The fees are charged to the principal in the first      *)
(* round only; a forced refund charges nothing but closes the question.    *)
execute_resolution_transition(id, caller, r, v, charge_fees) ==
    LET e == escrow[id]
        d == dispute[id]
        charged_now == first_charge(d) /\ charge_fees
        arbitration_fee == calculate_fee(e.amount, config.arbitration_fee_bps)
        resolver_fee == calculate_fee(e.amount, e.resolver_fee_bps)
        decided == [d EXCEPT !.resolution = resolution_code(r),
                             !.resolved_by = caller, !.resolved_at = now,
                             !.fees_charged = TRUE]
    IN  /\ now >= d.disputed_at
        /\ save_resolver_votes(id, v)
        /\ \/ /\ charged_now
              /\ arbitration_fee + resolver_fee <= e.amount
              /\ save_escrow(id, [e EXCEPT
                    !.state = "PendingFinalization",
                    !.amount = @ - arbitration_fee - resolver_fee])
              /\ save_dispute(id, [decided EXCEPT
                    !.arbitration_fee = arbitration_fee,
                    !.resolver_fee = resolver_fee])
              /\ counters' = [counters EXCEPT
                    !.arbitration_fees = @ + arbitration_fee]
              /\ book(id, [ledger[id] EXCEPT
                    !.to_collector = @ + payout(arbitration_fee),
                    !.to_resolver = @ + payout(resolver_fee)])
           \/ /\ ~charged_now
              /\ move_to(id, "PendingFinalization")
              /\ save_dispute(id,
                    IF d.fees_charged THEN decided
                    ELSE [decided EXCEPT !.arbitration_fee = 0, !.resolver_fee = 0])
              /\ UNCHANGED <<counters, ledger>>
        /\ UNCHANGED <<creation_vars, proposal, pending_expiry>>
-----------------------------------------------------------------------------
(* Mutant of raise_dispute: the delivery proposal is left behind.          *)
raise_dispute_keeping_proposal(caller, id) ==
    LET e == escrow[id]
    IN  /\ ensure_action_not_paused("raise_dispute")
        /\ caller = e.buyer
        /\ e.state \in {"Funded", "Shipped"}
        /\ now < e.dispute_deadline
        /\ move_to(id, "Disputed")
        /\ save_dispute(id, [NoDispute EXCEPT !.status = "Active",
                                              !.disputed_at = now])
        /\ record_escrow_disputed
        /\ UNCHANGED <<creation_vars, votes, proposal, pending_expiry, ledger>>

raise_dispute(caller, id) ==
    LET e == escrow[id]
    IN  /\ ensure_action_not_paused("raise_dispute")
        /\ caller = e.buyer
        /\ e.state \in {"Funded", "Shipped"}
        /\ now < e.dispute_deadline
        /\ move_to(id, "Disputed")
        /\ save_dispute(id, [NoDispute EXCEPT !.status = "Active",
                                              !.disputed_at = now])
        /\ clear_delivery_proposal(id)
        /\ record_escrow_disputed
        /\ UNCHANGED <<creation_vars, votes, pending_expiry, ledger>>

(* resolve_dispute and its alias vote.                                     *)
resolve_or_vote(caller, id, r) ==
    LET e == escrow[id]
        v == add_or_update_vote(votes[id], caller, r)
        final_resolution == tally_votes(v, threshold(e.resolvers))
    IN  /\ ensure_action_not_paused("RESOLVE")
        /\ e.state = "Disputed"
        /\ can_resolve_now(e.resolvers, caller)
        /\ \/ /\ final_resolution # None
              /\ execute_resolution_transition(id, caller, final_resolution, v, TRUE)
           \/ /\ final_resolution = None
              /\ save_resolver_votes(id, v)
              /\ UNCHANGED <<creation_vars, escrow, dispute, proposal,
                             pending_expiry, counters, ledger>>

(* Majority of a vote that stalled below its threshold.  Callable by       *)
(* anyone; the window runs from the day the dispute was raised.            *)
resolve_deadlocked_dispute(id) ==
    LET v == votes[id]
        r == tally_votes_majority(v)
    IN  /\ ensure_action_not_paused("resolve_deadlocked_dispute")
        /\ escrow[id].state = "Disputed"
        /\ now >= dispute[id].disputed_at + DISPUTE_DEADLOCK_WINDOW
        /\ v # <<>>
        /\ tally_votes(v, threshold(escrow[id].resolvers)) = None
        /\ execute_resolution_transition(id, voter_for(v, r), r, v, TRUE)

(* Mutant of claim_dispute_timeout: only while no resolver has voted.      *)
claim_timeout_without_votes(caller, id) ==
    /\ ensure_action_not_paused("claim_dispute_timeout")
    /\ escrow[id].state = "Disputed"
    /\ votes[id] = <<>>
    /\ caller \in buyer_and_seller(escrow[id])
    /\ now >= dispute[id].disputed_at + config.dispute_timeout
    /\ execute_resolution_transition(id, caller, "Refund", votes[id], FALSE)

(* Forced refund; this deadline runs from the same day too, across appeals. *)
claim_dispute_timeout(caller, id) ==
    /\ ensure_action_not_paused("claim_dispute_timeout")
    /\ escrow[id].state = "Disputed"
    /\ caller \in buyer_and_seller(escrow[id])
    /\ now >= dispute[id].disputed_at + config.dispute_timeout
    /\ execute_resolution_transition(id, caller, "Refund", votes[id], FALSE)

(* Mutant of appeal_dispute: the fees of the first round are given back to *)
(* the amount although they have left the contract.                        *)
appeal_restoring_fees(caller, id) ==
    LET e == escrow[id]
        d == dispute[id]
        appeal_fee == calculate_fee(e.amount, config.appeal_fee_bps)
    IN  /\ ensure_action_not_paused("appeal_dispute")
        /\ e.state = "PendingFinalization"
        /\ d.appeal_count < config.max_appeals
        /\ now < d.resolved_at + APPEAL_WINDOW
        /\ caller \in buyer_and_seller(e)
        /\ save_escrow(id, [e EXCEPT !.state = "Disputed",
                  !.amount = @ + d.arbitration_fee + d.resolver_fee])
        /\ save_dispute(id, [d EXCEPT !.status = "Active", !.resolution = 0,
                                      !.resolved_by = None, !.resolved_at = 0,
                                      !.appeal_count = @ + 1])
        /\ save_resolver_votes(id, <<>>)
        /\ book(id, [ledger[id] EXCEPT !.appeal_fees = @ + payout(appeal_fee)])
        /\ UNCHANGED <<creation_vars, proposal, pending_expiry, counters>>

(* A new round: the resolution and the votes are dropped, the fees and the *)
(* day the dispute was raised are kept.  The appellant pays from outside   *)
(* the escrow.                                                             *)
appeal_dispute(caller, id) ==
    LET e == escrow[id]
        d == dispute[id]
        appeal_fee == calculate_fee(e.amount, config.appeal_fee_bps)
    IN  /\ ensure_action_not_paused("appeal_dispute")
        /\ e.state = "PendingFinalization"
        /\ d.appeal_count < config.max_appeals
        /\ now < d.resolved_at + APPEAL_WINDOW
        /\ caller \in buyer_and_seller(e)
        /\ move_to(id, "Disputed")
        /\ save_dispute(id, [d EXCEPT !.status = "Active", !.resolution = 0,
                                      !.resolved_by = None, !.resolved_at = 0,
                                      !.appeal_count = @ + 1])
        /\ save_resolver_votes(id, <<>>)
        /\ book(id, [ledger[id] EXCEPT !.appeal_fees = @ + payout(appeal_fee)])
        /\ UNCHANGED <<creation_vars, proposal, pending_expiry, counters>>

(* The fees settled at finalization are a share of the principal as it was *)
(* funded, reconstructed from the fees recorded in the dispute.            *)
fee_basis(id) ==
    escrow[id].amount + dispute[id].arbitration_fee + dispute[id].resolver_fee

platform_fee(id) == calculate_fee(fee_basis(id), config.platform_fee_bps)

protocol_fee(id) == calculate_fee(fee_basis(id), escrow[id].fee_bps)

(* Mutant of payout_amount: the winner's share is cut from the principal,  *)
(* as if the fees of the decision had not been paid yet.                   *)
payout_of_principal(id) == fee_basis(id) - platform_fee(id) - protocol_fee(id)

payout_amount(id) == escrow[id].amount - platform_fee(id) - protocol_fee(id)

(* Mutant of may_finalize: an appealed dispute is not paid out.            *)
may_finalize_unless_appealed(id) ==
    /\ now >= dispute[id].resolved_at + APPEAL_WINDOW
    /\ dispute[id].appeal_count < config.max_appeals

may_finalize(id) == now >= dispute[id].resolved_at + APPEAL_WINDOW

finalize_dispute(id) ==
    LET e == escrow[id]
        d == dispute[id]
        paid == payout(payout_amount(id))
        after_fees == [ledger[id] EXCEPT
                          !.to_treasury = @ + payout(platform_fee(id)),
                          !.to_collector = @ + payout(protocol_fee(id))]
    IN  /\ ensure_action_not_paused("finalize_dispute")
        /\ e.state = "PendingFinalization"
        /\ d.resolved_by # None
        /\ may_finalize(id)
        /\ platform_fee(id) > 0 => Treasury # None
        /\ save_dispute(id, [d EXCEPT !.status = "Resolved"])
        /\ \/ /\ get_resolution(d.resolution) = "Release"
              /\ move_to(id, "Completed")
              /\ record_escrow_completed
              /\ book(id, [after_fees EXCEPT !.to_payees = @ + paid,
                                             !.basket_to_seller = @ + e.basket])
           \/ /\ get_resolution(d.resolution) = "Refund"
              /\ move_to(id, "Refunded")
              /\ record_escrow_refunded
              /\ book(id, [after_fees EXCEPT !.to_buyer = @ + paid,
                                             !.basket_to_buyer = @ + e.basket])
        /\ UNCHANGED <<creation_vars, votes, proposal, pending_expiry>>

(* Admin override: the buyer is refunded whatever was decided.  The code   *)
(* casts the enum, so the record gets the discriminant of Refund.          *)
cancel_pending_finalization(caller, id) ==
    /\ ensure_action_not_paused("cancel_pending_finalization")
    /\ caller = Admin
    /\ escrow[id].state = "PendingFinalization"
    /\ move_to(id, "Refunded")
    /\ record_escrow_refunded
    /\ save_dispute(id, [dispute[id] EXCEPT
          !.status = "Resolved", !.resolved_by = caller,
          !.resolution = REFUND_DISCRIMINANT, !.resolved_at = now])
    /\ pay_buyer_in_full(id)
    /\ UNCHANGED <<creation_vars, votes, proposal, pending_expiry>>
-----------------------------------------------------------------------------
(* One transaction on a disputed escrow.                                   *)
Dispute ==
    \E id \in Ids :
        \/ resolve_deadlocked_dispute(id)
        \/ finalize_dispute(id)
        \/ \E caller \in Address :
              \/ raise_dispute(caller, id)
              \/ \E r \in Resolution : resolve_or_vote(caller, id, r)
              \/ claim_dispute_timeout(caller, id)
              \/ appeal_dispute(caller, id)
              \/ cancel_pending_finalization(caller, id)
=============================================================================
