----------------------------- MODULE EscrowTrade -----------------------------
(***************************************************************************)
(* The trade itself (instructions.rs): an escrow is created, funded,       *)
(* shipped, delivered and settled, or it is cancelled, refunded or         *)
(* reclaimed.  Nothing here is decided by a resolver; the dispute entry    *)
(* points are in EscrowDisputes.                                           *)
(***************************************************************************)
EXTENDS EscrowState

-----------------------------------------------------------------------------
(* Creation.                                                               *)

(* BasketTokens is written by create_basket_escrow alone, with the primary *)
(* token as its first entry.                                               *)
basket_size(t) ==
    IF t.entry = "create_basket_escrow" THEN 1 + Len(t.basket) ELSE 0

(* The value of the tokens after the primary one.                          *)
basket_value(amounts) ==
    LET total[n \in 0..Len(amounts)] ==
            IF n = 0 THEN 0 ELSE total[n - 1] + amounts[n]
    IN  total[Len(amounts)]

(* The record every creator saves under the next id, with its history      *)
(* entry and its counter.                                                  *)
NewEscrow(t) ==
    /\ next_id \in Ids
    /\ next_id' = next_id + 1
    /\ save_escrow(next_id,
          [state |-> "Pending", payees |-> t.payees, buyer |-> t.buyer,
           resolvers |-> t.resolvers, amount |-> t.amount,
           basket |-> basket_value(t.basket), basket_tokens |-> basket_size(t),
           fee_bps |-> t.fee_bps, resolver_fee_bps |-> t.resolver_fee_bps,
           shipping_window |-> t.shipping_window, funded_at |-> 0,
           dispute_deadline |-> 0, shipped_at |-> 0, delivered_at |-> None,
           expires_at |-> t.expires_at, grace_period |-> t.grace_period])
    /\ created_at' = [created_at EXCEPT ![next_id] = now]
    /\ record_escrow_created
    /\ UNCHANGED <<now, config, dispute, votes, proposal, ledger>>

save_pending_expiry(id, expires_at) ==
    pending_expiry' = [pending_expiry EXCEPT ![id] = expires_at]

validate_shipping_window(window) == window \in 1..MAX_SHIPPING_WINDOW

validate_expiration(t) == t.expires_at # None => t.expires_at > now

(* One resolver, distinct from the buyer and every payee, and the buyer    *)
(* from every payee; the strict registry applies to single resolvers only. *)
validate_single_resolver(t) ==
    LET resolver == t.resolvers.members[1]
    IN  /\ t.resolvers.kind = "Single"
        /\ resolver \notin payee_addresses(t) \cup {t.buyer}
        /\ t.buyer \notin payee_addresses(t)
        /\ resolver \in ApprovedResolvers

(* validate_resolvers; unlike the check above it does not compare the      *)
(* seller with the buyer.                                                  *)
validate_resolvers(t) ==
    LET r == t.resolvers
    IN  /\ ~contains(r, primary_payee(t))
        /\ ~contains(r, t.buyer)
        /\ \A i, j \in DOMAIN r.members : i # j => r.members[i] # r.members[j]
        /\ r.kind = "Multi" => r.threshold \in 1..Len(r.members)
        /\ r.kind = "Fallback" => r.deadline <= now + MAX_FALLBACK_DEADLINE_OFFSET

(* validate_escrow_fee_bps and the limits of the amount.                   *)
validate_price(t, lowest, highest) ==
    /\ t.amount > 0
    /\ t.amount \in lowest..highest
    /\ t.fee_bps <= MAX_ESCROW_FEE_BPS

create_escrow_internal(t) ==
    /\ ensure_action_not_paused("CREATE")
    /\ validate_price(t, MinAmount, MaxAmount)
    /\ validate_shipping_window(t.shipping_window)
    /\ t.grace_period <= MAX_GRACE_PERIOD
    /\ t.resolver_fee_bps <= MAX_ESCROW_FEE_BPS
    /\ validate_payees(t.payees)
    /\ validate_single_resolver(t)
    /\ t.basket = <<>>
    /\ NewEscrow(t)

create_escrow(t) ==
    /\ t.entry = "create_escrow"
    /\ ensure_action_not_paused("create_escrow")
    /\ t.expires_at = None /\ t.grace_period = 0
    /\ create_escrow_internal(t)
    /\ UNCHANGED pending_expiry

create_escrow_with_expiration(t) ==
    /\ t.entry = "create_escrow_with_expiration"
    /\ validate_expiration(t)
    /\ Len(t.payees) = 1
    /\ t.resolver_fee_bps = 0
    /\ create_escrow_internal(t)
    /\ save_pending_expiry(next_id, t.expires_at)

(* create_escrow_multi and create_escrow_with_fallback differ in the kind  *)
(* of resolver set they accept.  Both use the compiled-in amount limits    *)
(* and skip the shipping window check.                                     *)
create_with_resolver_set(t, kind) ==
    /\ validate_price(t, 1, MaxAmount)
    /\ t.resolvers.kind = kind
    /\ validate_resolvers(t)
    /\ Len(t.payees) = 1 /\ t.payees[1].bps = BASIS_POINTS
    /\ t.basket = <<>> /\ t.resolver_fee_bps = 0
    /\ t.expires_at = None /\ t.grace_period = 0
    /\ NewEscrow(t)
    /\ UNCHANGED pending_expiry

create_escrow_multi(t) ==
    /\ t.entry = "create_escrow_multi"
    /\ ensure_action_not_paused("create_escrow_multi")
    /\ create_with_resolver_set(t, "Multi")

create_escrow_with_fallback(t) ==
    /\ t.entry = "create_escrow_with_fallback"
    /\ ensure_action_not_paused("create_escrow_with_fallback")
    /\ create_with_resolver_set(t, "Fallback")

(* One token is a basket too.  Each token's amount is held to the limits   *)
(* of the primary one.                                                     *)
validate_basket(t) ==
    /\ basket_size(t) \in 1..MAX_BASKET_SIZE
    /\ \A i \in DOMAIN t.basket :
          t.basket[i] > 0 /\ t.basket[i] \in MinAmount..MaxAmount

(* The role checks and the registry of create_escrow_internal, repeated    *)
(* for the one seller of a basket.                                         *)
validate_basket_roles(t) ==
    /\ Len(t.payees) = 1 /\ t.payees[1].bps = BASIS_POINTS
    /\ validate_single_resolver(t)

(* A stored basket escrow always has grace_period 0.                       *)
create_basket_escrow(t) ==
    /\ t.entry = "create_basket_escrow"
    /\ ensure_action_not_paused("create_basket_escrow")
    /\ validate_price(t, MinAmount, MaxAmount)
    /\ validate_basket(t)
    /\ validate_shipping_window(t.shipping_window)
    /\ validate_expiration(t)
    /\ validate_basket_roles(t)
    /\ t.resolver_fee_bps = 0 /\ t.grace_period = 0
    /\ NewEscrow(t)
    /\ save_pending_expiry(next_id, t.expires_at)
-----------------------------------------------------------------------------
(* Funding.                                                                *)

(* Mutant of fund: the buyer may be one of the resolvers.                  *)
fund_without_resolver_check(buyer, id) ==
    LET e == escrow[id]
    IN  /\ ensure_action_not_paused("FUND")
        /\ e.state = "Pending"
        /\ ensure_funding_not_expired(id)
        /\ buyer \notin payee_addresses(e)
        /\ e.buyer \in {None, buyer}
        /\ save_escrow(id, [e EXCEPT
              !.state = "Funded", !.buyer = buyer,
              !.funded_at = pack_timestamp(now),
              !.dispute_deadline = pack_timestamp(now + DISPUTE_WINDOW)])
        /\ book(id, [ledger[id] EXCEPT !.deposited = @ + e.amount,
                                       !.basket_deposited = @ + e.basket])
        /\ clear_pending_expiry(id)
        /\ UNCHANGED <<creation_vars, dispute_vars, proposal, counters>>

(* fund_escrow and fund_basket_escrow: the whole price and basket move     *)
(* from the buyer into the contract, and the timestamps are packed into    *)
(* two halves of one u64.                                                  *)
fund(buyer, id) ==
    LET e == escrow[id]
    IN  /\ ensure_action_not_paused("FUND")
        /\ e.state = "Pending"
        /\ ensure_funding_not_expired(id)
        /\ buyer \notin payee_addresses(e)
        /\ ~contains(e.resolvers, buyer)
        /\ e.buyer \in {None, buyer}
        /\ save_escrow(id, [e EXCEPT
              !.state = "Funded", !.buyer = buyer,
              !.funded_at = pack_timestamp(now),
              !.dispute_deadline = pack_timestamp(now + DISPUTE_WINDOW)])
        /\ book(id, [ledger[id] EXCEPT !.deposited = @ + e.amount,
                                       !.basket_deposited = @ + e.basket])
        /\ clear_pending_expiry(id)
        /\ UNCHANGED <<creation_vars, dispute_vars, proposal, counters>>

fund_escrow(buyer, id) == fund(buyer, id)

fund_basket_escrow(buyer, id) == escrow[id].basket_tokens > 0 /\ fund(buyer, id)
-----------------------------------------------------------------------------
(* Cancellation of an escrow nobody has funded.                            *)

(* Mutant of auto_cancel_pending: only offers with a schedule of their own. *)
auto_cancel_scheduled(id) ==
    /\ ensure_action_not_paused("auto_cancel_pending")
    /\ pending_expiry[id] # None
    /\ escrow[id].state = "Pending"
    /\ now > pending_expiry_deadline(id)
    /\ move_to(id, "Canceled")
    /\ clear_pending_expiry(id)
    /\ UNCHANGED <<creation_vars, dispute_vars, proposal, counters, ledger>>

auto_cancel_pending(id) ==
    /\ ensure_action_not_paused("auto_cancel_pending")
    /\ ensure_not_expired(id)
    /\ escrow[id].state = "Pending"
    /\ now > pending_expiry_deadline(id)
    /\ move_to(id, "Canceled")
    /\ clear_pending_expiry(id)
    /\ UNCHANGED <<creation_vars, dispute_vars, proposal, counters, ledger>>

cancel_escrow(caller, id) ==
    LET e == escrow[id]
    IN  /\ ensure_action_not_paused("cancel_escrow")
        /\ ensure_not_expired(id)
        /\ caller \in payee_addresses(e) \cup {e.buyer}
        /\ \/ /\ e.state = "Pending"
              /\ move_to(id, "Canceled")
              /\ UNCHANGED <<counters, ledger>>
           \/ /\ e.state = "Funded"
              /\ caller = e.buyer
              /\ move_to(id, "Refunded")
              /\ record_escrow_refunded
              /\ pay_buyer_in_full(id)
        /\ clear_pending_expiry(id)
        /\ UNCHANGED <<creation_vars, dispute_vars, proposal>>

(* Mutant of mutual_cancel: the delivery proposal is left behind.          *)
mutual_cancel_keeping_proposal(id) ==
    /\ ensure_action_not_paused("mutual_cancel")
    /\ ensure_not_expired(id)
    /\ escrow[id].state \in {"Funded", "Shipped"}
    /\ move_to(id, "Canceled")
    /\ pay_buyer_in_full(id)
    /\ UNCHANGED <<creation_vars, dispute_vars, proposal, pending_expiry, counters>>

(* Signed by the primary payee and the buyer.                              *)
mutual_cancel(id) ==
    /\ ensure_action_not_paused("mutual_cancel")
    /\ ensure_not_expired(id)
    /\ escrow[id].state \in {"Funded", "Shipped"}
    /\ move_to(id, "Canceled")
    /\ clear_delivery_proposal(id)
    /\ pay_buyer_in_full(id)
    /\ UNCHANGED <<creation_vars, dispute_vars, pending_expiry, counters>>
-----------------------------------------------------------------------------
(* Shipping and delivery.                                                  *)

mark_shipped(caller, id) ==
    LET e == escrow[id]
    IN  /\ ensure_action_not_paused("mark_shipped")
        /\ ensure_not_expired(id)
        /\ caller \in payee_addresses(e)
        /\ e.state \in {"Funded", "RefundRequested"}
        /\ save_escrow(id, [e EXCEPT !.state = "Shipped", !.shipped_at = now])
        /\ UNCHANGED <<creation_vars, dispute_vars, proposal, pending_expiry,
                       counters, ledger>>

(* A second proposal overwrites the first one and restarts its timelock.   *)
propose_record_delivery(caller, id) ==
    /\ caller = Admin
    /\ escrow[id].state = "Shipped"
    /\ escrow[id].delivered_at = None
    /\ proposal' = [proposal EXCEPT ![id] = now + DELIVERY_TIMELOCK]
    /\ UNCHANGED <<creation_vars, escrow, dispute_vars, pending_expiry,
                   counters, ledger>>

(* cancel_delivery_proposal, and reject_delivery_proposal for the buyer.   *)
drop_delivery_proposal(callers, caller, id) ==
    /\ caller \in callers
    /\ proposal[id] # None
    /\ clear_delivery_proposal(id)
    /\ UNCHANGED <<creation_vars, escrow, dispute_vars, pending_expiry,
                   counters, ledger>>

cancel_delivery_proposal(caller, id) ==
    drop_delivery_proposal({Admin, escrow[id].buyer}, caller, id)

reject_delivery_proposal(caller, id) ==
    drop_delivery_proposal({escrow[id].buyer}, caller, id)

record_delivery(caller, id) ==
    /\ caller = Admin
    /\ escrow[id].state = "Shipped"
    /\ escrow[id].delivered_at = None
    /\ proposal[id] # None
    /\ now >= proposal[id]
    /\ save_escrow(id, [escrow[id] EXCEPT !.delivered_at = now])
    /\ clear_delivery_proposal(id)
    /\ UNCHANGED <<creation_vars, dispute_vars, pending_expiry, counters, ledger>>
-----------------------------------------------------------------------------
(* Settlement in favour of the payees.                                     *)

confirm_delivery(caller, id, waive_shipping_window) ==
    LET e == escrow[id]
    IN  /\ ensure_action_not_paused("confirm_delivery")
        /\ ensure_not_expired(id)
        /\ caller = e.buyer
        /\ e.state = "Shipped"
        /\ waive_shipping_window \/ now >= e.dispute_deadline
        /\ settle_escrow_to_payees(id, e.fee_bps)
        /\ UNCHANGED <<creation_vars, dispute_vars, pending_expiry>>

(* Signed by the primary payee and the buyer; everything but the fee goes  *)
(* to the primary payee, whatever the shares of the others.                *)
co_signed_release(id) ==
    LET e == escrow[id]
        fee == calculate_fee(e.amount, ProtocolFeeBps)
    IN  /\ ensure_action_not_paused("co_signed_release")
        /\ e.state \in {"Funded", "Shipped"}
        /\ dispute[id].status = "Absent"
        /\ move_to(id, "Completed")
        /\ clear_delivery_proposal(id)
        /\ record_escrow_completed
        /\ book(id, [ledger[id] EXCEPT
              !.to_collector = @ + payout(fee),
              !.to_payees = @ + payout(e.amount - fee),
              !.basket_to_seller = @ + e.basket])
        /\ UNCHANGED <<creation_vars, dispute_vars, pending_expiry>>

(* Mutants of ensure_auto_release_eligible: a recorded delivery releases   *)
(* at once; a shipped escrow is never released.                            *)
eligible_on_delivery(id) ==
    /\ escrow[id].state \in {"Funded", "Shipped"}
    /\ escrow[id].delivered_at # None
    /\ now >= escrow[id].delivered_at

eligible_unless_shipped(id) ==
    /\ escrow[id].state = "Funded"
    /\ now >= escrow[id].dispute_deadline
    /\ now >= escrow[id].funded_at + escrow[id].shipping_window

(* The window runs from the shipment, or from the funding when there was   *)
(* none; a shipped escrow needs a recorded delivery.                       *)
ensure_auto_release_eligible(id) ==
    LET e == escrow[id]
        started_at == IF e.shipped_at > 0 THEN e.shipped_at ELSE e.funded_at
    IN  /\ e.state \in {"Funded", "Shipped"}
        /\ dispute[id].status = "Absent"
        /\ \/ /\ e.delivered_at # None
              /\ now >= e.delivered_at + DELIVERY_RELEASE_WINDOW
           \/ /\ e.delivered_at = None
              /\ e.state = "Funded"
              /\ now >= e.dispute_deadline
              /\ now >= started_at + e.shipping_window

auto_release(id) ==
    /\ ensure_action_not_paused("auto_release")
    /\ ensure_not_expired(id)
    /\ ensure_auto_release_eligible(id)
    /\ settle_escrow_to_payees(id, ProtocolFeeBps)
    /\ UNCHANGED <<creation_vars, dispute_vars, pending_expiry>>
-----------------------------------------------------------------------------
(* Settlement in favour of the buyer.                                      *)

request_refund(caller, id) ==
    /\ ensure_action_not_paused("request_refund")
    /\ ensure_not_expired(id)
    /\ caller = escrow[id].buyer
    /\ escrow[id].state = "Funded"
    /\ move_to(id, "RefundRequested")
    /\ UNCHANGED <<creation_vars, dispute_vars, proposal, pending_expiry,
                   counters, ledger>>

approve_refund(caller, id) ==
    /\ ensure_action_not_paused("approve_refund")
    /\ ensure_not_expired(id)
    /\ escrow[id].state = "RefundRequested"
    /\ caller = primary_payee(escrow[id])
    /\ move_to(id, "Refunded")
    /\ record_escrow_refunded
    /\ pay_buyer_in_full(id)
    /\ UNCHANGED <<creation_vars, dispute_vars, proposal, pending_expiry>>

(* From expires_at on; the grace period is not consulted.                  *)
reclaim_expired(caller, id) ==
    LET e == escrow[id]
    IN  /\ ensure_action_not_paused("RECLAIM")
        /\ e.state \in {"Funded", "Shipped"}
        /\ e.expires_at # None
        /\ now >= e.expires_at
        /\ caller = e.buyer
        /\ move_to(id, "Expired")
        /\ clear_pending_expiry(id)
        /\ clear_delivery_proposal(id)
        /\ pay_buyer_in_full(id)
        /\ UNCHANGED <<creation_vars, dispute_vars, counters>>

(* Mutant of rotate_resolver: a closed escrow is not refused.              *)
rotate_resolver_any_state(caller, id, new_resolver) ==
    LET e == escrow[id]
    IN  /\ ensure_action_not_paused("rotate_resolver")
        /\ e.state # "Absent"
        /\ caller \in payee_addresses(e) \cup {Admin}
        /\ e.resolvers.kind = "Single"
        /\ new_resolver \notin payee_addresses(e) \cup {e.buyer}
        /\ new_resolver # e.resolvers.members[1]
        /\ save_escrow(id, [e EXCEPT !.resolvers.members = <<new_resolver>>])
        /\ UNCHANGED <<creation_vars, dispute_vars, proposal, pending_expiry,
                       counters, ledger>>

(* Any payee or the admin may replace a single resolver until the escrow   *)
(* is over, a dispute included.                                            *)
rotate_resolver(caller, id, new_resolver) ==
    LET e == escrow[id]
    IN  /\ ensure_action_not_paused("rotate_resolver")
        /\ e.state \notin TerminalStates \cup {"Absent"}
        /\ caller \in payee_addresses(e) \cup {Admin}
        /\ e.resolvers.kind = "Single"
        /\ new_resolver \notin payee_addresses(e) \cup {e.buyer}
        /\ new_resolver # e.resolvers.members[1]
        /\ save_escrow(id, [e EXCEPT !.resolvers.members = <<new_resolver>>])
        /\ UNCHANGED <<creation_vars, dispute_vars, proposal, pending_expiry,
                       counters, ledger>>
-----------------------------------------------------------------------------
(* One transaction of the parties.                                         *)
Trade ==
    \/ \E t \in Terms :
          \/ create_escrow(t)
          \/ create_escrow_with_expiration(t)
          \/ create_escrow_multi(t)
          \/ create_escrow_with_fallback(t)
          \/ create_basket_escrow(t)
    \/ \E id \in Ids :
          \/ auto_cancel_pending(id)
          \/ mutual_cancel(id)
          \/ co_signed_release(id)
          \/ auto_release(id)
          \/ \E caller \in Address :
                \/ fund_escrow(caller, id)
                \/ fund_basket_escrow(caller, id)
                \/ cancel_escrow(caller, id)
                \/ mark_shipped(caller, id)
                \/ propose_record_delivery(caller, id)
                \/ cancel_delivery_proposal(caller, id)
                \/ reject_delivery_proposal(caller, id)
                \/ record_delivery(caller, id)
                \/ \E waive \in BOOLEAN : confirm_delivery(caller, id, waive)
                \/ request_refund(caller, id)
                \/ approve_refund(caller, id)
                \/ reclaim_expired(caller, id)
                \/ \E new_resolver \in Address :
                      rotate_resolver(caller, id, new_resolver)
=============================================================================
