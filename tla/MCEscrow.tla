------------------------------ MODULE MCEscrow ------------------------------
(***************************************************************************)
(* Instances of EscrowContract small enough for TLC.  One unit of time is  *)
(* a day of the code's windows, shortened where the order between windows  *)
(* is kept.                                                                *)
(***************************************************************************)
EXTENDS EscrowClaims, EscrowRefinement

CONSTANTS seller, partner, buyer, r1, r2, r3, admin

single(r) == [kind |-> "Single", members |-> <<r>>, threshold |-> 1, deadline |-> 0]
multi(members, m) ==
    [kind |-> "Multi", members |-> members, threshold |-> m, deadline |-> 0]
fallback(primary, backup, deadline) ==
    [kind |-> "Fallback", members |-> <<primary, backup>>, threshold |-> 1,
     deadline |-> deadline]

alone == <<[address |-> seller, bps |-> 10000]>>
shared == <<[address |-> seller, bps |-> 3333], [address |-> partner, bps |-> 6667]>>

(* 10007 does not divide by any of the rates: every fee and share rounds.  *)
plain ==
    [entry |-> "create_escrow", payees |-> shared, buyer |-> None,
     resolvers |-> single(r1), amount |-> 10007, basket |-> <<>>, fee_bps |-> 299,
     resolver_fee_bps |-> 300, shipping_window |-> 1, expires_at |-> None,
     grace_period |-> 0]
expiring ==
    [plain EXCEPT !.entry = "create_escrow_with_expiration", !.payees = alone,
                  !.buyer = buyer, !.resolver_fee_bps = 0,
                  !.shipping_window = 3, !.expires_at = 4, !.grace_period = 1]
committee ==
    [plain EXCEPT !.entry = "create_escrow_multi", !.payees = alone,
                  !.resolvers = multi(<<r1, r2, r3>>, 2), !.resolver_fee_bps = 0]
backed_up ==
    [committee EXCEPT !.entry = "create_escrow_with_fallback",
                      !.resolvers = fallback(r1, r2, 4)]
basket ==
    [plain EXCEPT !.entry = "create_basket_escrow", !.payees = alone,
                  !.basket = <<2, 3>>, !.resolver_fee_bps = 0, !.expires_at = 5]

(* One token is a basket too, and pays out like an escrow without one.    *)
single_token == [basket EXCEPT !.basket = <<>>]

(* The seller as its own buyer: the resolver-set creators accept it.       *)
self_dealing ==
    [committee EXCEPT !.buyer = seller, !.resolvers = multi(<<r1, r2>>, 2)]

TradeTerms == {plain, expiring, basket, single_token, backed_up, self_dealing}
DisputeTerms == {[plain EXCEPT !.buyer = buyer], committee, backed_up}
AdminTerms == {[plain EXCEPT !.buyer = buyer],
               [basket EXCEPT !.buyer = buyer]}
(* A pending offer, a release and a dispute are the ways an escrow waits.  *)
WaitingTerms == {[plain EXCEPT !.buyer = buyer],
                 [committee EXCEPT !.buyer = buyer, !.resolvers = multi(<<r1, r2>>, 2)]}
PairTerms == {[plain EXCEPT !.buyer = buyer]}

steady ==
    [paused |-> FALSE, recovery_mode |-> FALSE, action_paused |-> {},
     arbitration_fee_bps |-> 499, platform_fee_bps |-> 199,
     appeal_fee_bps |-> 10, dispute_timeout |-> 4, max_appeals |-> 1]

(* raise_dispute is paused: the trade alone.                              *)
without_disputes == [steady EXCEPT !.action_paused = {"raise_dispute"}]

(* Nothing can leave the funded state but a dispute or a release.          *)
disputes_first ==
    [steady EXCEPT !.action_paused = {"mark_shipped", "request_refund"}]

NoSettings ==
    [paused |-> {}, recovery_mode |-> {}, action |-> {},
     arbitration_fee_bps |-> {}, platform_fee_bps |-> {},
     appeal_fee_bps |-> {}, dispute_timeout |-> {}, max_appeals |-> {}]

(* The emergency switches, and the rates turned under open disputes.       *)
Switches ==
    [NoSettings EXCEPT !.paused = BOOLEAN, !.recovery_mode = BOOLEAN,
                       !.action = {"RESOLVE"}]
Rates ==
    [NoSettings EXCEPT !.arbitration_fee_bps = {0, 500}, !.platform_fee_bps = {0},
                       !.appeal_fee_bps = {0}, !.dispute_timeout = {2},
                       !.max_appeals = {2}]
=============================================================================
