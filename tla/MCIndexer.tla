----------------------------- MODULE MCIndexer -----------------------------
(***************************************************************************)
(* An instance of EventIndexer for TLC: one unit of time is one ledger,    *)
(* and every window of the contract is as short as its order allows.       *)
(***************************************************************************)
EXTENDS EventIndexer

CONSTANTS seller, buyer, r1, admin

plain ==
    [entry |-> "create_escrow",
     payees |-> <<[address |-> seller, bps |-> BASIS_POINTS]>>, buyer |-> None,
     resolvers |-> [kind |-> "Single", members |-> <<r1>>, threshold |-> 1,
                    deadline |-> 0],
     amount |-> 100, basket |-> <<>>, fee_bps |-> 0, resolver_fee_bps |-> 0,
     shipping_window |-> 1, expires_at |-> None, grace_period |-> 0]
expiring ==
    [plain EXCEPT !.entry = "create_escrow_with_expiration", !.expires_at = 2]
(* A basket of one token: nothing but its entry tells it from the others.  *)
basket == [plain EXCEPT !.entry = "create_basket_escrow"]
two_tokens == [basket EXCEPT !.basket = <<5>>]

committee ==
    [plain EXCEPT !.entry = "create_escrow_multi",
                  !.resolvers = [kind |-> "Multi", members |-> <<r1, admin>>,
                                 threshold |-> 2, deadline |-> 0]]

OfferedTerms == {expiring, committee, basket, two_tokens}

NoSettings ==
    [paused |-> BOOLEAN, recovery_mode |-> {}, action |-> {},
     arbitration_fee_bps |-> {}, platform_fee_bps |-> {},
     appeal_fee_bps |-> {}, dispute_timeout |-> {}, max_appeals |-> {}]

recovering ==
    [paused |-> FALSE, recovery_mode |-> TRUE, action_paused |-> {},
     arbitration_fee_bps |-> 0, platform_fee_bps |-> 0, appeal_fee_bps |-> 0,
     dispute_timeout |-> 0, max_appeals |-> 1]

(* Three inherited ids do not fill their last page of two.                 *)
inherited_sales ==
    [a \in Address |-> IF a = seller THEN <<-2, -1, 0>> ELSE <<>>]
inherited_purchases == [a \in Address |-> IF a = buyer THEN <<-1, 0>> ELSE <<>>]
inherited_threads == [id \in {0} |-> <<buyer>>]

(* The histories looked at: every topic, in the orders that matter.        *)
funded == <<"Escrow:Created", "PendingExpiry:Cleared", "Escrow:Funded">>
shipped == funded \o <<"Escrow:Shipped", "Delivery:Proposed">>
raised == funded \o <<"Dispute:Raised">>
decided == raised \o <<"resolver_vote_recorded", "Dispute:Pending">>
paused == <<"Timelock:Executed", "Contract:Paused">>
Stories ==
    {shipped \o <<"Escrow:Delivered", "Escrow:Released">>,
     shipped \o <<"Delivery:Cancelled", "Escrow:Completed">>,
     shipped \o <<"Delivery:Cancelled", "Escrow:Canceled">>,
     decided \o <<"Dispute:Appealed", "Dispute:Pending", "Dispute:Resolved">>,
     decided \o <<"Escrow:Canceled">>,
     raised \o <<"Recovery:Withdraw">>,
     raised \o paused \o <<"Emergency:Drain">>,
     paused \o <<"Timelock:Executed", "Contract:Unpaused", "Message:Posted">>
            \o paused,
     funded \o <<"Refund:Requested", "Refund:Approved">>,
     funded \o <<"PendingExpiry:Cleared", "Escrow:Expired">>,
     funded \o <<"contract_upgraded", "PendingExpiry:Cleared", "Escrow:Canceled">>,
     <<"Message:Posted", "Escrow:Created", "Resolver:Rotated", "Message:Posted">>,
     <<"Escrow:Created", "PendingExpiry:Cleared", "Escrow:AutoCncl">>,
     <<"Escrow:Created", "Basket:Created", "PendingExpiry:Cleared", "Escrow:Funded",
       "Dispute:Raised", "PendingExpiry:Cleared", "Escrow:Funded">>,
     <<"Basket:Created", "Basket:Created", "Message:Posted">>,
     <<"Escrow:Created", "Timelock:Executed", "Token:Allowlist", "Escrow:Created">>,
     <<"Token:Allowlist", "Message:Posted">>}

(* No event of these asks more of an indexer than the schema it knows.     *)
OneTrade == {funded}
=============================================================================
