----------------------------- MODULE EscrowState -----------------------------
(***************************************************************************)
(* The persistent state of the escrow contract and the helpers every       *)
(* entry point shares (types.rs, lib.rs, internal.rs).                     *)
(*                                                                         *)
(* A Soroban invocation is atomic: it either commits all its writes and    *)
(* transfers or reverts.  One entry point is therefore one action, and a   *)
(* guard that the code checks with an early return is a conjunct of it.    *)
(* Authentication (require_auth) is the choice of the action's caller.     *)
(***************************************************************************)
EXTENDS EscrowFees, FiniteSets

CONSTANTS
    Address,                  \* accounts that may call the contract
    None,                     \* the Option::None of the code
    Admin,                    \* DataKey::Admin (rotated by the admin module)
    Treasury,                 \* GlobalConfig.treasury, an address or None
    ProtocolFeeBps,           \* GlobalConfig.protocol_fee_bps
    ApprovedResolvers,        \* resolvers accepted by the strict registry
    MinAmount, MaxAmount,     \* GlobalConfig.min_amount, max_amount
    Terms,                    \* argument records offered to the creators
    Settings,                 \* values the admin may choose, per setting
    InitialConfig,            \* GlobalConfig at the start
    MaxEscrows,               \* bound: escrows created in a behaviour
    MaxTime,                  \* bound: last ledger timestamp
    TIMESTAMP_MOD,            \* 2^32 in the code: width of a packed timestamp
    MAX_SHIPPING_WINDOW,
    MAX_GRACE_PERIOD,
    MAX_FALLBACK_DEADLINE_OFFSET,
    MIN_DISPUTE_TIMEOUT, MAX_DISPUTE_TIMEOUT,
    PENDING_EXPIRY_WINDOW,
    DISPUTE_WINDOW,
    DELIVERY_TIMELOCK,
    DELIVERY_RELEASE_WINDOW,
    APPEAL_WINDOW,
    DISPUTE_DEADLOCK_WINDOW

VARIABLES
    now,             \* env.ledger().timestamp()
    config,          \* GlobalConfig, MaxAppeals and ActionPaused
    next_id,         \* DataKey::EscrowCounter
    escrow,          \* DataKey::Escrow and DataKey::BasketTokens
    created_at,      \* timestamp of the first EscrowStateHistory entry
    dispute,         \* DataKey::Dispute
    votes,           \* DataKey::ResolverVotes
    proposal,        \* DataKey::DeliveryProposal: unlock_at, or None
    pending_expiry,  \* DataKey::PendingExpiry: expires_at, or None
    counters,        \* totals of the sharded counters and arbitration fees
    ledger           \* what moved through the contract, escrow by escrow

vars == <<now, config, next_id, escrow, created_at, dispute, votes, proposal,
          pending_expiry, counters, ledger>>

(* Everything no escrow operation writes once the escrow exists.           *)
creation_vars == <<now, config, next_id, created_at>>
dispute_vars == <<dispute, votes>>
-----------------------------------------------------------------------------
Ids == 1..MaxEscrows
Time == Nat
OptionTime == Time \cup {None}
OptionAddress == Address \cup {None}

EscrowStates == {"Absent", "Pending", "Funded", "Shipped", "Completed",
                 "Disputed", "RefundRequested", "Refunded", "Canceled",
                 "PendingFinalization", "Expired"}
TerminalStates == {"Completed", "Refunded", "Canceled", "Expired"}

(* The states in which the contract holds the buyer's money.               *)
HoldingStates == {"Funded", "Shipped", "RefundRequested", "Disputed",
                  "PendingFinalization"}

Resolution == {"Release", "Refund"}

(* Mutant of resolution_code: the codes counted from the wrong end.        *)
resolution_code_shifted(r) == IF r = "Release" THEN 2 ELSE 3

(* DisputeData.resolution is a u32; 0 means not resolved.                  *)
resolution_code(r) == IF r = "Release" THEN 1 ELSE 2
get_resolution(code) ==
    CASE code = 1 -> "Release"
      [] code = 2 -> "Refund"
      [] OTHER -> None

(* `ResolutionType::Refund as u32`: the discriminant, not the code above.  *)
REFUND_DISCRIMINANT == 1

Payee == [address : Address, bps : 0..BASIS_POINTS]

ResolverSet == [kind : {"Single", "Multi", "Fallback"}, members : Seq(Address),
                threshold : Nat, deadline : Time]

(* BasketTokens of the code has an entry for the primary token and one for *)
(* each other: basket_tokens is their number, 0 if there is no such key,   *)
(* and basket the value of those after the primary one.                    *)
EscrowRecord ==
    [state : EscrowStates, payees : Seq(Payee), buyer : OptionAddress,
     resolvers : ResolverSet, amount : Int, basket : Nat, basket_tokens : Nat,
     fee_bps : 0..BASIS_POINTS, resolver_fee_bps : 0..BASIS_POINTS,
     shipping_window : Time, funded_at : Time, dispute_deadline : Time,
     shipped_at : Time, delivered_at : OptionTime, expires_at : OptionTime,
     grace_period : Time]

DisputeRecord ==
    [status : {"Absent", "Active", "Resolved"}, disputed_at : Time,
     resolution : 0..2, resolved_by : OptionAddress, appeal_count : Nat,
     resolved_at : Time, arbitration_fee : Int, resolver_fee : Int,
     fees_charged : BOOLEAN]

Vote == [resolver : Address, resolution : Resolution]

Ledger ==
    [deposited : Int, to_buyer : Int, to_payees : Int, to_collector : Int,
     to_resolver : Int, to_treasury : Int, basket_deposited : Nat,
     basket_to_buyer : Nat, basket_to_seller : Nat, appeal_fees : Int]

Counters == [created : Nat, completed : Nat, disputed : Nat, refunded : Nat,
             arbitration_fees : Int]

Config ==
    [paused : BOOLEAN, recovery_mode : BOOLEAN, action_paused : SUBSET STRING,
     arbitration_fee_bps : 0..MAX_ARBITRATION_FEE_BPS,
     platform_fee_bps : 0..MAX_PLATFORM_FEE_BPS,
     appeal_fee_bps : 0..MAX_APPEAL_FEE_BPS,
     dispute_timeout : Time, max_appeals : Nat]

(* basket: the amounts of the tokens after the primary one, one by one.    *)
EscrowTerms ==
    [entry : STRING, payees : Seq(Payee), buyer : OptionAddress,
     resolvers : ResolverSet, amount : Nat, basket : Seq(Nat), fee_bps : Nat,
     resolver_fee_bps : Nat, shipping_window : Time,
     expires_at : OptionTime, grace_period : Time]

ASSUME NoneAssumption == None \notin Address \cup Resolution /\ None \notin Time

ASSUME RolesAssumption == Admin \in Address /\ Treasury \in OptionAddress

ASSUME WindowsAssumption ==
    /\ {PENDING_EXPIRY_WINDOW, DISPUTE_WINDOW, DELIVERY_TIMELOCK,
        DELIVERY_RELEASE_WINDOW, APPEAL_WINDOW, DISPUTE_DEADLOCK_WINDOW,
        MAX_SHIPPING_WINDOW, MAX_GRACE_PERIOD, MAX_FALLBACK_DEADLINE_OFFSET,
        MIN_DISPUTE_TIMEOUT, MAX_DISPUTE_TIMEOUT} \subseteq Nat
    /\ TIMESTAMP_MOD \in Nat \ {0}

(* The values of lib.rs: a delivery that is on record early releases no    *)
(* sooner than the dispute window ends, and the timeout a contract starts  *)
(* with is one set_dispute_timeout would accept.                           *)
ASSUME ReleaseAssumption ==
    DISPUTE_WINDOW <= DELIVERY_TIMELOCK + DELIVERY_RELEASE_WINDOW

ASSUME TimeoutAssumption ==
    MIN_DISPUTE_TIMEOUT <= InitialConfig.dispute_timeout

ASSUME BoundsAssumption == MaxEscrows \in Nat /\ MaxTime \in Nat

ASSUME TermsAssumption ==
    /\ Terms \subseteq EscrowTerms
    /\ \A t \in Terms :
          /\ t.payees # <<>>
          /\ t.resolvers.kind = "Single" => Len(t.resolvers.members) = 1
          /\ t.resolvers.kind = "Fallback" => Len(t.resolvers.members) = 2

ASSUME ConfigAssumption ==
    /\ InitialConfig \in Config
    /\ ProtocolFeeBps \in 0..MAX_PROTOCOL_FEE_BPS

ASSUME SettingsAssumption ==
    /\ Settings.paused \subseteq BOOLEAN
    /\ Settings.recovery_mode \subseteq BOOLEAN
    /\ Settings.action \subseteq STRING
    /\ Settings.dispute_timeout \subseteq Time
    /\ Settings.max_appeals \subseteq Nat
    /\ Settings.arbitration_fee_bps \subseteq Nat
    /\ Settings.platform_fee_bps \subseteq Nat
    /\ Settings.appeal_fee_bps \subseteq Nat
-----------------------------------------------------------------------------
NoResolvers == [kind |-> "Multi", members |-> <<>>, threshold |-> 0, deadline |-> 0]

NoEscrow ==
    [state |-> "Absent", payees |-> <<>>, buyer |-> None,
     resolvers |-> NoResolvers, amount |-> 0, basket |-> 0, basket_tokens |-> 0,
     fee_bps |-> 0, resolver_fee_bps |-> 0, shipping_window |-> 0, funded_at |-> 0,
     dispute_deadline |-> 0, shipped_at |-> 0, delivered_at |-> None,
     expires_at |-> None, grace_period |-> 0]

NoDispute ==
    [status |-> "Absent", disputed_at |-> 0, resolution |-> 0,
     resolved_by |-> None, appeal_count |-> 0, resolved_at |-> 0,
     arbitration_fee |-> 0, resolver_fee |-> 0, fees_charged |-> FALSE]

NoMoney ==
    [deposited |-> 0, to_buyer |-> 0, to_payees |-> 0, to_collector |-> 0,
     to_resolver |-> 0, to_treasury |-> 0, basket_deposited |-> 0,
     basket_to_buyer |-> 0, basket_to_seller |-> 0, appeal_fees |-> 0]

(* The state initialize leaves behind: no escrow, EscrowCounter at 1.      *)
Init ==
    /\ now = 1
    /\ config = InitialConfig
    /\ next_id = 1
    /\ escrow = [id \in Ids |-> NoEscrow]
    /\ created_at = [id \in Ids |-> 0]
    /\ dispute = [id \in Ids |-> NoDispute]
    /\ votes = [id \in Ids |-> <<>>]
    /\ proposal = [id \in Ids |-> None]
    /\ pending_expiry = [id \in Ids |-> None]
    /\ counters = [created |-> 0, completed |-> 0, disputed |-> 0,
                   refunded |-> 0, arbitration_fees |-> 0]
    /\ ledger = [id \in Ids |-> NoMoney]
-----------------------------------------------------------------------------
(* Who is who.                                                             *)
payee_addresses(e) == {e.payees[i].address : i \in DOMAIN e.payees}
primary_payee(e) == e.payees[1].address

contains(resolvers, addr) ==
    \E i \in DOMAIN resolvers.members : resolvers.members[i] = addr

(* A single resolver and a fallback decide alone.                          *)
threshold(resolvers) ==
    IF resolvers.kind = "Multi" THEN resolvers.threshold ELSE 1

(* The backup of a Fallback set is admitted from its deadline on.          *)
can_resolve_now(resolvers, addr) ==
    \/ /\ resolvers.kind = "Fallback"
       /\ \/ addr = resolvers.members[1]
          \/ addr = resolvers.members[2] /\ now >= resolvers.deadline
    \/ resolvers.kind # "Fallback" /\ contains(resolvers, addr)

(* Mutant of ensure_action_not_paused: the global pause is forgotten.      *)
only_action_not_paused(action) == action \notin config.action_paused

(* The pause switches: the global one and one per action symbol.           *)
ensure_action_not_paused(action) ==
    ~config.paused /\ action \notin config.action_paused

(* expires_at is checked in every state, the schedule only while present.  *)
ensure_not_expired(id) ==
    /\ escrow[id].expires_at # None => now < escrow[id].expires_at
    /\ pending_expiry[id] # None => now < pending_expiry[id]

pending_expiry_deadline(id) == created_at[id] + PENDING_EXPIRY_WINDOW

ensure_funding_not_expired(id) ==
    ensure_not_expired(id) /\ now <= pending_expiry_deadline(id)

(* Half of packed_timestamps: funded_at above, dispute_deadline below.     *)
pack_timestamp(t) == t % TIMESTAMP_MOD
-----------------------------------------------------------------------------
(* Writes.                                                                 *)
save_escrow(id, e) == escrow' = [escrow EXCEPT ![id] = e]
save_dispute(id, d) == dispute' = [dispute EXCEPT ![id] = d]
save_resolver_votes(id, v) == votes' = [votes EXCEPT ![id] = v]
clear_delivery_proposal(id) == proposal' = [proposal EXCEPT ![id] = None]
clear_pending_expiry(id) ==
    pending_expiry' = [pending_expiry EXCEPT ![id] = None]

(* What a transfer adds to the escrow's record of transfers.               *)
book(id, entry) == ledger' = [ledger EXCEPT ![id] = entry]

move_to(id, state) == save_escrow(id, [escrow[id] EXCEPT !.state = state])

record_escrow_created == counters' = [counters EXCEPT !.created = @ + 1]
record_escrow_completed == counters' = [counters EXCEPT !.completed = @ + 1]
record_escrow_disputed == counters' = [counters EXCEPT !.disputed = @ + 1]
(* Mutant of record_escrow_refunded: the wrong counter kind.               *)
record_refund_as_completed == counters' = [counters EXCEPT !.completed = @ + 1]

record_escrow_refunded == counters' = [counters EXCEPT !.refunded = @ + 1]

(* Mutant of pay_buyer_in_full: the protocol fee is kept on a refund.      *)
pay_buyer_less_fee(id) ==
    LET fee == calculate_fee(escrow[id].amount, escrow[id].fee_bps)
    IN  book(id, [ledger[id] EXCEPT
            !.to_buyer = @ + payout(escrow[id].amount - fee),
            !.to_collector = @ + payout(fee),
            !.basket_to_buyer = @ + escrow[id].basket])

(* The principal and the basket go back to the buyer.                      *)
pay_buyer_in_full(id) ==
    book(id, [ledger[id] EXCEPT !.to_buyer = @ + payout(escrow[id].amount),
                                !.basket_to_buyer = @ + escrow[id].basket])

(* Mutant of settle_escrow_to_payees: the split ignores the fee.           *)
settle_before_fee(id, fee_bps) ==
    LET e == escrow[id]
        fee == calculate_fee(e.amount, fee_bps)
    IN  /\ move_to(id, "Completed")
        /\ record_escrow_completed
        /\ clear_delivery_proposal(id)
        /\ book(id, [ledger[id] EXCEPT
              !.to_collector = @ + payout(fee),
              !.to_payees = @ + distribute_to_payees(e.amount, e.payees),
              !.basket_to_seller = @ + e.basket])

(* settle_escrow_to_payees: protocol fee to the collector, the rest split  *)
(* between the payees, the basket to the primary one.                      *)
settle_escrow_to_payees(id, fee_bps) ==
    LET e == escrow[id]
        fee == calculate_fee(e.amount, fee_bps)
    IN  /\ move_to(id, "Completed")
        /\ record_escrow_completed
        /\ clear_delivery_proposal(id)
        /\ book(id, [ledger[id] EXCEPT
              !.to_collector = @ + payout(fee),
              !.to_payees = @ + distribute_to_payees(e.amount - fee, e.payees),
              !.basket_to_seller = @ + e.basket])
=============================================================================
