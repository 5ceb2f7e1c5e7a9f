--------------------------- MODULE EscrowContract ---------------------------
(***************************************************************************)
(* The whole escrow contract: the trade, the disputes, the switches and    *)
(* rates the admin may turn under them, the two emergency exits, and the   *)
(* passing of ledger time.                                                 *)
(*                                                                         *)
(* The timelock in front of some of the admin's operations is left out: it *)
(* delays a change and does not restrict which changes can happen, so a    *)
(* setting may change to any value of Settings at any moment.              *)
(***************************************************************************)
EXTENDS EscrowTrade, EscrowDisputes

Tick ==
    /\ now < MaxTime
    /\ now' = now + 1
    /\ UNCHANGED <<config, next_id, escrow, created_at, dispute, votes,
                   proposal, pending_expiry, counters, ledger>>
-----------------------------------------------------------------------------
(* The admin's switches and rates.                                         *)

(* All writes of one setting leave everything else alone.                  *)
configure(c) ==
    /\ config' = c
    /\ UNCHANGED <<now, next_id, escrow, created_at, dispute, votes, proposal,
                   pending_expiry, counters, ledger>>

(* execute_pause_contract and execute_unpause_contract.                    *)
set_paused(flag) ==
    flag \in Settings.paused /\ configure([config EXCEPT !.paused = flag])

pause_action(action) ==
    configure([config EXCEPT !.action_paused = @ \cup {action}])

unpause_action(action) ==
    configure([config EXCEPT !.action_paused = @ \ {action}])

(* enable_recovery_mode and disable_recovery_mode.                         *)
set_recovery_mode(flag) ==
    /\ flag \in Settings.recovery_mode
    /\ configure([config EXCEPT !.recovery_mode = flag])

(* The cap combines the arbitration fee with the protocol fee; the fees    *)
(* snapshotted in the escrows and the platform fee are not part of it.     *)
set_arbitration_fee(bps) ==
    /\ bps <= MAX_ARBITRATION_FEE_BPS
    /\ ProtocolFeeBps + bps <= MAX_COMBINED_FEE_BPS
    /\ configure([config EXCEPT !.arbitration_fee_bps = bps])

set_platform_fee(bps) ==
    /\ bps <= MAX_PLATFORM_FEE_BPS
    /\ configure([config EXCEPT !.platform_fee_bps = bps])

execute_set_appeal_fee(bps) ==
    /\ validate_appeal_fee_bps(bps)
    /\ configure([config EXCEPT !.appeal_fee_bps = bps])

set_dispute_timeout(seconds) ==
    /\ seconds \in MIN_DISPUTE_TIMEOUT..MAX_DISPUTE_TIMEOUT
    /\ configure([config EXCEPT !.dispute_timeout = seconds])

execute_set_max_appeals(limit) ==
    /\ limit \in MIN_MAX_APPEALS..MAX_MAX_APPEALS
    /\ configure([config EXCEPT !.max_appeals = limit])

Administer ==
    \/ \E flag \in BOOLEAN : set_paused(flag) \/ set_recovery_mode(flag)
    \/ \E action \in Settings.action :
          pause_action(action) \/ unpause_action(action)
    \/ \E bps \in Settings.arbitration_fee_bps : set_arbitration_fee(bps)
    \/ \E bps \in Settings.platform_fee_bps : set_platform_fee(bps)
    \/ \E bps \in Settings.appeal_fee_bps : execute_set_appeal_fee(bps)
    \/ \E seconds \in Settings.dispute_timeout : set_dispute_timeout(seconds)
    \/ \E limit \in Settings.max_appeals : execute_set_max_appeals(limit)
-----------------------------------------------------------------------------
(* The emergency exits, which no pause of an action closes.                *)

(* Mutant of refund_from: the state of the escrow is not looked at.        *)
refund_from_any(id, states) ==
    /\ escrow[id].buyer # None
    /\ move_to(id, "Refunded")
    /\ clear_delivery_proposal(id)
    /\ record_escrow_refunded
    /\ pay_buyer_in_full(id)
    /\ UNCHANGED <<creation_vars, dispute_vars, pending_expiry>>

(* What both of them do: the buyer is refunded what is left.  The dispute  *)
(* and its votes stay as they are.                                         *)
refund_from(id, states) ==
    /\ escrow[id].state \in states
    /\ move_to(id, "Refunded")
    /\ clear_delivery_proposal(id)
    /\ record_escrow_refunded
    /\ pay_buyer_in_full(id)
    /\ UNCHANGED <<creation_vars, dispute_vars, pending_expiry>>

recovery_withdraw(caller, id) ==
    /\ config.recovery_mode
    /\ caller = escrow[id].buyer
    /\ refund_from(id, HoldingStates)

(* Signed by the buyer and the primary payee while the contract is paused; *)
(* a requested refund cannot be drained.                                   *)
emergency_drain(id) ==
    /\ config.paused
    /\ refund_from(id, HoldingStates \ {"RefundRequested"})

Rescue ==
    \E id \in Ids :
        \/ emergency_drain(id)
        \/ \E caller \in Address : recovery_withdraw(caller, id)
-----------------------------------------------------------------------------
Next == Tick \/ Trade \/ Dispute \/ Administer \/ Rescue

Spec == Init /\ [][Next]_vars

(* Ledger time passes, and what anyone may call once its time has come is  *)
(* called in the end: the code makes these entry points permissionless     *)
(* for keepers, or the caller is a party it pays.                          *)
Fairness ==
    /\ WF_vars(Tick)
    /\ \A id \in Ids :
          /\ WF_vars(auto_release(id))
          /\ WF_vars(auto_cancel_pending(id))
          /\ WF_vars(finalize_dispute(id))
          /\ WF_vars(\E caller \in Address : claim_dispute_timeout(caller, id))
          /\ WF_vars(\E caller \in Address : reclaim_expired(caller, id))

FairSpec == Spec /\ Fairness
-----------------------------------------------------------------------------
(* Types.                                                                  *)

TypeOK ==
    /\ now \in Time
    /\ config \in Config
    /\ next_id \in 1..(MaxEscrows + 1)
    /\ escrow \in [Ids -> EscrowRecord]
    /\ created_at \in [Ids -> Time]
    /\ dispute \in [Ids -> DisputeRecord]
    /\ votes \in [Ids -> Seq(Vote)]
    /\ proposal \in [Ids -> OptionTime]
    /\ pending_expiry \in [Ids -> OptionTime]
    /\ counters \in Counters
    /\ ledger \in [Ids -> Ledger]
-----------------------------------------------------------------------------
(* Safety.                                                                 *)

(* What the contract still holds of an escrow's principal and basket.      *)
custody(id) ==
    LET l == ledger[id]
    IN  l.deposited - l.to_buyer - l.to_payees - l.to_collector
            - l.to_resolver - l.to_treasury
basket_custody(id) ==
    ledger[id].basket_deposited - ledger[id].basket_to_buyer
        - ledger[id].basket_to_seller

(* Every stroop the buyer paid in is either the recorded amount of an      *)
(* escrow that is still open or has been paid out, exactly once: no path   *)
(* through settlement, cancellation, refund, dispute, appeal or rescue     *)
(* strands money in the contract or pays an escrow with another's funds.   *)
CustodyConservation ==
    \A id \in Ids :
        LET held == escrow[id].state \in HoldingStates
        IN  /\ custody(id) = IF held THEN escrow[id].amount ELSE 0
            /\ basket_custody(id) = IF held THEN escrow[id].basket ELSE 0

(* Arbitration and resolver fees leave the contract once per dispute,      *)
(* however often it is appealed: what the collector and the resolvers got  *)
(* is what the dispute records, and the amount finalize_dispute takes its  *)
(* percentages of is the principal as it was funded.                       *)
FeesChargedOnce ==
    \A id \in Ids :
        /\ ledger[id].to_resolver = dispute[id].resolver_fee
        /\ escrow[id].state \in {"Disputed", "PendingFinalization"} =>
              /\ ledger[id].to_collector = dispute[id].arbitration_fee
              /\ fee_basis(id) = ledger[id].deposited

(* A delivery proposal exists only for a shipped escrow without a recorded *)
(* delivery and an expiry schedule only for a pending one: every other     *)
(* exit of these states drops them (clear_delivery_proposal, the removal   *)
(* of PendingExpiry).  A stale schedule would block a funded escrow.       *)
NoOrphanedSchedule ==
    \A id \in Ids :
        /\ proposal[id] # None =>
              escrow[id].state = "Shipped" /\ escrow[id].delivered_at = None
        /\ pending_expiry[id] # None => escrow[id].state = "Pending"

(* From the funding on, buyer, payees and resolvers are different people,  *)
(* whichever creator checked the roles, whoever stepped in as the buyer of *)
(* an open offer and however often the resolver was rotated.               *)
RolesStaySeparate ==
    \A id \in Ids :
        LET e == escrow[id]
        IN  e.state \notin {"Absent", "Pending", "Canceled"} =>
                /\ e.buyer \in Address \ payee_addresses(e)
                /\ ~contains(e.resolvers, e.buyer)
                /\ ~contains(e.resolvers, primary_payee(e))

(* The lifecycle counters count escrows: one increment for each escrow     *)
(* that was created, disputed, completed or refunded, on every path, and   *)
(* TotalArbitrationFees is the sum of what the disputes record.            *)
CountersMatchEscrows ==
    LET in_state(s) == Cardinality({id \in Ids : escrow[id].state = s})
        fees[n \in 0..MaxEscrows] ==
            IF n = 0 THEN 0 ELSE fees[n - 1] + dispute[n].arbitration_fee
    IN  /\ counters.created = MaxEscrows - in_state("Absent")
        /\ counters.completed = in_state("Completed")
        /\ counters.refunded = in_state("Refunded")
        /\ counters.disputed =
              Cardinality({id \in Ids : dispute[id].status # "Absent"})
        /\ counters.arbitration_fees = fees[MaxEscrows]

(* A settlement pays one side.  The buyer of a completed escrow gets       *)
(* nothing back and the payees of any other closed escrow get nothing, and *)
(* a buyer who leaves before any fee was charged leaves with the whole     *)
(* deposit.                                                                *)
OneSideIsPaid ==
    \A id \in Ids :
        LET l == ledger[id]
            s == escrow[id].state
        IN  /\ s = "Completed" => l.to_buyer = 0 /\ l.basket_to_buyer = 0
            /\ s \in TerminalStates \ {"Completed"} =>
                  /\ l.to_payees = 0 /\ l.basket_to_seller = 0
                  /\ ~dispute[id].fees_charged => l.to_buyer = l.deposited

(* While a dispute is open its votes are those of this round: one per      *)
(* resolver, cast by current members, and too few for either side.  The    *)
(* guard of resolve_deadlocked_dispute on a met threshold is never false.  *)
VotesAreSound ==
    \A id \in Ids :
        escrow[id].state = "Disputed" =>
            LET v == votes[id]
            IN  /\ \A i \in DOMAIN v : contains(escrow[id].resolvers, v[i].resolver)
                /\ \A i, j \in DOMAIN v : v[i].resolver = v[j].resolver => i = j
                /\ tally_votes(v, threshold(escrow[id].resolvers)) = None

(* A decision that waits for its appeal window was reached in one of three *)
(* ways: enough votes, the majority of a deadlock that is old enough, or a *)
(* party's timeout, which can only refund.  Resolvers cannot be outvoted   *)
(* by an appeal that leaves votes or a resolution of the round before.     *)
DecisionIsBacked ==
    \A id \in Ids :
        escrow[id].state = "PendingFinalization" =>
            LET d == dispute[id]
                v == votes[id]
                r == get_resolution(d.resolution)
            IN  \/ votes_for(v, r) >= threshold(escrow[id].resolvers)
                \/ /\ d.resolved_at >= d.disputed_at + DISPUTE_DEADLOCK_WINDOW
                   /\ \E i \in DOMAIN v :
                         v[i].resolver = d.resolved_by /\ v[i].resolution = r
                   /\ r = tally_votes_majority(v)
                \/ /\ d.resolved_at >= d.disputed_at + MIN_DISPUTE_TIMEOUT
                   /\ r = "Refund"
                   /\ d.resolved_by \in buyer_and_seller(escrow[id])

(* The permissionless auto_release and the buyer's right to raise a        *)
(* dispute are never open at the same time, whether the release window ran *)
(* from the funding, from a shipment or from a delivery the admin recorded *)
(* early.                                                                  *)
ReleaseWaitsForDisputeWindow ==
    \A id \in Ids :
        ensure_auto_release_eligible(id) => now >= escrow[id].dispute_deadline
-----------------------------------------------------------------------------
(* What a step may never do.                                               *)

(* A closed escrow is closed: no later call, of any entry point, changes   *)
(* it, its dispute, its votes or what was paid for it.                     *)
TerminalIsFinal ==
    [][\A id \in Ids :
          escrow[id].state \in TerminalStates =>
              <<escrow[id], dispute[id], votes[id], ledger[id]>>'
                  = <<escrow[id], dispute[id], votes[id], ledger[id]>>]_vars

(* While the contract is paused the only money that moves is a refund to   *)
(* the buyer (emergency_drain, recovery_withdraw): no deposit, no release, *)
(* no fee.  Every other entry point checks the pause for itself.           *)
PauseStopsPayments ==
    [][config.paused =>
          \A id \in Ids :
              \E b \in {ledger[id].to_buyer, ledger'[id].to_buyer},
                 k \in {ledger[id].basket_to_buyer, ledger'[id].basket_to_buyer} :
                  ledger'[id] = [ledger[id] EXCEPT !.to_buyer = b,
                                                   !.basket_to_buyer = k]]_vars

(* The fees of a dispute are settled by its first decision: a rate the     *)
(* admin raises later cannot reach it, even when the first decision        *)
(* charged nothing, and no later round pays a resolver again.              *)
DecidedFeesAreFixed ==
    [][\A id \in Ids :
          dispute[id].fees_charged =>
              /\ dispute'[id].fees_charged
              /\ dispute'[id].arbitration_fee = dispute[id].arbitration_fee
              /\ dispute'[id].resolver_fee = dispute[id].resolver_fee
              /\ ledger'[id].to_resolver = ledger[id].to_resolver]_vars
-----------------------------------------------------------------------------
(* Progress, up to the horizon MaxTime.                                    *)

(* A decided dispute does not stay decided: it is appealed or paid out     *)
(* once its appeal window is over.                                         *)
DecidedDisputeMovesOn ==
    \A id \in Ids :
        (/\ escrow[id].state = "PendingFinalization"
         /\ dispute[id].resolved_at + APPEAL_WINDOW <= MaxTime)
            ~> escrow[id].state # "PendingFinalization"

(* A dispute the resolvers never decide is decided by its timeout.         *)
OpenDisputeIsDecided ==
    \A id \in Ids :
        (/\ escrow[id].state = "Disputed"
         /\ dispute[id].disputed_at + config.dispute_timeout <= MaxTime)
            ~> escrow[id].state # "Disputed"

(* An offer without a custom expiry that nobody funds is cancelled.        *)
StaleOfferIsCancelled ==
    \A id \in Ids :
        (/\ escrow[id].state = "Pending"
         /\ escrow[id].expires_at = None
         /\ pending_expiry_deadline(id) < MaxTime)
            ~> escrow[id].state # "Pending"

(* A shipped escrow whose delivery is on record does not stay shipped.     *)
DeliveredEscrowIsSettled ==
    \A id \in Ids :
        (/\ escrow[id].state = "Shipped"
         /\ escrow[id].delivered_at # None
         /\ escrow[id].delivered_at + DELIVERY_RELEASE_WINDOW <= MaxTime)
            ~> escrow[id].state # "Shipped"
=============================================================================
