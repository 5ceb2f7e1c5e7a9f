--------------------------- MODULE EscrowMoveProofs ---------------------------
(***************************************************************************)
(* What a step may do and who decides, for every value of the constants:   *)
(* no step touches a closed escrow (TerminalIsFinal), charges a decided    *)
(* dispute again (DecidedFeesAreFixed) or leaves a schedule behind in a    *)
(* state it does not belong to (NoOrphanedSchedule); the roles stay        *)
(* separate (RolesStaySeparate), the votes of an open dispute are those of *)
(* its round (VotesAreSound), a decision has one of its three grounds      *)
(* (DecisionIsBacked), the release waits for the dispute window            *)
(* (ReleaseWaitsForDisputeWindow), a pause lets out refunds only           *)
(* (PauseStopsPayments), and the counters count (CountersMatchEscrows).    *)
(*                                                                         *)
(* The thirty operations come down to a dozen moves of one escrow.         *)
(***************************************************************************)
EXTENDS EscrowProofs

-----------------------------------------------------------------------------
(* Every step is the step of one escrow that is not closed, or moves none. *)

Same(id) ==
    /\ escrow'[id] = escrow[id] /\ dispute'[id] = dispute[id]
    /\ votes'[id] = votes[id] /\ ledger'[id] = ledger[id]

OpenEscrowStep ==
    \E id \in Ids :
        /\ escrow[id].state \notin TerminalStates
        /\ \A other \in Ids \ {id} : Same(other)

QuietStep == UNCHANGED <<escrow, dispute, votes, ledger>>

(* A write under one id is no write under another.                         *)
LEMMA OtherEntries ==
    ASSUME TypeOK, NEW id \in Ids
    PROVE  /\ \A e : save_escrow(id, e) =>
                 \A other \in Ids \ {id} : escrow'[other] = escrow[other]
           /\ \A d : save_dispute(id, d) =>
                 \A other \in Ids \ {id} : dispute'[other] = dispute[other]
           /\ \A v : save_resolver_votes(id, v) =>
                 \A other \in Ids \ {id} : votes'[other] = votes[other]
           /\ \A l : book(id, l) =>
                 \A other \in Ids \ {id} : ledger'[other] = ledger[other]
BY DEF TypeOK, save_escrow, save_dispute, save_resolver_votes, book

(* An escrow is created under an id nothing was stored under.              *)
LEMMA CreationStep ==
    ASSUME TypeOK, BooksInv, NEW t \in Terms, NewEscrow(t)
    PROVE  OpenEscrowStep
<1>1. next_id \in Ids
  BY DEF NewEscrow
<1>2. escrow[next_id].state = "Absent"
  BY <1>1 DEF BooksInv, FreshIds, Ids
<1>3. \A other \in Ids \ {next_id} : Same(other)
  BY <1>1, OtherEntries DEF NewEscrow, Same
<1> QED
  BY <1>1, <1>2, <1>3 DEF OpenEscrowStep, TerminalStates

(* The operations of the trade on an escrow that exists.                   *)
LEMMA TradeStep ==
    ASSUME TypeOK, BooksInv, Trade
    PROVE  OpenEscrowStep \/ QuietStep
<1>1. ASSUME NEW t \in Terms,
             \/ create_escrow(t)
             \/ create_escrow_with_expiration(t)
             \/ create_escrow_multi(t)
             \/ create_escrow_with_fallback(t)
             \/ create_basket_escrow(t)
      PROVE  OpenEscrowStep
  <2>1. NewEscrow(t)
    BY <1>1 DEF create_escrow, create_escrow_with_expiration, create_escrow_multi,
                create_escrow_with_fallback, create_basket_escrow,
                create_escrow_internal, create_with_resolver_set
  <2> QED
    BY <2>1, CreationStep
<1>2. ASSUME NEW id \in Ids,
             \/ auto_cancel_pending(id)
             \/ mutual_cancel(id)
             \/ co_signed_release(id)
             \/ auto_release(id)
      PROVE  OpenEscrowStep
  <2>1. escrow[id].state \in {"Pending", "Funded", "Shipped"}
    BY <1>2 DEF auto_cancel_pending, mutual_cancel, co_signed_release,
                auto_release, ensure_auto_release_eligible
  <2>2. ASSUME NEW other \in Ids \ {id} PROVE Same(other)
    BY <1>2, OtherEntries
       DEF auto_cancel_pending, mutual_cancel, co_signed_release, auto_release,
           settle_escrow_to_payees, move_to, pay_buyer_in_full, dispute_vars, Same
  <2> QED
    BY <2>1, <2>2 DEF OpenEscrowStep, TerminalStates
<1>3. ASSUME NEW id \in Ids, NEW caller \in Address,
             \/ fund_escrow(caller, id)
             \/ fund_basket_escrow(caller, id)
             \/ cancel_escrow(caller, id)
             \/ mark_shipped(caller, id)
             \/ record_delivery(caller, id)
             \/ \E waive \in BOOLEAN : confirm_delivery(caller, id, waive)
             \/ request_refund(caller, id)
             \/ approve_refund(caller, id)
             \/ reclaim_expired(caller, id)
             \/ \E new_resolver \in Address : rotate_resolver(caller, id, new_resolver)
      PROVE  OpenEscrowStep
  <2>1. escrow[id].state \notin TerminalStates
    BY <1>3 DEF fund_escrow, fund_basket_escrow, fund, cancel_escrow, mark_shipped,
                record_delivery, confirm_delivery, request_refund,
                approve_refund, reclaim_expired, rotate_resolver, TerminalStates
  <2>2. ASSUME NEW other \in Ids \ {id} PROVE Same(other)
    BY <1>3, OtherEntries
       DEF fund_escrow, fund_basket_escrow, fund, cancel_escrow, mark_shipped,
           record_delivery, confirm_delivery, request_refund, approve_refund,
           reclaim_expired, rotate_resolver, settle_escrow_to_payees,
           move_to, pay_buyer_in_full, dispute_vars, Same
  <2> QED
    BY <2>1, <2>2 DEF OpenEscrowStep
<1>4. ASSUME NEW id \in Ids, NEW caller \in Address,
             \/ propose_record_delivery(caller, id)
             \/ cancel_delivery_proposal(caller, id)
             \/ reject_delivery_proposal(caller, id)
      PROVE  QuietStep
  BY <1>4 DEF propose_record_delivery, cancel_delivery_proposal,
              reject_delivery_proposal, drop_delivery_proposal, dispute_vars,
              QuietStep
<1> QED
  BY <1>1, <1>2, <1>3, <1>4 DEF Trade

(* The operations on a dispute and the emergency exits.                    *)
LEMMA DisputeStep ==
    ASSUME TypeOK, Dispute \/ Rescue
    PROVE  OpenEscrowStep
<1>1. ASSUME NEW id \in Ids, NEW caller, NEW r, NEW v, NEW charge_fees,
             execute_resolution_transition(id, caller, r, v, charge_fees),
             escrow[id].state = "Disputed"
      PROVE  OpenEscrowStep
  <2>1. ASSUME NEW other \in Ids \ {id} PROVE Same(other)
    BY <1>1, OtherEntries DEF execute_resolution_transition, move_to, Same
  <2> QED
    BY <1>1, <2>1 DEF OpenEscrowStep, TerminalStates
<1>2. ASSUME NEW id \in Ids,
             \/ resolve_deadlocked_dispute(id)
             \/ \E caller \in Address : claim_dispute_timeout(caller, id)
      PROVE  OpenEscrowStep
  BY <1>1, <1>2, Zenon DEF resolve_deadlocked_dispute, claim_dispute_timeout
<1>3. ASSUME NEW id \in Ids, NEW caller \in Address, NEW r \in Resolution,
             resolve_or_vote(caller, id, r)
      PROVE  OpenEscrowStep
  <2> DEFINE v == add_or_update_vote(votes[id], caller, r)
  <2>1. escrow[id].state = "Disputed"
    BY <1>3, Zenon DEF resolve_or_vote
  <2>2. CASE save_resolver_votes(id, v) /\ UNCHANGED <<escrow, dispute, ledger>>
    <3> HIDE DEF v
    <3>1. ASSUME NEW other \in Ids \ {id} PROVE Same(other)
      BY <2>2, OtherEntries DEF Same
    <3> QED
      BY <2>1, <3>1 DEF OpenEscrowStep, TerminalStates
  <2> QED
    BY <1>1, <1>3, <2>1, <2>2, Zenon DEF resolve_or_vote
<1>4. ASSUME NEW id \in Ids,
             \/ finalize_dispute(id)
             \/ emergency_drain(id)
             \/ \E caller \in Address :
                   \/ raise_dispute(caller, id)
                   \/ appeal_dispute(caller, id)
                   \/ cancel_pending_finalization(caller, id)
                   \/ recovery_withdraw(caller, id)
      PROVE  OpenEscrowStep
  <2>1. escrow[id].state \notin TerminalStates
    BY <1>4 DEF finalize_dispute, emergency_drain, raise_dispute, appeal_dispute,
                cancel_pending_finalization, recovery_withdraw, refund_from,
                HoldingStates, TerminalStates
  <2>2. ASSUME NEW other \in Ids \ {id} PROVE Same(other)
    BY <1>4, OtherEntries
       DEF finalize_dispute, emergency_drain, raise_dispute, appeal_dispute,
           cancel_pending_finalization, recovery_withdraw, refund_from,
           move_to, pay_buyer_in_full, dispute_vars, Same
  <2> QED
    BY <2>1, <2>2 DEF OpenEscrowStep
<1> QED
  BY <1>2, <1>3, <1>4 DEF Dispute, Rescue

(* All steps.                                                              *)
LEMMA EveryStep ==
    ASSUME TypeOK, BooksInv, [Next]_vars
    PROVE  OpenEscrowStep \/ QuietStep
<1>1. Tick \/ Administer \/ UNCHANGED vars => QuietStep
  BY Zenon DEF Tick, Administer, configure, set_paused, set_recovery_mode,
            pause_action, unpause_action, set_arbitration_fee, set_platform_fee,
            execute_set_appeal_fee, set_dispute_timeout,
            execute_set_max_appeals, vars, QuietStep
<1> QED
  BY <1>1, TradeStep, DisputeStep DEF Next
-----------------------------------------------------------------------------
(* A closed escrow is closed: no call of any entry point, an emergency     *)
(* exit or a rotation included, changes it, its dispute, its votes or what *)
(* was paid for it.                                                        *)
THEOREM ClosedIsFinal == Spec => TerminalIsFinal
<1>1. TypeOK /\ BooksInv /\ [Next]_vars
         => [\A id \in Ids :
                escrow[id].state \in TerminalStates =>
                    <<escrow[id], dispute[id], votes[id], ledger[id]>>'
                        = <<escrow[id], dispute[id], votes[id], ledger[id]>>]_vars
  <2> SUFFICES ASSUME TypeOK, BooksInv, [Next]_vars, NEW id \in Ids,
                      escrow[id].state \in TerminalStates
               PROVE  Same(id)
    BY DEF Same
  <2>1. CASE OpenEscrowStep
    BY <2>1 DEF OpenEscrowStep
  <2>2. CASE QuietStep
    BY <2>2 DEF QuietStep, Same
  <2> QED
    BY <2>1, <2>2, EveryStep
<1> QED
  BY <1>1, TypeCorrect, BooksHold, PTL DEF Spec, TerminalIsFinal

-----------------------------------------------------------------------------
(* Schedules.                                                              *)

(* A write under one id of the two schedule tables.                        *)
LEMMA ScheduleEntries ==
    ASSUME TypeOK, NEW id \in Ids
    PROVE  /\ clear_delivery_proposal(id) =>
                 /\ proposal'[id] = None
                 /\ \A other \in Ids \ {id} : proposal'[other] = proposal[other]
           /\ clear_pending_expiry(id) =>
                 /\ pending_expiry'[id] = None
                 /\ \A other \in Ids \ {id} :
                       pending_expiry'[other] = pending_expiry[other]
           /\ \A x : save_pending_expiry(id, x) =>
                 \A other \in Ids \ {id} :
                    pending_expiry'[other] = pending_expiry[other]
BY DEF TypeOK, clear_delivery_proposal, clear_pending_expiry, save_pending_expiry

SameSchedule(id) ==
    /\ escrow'[id] = escrow[id]
    /\ proposal'[id] = proposal[id] /\ pending_expiry'[id] = pending_expiry[id]

(* The step of an escrow that has no schedule left after it.               *)
UnscheduledStep ==
    \E id \in Ids :
        /\ proposal'[id] = None /\ pending_expiry'[id] = None
        /\ \A other \in Ids \ {id} : SameSchedule(other)

(* What an escrow that is neither shipped nor pending has no schedule for. *)
LEMMA NoSchedule ==
    ASSUME NoOrphanedSchedule, NEW id \in Ids
    PROVE  /\ escrow[id].state # "Shipped" => proposal[id] = None
           /\ escrow[id].state # "Pending" => pending_expiry[id] = None
BY DEF NoOrphanedSchedule

(* Every exit of a state drops the schedule that belongs to it.            *)
LEMMA TradeExitSchedules ==
    ASSUME TypeOK, NoOrphanedSchedule, NEW id \in Ids,
           \/ auto_cancel_pending(id)
           \/ mutual_cancel(id)
           \/ co_signed_release(id)
           \/ auto_release(id)
           \/ \E caller \in Address :
                 \/ fund_escrow(caller, id)
                 \/ fund_basket_escrow(caller, id)
                 \/ cancel_escrow(caller, id)
                 \/ mark_shipped(caller, id)
                 \/ record_delivery(caller, id)
                 \/ \E waive \in BOOLEAN : confirm_delivery(caller, id, waive)
                 \/ request_refund(caller, id)
                 \/ approve_refund(caller, id)
                 \/ reclaim_expired(caller, id)
    PROVE  UnscheduledStep
<1>1. \A other \in Ids \ {id} : SameSchedule(other)
  BY OtherEntries, ScheduleEntries
     DEF auto_cancel_pending, mutual_cancel, co_signed_release, auto_release,
         fund_escrow, fund_basket_escrow, fund, cancel_escrow, mark_shipped,
         record_delivery, confirm_delivery, request_refund, approve_refund,
         reclaim_expired, settle_escrow_to_payees, move_to, SameSchedule
<1>2. \/ clear_delivery_proposal(id)
      \/ proposal' = proposal /\ escrow[id].state # "Shipped"
  BY DEF auto_cancel_pending, mutual_cancel, co_signed_release, auto_release,
         fund_escrow, fund_basket_escrow, fund, cancel_escrow, mark_shipped,
         record_delivery, confirm_delivery, request_refund, approve_refund,
         reclaim_expired, settle_escrow_to_payees
<1>3. \/ clear_pending_expiry(id)
      \/ pending_expiry' = pending_expiry /\ escrow[id].state # "Pending"
  BY DEF auto_cancel_pending, mutual_cancel, co_signed_release, auto_release,
         ensure_auto_release_eligible, fund_escrow, fund_basket_escrow, fund,
         cancel_escrow, mark_shipped, record_delivery, confirm_delivery,
         request_refund, approve_refund, reclaim_expired
<1>4. proposal'[id] = None /\ pending_expiry'[id] = None
  BY <1>2, <1>3, ScheduleEntries, NoSchedule
<1> QED
  BY <1>1, <1>4 DEF UnscheduledStep

(* A dispute and an emergency exit leave no schedule either.               *)
LEMMA DisputeExitSchedules ==
    ASSUME TypeOK, NoOrphanedSchedule, Dispute \/ Rescue
    PROVE  UnscheduledStep
<1>1. ASSUME NEW id \in Ids, NEW caller, NEW r, NEW v, NEW charge_fees,
             execute_resolution_transition(id, caller, r, v, charge_fees),
             escrow[id].state = "Disputed"
      PROVE  UnscheduledStep
  <2>1. \A other \in Ids \ {id} : SameSchedule(other)
    BY <1>1, OtherEntries DEF execute_resolution_transition, move_to, SameSchedule
  <2>2. proposal' = proposal /\ pending_expiry' = pending_expiry
    BY <1>1 DEF execute_resolution_transition
  <2> QED
    BY <1>1, <2>1, <2>2, NoSchedule DEF UnscheduledStep
<1>2. ASSUME NEW id \in Ids,
             \/ resolve_deadlocked_dispute(id)
             \/ \E caller \in Address : claim_dispute_timeout(caller, id)
      PROVE  UnscheduledStep
  BY <1>1, <1>2, Zenon DEF resolve_deadlocked_dispute, claim_dispute_timeout
<1>3. ASSUME NEW id \in Ids, NEW caller \in Address, NEW r \in Resolution,
             resolve_or_vote(caller, id, r)
      PROVE  UnscheduledStep
  <2>1. escrow[id].state = "Disputed"
    BY <1>3, Zenon DEF resolve_or_vote
  <2>2. CASE UNCHANGED <<escrow, proposal, pending_expiry>>
    BY <2>1, <2>2, NoSchedule DEF UnscheduledStep, SameSchedule
  <2> QED
    BY <1>1, <1>3, <2>1, <2>2, Zenon DEF resolve_or_vote
<1>4. ASSUME NEW id \in Ids,
             \/ finalize_dispute(id)
             \/ emergency_drain(id)
             \/ \E caller \in Address :
                   \/ raise_dispute(caller, id)
                   \/ appeal_dispute(caller, id)
                   \/ cancel_pending_finalization(caller, id)
                   \/ recovery_withdraw(caller, id)
      PROVE  UnscheduledStep
  <2>1. ASSUME NEW other \in Ids \ {id} PROVE SameSchedule(other)
    <3>1. escrow'[other] = escrow[other]
      BY <1>4, OtherEntries
         DEF finalize_dispute, emergency_drain, raise_dispute, appeal_dispute,
             cancel_pending_finalization, recovery_withdraw, refund_from, move_to
    <3>2. proposal' = proposal \/ clear_delivery_proposal(id)
      BY <1>4
         DEF finalize_dispute, emergency_drain, raise_dispute, appeal_dispute,
             cancel_pending_finalization, recovery_withdraw, refund_from
    <3>3. pending_expiry' = pending_expiry
      BY <1>4
         DEF finalize_dispute, emergency_drain, raise_dispute, appeal_dispute,
             cancel_pending_finalization, recovery_withdraw, refund_from
    <3> QED
      BY <3>1, <3>2, <3>3, ScheduleEntries DEF SameSchedule
  <2>2. \/ clear_delivery_proposal(id)
        \/ proposal' = proposal /\ escrow[id].state # "Shipped"
    BY <1>4 DEF finalize_dispute, emergency_drain, raise_dispute, appeal_dispute,
                cancel_pending_finalization, recovery_withdraw, refund_from
  <2>3. pending_expiry' = pending_expiry /\ escrow[id].state # "Pending"
    BY <1>4 DEF finalize_dispute, emergency_drain, raise_dispute, appeal_dispute,
                cancel_pending_finalization, recovery_withdraw, refund_from,
                HoldingStates
  <2>4. proposal'[id] = None /\ pending_expiry'[id] = None
    BY <2>2, <2>3, ScheduleEntries, NoSchedule
  <2> QED
    BY <2>1, <2>4 DEF UnscheduledStep
<1> QED
  BY <1>2, <1>3, <1>4 DEF Dispute, Rescue

(* The other steps: a new offer, a proposal made or dropped, a rotation.   *)
LEMMA TradeSchedules ==
    ASSUME TypeOK, BooksInv, NoOrphanedSchedule, Trade
    PROVE  NoOrphanedSchedule'
<1>1. ASSUME UnscheduledStep PROVE NoOrphanedSchedule'
  BY <1>1, Zenon DEF UnscheduledStep, SameSchedule, NoOrphanedSchedule
<1>2. ASSUME NEW t \in Terms, NewEscrow(t),
             \/ UNCHANGED pending_expiry
             \/ save_pending_expiry(next_id, t.expires_at)
      PROVE  NoOrphanedSchedule'
  <2>1. next_id \in Ids /\ proposal' = proposal
    BY <1>2 DEF NewEscrow
  <2>2. escrow[next_id].state = "Absent"
    BY <2>1 DEF BooksInv, FreshIds, Ids
  <2>3. /\ escrow'[next_id].state = "Pending"
        /\ \A other \in Ids \ {next_id} : SameSchedule(other)
    BY <1>2, <2>1, Entries, OtherEntries, ScheduleEntries DEF NewEscrow, SameSchedule
  <2>4. proposal'[next_id] = None
    BY <2>1, <2>2, NoSchedule
  <2>5. ASSUME NEW i \in Ids
        PROVE  /\ proposal'[i] # None =>
                     escrow'[i].state = "Shipped" /\ escrow'[i].delivered_at = None
               /\ pending_expiry'[i] # None => escrow'[i].state = "Pending"
    <3>1. CASE i = next_id
      BY <2>3, <2>4, <3>1
    <3>2. CASE i \in Ids \ {next_id}
      BY <2>3, <3>2 DEF SameSchedule, NoOrphanedSchedule
    <3> QED
      BY <3>1, <3>2
  <2> QED
    BY <2>5, Zenon DEF NoOrphanedSchedule
<1>3. ASSUME NEW t \in Terms,
             \/ create_escrow(t)
             \/ create_escrow_with_expiration(t)
             \/ create_escrow_multi(t)
             \/ create_escrow_with_fallback(t)
             \/ create_basket_escrow(t)
      PROVE  NoOrphanedSchedule'
  <2>1. NewEscrow(t)
    BY <1>3 DEF create_escrow, create_escrow_with_expiration, create_escrow_multi,
                create_escrow_with_fallback, create_basket_escrow,
                create_escrow_internal, create_with_resolver_set
  <2>2. \/ UNCHANGED pending_expiry
        \/ save_pending_expiry(next_id, t.expires_at)
    BY <1>3 DEF create_escrow, create_escrow_with_expiration, create_escrow_multi,
                create_escrow_with_fallback, create_basket_escrow,
                create_with_resolver_set
  <2> QED
    BY <1>2, <2>1, <2>2
<1>4. ASSUME NEW id \in Ids, NEW caller \in Address,
             propose_record_delivery(caller, id)
      PROVE  NoOrphanedSchedule'
  <2>1. /\ escrow[id].state = "Shipped" /\ escrow[id].delivered_at = None
        /\ escrow' = escrow /\ pending_expiry' = pending_expiry
        /\ \A other \in Ids \ {id} : proposal'[other] = proposal[other]
    BY <1>4 DEF propose_record_delivery, TypeOK
  <2> QED
    BY <2>1 DEF NoOrphanedSchedule
<1>5. ASSUME NEW id \in Ids, NEW caller \in Address,
             \/ cancel_delivery_proposal(caller, id)
             \/ reject_delivery_proposal(caller, id)
      PROVE  NoOrphanedSchedule'
  <2>1. /\ escrow' = escrow /\ pending_expiry' = pending_expiry
        /\ proposal'[id] = None
        /\ \A other \in Ids \ {id} : proposal'[other] = proposal[other]
    BY <1>5, ScheduleEntries
       DEF cancel_delivery_proposal, reject_delivery_proposal, drop_delivery_proposal
  <2> QED
    BY <2>1 DEF NoOrphanedSchedule
<1>6. ASSUME NEW id \in Ids, NEW caller \in Address, NEW new_resolver \in Address,
             rotate_resolver(caller, id, new_resolver)
      PROVE  NoOrphanedSchedule'
  <2> DEFINE f == [escrow[id] EXCEPT !.resolvers.members = <<new_resolver>>]
  <2>1. f.state = escrow[id].state /\ f.delivered_at = escrow[id].delivered_at
    BY Entries DEF EscrowRecord
  <2>2. /\ save_escrow(id, f) /\ proposal' = proposal
        /\ pending_expiry' = pending_expiry
    BY <1>6 DEF rotate_resolver
  <2> HIDE DEF f
  <2>3. /\ escrow'[id] = f
        /\ \A other \in Ids \ {id} : escrow'[other] = escrow[other]
    BY <2>2, Entries
  <2> QED
    BY <2>1, <2>2, <2>3 DEF NoOrphanedSchedule
<1> QED
  BY <1>1, <1>3, <1>4, <1>5, <1>6, TradeExitSchedules DEF Trade

(* No exit of a state leaves behind the schedule that belongs to it: a     *)
(* delivery proposal needs a shipped escrow, an expiry a pending one.      *)
THEOREM SchedulesAreDropped == Spec => []NoOrphanedSchedule
<1>1. Init => NoOrphanedSchedule
  BY DEF Init, NoOrphanedSchedule
<1>2. TypeOK /\ BooksInv /\ NoOrphanedSchedule /\ [Next]_vars
         => NoOrphanedSchedule'
  <2> SUFFICES ASSUME TypeOK, BooksInv, NoOrphanedSchedule, [Next]_vars
               PROVE  NoOrphanedSchedule'
    OBVIOUS
  <2>1. UnscheduledStep => NoOrphanedSchedule'
    BY Zenon DEF UnscheduledStep, SameSchedule, NoOrphanedSchedule
  <2>2. Tick \/ Administer \/ UNCHANGED vars
           => UNCHANGED <<escrow, proposal, pending_expiry>>
    BY Zenon DEF Tick, Administer, configure, set_paused, set_recovery_mode,
              pause_action, unpause_action, set_arbitration_fee,
              set_platform_fee, execute_set_appeal_fee, set_dispute_timeout,
              execute_set_max_appeals, vars
  <2>3. UNCHANGED <<escrow, proposal, pending_expiry>> => NoOrphanedSchedule'
    BY DEF NoOrphanedSchedule
  <2> QED
    BY <2>1, <2>2, <2>3, TradeSchedules, DisputeExitSchedules DEF Next
<1> QED
  BY <1>1, <1>2, TypeCorrect, BooksHold, PTL DEF Spec

-----------------------------------------------------------------------------
(* Fees of a decided dispute.                                              *)

(* Only an escrow that was disputed has a dispute whose fees are settled.  *)
FeesNeedDispute ==
    \A id \in Ids :
        dispute[id].fees_charged =>
            escrow[id].state \in DisputedStates \cup TerminalStates

SameFees(id) ==
    /\ dispute'[id].fees_charged
    /\ dispute'[id].arbitration_fee = dispute[id].arbitration_fee
    /\ dispute'[id].resolver_fee = dispute[id].resolver_fee

(* What a step does to the fees of one dispute.                            *)
FeesOf(id) ==
    /\ dispute[id].fees_charged => SameFees(id)
    /\ dispute'[id].fees_charged =>
          escrow'[id].state \in DisputedStates \cup TerminalStates

(* A step of one escrow leaves the fees of the others alone.               *)
LEMMA OthersKeepFees ==
    ASSUME FeesNeedDispute, NEW id \in Ids, FeesOf(id),
           \A other \in Ids \ {id} :
              escrow'[other] = escrow[other] /\ dispute'[other] = dispute[other]
    PROVE  \A i \in Ids : FeesOf(i)
BY DEF FeesNeedDispute, FeesOf, SameFees

(* A step that does not write the dispute and moves the escrow, if it      *)
(* does, only forward.                                                     *)
LEMMA UndisputedFees ==
    ASSUME FeesNeedDispute, NEW id \in Ids, dispute' = dispute,
           escrow[id].state \in DisputedStates \cup TerminalStates =>
              escrow'[id].state \in DisputedStates \cup TerminalStates,
           \A other \in Ids \ {id} : escrow'[other] = escrow[other]
    PROVE  \A i \in Ids : FeesOf(i)
BY DEF FeesNeedDispute, FeesOf, SameFees

(* The trade writes no dispute and moves no disputed escrow.               *)
LEMMA TradeFees ==
    ASSUME TypeOK, BooksInv, FeesNeedDispute, Trade
    PROVE  \A i \in Ids : FeesOf(i)
<1> DEFINE Later == DisputedStates \cup TerminalStates
<1>1. dispute' = dispute
  <2>1. ASSUME NEW t \in Terms,
               \/ create_escrow(t)
               \/ create_escrow_with_expiration(t)
               \/ create_escrow_multi(t)
               \/ create_escrow_with_fallback(t)
               \/ create_basket_escrow(t)
        PROVE  dispute' = dispute
    <3>1. NewEscrow(t)
      BY <2>1 DEF create_escrow, create_escrow_with_expiration, create_escrow_multi,
                  create_escrow_with_fallback, create_basket_escrow,
                  create_escrow_internal, create_with_resolver_set
    <3> QED
      BY <3>1 DEF NewEscrow, dispute_vars
  <2>2. ASSUME NEW id \in Ids,
               \/ auto_cancel_pending(id)
               \/ mutual_cancel(id)
               \/ co_signed_release(id)
               \/ auto_release(id)
        PROVE  dispute' = dispute
    BY <2>2 DEF auto_cancel_pending, mutual_cancel, co_signed_release, auto_release,
                dispute_vars
  <2>3. ASSUME NEW id \in Ids, NEW caller \in Address,
               \/ fund_escrow(caller, id)
               \/ fund_basket_escrow(caller, id)
               \/ cancel_escrow(caller, id)
               \/ mark_shipped(caller, id)
               \/ record_delivery(caller, id)
               \/ \E waive \in BOOLEAN : confirm_delivery(caller, id, waive)
               \/ request_refund(caller, id)
               \/ approve_refund(caller, id)
               \/ reclaim_expired(caller, id)
        PROVE  dispute' = dispute
    BY <2>3 DEF fund_escrow, fund_basket_escrow, fund, cancel_escrow, mark_shipped,
                record_delivery, confirm_delivery, request_refund, approve_refund,
                reclaim_expired, dispute_vars
  <2>4. ASSUME NEW id \in Ids, NEW caller \in Address,
               \/ propose_record_delivery(caller, id)
               \/ cancel_delivery_proposal(caller, id)
               \/ reject_delivery_proposal(caller, id)
               \/ \E new_resolver \in Address :
                     rotate_resolver(caller, id, new_resolver)
        PROVE  dispute' = dispute
    BY <2>4 DEF propose_record_delivery, cancel_delivery_proposal,
                reject_delivery_proposal, drop_delivery_proposal, rotate_resolver,
                dispute_vars
  <2> QED
    BY <2>1, <2>2, <2>3, <2>4 DEF Trade
<1>2. ASSUME NEW t \in Terms, NewEscrow(t)
      PROVE  \A i \in Ids : FeesOf(i)
  <2>1. next_id \in Ids /\ escrow[next_id].state = "Absent"
    BY <1>2 DEF NewEscrow, BooksInv, FreshIds, Ids
  <2>2. \A other \in Ids \ {next_id} : escrow'[other] = escrow[other]
    BY <1>2, <2>1, OtherEntries DEF NewEscrow
  <2> QED
    BY <1>1, <2>1, <2>2, UndisputedFees DEF DisputedStates, TerminalStates
<1>3. ASSUME NEW id \in Ids, escrow[id].state \notin Later,
             NEW e, save_escrow(id, e)
      PROVE  \A i \in Ids : FeesOf(i)
  BY <1>1, <1>3, OtherEntries, UndisputedFees
<1>4. ASSUME NEW id \in Ids, NEW caller \in Address, NEW new_resolver \in Address,
             rotate_resolver(caller, id, new_resolver)
      PROVE  \A i \in Ids : FeesOf(i)
  <2> DEFINE f == [escrow[id] EXCEPT !.resolvers.members = <<new_resolver>>]
  <2>1. f.state = escrow[id].state
    BY Entries DEF EscrowRecord
  <2>2. save_escrow(id, f)
    BY <1>4 DEF rotate_resolver
  <2> HIDE DEF f
  <2> QED
    BY <1>1, <2>1, <2>2, Entries, UndisputedFees
<1>5. ASSUME escrow' = escrow PROVE \A i \in Ids : FeesOf(i)
  BY <1>1, <1>5 DEF FeesNeedDispute, FeesOf, SameFees
<1>6. ASSUME NEW t \in Terms,
             \/ create_escrow(t)
             \/ create_escrow_with_expiration(t)
             \/ create_escrow_multi(t)
             \/ create_escrow_with_fallback(t)
             \/ create_basket_escrow(t)
      PROVE  NewEscrow(t)
  BY <1>6 DEF create_escrow, create_escrow_with_expiration, create_escrow_multi,
              create_escrow_with_fallback, create_basket_escrow,
              create_escrow_internal, create_with_resolver_set
<1>7. ASSUME NEW id \in Ids, NEW caller \in Address,
             \/ auto_cancel_pending(id)
             \/ mutual_cancel(id)
             \/ co_signed_release(id)
             \/ auto_release(id)
             \/ fund_escrow(caller, id)
             \/ fund_basket_escrow(caller, id)
             \/ cancel_escrow(caller, id)
             \/ mark_shipped(caller, id)
             \/ record_delivery(caller, id)
             \/ \E waive \in BOOLEAN : confirm_delivery(caller, id, waive)
             \/ request_refund(caller, id)
             \/ approve_refund(caller, id)
             \/ reclaim_expired(caller, id)
      PROVE  \A i \in Ids : FeesOf(i)
  <2>1. escrow[id].state \notin Later
    BY <1>7
       DEF auto_cancel_pending, mutual_cancel, co_signed_release, auto_release,
           ensure_auto_release_eligible, fund_escrow, fund_basket_escrow, fund,
           cancel_escrow, mark_shipped, record_delivery, confirm_delivery,
           request_refund, approve_refund, reclaim_expired, DisputedStates,
           TerminalStates
  <2>2. \E e : save_escrow(id, e)
    BY <1>7
       DEF auto_cancel_pending, mutual_cancel, co_signed_release, auto_release,
           fund_escrow, fund_basket_escrow, fund, cancel_escrow, mark_shipped,
           record_delivery, confirm_delivery, request_refund, approve_refund,
           reclaim_expired, settle_escrow_to_payees, move_to
  <2> QED
    BY <1>3, <2>1, <2>2
<1>8. Admin \in Address
  BY RolesAssumption
<1> QED
  BY <1>2, <1>4, <1>5, <1>6, <1>7, <1>8
     DEF Trade, propose_record_delivery, cancel_delivery_proposal,
         reject_delivery_proposal, drop_delivery_proposal

(* A decision charges only a dispute whose fees are not settled yet.       *)
LEMMA TransitionFees ==
    ASSUME TypeOK, BooksInv, FeesNeedDispute, NEW id \in Ids, NEW caller, NEW r,
           NEW v, NEW charge_fees, escrow[id].state = "Disputed",
           execute_resolution_transition(id, caller, r, v, charge_fees)
    PROVE  \A i \in Ids : FeesOf(i)
<1> DEFINE e == escrow[id]
           d == dispute[id]
           decided == [d EXCEPT !.resolution = resolution_code(r),
                                !.resolved_by = caller, !.resolved_at = now,
                                !.fees_charged = TRUE]
           arbitration_fee == calculate_fee(e.amount, config.arbitration_fee_bps)
           resolver_fee == calculate_fee(e.amount, e.resolver_fee_bps)
           rest == e.amount - arbitration_fee - resolver_fee
           charged == [decided EXCEPT !.arbitration_fee = arbitration_fee,
                                      !.resolver_fee = resolver_fee]
           uncharged == IF d.fees_charged THEN decided
                        ELSE [decided EXCEPT !.arbitration_fee = 0,
                                             !.resolver_fee = 0]
           moved == [e EXCEPT !.state = "PendingFinalization"]
           reduced == [e EXCEPT !.state = "PendingFinalization", !.amount = rest]
<1>1. e \in EscrowRecord /\ d \in DisputeRecord
  BY Entries
<1>2. decided.fees_charged /\ decided.arbitration_fee = d.arbitration_fee
      /\ decided.resolver_fee = d.resolver_fee
  BY <1>1 DEF DisputeRecord
<1>3. \/ ~d.fees_charged /\ save_escrow(id, reduced) /\ save_dispute(id, charged)
      \/ save_escrow(id, moved) /\ save_dispute(id, uncharged)
  BY Zenon DEF execute_resolution_transition, first_charge, move_to
<1>4. reduced.state = "PendingFinalization" /\ moved.state = "PendingFinalization"
  BY <1>1 DEF EscrowRecord
<1>5. "PendingFinalization" \in DisputedStates
  BY DEF DisputedStates
<1>6. d.fees_charged => uncharged = decided
  BY Zenon
<1> HIDE DEF decided, reduced, moved, charged, uncharged
<1>7. FeesOf(id)
  BY <1>2, <1>3, <1>4, <1>5, <1>6, Entries DEF FeesOf, SameFees
<1> QED
  BY <1>3, <1>7, OtherEntries, OthersKeepFees

(* The other steps of a dispute copy its fees, and an exit closes it.      *)
LEMMA DisputeFees ==
    ASSUME TypeOK, BooksInv, FeesNeedDispute, Dispute \/ Rescue
    PROVE  \A i \in Ids : FeesOf(i)
<1>1. ASSUME NEW id \in Ids,
             \/ resolve_deadlocked_dispute(id)
             \/ \E caller \in Address : claim_dispute_timeout(caller, id)
      PROVE  \A i \in Ids : FeesOf(i)
  BY <1>1, TransitionFees, Zenon
     DEF resolve_deadlocked_dispute, claim_dispute_timeout
<1>2. ASSUME NEW id \in Ids, NEW caller \in Address, NEW r \in Resolution,
             resolve_or_vote(caller, id, r)
      PROVE  \A i \in Ids : FeesOf(i)
  <2>1. escrow[id].state = "Disputed"
    BY <1>2, Zenon DEF resolve_or_vote
  <2>2. CASE UNCHANGED <<escrow, dispute>>
    BY <2>2 DEF FeesNeedDispute, FeesOf, SameFees
  <2> QED
    BY <1>2, <2>1, <2>2, TransitionFees, Zenon DEF resolve_or_vote
<1>3. ASSUME NEW id \in Ids, NEW caller \in Address, raise_dispute(caller, id)
      PROVE  \A i \in Ids : FeesOf(i)
  <2> DEFINE raised == [NoDispute EXCEPT !.status = "Active", !.disputed_at = now]
             f == [escrow[id] EXCEPT !.state = "Disputed"]
  <2>1. save_escrow(id, f) /\ save_dispute(id, raised)
    BY <1>3 DEF raise_dispute, move_to
  <2>2. ~raised.fees_charged
    BY DEF NoDispute
  <2>3. ~dispute[id].fees_charged
    BY <1>3 DEF raise_dispute, FeesNeedDispute, DisputedStates, TerminalStates
  <2> HIDE DEF raised, f
  <2>4. FeesOf(id)
    BY <2>1, <2>2, <2>3, Entries DEF FeesOf
  <2> QED
    BY <2>1, <2>4, OtherEntries, OthersKeepFees
<1>4. ASSUME NEW id \in Ids, NEW f, NEW d2,
             save_escrow(id, f), save_dispute(id, d2),
             f.state \in DisputedStates \cup TerminalStates,
             d2.fees_charged = dispute[id].fees_charged,
             d2.arbitration_fee = dispute[id].arbitration_fee,
             d2.resolver_fee = dispute[id].resolver_fee
      PROVE  \A i \in Ids : FeesOf(i)
  <2>1. FeesOf(id)
    BY <1>4, Entries DEF FeesOf, SameFees
  <2> QED
    BY <1>4, <2>1, OtherEntries, OthersKeepFees
<1>5. ASSUME NEW id \in Ids, NEW caller \in Address,
             \/ appeal_dispute(caller, id)
             \/ finalize_dispute(id)
             \/ cancel_pending_finalization(caller, id)
      PROVE  \A i \in Ids : FeesOf(i)
  <2> DEFINE d == dispute[id]
             count == d.appeal_count + 1
             f(s) == [escrow[id] EXCEPT !.state = s]
             reopened == [d EXCEPT !.status = "Active", !.resolution = 0,
                             !.resolved_by = None, !.resolved_at = 0,
                             !.appeal_count = count]
             closed == [d EXCEPT !.status = "Resolved"]
             overridden == [d EXCEPT !.status = "Resolved", !.resolved_by = caller,
                               !.resolution = REFUND_DISCRIMINANT,
                               !.resolved_at = now]
  <2>1. \/ save_escrow(id, f("Disputed")) /\ save_dispute(id, reopened)
        \/ /\ save_escrow(id, f("Completed")) \/ save_escrow(id, f("Refunded"))
           /\ save_dispute(id, closed)
        \/ save_escrow(id, f("Refunded")) /\ save_dispute(id, overridden)
    BY <1>5 DEF appeal_dispute, finalize_dispute, cancel_pending_finalization, move_to
  <2>2. d \in DisputeRecord /\ escrow[id] \in EscrowRecord
    BY Entries
  <2>3. \A s : f(s).state = s
    BY <2>2 DEF EscrowRecord
  <2> HIDE DEF count
  <2>4. /\ reopened.fees_charged = d.fees_charged
        /\ reopened.arbitration_fee = d.arbitration_fee
        /\ reopened.resolver_fee = d.resolver_fee
    BY <2>2 DEF DisputeRecord
  <2>5. /\ closed.fees_charged = d.fees_charged
        /\ closed.arbitration_fee = d.arbitration_fee
        /\ closed.resolver_fee = d.resolver_fee
    BY <2>2 DEF DisputeRecord
  <2>6. /\ overridden.fees_charged = d.fees_charged
        /\ overridden.arbitration_fee = d.arbitration_fee
        /\ overridden.resolver_fee = d.resolver_fee
    BY <2>2 DEF DisputeRecord
  <2>7. {"Disputed", "Completed", "Refunded"} \subseteq DisputedStates \cup TerminalStates
    BY DEF DisputedStates, TerminalStates
  <2> HIDE DEF f, reopened, closed, overridden
  <2> QED
    BY <1>4, <2>1, <2>3, <2>4, <2>5, <2>6, <2>7
<1>6. ASSUME NEW id \in Ids, NEW states, refund_from(id, states)
      PROVE  \A i \in Ids : FeesOf(i)
  <2> DEFINE f == [escrow[id] EXCEPT !.state = "Refunded"]
  <2>1. save_escrow(id, f) /\ dispute' = dispute
    BY <1>6 DEF refund_from, move_to, dispute_vars
  <2>2. f.state = "Refunded" /\ "Refunded" \in TerminalStates
    BY Entries DEF EscrowRecord, TerminalStates
  <2> HIDE DEF f
  <2> QED
    BY <2>1, <2>2, Entries, UndisputedFees
<1>7. Admin \in Address
  BY RolesAssumption
<1> QED
  BY <1>1, <1>2, <1>3, <1>5, <1>6, <1>7
     DEF Dispute, Rescue, emergency_drain, recovery_withdraw

(* Every step.                                                             *)
LEMMA StepFees ==
    ASSUME TypeOK, BooksInv, FeesNeedDispute, [Next]_vars
    PROVE  \A i \in Ids : FeesOf(i)
<1>1. Tick \/ Administer \/ UNCHANGED vars => UNCHANGED <<escrow, dispute>>
  BY Zenon DEF Tick, Administer, configure, set_paused, set_recovery_mode,
            pause_action, unpause_action, set_arbitration_fee, set_platform_fee,
            execute_set_appeal_fee, set_dispute_timeout,
            execute_set_max_appeals, vars
<1>2. UNCHANGED <<escrow, dispute>> => \A i \in Ids : FeesOf(i)
  BY DEF FeesNeedDispute, FeesOf, SameFees
<1> QED
  BY <1>1, <1>2, TradeFees, DisputeFees DEF Next

(* Fees are charged in a dispute only: raise_dispute starts without them.  *)
THEOREM FeesNeedDisputes == Spec => []FeesNeedDispute
<1>1. Init => FeesNeedDispute
  BY DEF Init, FeesNeedDispute, NoDispute
<1>2. TypeOK /\ BooksInv /\ FeesNeedDispute /\ [Next]_vars => FeesNeedDispute'
  BY StepFees DEF FeesOf, FeesNeedDispute
<1> QED
  BY <1>1, <1>2, TypeCorrect, BooksHold, PTL DEF Spec

(* The fees of a dispute are settled by its first decision: no later round *)
(* and no change of a rate reaches them, even when they are zero.          *)
THEOREM SettledFeesAreFixed == Spec => DecidedFeesAreFixed
<1>1. TypeOK /\ BooksInv /\ BooksInv' /\ FeesNeedDispute /\ [Next]_vars
         => [\A id \in Ids :
                dispute[id].fees_charged =>
                    /\ dispute'[id].fees_charged
                    /\ dispute'[id].arbitration_fee = dispute[id].arbitration_fee
                    /\ dispute'[id].resolver_fee = dispute[id].resolver_fee
                    /\ ledger'[id].to_resolver = ledger[id].to_resolver]_vars
  <2> SUFFICES ASSUME TypeOK, BooksInv, BooksInv', FeesNeedDispute, [Next]_vars,
                      NEW id \in Ids, dispute[id].fees_charged
               PROVE  SameFees(id) /\ ledger'[id].to_resolver = ledger[id].to_resolver
    BY DEF SameFees
  <2>1. SameFees(id)
    BY StepFees DEF FeesOf
  <2>2. /\ ledger[id].to_resolver = dispute[id].resolver_fee
        /\ ledger'[id].to_resolver = dispute'[id].resolver_fee
    BY DEF BooksInv, SoundBooks, FeesBooked
  <2> QED
    BY <2>1, <2>2 DEF SameFees
<1> QED
  BY <1>1, TypeCorrect, BooksHold, FeesNeedDisputes, PTL DEF Spec, DecidedFeesAreFixed

-----------------------------------------------------------------------------
(* Moves.                                                                  *)

(* What the creators have checked of their arguments.                      *)
Acceptable(t) ==
    /\ t.amount > 0
    /\ \/ validate_single_resolver(t)
       \/ t.resolvers.kind \in {"Multi", "Fallback"} /\ validate_resolvers(t)

Create(id) ==
    \E t \in Terms : id = next_id /\ Acceptable(t) /\ NewEscrow(t)

(* An escrow nobody has funded is cancelled.                               *)
Lapse(id) ==
    /\ escrow[id].state = "Pending"
    /\ move_to(id, "Canceled")
    /\ UNCHANGED <<dispute, votes, counters, ledger>>

(* Parties, price, decision makers and deadline are as they were.          *)
SameDeal(e, f) ==
    /\ SamePrice(e, f) /\ f.buyer = e.buyer /\ f.resolvers = e.resolvers
    /\ f.dispute_deadline = e.dispute_deadline

(* Only the admin's record_delivery writes down a delivery.                *)
SameDelivery(id) ==
    escrow'[id].delivered_at = escrow[id].delivered_at \/ record_delivery(Admin, id)

(* A shipment, a delivery or the request of a refund.                      *)
Carry(id) ==
    \E f \in EscrowRecord :
        /\ save_escrow(id, f) /\ SameDeal(escrow[id], f) /\ SameDelivery(id)
        /\ escrow[id].state \in {"Funded", "Shipped", "RefundRequested"}
        /\ f.state \in {"Funded", "Shipped", "RefundRequested"}
        /\ UNCHANGED <<dispute, votes, counters, ledger>>

Rotate(id) ==
    \E caller, new_resolver \in Address : rotate_resolver(caller, id, new_resolver)

(* The payees get what a fee leaves of the amount.                         *)
Settle(id) ==
    /\ escrow[id].state \in {"Funded", "Shipped"}
    /\ move_to(id, "Completed")
    /\ record_escrow_completed
    /\ \E fee, paid \in Nat :
          /\ fee + paid = escrow[id].amount
          /\ book(id, [ledger[id] EXCEPT
                !.to_collector = @ + fee, !.to_payees = @ + paid,
                !.basket_to_seller = @ + escrow[id].basket])
    /\ UNCHANGED dispute_vars

(* The admin's override, on the record.                                    *)
Overridden(id) ==
    \E caller \in Address :
        save_dispute(id, [dispute[id] EXCEPT
            !.status = "Resolved", !.resolved_by = caller,
            !.resolution = REFUND_DISCRIMINANT, !.resolved_at = now])

(* The buyer gets back what is left.                                       *)
GiveBack(id) ==
    /\ escrow[id].state \in HoldingStates
    /\ pay_buyer_in_full(id)
    /\ \/ move_to(id, "Refunded") /\ record_escrow_refunded
       \/ /\ move_to(id, "Canceled") \/ move_to(id, "Expired")
          /\ UNCHANGED counters
    /\ \/ UNCHANGED dispute
       \/ escrow[id].state = "PendingFinalization" /\ Overridden(id)
    /\ UNCHANGED votes

(* A dispute is decided, for one of three reasons.                         *)
DecideOrVote(id) ==
    \/ resolve_deadlocked_dispute(id)
    \/ \E caller \in Address :
          \/ claim_dispute_timeout(caller, id)
          \/ \E r \in Resolution : resolve_or_vote(caller, id, r)

TradeMove(id) ==
    \/ Create(id)
    \/ \E buyer \in Address : fund(buyer, id)
    \/ Lapse(id)
    \/ Carry(id)
    \/ Rotate(id)
    \/ Settle(id)
    \/ GiveBack(id)

DisputeMove(id) ==
    \/ \E caller \in Address : raise_dispute(caller, id)
    \/ DecideOrVote(id)
    \/ \E caller \in Address : appeal_dispute(caller, id)
    \/ finalize_dispute(id)
    \/ GiveBack(id)

(* Nothing on record of any escrow changes.                                *)
NoMove == UNCHANGED <<escrow, dispute, votes, counters, ledger>>
-----------------------------------------------------------------------------
(* Every operation is one of the moves.                                    *)

(* The creators check their arguments.                                     *)
LEMMA CreationMove ==
    ASSUME NEW t \in Terms,
           \/ create_escrow(t)
           \/ create_escrow_with_expiration(t)
           \/ create_escrow_multi(t)
           \/ create_escrow_with_fallback(t)
           \/ create_basket_escrow(t)
    PROVE  \E id \in Ids : Create(id)
<1>1. NewEscrow(t) /\ Acceptable(t)
  BY DEF create_escrow, create_escrow_with_expiration, create_escrow_multi,
         create_escrow_with_fallback, create_basket_escrow,
         create_escrow_internal, create_with_resolver_set, validate_price,
         validate_basket_roles, Acceptable
<1>2. next_id \in Ids
  BY <1>1 DEF NewEscrow
<1> QED
  BY <1>1, <1>2 DEF Create

(* The settlements differ in the rate of their fee.                        *)
LEMMA SettlementMove ==
    ASSUME TypeOK, BooksInv, NEW id \in Ids,
           \/ auto_release(id)
           \/ co_signed_release(id)
           \/ \E caller \in Address, waive \in BOOLEAN :
                 confirm_delivery(caller, id, waive)
    PROVE  Settle(id)
<1> DEFINE e == escrow[id]
           fee(bps) == calculate_fee(e.amount, bps)
           rest(bps) == e.amount - fee(bps)
<1>1. /\ ProtocolFeeBps \in Nat /\ ProtocolFeeBps <= MAX_PROTOCOL_FEE_BPS
  BY ConfigAssumption, SMT DEF MAX_PROTOCOL_FEE_BPS
<1>2. e.state \in {"Funded", "Shipped"}
  BY DEF auto_release, co_signed_release, confirm_delivery,
         ensure_auto_release_eligible
<1>3. e.state # "Absent" /\ e \in EscrowRecord /\ SoundBooks(e, dispute[id], ledger[id])
  BY <1>2, Entries DEF BooksInv
<1>4. e.fee_bps \in Nat /\ e.fee_bps <= MAX_PROTOCOL_FEE_BPS
  BY <1>3, PricedParts, SMT DEF MAX_PROTOCOL_FEE_BPS, MAX_ESCROW_FEE_BPS
<1>5. ASSUME NEW bps \in Nat, bps <= MAX_PROTOCOL_FEE_BPS
      PROVE  /\ fee(bps) \in Nat /\ rest(bps) \in Nat
             /\ fee(bps) + rest(bps) = e.amount
             /\ payout(fee(bps)) = fee(bps) /\ payout(rest(bps)) = rest(bps)
             /\ distribute_to_payees(rest(bps), e.payees) = rest(bps)
  <2>1. rest(bps) \in Nat /\ IsAcceptedList(e.payees)
    BY <1>3, <1>5, AfterFee
  <2>2. e.amount \in Nat
    BY <1>3, PricedParts
  <2>3. fee(bps) \in 0..e.amount
    BY <1>5, <2>2, FeeShare, SMT DEF MAX_PROTOCOL_FEE_BPS, BASIS_POINTS
  <2>4. fee(bps) \in Nat
    BY <2>3, SMT
  <2>5. distribute_to_payees(rest(bps), e.payees) = rest(bps)
    BY <2>1, SplitIsExactForAll
  <2>6. payout(fee(bps)) = fee(bps) /\ payout(rest(bps)) = rest(bps)
    BY <2>1, <2>4, PayoutOfNat
  <2> DEFINE amount == e.amount
  <2>7. amount \in Nat /\ rest(bps) = amount - fee(bps)
    BY <2>2
  <2> HIDE DEF amount, rest, fee
  <2>8. fee(bps) + rest(bps) = amount
    BY <2>1, <2>4, <2>7, SMT
  <2> QED
    BY <2>1, <2>4, <2>5, <2>6, <2>8 DEF amount
<1> DEFINE paid(f, p) ==
              book(id, [ledger[id] EXCEPT
                !.to_collector = @ + f, !.to_payees = @ + p,
                !.basket_to_seller = @ + e.basket])
<1>6. \E bps \in Nat :
         /\ bps <= MAX_PROTOCOL_FEE_BPS
         /\ \/ paid(payout(fee(bps)), distribute_to_payees(rest(bps), e.payees))
            \/ paid(payout(fee(bps)), payout(rest(bps)))
  BY <1>1, <1>4 DEF auto_release, co_signed_release, confirm_delivery,
                    settle_escrow_to_payees
<1>7. /\ move_to(id, "Completed") /\ record_escrow_completed
      /\ UNCHANGED dispute_vars
  BY DEF auto_release, co_signed_release, confirm_delivery, settle_escrow_to_payees
<1>8. PICK bps \in Nat :
         /\ bps <= MAX_PROTOCOL_FEE_BPS
         /\ paid(fee(bps), rest(bps))
  <2> HIDE DEF paid, fee, rest
  <2> QED
    BY <1>5, <1>6
<1>9. \E f, p \in Nat : f + p = e.amount /\ paid(f, p)
  <2> HIDE DEF paid, fee, rest
  <2> QED
    BY <1>5, <1>8
<1> QED
  BY <1>2, <1>7, <1>9 DEF Settle

(* Every refund in full, by agreement, on expiry, by the admin or in an    *)
(* emergency.                                                              *)
LEMMA RefundMove ==
    ASSUME TypeOK, NEW id \in Ids, NEW caller \in Address,
           \/ mutual_cancel(id)
           \/ cancel_escrow(caller, id)
           \/ approve_refund(caller, id)
           \/ reclaim_expired(caller, id)
           \/ cancel_pending_finalization(caller, id)
           \/ emergency_drain(id)
           \/ recovery_withdraw(caller, id)
    PROVE  GiveBack(id) \/ Lapse(id)
<1>1. CASE \/ mutual_cancel(id)
           \/ approve_refund(caller, id)
           \/ reclaim_expired(caller, id)
           \/ emergency_drain(id)
           \/ recovery_withdraw(caller, id)
  BY <1>1 DEF mutual_cancel, approve_refund, reclaim_expired, emergency_drain,
              recovery_withdraw, refund_from, dispute_vars, HoldingStates, GiveBack
<1>2. CASE cancel_escrow(caller, id)
  BY <1>2 DEF cancel_escrow, dispute_vars, HoldingStates, GiveBack, Lapse
<1>3. CASE cancel_pending_finalization(caller, id)
  <2>1. Overridden(id)
    BY <1>3, Zenon DEF cancel_pending_finalization, Overridden
  <2>2. /\ escrow[id].state = "PendingFinalization" /\ move_to(id, "Refunded")
        /\ record_escrow_refunded /\ pay_buyer_in_full(id) /\ UNCHANGED votes
    BY <1>3, Zenon DEF cancel_pending_finalization
  <2> QED
    BY <2>1, <2>2 DEF GiveBack, HoldingStates
<1> QED
  BY <1>1, <1>2, <1>3

(* What a party does while the escrow is under way.                        *)
LEMMA CarryMove ==
    ASSUME TypeOK, NEW id \in Ids, NEW caller \in Address,
           \/ mark_shipped(caller, id)
           \/ record_delivery(caller, id)
           \/ request_refund(caller, id)
    PROVE  Carry(id)
<1> DEFINE e == escrow[id]
           shipped == [e EXCEPT !.state = "Shipped", !.shipped_at = now]
           delivered == [e EXCEPT !.delivered_at = now]
           requested == [e EXCEPT !.state = "RefundRequested"]
<1>1. e \in EscrowRecord /\ now \in Time
  BY DEF TypeOK
<1>2. CASE mark_shipped(caller, id)
  <2>1. /\ shipped \in EscrowRecord /\ SameDeal(e, shipped)
        /\ shipped.state = "Shipped" /\ shipped.delivered_at = e.delivered_at
    BY <1>1 DEF EscrowRecord, EscrowStates, SameDeal, SamePrice
  <2>2. /\ save_escrow(id, shipped) /\ e.state \in {"Funded", "RefundRequested"}
        /\ UNCHANGED <<dispute, votes, counters, ledger>>
    BY <1>2 DEF mark_shipped, dispute_vars
  <2> HIDE DEF shipped
  <2>3. SameDelivery(id)
    BY <2>1, <2>2, Entries DEF SameDelivery
  <2> QED
    BY <2>1, <2>2, <2>3 DEF Carry
<1>3. CASE record_delivery(caller, id)
  <2>1. /\ delivered \in EscrowRecord /\ SameDeal(e, delivered)
        /\ delivered.state = e.state
    BY <1>1 DEF EscrowRecord, EscrowStates, OptionTime, SameDeal, SamePrice
  <2>2. /\ save_escrow(id, delivered) /\ e.state = "Shipped"
        /\ UNCHANGED <<dispute, votes, counters, ledger>>
    BY <1>3 DEF record_delivery, dispute_vars
  <2>3. SameDelivery(id)
    BY <1>3 DEF record_delivery, SameDelivery
  <2> HIDE DEF delivered
  <2> QED
    BY <2>1, <2>2, <2>3 DEF Carry
<1>4. CASE request_refund(caller, id)
  <2>1. /\ requested \in EscrowRecord /\ SameDeal(e, requested)
        /\ requested.state = "RefundRequested"
        /\ requested.delivered_at = e.delivered_at
    BY <1>1 DEF EscrowRecord, EscrowStates, SameDeal, SamePrice
  <2>2. /\ save_escrow(id, requested) /\ e.state = "Funded"
        /\ UNCHANGED <<dispute, votes, counters, ledger>>
    BY <1>4 DEF request_refund, move_to, dispute_vars
  <2> HIDE DEF requested
  <2>3. SameDelivery(id)
    BY <2>1, <2>2, Entries DEF SameDelivery
  <2> QED
    BY <2>1, <2>2, <2>3 DEF Carry
<1> QED
  BY <1>2, <1>3, <1>4

(* A trade operation.                                                      *)
LEMMA TradeMoves ==
    ASSUME TypeOK, BooksInv, Trade
    PROVE  NoMove \/ \E id \in Ids : TradeMove(id)
<1>1. ASSUME NEW id \in Ids,
             \/ auto_cancel_pending(id)
             \/ mutual_cancel(id)
             \/ co_signed_release(id)
             \/ auto_release(id)
      PROVE  TradeMove(id)
  <2>1. CASE auto_cancel_pending(id)
    BY <2>1 DEF auto_cancel_pending, dispute_vars, Lapse, TradeMove
  <2> QED
    BY <1>1, <2>1, RefundMove, RolesAssumption, SettlementMove DEF TradeMove
<1>2. ASSUME NEW id \in Ids, NEW caller \in Address,
             \/ fund_escrow(caller, id)
             \/ fund_basket_escrow(caller, id)
             \/ cancel_escrow(caller, id)
             \/ mark_shipped(caller, id)
             \/ record_delivery(caller, id)
             \/ \E waive \in BOOLEAN : confirm_delivery(caller, id, waive)
             \/ request_refund(caller, id)
             \/ approve_refund(caller, id)
             \/ reclaim_expired(caller, id)
             \/ \E new_resolver \in Address : rotate_resolver(caller, id, new_resolver)
      PROVE  TradeMove(id)
  BY <1>2, RefundMove, CarryMove, SettlementMove, Zenon
     DEF fund_escrow, fund_basket_escrow, Rotate, TradeMove
<1>3. ASSUME NEW id \in Ids, NEW caller \in Address,
             \/ propose_record_delivery(caller, id)
             \/ cancel_delivery_proposal(caller, id)
             \/ reject_delivery_proposal(caller, id)
      PROVE  NoMove
  BY <1>3 DEF propose_record_delivery, cancel_delivery_proposal,
              reject_delivery_proposal, drop_delivery_proposal, dispute_vars,
              NoMove
<1> QED
  BY <1>1, <1>2, <1>3, CreationMove DEF Trade, TradeMove

(* A dispute operation or an emergency exit.                               *)
LEMMA DisputeMoves ==
    ASSUME TypeOK, Dispute \/ Rescue
    PROVE  \E id \in Ids : DisputeMove(id)
<1>1. ASSUME NEW id \in Ids, NEW caller \in Address,
             \/ cancel_pending_finalization(caller, id)
             \/ emergency_drain(id)
             \/ recovery_withdraw(caller, id)
      PROVE  GiveBack(id)
  <2>1. escrow[id].state # "Pending"
    BY <1>1, Zenon DEF cancel_pending_finalization, emergency_drain, recovery_withdraw,
                refund_from, HoldingStates
  <2> QED
    BY <1>1, <2>1, RefundMove DEF Lapse
<1> QED
  BY <1>1, RolesAssumption DEF Dispute, Rescue, DecideOrVote, DisputeMove

(* Every step.                                                             *)
LEMMA EveryMove ==
    ASSUME TypeOK, BooksInv, [Next]_vars
    PROVE  NoMove \/ \E id \in Ids : TradeMove(id) \/ DisputeMove(id)
<1>1. Tick \/ Administer \/ UNCHANGED vars => NoMove
  BY Zenon DEF Tick, Administer, configure, set_paused, set_recovery_mode,
            pause_action, unpause_action, set_arbitration_fee, set_platform_fee,
            execute_set_appeal_fee, set_dispute_timeout,
            execute_set_max_appeals, vars, NoMove
<1> QED
  BY <1>1, TradeMoves, DisputeMoves DEF Next

-----------------------------------------------------------------------------
(* The parties of a move.                                                  *)

(* A move of one escrow leaves the others alone.                           *)
LEMMA MoveFrame ==
    ASSUME TypeOK, NEW id \in Ids, TradeMove(id) \/ DisputeMove(id)
    PROVE  \A other \in Ids \ {id} : Same(other)
<1>1. CASE \/ Create(id)
           \/ \E buyer \in Address : fund(buyer, id)
           \/ Lapse(id)
           \/ Carry(id)
           \/ Rotate(id)
           \/ Settle(id)
  BY <1>1, OtherEntries
     DEF Create, NewEscrow, fund, Lapse, Carry, Rotate, rotate_resolver, Settle,
         move_to, dispute_vars, Same
<1>2. CASE GiveBack(id)
  BY <1>2, OtherEntries DEF GiveBack, pay_buyer_in_full, move_to, Overridden, Same
<1>3. CASE \/ \E caller \in Address : raise_dispute(caller, id) \/ appeal_dispute(caller, id)
           \/ finalize_dispute(id)
  BY <1>3, OtherEntries
     DEF raise_dispute, appeal_dispute, finalize_dispute, move_to, Same
<1>4. ASSUME NEW caller, NEW r, NEW v, NEW charge_fees,
             execute_resolution_transition(id, caller, r, v, charge_fees)
      PROVE  \A other \in Ids \ {id} : Same(other)
  BY <1>4, OtherEntries DEF execute_resolution_transition, move_to, Same
<1>5. CASE DecideOrVote(id)
  BY <1>4, <1>5, OtherEntries, Zenon
     DEF DecideOrVote, resolve_deadlocked_dispute, claim_dispute_timeout,
         resolve_or_vote, Same
<1> QED
  BY <1>1, <1>2, <1>3, <1>5 DEF TradeMove, DisputeMove

(* The escrow goes on with the same parties and the same deadline.         *)
Onward(id) ==
    LET e == escrow[id]
        f == escrow'[id]
    IN  /\ f.payees = e.payees /\ f.buyer = e.buyer /\ f.resolvers = e.resolvers
        /\ f.dispute_deadline = e.dispute_deadline /\ SameDelivery(id)
        /\ e.state \notin TerminalStates \cup {"Absent"}
        /\ f.state \notin {"Absent", "Pending"}
        /\ e.state = "Pending" => f.state = "Canceled"

LEMMA StateMoves ==
    ASSUME TypeOK, NEW id \in Ids, NEW s, move_to(id, s)
    PROVE  /\ escrow'[id].state = s /\ escrow'[id].payees = escrow[id].payees
           /\ escrow'[id].buyer = escrow[id].buyer
           /\ escrow'[id].resolvers = escrow[id].resolvers
           /\ escrow'[id].amount = escrow[id].amount
           /\ escrow'[id].dispute_deadline = escrow[id].dispute_deadline
           /\ escrow'[id].delivered_at = escrow[id].delivered_at
<1>1. escrow[id] \in EscrowRecord
  BY Entries
<1>2. escrow'[id] = [escrow[id] EXCEPT !.state = s]
  BY Entries DEF move_to
<1> QED
  BY <1>1, <1>2 DEF EscrowRecord

(* A decision, with or without its fees.                                   *)
LEMMA DecisionMove ==
    ASSUME TypeOK, NEW id \in Ids, NEW caller, NEW r, NEW v, NEW charge_fees,
           execute_resolution_transition(id, caller, r, v, charge_fees)
    PROVE  LET e == escrow[id]
               f == escrow'[id]
           IN  /\ f.state = "PendingFinalization"
               /\ f.payees = e.payees /\ f.buyer = e.buyer /\ f.resolvers = e.resolvers
               /\ f.dispute_deadline = e.dispute_deadline
               /\ f.delivered_at = e.delivered_at
<1> DEFINE e == escrow[id]
<1>1. e \in EscrowRecord
  BY Entries
<1>2. CASE move_to(id, "PendingFinalization")
  BY <1>2, StateMoves
<1>3. ASSUME NEW rest,
             save_escrow(id, [e EXCEPT !.state = "PendingFinalization", !.amount = rest])
      PROVE  /\ escrow'[id].state = "PendingFinalization"
             /\ escrow'[id].payees = e.payees /\ escrow'[id].buyer = e.buyer
             /\ escrow'[id].resolvers = e.resolvers
             /\ escrow'[id].dispute_deadline = e.dispute_deadline
             /\ escrow'[id].delivered_at = e.delivered_at
  <2>1. escrow'[id] = [e EXCEPT !.state = "PendingFinalization", !.amount = rest]
    BY <1>3, Entries
  <2> QED
    BY <1>1, <2>1 DEF EscrowRecord
<1>4. \/ move_to(id, "PendingFinalization")
      \/ \E rest : save_escrow(id, [e EXCEPT !.state = "PendingFinalization",
                                             !.amount = rest])
  BY Zenon DEF execute_resolution_transition
<1> HIDE DEF e
<1> QED
  BY <1>2, <1>3, <1>4 DEF e

(* Only the creation, the funding and a rotation say who takes part.       *)
LEMMA OnwardMoves ==
    ASSUME TypeOK, NEW id \in Ids, TradeMove(id) \/ DisputeMove(id)
    PROVE  \/ Create(id)
           \/ \E buyer \in Address : fund(buyer, id)
           \/ Rotate(id)
           \/ escrow' = escrow
           \/ Onward(id)
<1>1. CASE Lapse(id)
  BY <1>1, StateMoves DEF Lapse, Onward, SameDelivery, TerminalStates
<1>2. CASE Carry(id)
  <2>1. PICK f \in EscrowRecord :
           /\ save_escrow(id, f) /\ SameDeal(escrow[id], f) /\ SameDelivery(id)
           /\ escrow[id].state \in {"Funded", "Shipped", "RefundRequested"}
           /\ f.state \in {"Funded", "Shipped", "RefundRequested"}
    BY <1>2, Zenon DEF Carry
  <2> QED
    BY <2>1, Entries DEF Onward, SameDeal, SamePrice, TerminalStates
<1>3. CASE Settle(id)
  <2>1. escrow[id].state \in {"Funded", "Shipped"} /\ move_to(id, "Completed")
    BY <1>3, Zenon DEF Settle
  <2> QED
    BY <2>1, StateMoves DEF Onward, SameDelivery, TerminalStates
<1>4. CASE GiveBack(id)
  <2>1. escrow[id].state \in HoldingStates
        /\ \E s \in {"Refunded", "Canceled", "Expired"} : move_to(id, s)
    BY <1>4, Zenon DEF GiveBack
  <2> QED
    BY <2>1, StateMoves DEF HoldingStates, Onward, SameDelivery, TerminalStates
<1>5. CASE \E caller \in Address : raise_dispute(caller, id) \/ appeal_dispute(caller, id)
  <2>1. /\ escrow[id].state \in {"Funded", "Shipped", "PendingFinalization"}
        /\ move_to(id, "Disputed")
    BY <1>5, Zenon DEF raise_dispute, appeal_dispute
  <2> QED
    BY <2>1, StateMoves DEF Onward, SameDelivery, TerminalStates
<1>6. CASE finalize_dispute(id)
  <2>1. /\ escrow[id].state = "PendingFinalization"
        /\ move_to(id, "Completed") \/ move_to(id, "Refunded")
    BY <1>6, Zenon DEF finalize_dispute
  <2> QED
    BY <2>1, StateMoves DEF Onward, SameDelivery, TerminalStates
<1>7. ASSUME NEW caller, NEW r, NEW v, NEW charge_fees, escrow[id].state = "Disputed",
             execute_resolution_transition(id, caller, r, v, charge_fees)
      PROVE  Onward(id)
  BY <1>7, DecisionMove, Zenon DEF Onward, SameDelivery, TerminalStates
<1>8. CASE DecideOrVote(id)
  BY <1>7, <1>8, Zenon
     DEF DecideOrVote, resolve_deadlocked_dispute, claim_dispute_timeout,
         resolve_or_vote
<1> QED
  BY <1>1, <1>2, <1>3, <1>4, <1>5, <1>6, <1>8 DEF TradeMove, DisputeMove

-----------------------------------------------------------------------------
(* Roles.                                                                  *)

WellStaffed(r) ==
    /\ r.kind = "Single" => Len(r.members) = 1
    /\ r.kind = "Fallback" => Len(r.members) = 2
    /\ r.kind = "Multi" => r.threshold > 0

(* An open offer has no buyer yet, and a creator that takes a resolver set *)
(* does not compare the buyer with the payees: the funding does.           *)
Apart(e) ==
    /\ ~contains(e.resolvers, primary_payee(e))
    /\ e.buyer # None => ~contains(e.resolvers, e.buyer)
    /\ e.state \notin {"Pending", "Canceled"} =>
          e.buyer \in Address \ payee_addresses(e)

SoundDeal(e) ==
    e.state # "Absent" =>
        /\ WellStaffed(e.resolvers)
        /\ Apart(e)
        /\ e.state = "Pending" => e.amount > 0

DealInv == \A id \in Ids : SoundDeal(escrow[id])

(* A set of one resolver.                                                  *)
LEMMA SoleResolver ==
    ASSUME NEW r, r.members \in Seq(Address), Len(r.members) = 1, NEW addr
    PROVE  contains(r, addr) <=> addr = r.members[1]
<1>1. DOMAIN r.members = {1}
  BY SMT
<1> QED
  BY <1>1 DEF contains

LEMMA PrimaryIsPayee ==
    ASSUME NEW e, e.payees \in Seq(Payee), e.payees # <<>>
    PROVE  primary_payee(e) \in payee_addresses(e)
<1>1. 1 \in DOMAIN e.payees
  BY SMT
<1> QED
  BY <1>1 DEF primary_payee, payee_addresses

(* What the creators check keeps the roles apart.                          *)
LEMMA OfferedDeal ==
    ASSUME TypeOK, NEW id \in Ids, Create(id)
    PROVE  SoundDeal(escrow'[id])
<1> DEFINE e == escrow'[id]
<1>1. PICK t \in Terms : id = next_id /\ Acceptable(t) /\ NewEscrow(t)
  BY DEF Create
<1>2. /\ e.state = "Pending" /\ e.payees = t.payees /\ e.buyer = t.buyer
      /\ e.resolvers = t.resolvers /\ e.amount = t.amount
  BY <1>1, Entries DEF NewEscrow
<1>3. /\ t.payees \in Seq(Payee) /\ t.payees # <<>>
      /\ t.resolvers \in ResolverSet /\ t.resolvers.members \in Seq(Address)
      /\ t.resolvers.kind = "Single" => Len(t.resolvers.members) = 1
      /\ t.resolvers.kind = "Fallback" => Len(t.resolvers.members) = 2
  BY TermsTypes, TermsAssumption DEF ResolverSet
<1> HIDE DEF e
<1>4. primary_payee(t) \in payee_addresses(t) /\ primary_payee(e) = primary_payee(t)
  BY <1>2, <1>3, PrimaryIsPayee DEF primary_payee
<1>5. CASE validate_single_resolver(t)
  <2>1. /\ t.resolvers.kind = "Single"
        /\ t.resolvers.members[1] \notin payee_addresses(t) \cup {t.buyer}
    BY <1>5 DEF validate_single_resolver
  <2>2. WellStaffed(t.resolvers)
    BY <1>3, <2>1 DEF WellStaffed
  <2>3. ~contains(t.resolvers, primary_payee(t)) /\ ~contains(t.resolvers, t.buyer)
    BY <1>3, <1>4, <2>1, SoleResolver
  <2> QED
    BY <1>1, <1>2, <1>4, <2>2, <2>3 DEF Acceptable, SoundDeal, Apart, e
<1>6. CASE t.resolvers.kind \in {"Multi", "Fallback"} /\ validate_resolvers(t)
  <2>1. WellStaffed(t.resolvers)
    BY <1>3, <1>6 DEF validate_resolvers, WellStaffed, ResolverSet
  <2>2. ~contains(t.resolvers, primary_payee(t)) /\ ~contains(t.resolvers, t.buyer)
    BY <1>6, Zenon DEF validate_resolvers
  <2> QED
    BY <1>1, <1>2, <1>4, <2>1, <2>2 DEF Acceptable, SoundDeal, Apart, e
<1> QED
  BY <1>1, <1>5, <1>6 DEF Acceptable

(* The funding turns away a payee and a resolver.                          *)
LEMMA FundedDeal ==
    ASSUME TypeOK, DealInv, NEW id \in Ids, NEW buyer \in Address, fund(buyer, id)
    PROVE  SoundDeal(escrow'[id])
<1> DEFINE e == escrow[id]
           f == [e EXCEPT !.state = "Funded", !.buyer = buyer,
                    !.funded_at = pack_timestamp(now),
                    !.dispute_deadline = pack_timestamp(now + DISPUTE_WINDOW)]
<1>1. e \in EscrowRecord
  BY Entries
<1>2. /\ f.state = "Funded" /\ f.buyer = buyer /\ f.payees = e.payees
      /\ f.resolvers = e.resolvers
  BY <1>1 DEF EscrowRecord
<1>3. /\ escrow'[id] = f /\ e.state = "Pending"
      /\ buyer \notin payee_addresses(e) /\ ~contains(e.resolvers, buyer)
  BY Entries DEF fund
<1>4. WellStaffed(e.resolvers) /\ ~contains(e.resolvers, primary_payee(e))
  BY <1>3 DEF DealInv, SoundDeal, Apart
<1> HIDE DEF e, f
<1>5. Apart(f) /\ f.state # "Pending" /\ WellStaffed(f.resolvers)
  BY <1>2, <1>3, <1>4 DEF Apart, primary_payee, payee_addresses
<1> QED
  BY <1>3, <1>5 DEF SoundDeal

(* The new resolver is neither the buyer nor a payee.                      *)
LEMMA RotatedDeal ==
    ASSUME TypeOK, BooksInv, DealInv, NEW id \in Ids, Rotate(id)
    PROVE  SoundDeal(escrow'[id])
<1> DEFINE e == escrow[id]
<1>1. PICK new \in Address :
         /\ e.state \notin TerminalStates \cup {"Absent"}
         /\ e.resolvers.kind = "Single"
         /\ new \notin payee_addresses(e) \cup {e.buyer}
         /\ save_escrow(id, [e EXCEPT !.resolvers.members = <<new>>])
  BY Zenon DEF Rotate, rotate_resolver
<1> DEFINE f == [e EXCEPT !.resolvers.members = <<new>>]
<1>2. e \in EscrowRecord /\ escrow'[id] = f
  BY <1>1, Entries
<1>3. /\ f.state = e.state /\ f.payees = e.payees /\ f.buyer = e.buyer
      /\ f.amount = e.amount
      /\ f.resolvers.kind = "Single" /\ f.resolvers.members = <<new>>
  BY <1>1, <1>2 DEF EscrowRecord, ResolverSet
<1>4. e.payees \in Seq(Payee) /\ e.payees # <<>>
  <2>1. IsAcceptedList(e.payees) /\ e.payees \in Seq(Payee)
    BY <1>1, <1>2, PricedParts DEF EscrowRecord, BooksInv
  <2> HIDE DEF e
  <2> QED
    BY <2>1, AcceptedIsNotEmpty
<1>5. SoundDeal(e)
  BY DEF DealInv
<1> HIDE DEF e, f
<1>6. Len(f.resolvers.members) = 1 /\ f.resolvers.members[1] = new
      /\ f.resolvers.members \in Seq(Address)
  BY <1>3
<1>7. \A addr : contains(f.resolvers, addr) <=> addr = new
  BY <1>6, SoleResolver
<1>8. primary_payee(e) \in payee_addresses(e)
  BY <1>4, PrimaryIsPayee
<1>9. primary_payee(f) = primary_payee(e) /\ payee_addresses(f) = payee_addresses(e)
  BY <1>3 DEF primary_payee, payee_addresses
<1>10. WellStaffed(f.resolvers)
  BY <1>3, <1>6 DEF WellStaffed
<1>11. Apart(f) /\ (f.state = "Pending" => f.amount > 0)
  BY <1>1, <1>3, <1>5, <1>7, <1>8, <1>9 DEF Apart, SoundDeal
<1> QED
  BY <1>2, <1>10, <1>11 DEF SoundDeal

LEMMA DealStep ==
    ASSUME TypeOK, BooksInv, DealInv, [Next]_vars
    PROVE  DealInv'
<1>1. ASSUME NEW id \in Ids, TradeMove(id) \/ DisputeMove(id)
      PROVE  DealInv'
  <2>1. CASE Onward(id)
    <3> DEFINE e == escrow[id]
               f == escrow'[id]
    <3>1. /\ f.payees = e.payees /\ f.buyer = e.buyer /\ f.resolvers = e.resolvers
          /\ e.state # "Absent" /\ f.state # "Pending"
          /\ e.state \in {"Pending", "Canceled"} => f.state = "Canceled"
      BY <2>1 DEF Onward, TerminalStates
    <3>2. SoundDeal(e)
      BY DEF DealInv
    <3> HIDE DEF e, f
    <3>3. SoundDeal(f)
      BY <3>1, <3>2 DEF SoundDeal, Apart, primary_payee, payee_addresses
    <3> QED
      BY <1>1, <3>3, MoveFrame DEF DealInv, Same, f
  <2>2. CASE escrow' = escrow
    BY <2>2 DEF DealInv
  <2>3. CASE Create(id) \/ Rotate(id) \/ \E buyer \in Address : fund(buyer, id)
    BY <1>1, <2>3, OfferedDeal, FundedDeal, RotatedDeal, MoveFrame DEF DealInv, Same
  <2> QED
    BY <1>1, <2>1, <2>2, <2>3, OnwardMoves
<1>2. NoMove => DealInv'
  BY DEF NoMove, DealInv
<1> QED
  BY <1>1, <1>2, EveryMove

THEOREM DealsHold == Spec => []DealInv
<1>1. Init => DealInv
  BY DEF Init, NoEscrow, DealInv, SoundDeal
<1> QED
  BY <1>1, DealStep, TypeCorrect, BooksHold, PTL DEF Spec

(* RolesStaySeparate: from the funding on, buyer, payees and resolvers are *)
(* different people, through every creator (create_escrow_internal,        *)
(* validate_resolvers), the funding of an open offer by whoever comes      *)
(* first, and every rotate_resolver.                                       *)
THEOREM RolesNeverMix == Spec => []RolesStaySeparate
<1>1. DealInv => RolesStaySeparate
  BY NoneAssumption DEF DealInv, SoundDeal, Apart, RolesStaySeparate
<1> QED
  BY <1>1, DealsHold, PTL

-----------------------------------------------------------------------------
(* The pause.                                                              *)

(* An entry of the ledger in which only the buyer has got anything.        *)
LEMMA RefundsOnly ==
    ASSUME TypeOK, NEW id \in Ids,
           \/ ledger'[id] = ledger[id]
           \/ \E x, y : ledger'[id] = [ledger[id] EXCEPT !.to_buyer = x,
                                                         !.basket_to_buyer = y]
    PROVE  \E b \in {ledger[id].to_buyer, ledger'[id].to_buyer},
              k \in {ledger[id].basket_to_buyer, ledger'[id].basket_to_buyer} :
               ledger'[id] = [ledger[id] EXCEPT !.to_buyer = b,
                                                !.basket_to_buyer = k]
<1> DEFINE l == ledger[id]
           m == ledger'[id]
<1>1. l \in Ledger
  BY Entries
<1>2. CASE m = l
  <2>1. m = [l EXCEPT !.to_buyer = l.to_buyer, !.basket_to_buyer = l.basket_to_buyer]
    BY <1>1, <1>2 DEF Ledger
  <2> QED
    BY <2>1
<1>3. ASSUME NEW x, NEW y, m = [l EXCEPT !.to_buyer = x, !.basket_to_buyer = y]
      PROVE  m.to_buyer = x /\ m.basket_to_buyer = y
  BY <1>1, <1>3 DEF Ledger
<1> HIDE DEF l, m
<1>4. \/ m = l
      \/ m = [l EXCEPT !.to_buyer = m.to_buyer, !.basket_to_buyer = m.basket_to_buyer]
  BY <1>3 DEF l, m
<1> QED
  BY <1>2, <1>4, Zenon DEF l, m

(* While the contract is paused no guarded entry point is open.            *)
LEMMA PausedStep ==
    ASSUME TypeOK, [Next]_vars, config.paused
    PROVE  \/ ledger' = ledger
           \/ \E id \in Ids : pay_buyer_in_full(id)
<1>1. \A action : ~ensure_action_not_paused(action)
  BY DEF ensure_action_not_paused
<1>2. ASSUME NEW t \in Terms,
             \/ create_escrow(t)
             \/ create_escrow_with_expiration(t)
             \/ create_escrow_multi(t)
             \/ create_escrow_with_fallback(t)
             \/ create_basket_escrow(t)
      PROVE  FALSE
  BY <1>1, <1>2, Zenon
     DEF create_escrow, create_escrow_with_expiration, create_escrow_multi,
         create_escrow_with_fallback, create_basket_escrow, create_escrow_internal
<1>3. ASSUME NEW id \in Ids,
             \/ auto_cancel_pending(id)
             \/ mutual_cancel(id)
             \/ co_signed_release(id)
             \/ auto_release(id)
             \/ resolve_deadlocked_dispute(id)
             \/ finalize_dispute(id)
      PROVE  FALSE
  BY <1>1, <1>3, Zenon
     DEF auto_cancel_pending, mutual_cancel, co_signed_release, auto_release,
         resolve_deadlocked_dispute, finalize_dispute
<1>4. ASSUME NEW id \in Ids, NEW caller \in Address,
             \/ fund_escrow(caller, id)
             \/ fund_basket_escrow(caller, id)
             \/ cancel_escrow(caller, id)
             \/ mark_shipped(caller, id)
             \/ \E waive \in BOOLEAN : confirm_delivery(caller, id, waive)
             \/ request_refund(caller, id)
             \/ approve_refund(caller, id)
             \/ reclaim_expired(caller, id)
             \/ \E new_resolver \in Address : rotate_resolver(caller, id, new_resolver)
      PROVE  FALSE
  BY <1>1, <1>4, Zenon
     DEF fund_escrow, fund_basket_escrow, fund, cancel_escrow, mark_shipped,
         confirm_delivery, request_refund, approve_refund, reclaim_expired,
         rotate_resolver
<1>5. ASSUME NEW id \in Ids, NEW caller \in Address,
             \/ raise_dispute(caller, id)
             \/ \E r \in Resolution : resolve_or_vote(caller, id, r)
             \/ claim_dispute_timeout(caller, id)
             \/ appeal_dispute(caller, id)
             \/ cancel_pending_finalization(caller, id)
      PROVE  FALSE
  BY <1>1, <1>5, Zenon
     DEF raise_dispute, resolve_or_vote, claim_dispute_timeout, appeal_dispute,
         cancel_pending_finalization
<1>6. ASSUME NEW id \in Ids, NEW caller \in Address,
             \/ propose_record_delivery(caller, id)
             \/ cancel_delivery_proposal(caller, id)
             \/ reject_delivery_proposal(caller, id)
             \/ record_delivery(caller, id)
      PROVE  ledger' = ledger
  BY <1>6, Zenon
     DEF propose_record_delivery, cancel_delivery_proposal,
         reject_delivery_proposal, drop_delivery_proposal, record_delivery
<1>7. Tick \/ Administer \/ UNCHANGED vars => ledger' = ledger
  BY Zenon DEF Tick, Administer, configure, set_paused, set_recovery_mode,
            pause_action, unpause_action, set_arbitration_fee, set_platform_fee,
            execute_set_appeal_fee, set_dispute_timeout,
            execute_set_max_appeals, vars
<1>8. Trade => ledger' = ledger
  BY <1>2, <1>3, <1>4, <1>6, Zenon DEF Trade
<1>9. ~Dispute
  BY <1>3, <1>5, Zenon DEF Dispute
<1>10. Rescue => \E id \in Ids : pay_buyer_in_full(id)
  BY Zenon DEF Rescue, emergency_drain, recovery_withdraw, refund_from
<1> QED
  BY <1>7, <1>8, <1>9, <1>10 DEF Next

(* PauseStopsPayments: while the contract is paused the only money that    *)
(* moves is a refund to the buyer.  Every entry point that moves any looks *)
(* at ensure_action_not_paused, but for emergency_drain and                *)
(* recovery_withdraw.                                                      *)
THEOREM PausedContractOnlyRefunds == Spec => PauseStopsPayments
<1>1. ASSUME TypeOK, [Next]_vars, config.paused, NEW id \in Ids
      PROVE  \/ ledger'[id] = ledger[id]
             \/ \E x, y : ledger'[id] = [ledger[id] EXCEPT !.to_buyer = x,
                                                           !.basket_to_buyer = y]
  <2>1. ASSUME NEW other \in Ids, pay_buyer_in_full(other)
        PROVE  \/ ledger'[id] = ledger[id]
               \/ \E x, y : ledger'[id] = [ledger[id] EXCEPT !.to_buyer = x,
                                                             !.basket_to_buyer = y]
    <3>1. PICK x, y : book(other, [ledger[other] EXCEPT !.to_buyer = x,
                                                        !.basket_to_buyer = y])
      <4> DEFINE l == ledger[other]
      <4>1. book(other, [l EXCEPT
               !.to_buyer = l.to_buyer + payout(escrow[other].amount),
               !.basket_to_buyer = l.basket_to_buyer + escrow[other].basket])
        BY <2>1 DEF pay_buyer_in_full
      <4> QED
        BY <4>1, Zenon
    <3> DEFINE m == [ledger[other] EXCEPT !.to_buyer = x, !.basket_to_buyer = y]
    <3>2. ledger'[other] = m
      <4>1. book(other, m)
        BY <3>1
      <4> HIDE DEF m
      <4> QED
        BY <1>1, <4>1, Entries
    <3>3. id # other => ledger'[id] = ledger[id]
      BY <1>1, <3>1, Entries
    <3> QED
      BY <3>2, <3>3, Zenon
  <2> QED
    BY <1>1, <2>1, PausedStep
<1>2. TypeOK /\ [Next]_vars =>
         (config.paused =>
            \A id \in Ids :
              \E b \in {ledger[id].to_buyer, ledger'[id].to_buyer},
                 k \in {ledger[id].basket_to_buyer, ledger'[id].basket_to_buyer} :
                  ledger'[id] = [ledger[id] EXCEPT !.to_buyer = b,
                                                   !.basket_to_buyer = k])
  BY <1>1, RefundsOnly, Zenon
<1> QED
  BY <1>2, TypeCorrect, PTL DEF Spec, PauseStopsPayments

-----------------------------------------------------------------------------
(* Dates.                                                                  *)

(* The deadline was set from the clock at the funding, so a delivery that  *)
(* is recorded after its timelock is recorded late enough.                 *)
Dated(t, e, p) ==
    /\ e.dispute_deadline <= t + DISPUTE_WINDOW
    /\ e.delivered_at # None =>
          /\ e.state \notin {"Absent", "Pending"}
          /\ e.dispute_deadline + DELIVERY_TIMELOCK
                <= e.delivered_at + DISPUTE_WINDOW
    /\ p # None =>
          e.dispute_deadline + DELIVERY_TIMELOCK <= p + DISPUTE_WINDOW

DatesInv == \A id \in Ids : Dated(now, escrow[id], proposal[id])

(* A delivery proposal is made by the admin and stays or goes as it is.    *)
ProposalStep ==
    \/ proposal' = proposal
    \/ \E id \in Ids : clear_delivery_proposal(id)
    \/ \E id \in Ids : propose_record_delivery(Admin, id)

(* The operations take no time and schedule nothing but proposals.         *)
LEMMA InstantSteps ==
    ASSUME TypeOK, Trade \/ Dispute \/ Rescue
    PROVE  now' = now /\ config' = config /\ ProposalStep
<1> DEFINE Instant == now' = now /\ config' = config
<1>1. ASSUME NEW t \in Terms,
             \/ create_escrow(t)
             \/ create_escrow_with_expiration(t)
             \/ create_escrow_multi(t)
             \/ create_escrow_with_fallback(t)
             \/ create_basket_escrow(t)
      PROVE  Instant /\ ProposalStep
  BY <1>1, CreationMove, Zenon DEF Create, NewEscrow, ProposalStep
<1>2. ASSUME NEW id \in Ids,
             \/ auto_cancel_pending(id)
             \/ mutual_cancel(id)
             \/ co_signed_release(id)
             \/ auto_release(id)
      PROVE  Instant /\ ProposalStep
  BY <1>2 DEF auto_cancel_pending, mutual_cancel, co_signed_release, auto_release,
              settle_escrow_to_payees, creation_vars, ProposalStep
<1>3. ASSUME NEW id \in Ids, NEW caller \in Address,
             \/ fund_escrow(caller, id)
             \/ fund_basket_escrow(caller, id)
             \/ cancel_escrow(caller, id)
             \/ mark_shipped(caller, id)
             \/ \E waive \in BOOLEAN : confirm_delivery(caller, id, waive)
             \/ request_refund(caller, id)
             \/ approve_refund(caller, id)
             \/ reclaim_expired(caller, id)
             \/ \E new_resolver \in Address : rotate_resolver(caller, id, new_resolver)
      PROVE  Instant /\ ProposalStep
  BY <1>3
     DEF fund_escrow, fund_basket_escrow, fund, cancel_escrow, mark_shipped,
         confirm_delivery, settle_escrow_to_payees, request_refund,
         approve_refund, reclaim_expired, rotate_resolver, creation_vars,
         ProposalStep
<1>4. ASSUME NEW id \in Ids, NEW caller \in Address,
             \/ propose_record_delivery(caller, id)
             \/ cancel_delivery_proposal(caller, id)
             \/ reject_delivery_proposal(caller, id)
             \/ record_delivery(caller, id)
      PROVE  Instant /\ ProposalStep
  BY <1>4
     DEF propose_record_delivery, cancel_delivery_proposal,
         reject_delivery_proposal, drop_delivery_proposal, record_delivery,
         creation_vars, ProposalStep
<1>5. ASSUME NEW caller, NEW r, NEW v, NEW charge_fees, NEW id \in Ids,
             execute_resolution_transition(id, caller, r, v, charge_fees)
      PROVE  Instant /\ proposal' = proposal
  BY <1>5, Zenon DEF execute_resolution_transition, creation_vars
<1>6. ASSUME NEW id \in Ids, NEW caller \in Address,
             \/ raise_dispute(caller, id)
             \/ appeal_dispute(caller, id)
             \/ cancel_pending_finalization(caller, id)
             \/ finalize_dispute(id)
             \/ emergency_drain(id)
             \/ recovery_withdraw(caller, id)
      PROVE  Instant /\ ProposalStep
  BY <1>6
     DEF raise_dispute, appeal_dispute, cancel_pending_finalization,
         finalize_dispute, emergency_drain, recovery_withdraw, refund_from,
         creation_vars, ProposalStep
<1>7. ASSUME NEW id \in Ids, NEW caller \in Address,
             \/ resolve_deadlocked_dispute(id)
             \/ claim_dispute_timeout(caller, id)
             \/ \E r \in Resolution : resolve_or_vote(caller, id, r)
      PROVE  Instant /\ ProposalStep
  <2>1. Instant /\ proposal' = proposal
    BY <1>5, <1>7, Zenon
       DEF resolve_deadlocked_dispute, claim_dispute_timeout, resolve_or_vote,
           creation_vars
  <2> QED
    BY <2>1 DEF ProposalStep
<1> HIDE DEF Instant
<1>8. Trade => Instant /\ ProposalStep
  BY <1>1, <1>2, <1>3, <1>4, Zenon DEF Trade
<1>9. Dispute \/ Rescue => Instant /\ ProposalStep
  BY <1>6, <1>7, RolesAssumption, Zenon DEF Dispute, Rescue
<1> QED
  BY <1>8, <1>9 DEF Instant

(* The clock of the ledger does not go back.                               *)
LEMMA TimePasses ==
    ASSUME TypeOK, [Next]_vars
    PROVE  now \in Nat /\ now' \in Nat /\ now <= now' /\ ProposalStep
<1>1. now \in Nat
  BY DEF TypeOK, Time
<1>2. Administer \/ UNCHANGED vars => now' = now /\ proposal' = proposal
  BY Zenon DEF Administer, configure, set_paused, set_recovery_mode,
            pause_action, unpause_action, set_arbitration_fee, set_platform_fee,
            execute_set_appeal_fee, set_dispute_timeout,
            execute_set_max_appeals, vars
<1>3. Tick => now' = now + 1 /\ proposal' = proposal
  BY DEF Tick
<1> QED
  BY <1>1, <1>2, <1>3, InstantSteps DEF Next, ProposalStep

LEMMA ProposalMoves ==
    ASSUME TypeOK, ProposalStep, NEW id \in Ids
    PROVE  \/ proposal'[id] \in {proposal[id], None}
           \/ propose_record_delivery(Admin, id)
<1>1. ASSUME NEW other \in Ids, clear_delivery_proposal(other)
      PROVE  proposal'[id] \in {proposal[id], None}
  BY <1>1, ScheduleEntries
<1>2. ASSUME NEW other \in Ids, propose_record_delivery(Admin, other), other # id
      PROVE  proposal'[id] = proposal[id]
  BY <1>2 DEF propose_record_delivery, TypeOK
<1> QED
  BY <1>1, <1>2 DEF ProposalStep

(* The dates of an escrow that goes on, after a proposal perhaps.          *)
LEMMA LaterDates ==
    ASSUME NEW t \in Nat, NEW u \in Nat, t <= u, NEW e \in EscrowRecord,
           NEW f \in EscrowRecord, NEW p \in OptionTime, NEW q \in OptionTime,
           Dated(t, e, p), f.dispute_deadline = e.dispute_deadline,
           f.delivered_at = e.delivered_at,
           f.state = e.state \/ f.state \notin {"Absent", "Pending"},
           q \in {p, None} \/ q = t + DELIVERY_TIMELOCK
    PROVE  Dated(u, f, q)
<1>1. /\ e.dispute_deadline \in Nat /\ e.delivered_at \in OptionTime
      /\ DISPUTE_WINDOW \in Nat /\ DELIVERY_TIMELOCK \in Nat
  BY WindowsAssumption DEF EscrowRecord, Time
<1>2. f.dispute_deadline <= u + DISPUTE_WINDOW
  BY <1>1, SMT DEF Dated
<1>3. f.delivered_at # None =>
         /\ f.state \notin {"Absent", "Pending"}
         /\ f.dispute_deadline + DELIVERY_TIMELOCK <= f.delivered_at + DISPUTE_WINDOW
  BY DEF Dated
<1>4. q # None =>
         f.dispute_deadline + DELIVERY_TIMELOCK <= q + DISPUTE_WINDOW
  BY <1>1, SMT DEF Dated
<1> QED
  BY <1>2, <1>3, <1>4 DEF Dated

LEMMA PackedIsEarlier ==
    ASSUME NEW t \in Nat
    PROVE  pack_timestamp(t) \in Nat /\ pack_timestamp(t) <= t
<1> DEFINE m == TIMESTAMP_MOD
<1>1. m \in Nat /\ m > 0
  BY WindowsAssumption, SMT
<1> HIDE DEF m
<1>2. t % m \in Nat /\ t % m <= t
  BY <1>1, SMT
<1> QED
  BY <1>2 DEF pack_timestamp, m

(* A new escrow and a funded one have no delivery and no proposal yet.     *)
LEMMA FirstDates ==
    ASSUME TypeOK, TypeOK', BooksInv, DatesInv, NoOrphanedSchedule, [Next]_vars,
           NEW id \in Ids, Create(id) \/ \E buyer \in Address : fund(buyer, id)
    PROVE  Dated(now', escrow'[id], proposal'[id])
<1>1. escrow[id].state \in {"Absent", "Pending"}
  <2>1. Create(id) => id = next_id /\ id \in Nat
    BY DEF Create, Ids
  <2>2. Create(id) => escrow[id].state = "Absent"
    BY <2>1 DEF BooksInv, FreshIds
  <2> QED
    BY <2>2 DEF fund
<1>2. proposal[id] = None
  BY <1>1, NoSchedule
<1>3. proposal'[id] = None
  BY <1>1, <1>2, TimePasses, ProposalMoves DEF propose_record_delivery
<1>4. escrow[id] \in EscrowRecord
  BY Entries
<1>5. now \in Nat /\ now' \in Nat /\ now <= now' /\ DISPUTE_WINDOW \in Nat
  BY TimePasses, WindowsAssumption
<1>6. CASE Create(id)
  <2>1. escrow'[id].dispute_deadline = 0 /\ escrow'[id].delivered_at = None
    BY <1>6, Entries DEF Create, NewEscrow
  <2>2. 0 <= now' + DISPUTE_WINDOW
    <3>1. \A u, w \in Nat : 0 <= u + w
      BY SMT
    <3> QED
      BY <1>5, <3>1, Zenon
  <2> QED
    BY <1>3, <2>1, <2>2, Zenon DEF Dated
<1>7. ASSUME NEW buyer \in Address, fund(buyer, id)
      PROVE  Dated(now', escrow'[id], proposal'[id])
  <2>1. escrow'[id] = [escrow[id] EXCEPT !.state = "Funded", !.buyer = buyer,
                          !.funded_at = pack_timestamp(now),
                          !.dispute_deadline = pack_timestamp(now + DISPUTE_WINDOW)]
    BY <1>7, Entries DEF fund
  <2>2. /\ escrow'[id].dispute_deadline = pack_timestamp(now + DISPUTE_WINDOW)
        /\ escrow'[id].delivered_at = escrow[id].delivered_at
    BY <1>4, <2>1 DEF EscrowRecord
  <2>3. escrow[id].delivered_at = None
    BY <1>1 DEF DatesInv, Dated
  <2>4. /\ escrow'[id].dispute_deadline \in Nat
        /\ escrow'[id].dispute_deadline <= now + DISPUTE_WINDOW
    BY <1>5, <2>2, PackedIsEarlier
  <2> QED
    BY <1>3, <1>5, <2>2, <2>3, <2>4, SMT DEF Dated
<1> QED
  BY <1>6, <1>7

(* The delivery of a proposal is recorded no sooner than it said.          *)
LEMMA DeliveryDates ==
    ASSUME TypeOK, TypeOK', DatesInv, NEW id \in Ids, record_delivery(Admin, id)
    PROVE  Dated(now', escrow'[id], proposal'[id])
<1> DEFINE e == escrow[id]
           p == proposal[id]
<1>1. /\ e \in EscrowRecord /\ p \in OptionTime /\ now \in Nat
      /\ DISPUTE_WINDOW \in Nat /\ DELIVERY_TIMELOCK \in Nat
  BY WindowsAssumption DEF TypeOK, Time
<1>2. /\ e.state = "Shipped" /\ p # None /\ now >= p
      /\ escrow'[id] = [e EXCEPT !.delivered_at = now]
      /\ proposal'[id] = None /\ now' = now
  BY Entries, ScheduleEntries DEF record_delivery, creation_vars
<1>3. /\ escrow'[id].delivered_at = now /\ escrow'[id].state = "Shipped"
      /\ escrow'[id].dispute_deadline = e.dispute_deadline
  BY <1>1, <1>2 DEF EscrowRecord
<1>4. e.dispute_deadline \in Nat /\ p \in Nat
  BY <1>1, <1>2 DEF EscrowRecord, OptionTime, Time
<1>5. /\ e.dispute_deadline <= now + DISPUTE_WINDOW
      /\ e.dispute_deadline + DELIVERY_TIMELOCK <= p + DISPUTE_WINDOW
  BY <1>2 DEF DatesInv, Dated
<1> HIDE DEF e, p
<1>6. e.dispute_deadline + DELIVERY_TIMELOCK <= now + DISPUTE_WINDOW
  BY <1>1, <1>2, <1>4, <1>5, SMT
<1> QED
  BY <1>2, <1>3, <1>5, <1>6 DEF Dated

LEMMA DatesStep ==
    ASSUME TypeOK, TypeOK', BooksInv, DatesInv, NoOrphanedSchedule, [Next]_vars
    PROVE  DatesInv'
<1>1. SUFFICES ASSUME NEW id \in Ids
               PROVE  Dated(now', escrow'[id], proposal'[id])
  BY DEF DatesInv
<1> DEFINE e == escrow[id]
           f == escrow'[id]
<1>2. /\ e \in EscrowRecord /\ f \in EscrowRecord
      /\ proposal[id] \in OptionTime /\ proposal'[id] \in OptionTime
      /\ now \in Nat /\ now' \in Nat /\ now <= now'
      /\ Dated(now, e, proposal[id])
  BY TimePasses DEF TypeOK, DatesInv
<1>3. \/ proposal'[id] \in {proposal[id], None}
      \/ proposal'[id] = now + DELIVERY_TIMELOCK
  BY TimePasses, ProposalMoves DEF propose_record_delivery, TypeOK
<1>4. ASSUME f.dispute_deadline = e.dispute_deadline,
             f.delivered_at = e.delivered_at,
             f.state = e.state \/ f.state \notin {"Absent", "Pending"}
      PROVE  Dated(now', f, proposal'[id])
  BY <1>2, <1>3, <1>4, LaterDates
<1>5. ASSUME NEW other \in Ids, TradeMove(other) \/ DisputeMove(other), other # id
      PROVE  f = e
  BY <1>5, MoveFrame DEF Same
<1>6. CASE TradeMove(id) \/ DisputeMove(id)
  <2>1. CASE Rotate(id)
    <3>1. PICK new \in Address :
             save_escrow(id, [e EXCEPT !.resolvers.members = <<new>>])
      BY <2>1, Zenon DEF Rotate, rotate_resolver
    <3>2. f = [e EXCEPT !.resolvers.members = <<new>>]
      BY <3>1, Entries
    <3>3. /\ f.dispute_deadline = e.dispute_deadline
          /\ f.delivered_at = e.delivered_at /\ f.state = e.state
      BY <1>2, <3>2 DEF EscrowRecord
    <3> QED
      BY <1>4, <3>3
  <2>2. CASE Onward(id)
    BY <1>4, <2>2, DeliveryDates DEF Onward, SameDelivery
  <2> QED
    BY <1>4, <1>6, <2>1, <2>2, OnwardMoves, FirstDates
<1>7. f = e \/ TradeMove(id) \/ DisputeMove(id)
  BY <1>5, EveryMove DEF NoMove
<1> QED
  BY <1>4, <1>6, <1>7

THEOREM DatesHold == Spec => []DatesInv
<1>1. Init => DatesInv
  BY WindowsAssumption DEF Init, NoEscrow, DatesInv, Dated
<1> QED
  BY <1>1, DatesStep, TypeCorrect, BooksHold, SchedulesAreDropped, PTL DEF Spec

(* ReleaseWaitsForDisputeWindow: auto_release is open to anyone only after *)
(* the buyer can no longer raise a dispute, whichever window it counts     *)
(* from.  For a delivery the admin recorded this needs                     *)
(* ReleaseAssumption, the relation between three constants of lib.rs.      *)
THEOREM ReleaseIsNeverEarly == Spec => []ReleaseWaitsForDisputeWindow
<1>1. ASSUME TypeOK, DatesInv, NEW id \in Ids, ensure_auto_release_eligible(id)
      PROVE  now >= escrow[id].dispute_deadline
  <2> DEFINE e == escrow[id]
             deadline == e.dispute_deadline
             delivered == e.delivered_at
  <2>1. /\ deadline \in Nat /\ delivered \in OptionTime /\ now \in Nat
        /\ DISPUTE_WINDOW \in Nat /\ DELIVERY_TIMELOCK \in Nat
        /\ DELIVERY_RELEASE_WINDOW \in Nat
    BY <1>1, WindowsAssumption, Entries DEF TypeOK, EscrowRecord, Time
  <2>2. CASE delivered # None /\ now >= delivered + DELIVERY_RELEASE_WINDOW
    <3>1. deadline + DELIVERY_TIMELOCK <= delivered + DISPUTE_WINDOW
      BY <1>1, <2>2 DEF DatesInv, Dated
    <3>2. delivered \in Nat
      BY <2>1, <2>2 DEF OptionTime, Time
    <3> HIDE DEF deadline, delivered
    <3>3. now >= deadline
      BY <2>1, <2>2, <3>1, <3>2, ReleaseAssumption, SMT
    <3> QED
      BY <3>3 DEF deadline
  <2>3. \/ delivered # None /\ now >= delivered + DELIVERY_RELEASE_WINDOW
        \/ now >= deadline
    BY <1>1 DEF ensure_auto_release_eligible
  <2> QED
    BY <2>2, <2>3
<1>2. TypeOK /\ DatesInv => ReleaseWaitsForDisputeWindow
  BY <1>1 DEF ReleaseWaitsForDisputeWindow
<1> QED
  BY <1>2, TypeCorrect, DatesHold, PTL

-----------------------------------------------------------------------------
(* Votes.                                                                  *)

(* The votes of a round: cast by resolvers, one each, too few to decide.   *)
(* Where one vote decides there is none that did not.                      *)
OwnVotes(e, v) ==
    /\ \A i \in DOMAIN v : contains(e.resolvers, v[i].resolver)
    /\ \A i, j \in DOMAIN v : v[i].resolver = v[j].resolver => i = j
    /\ tally_votes(v, threshold(e.resolvers)) = None
    /\ e.resolvers.kind # "Multi" => v = <<>>

(* The three grounds of a decision.                                        *)
Grounds(e, d, v) ==
    LET r == get_resolution(d.resolution)
    IN  /\ r \in Resolution
        /\ \/ votes_for(v, r) >= threshold(e.resolvers)
           \/ /\ d.resolved_at >= d.disputed_at + DISPUTE_DEADLOCK_WINDOW
              /\ \E i \in DOMAIN v :
                    v[i].resolver = d.resolved_by /\ v[i].resolution = r
              /\ r = tally_votes_majority(v)
           \/ /\ d.resolved_at >= d.disputed_at + MIN_DISPUTE_TIMEOUT
              /\ r = "Refund"
              /\ d.resolved_by \in buyer_and_seller(e)

SoundVotes(e, d, v) ==
    /\ e.state \notin DisputedStates \cup TerminalStates => v = <<>>
    /\ e.state = "Disputed" => OwnVotes(e, v)
    /\ e.state = "PendingFinalization" => Grounds(e, d, v)

VotesInv ==
    /\ config.dispute_timeout >= MIN_DISPUTE_TIMEOUT
    /\ \A id \in Ids : SoundVotes(escrow[id], dispute[id], votes[id])

(* The number of votes for a side.                                         *)
LEMMA VoteCounts ==
    ASSUME NEW v \in Seq(Vote), NEW r
    PROVE  /\ votes_for(v, r) \in Nat
           /\ votes_for(v, r) = 0 <=> \A i \in DOMAIN v : v[i].resolution # r
<1> DEFINE cast == {i \in DOMAIN v : v[i].resolution = r}
<1>1. DOMAIN v = 1..Len(v) /\ Len(v) \in Nat
  BY LenProperties
<1>2. IsFiniteSet(DOMAIN v)
  BY <1>1, FS_Interval
<1>3. cast \in SUBSET DOMAIN v
  OBVIOUS
<1>4. IsFiniteSet(cast)
  BY <1>2, <1>3, FS_Subset, Zenon
<1>5. Cardinality(cast) \in Nat /\ (Cardinality(cast) = 0 <=> cast = {})
  BY <1>4, FS_CardinalityType, FS_EmptySet, Zenon
<1>6. cast = {} <=> \A i \in DOMAIN v : v[i].resolution # r
  OBVIOUS
<1> HIDE DEF cast
<1> QED
  BY <1>5, <1>6 DEF votes_for, cast

(* A new round has no decision yet, and one vote decides where one is      *)
(* enough.                                                                 *)
LEMMA Tallies ==
    ASSUME NEW v \in Seq(Vote), NEW needed \in Nat, needed > 0
    PROVE  /\ tally_votes(<<>>, needed) = None
           /\ v # <<>> /\ needed = 1 => tally_votes(v, needed) # None
           /\ LET r == tally_votes(v, needed)
              IN  r # None => r \in Resolution /\ votes_for(v, r) >= needed
<1>1. /\ votes_for(v, "Release") \in Nat /\ votes_for(v, "Refund") \in Nat
  BY VoteCounts
<1>2. tally_votes(<<>>, needed) = None
  <2>1. <<>> \in Seq(Vote) /\ DOMAIN <<>> = {}
    BY EmptySeq
  <2>2. votes_for(<<>>, "Release") = 0 /\ votes_for(<<>>, "Refund") = 0
    BY <2>1, VoteCounts
  <2> QED
    BY <2>2, SMT DEF tally_votes
<1>3. ASSUME v # <<>>, needed = 1 PROVE tally_votes(v, needed) # None
  <2>1. DOMAIN v = 1..Len(v) /\ Len(v) \in Nat /\ Len(v) > 0
    BY <1>3, LenProperties, EmptySeq
  <2>2. 1 \in DOMAIN v /\ v[1] \in Vote
    BY <2>1, ElementOfSeq
  <2>3. v[1].resolution \in {"Release", "Refund"}
    BY <2>2 DEF Vote, Resolution
  <2>4. votes_for(v, "Release") # 0 \/ votes_for(v, "Refund") # 0
    BY <2>2, <2>3, VoteCounts
  <2>5. None \notin {"Release", "Refund"}
    BY NoneAssumption DEF Resolution
  <2> QED
    BY <1>1, <1>3, <2>4, <2>5, SMT DEF tally_votes
<1>4. ASSUME tally_votes(v, needed) # None
      PROVE  /\ tally_votes(v, needed) \in Resolution
             /\ votes_for(v, tally_votes(v, needed)) >= needed
  <2>1. CASE votes_for(v, "Release") >= needed
    BY <2>1, <1>1, SMT DEF tally_votes, Resolution
  <2>2. CASE votes_for(v, "Release") < needed /\ votes_for(v, "Refund") >= needed
    <3>1. tally_votes(v, needed) = "Refund"
      BY <2>2, <1>1, SMT DEF tally_votes
    <3> QED
      BY <3>1, <2>2 DEF Resolution
  <2>3. CASE votes_for(v, "Release") < needed /\ votes_for(v, "Refund") < needed
    BY <2>3, <1>1, <1>4, SMT DEF tally_votes
  <2> QED
    BY <1>1, <2>1, <2>2, <2>3, SMT
<1> QED
  BY <1>2, <1>3, <1>4, Zenon

(* A vote is changed in place or appended: the votes stay one per          *)
(* resolver.                                                               *)
LEMMA VoteUpdateKeeps ==
    ASSUME NEW v \in Seq(Vote), NEW resolvers, NEW caller \in Address,
           NEW r \in Resolution, contains(resolvers, caller),
           \A i \in DOMAIN v : contains(resolvers, v[i].resolver),
           \A i, j \in DOMAIN v : v[i].resolver = v[j].resolver => i = j
    PROVE  LET w == add_or_update_vote(v, caller, r)
           IN  /\ \A i \in DOMAIN w : contains(resolvers, w[i].resolver)
               /\ \A i, j \in DOMAIN w : w[i].resolver = w[j].resolver => i = j
               /\ w # <<>>
<1> DEFINE n == Len(v)
           changed == [i \in DOMAIN v |->
                         IF v[i].resolver = caller
                         THEN [v[i] EXCEPT !.resolution = r] ELSE v[i]]
           own == [resolver |-> caller, resolution |-> r]
           w == add_or_update_vote(v, caller, r)
<1>1. n \in Nat /\ DOMAIN v = 1..n /\ \A i \in 1..n : v[i] \in Vote
  BY LenProperties, ElementOfSeq
<1>2. CASE \E i \in DOMAIN v : v[i].resolver = caller
  <2>1. w = changed
    BY <1>2, Zenon DEF add_or_update_vote
  <2>2. DOMAIN changed = DOMAIN v
    OBVIOUS
  <2>3. \A i \in DOMAIN v : changed[i].resolver = v[i].resolver
    BY <1>1 DEF Vote
  <2>4. 1 \in DOMAIN v
    BY <1>1, <1>2, SMT
  <2> HIDE DEF changed
  <2>5. w # <<>>
    BY <2>1, <2>2, <2>4, EmptySeq
  <2> HIDE DEF w
  <2> QED
    BY <2>1, <2>2, <2>3, <2>5 DEF w
<1>3. CASE \A i \in DOMAIN v : v[i].resolver # caller
  <2>1. w = Append(v, own)
    BY <1>3, Zenon DEF add_or_update_vote
  <2>2. own.resolver = caller /\ own \in Vote
    BY DEF Vote
  <2> HIDE DEF own
  <2>3. /\ Len(Append(v, own)) = n + 1
        /\ DOMAIN Append(v, own) = 1..(n + 1)
        /\ \A i \in 1..n : Append(v, own)[i] = v[i]
        /\ Append(v, own)[n + 1] = own
    BY <2>2, AppendProperties, LenProperties
  <2>4. \A i \in 1..(n + 1) : i \in 1..n \/ i = n + 1
    BY <1>1, SMT
  <2> HIDE DEF w
  <2>5. Len(w) # 0
    BY <1>1, <2>1, <2>3, SMT
  <2> QED
    BY <1>1, <1>3, <2>1, <2>2, <2>3, <2>4, <2>5, EmptySeq DEF w
<1> HIDE DEF w
<1> QED
  BY <1>2, <1>3 DEF w

(* What a decision writes down.                                            *)
LEMMA DecisionRecord ==
    ASSUME TypeOK, NEW id \in Ids, NEW caller, NEW r \in Resolution, NEW v,
           NEW charge_fees,
           execute_resolution_transition(id, caller, r, v, charge_fees)
    PROVE  LET d == dispute[id]
               g == dispute'[id]
           IN  /\ g.disputed_at = d.disputed_at /\ g.status = d.status
               /\ get_resolution(g.resolution) = r
               /\ g.resolved_by = caller /\ g.resolved_at = now
               /\ votes'[id] = v
<1> DEFINE d == dispute[id]
           g == dispute'[id]
           decided == [d EXCEPT !.resolution = resolution_code(r),
                                !.resolved_by = caller, !.resolved_at = now,
                                !.fees_charged = TRUE]
           Written(x) == /\ x.disputed_at = d.disputed_at /\ x.status = d.status
                         /\ x.resolution = resolution_code(r)
                         /\ x.resolved_by = caller /\ x.resolved_at = now
<1>1. d \in DisputeRecord
  BY Entries
<1>2. Written(decided)
  BY <1>1 DEF DisputeRecord
<1>3. ASSUME NEW a, NEW b
      PROVE  Written([decided EXCEPT !.arbitration_fee = a, !.resolver_fee = b])
  BY <1>1 DEF DisputeRecord
<1>4. \/ save_dispute(id, decided)
      \/ \E a, b : save_dispute(id, [decided EXCEPT !.arbitration_fee = a,
                                                    !.resolver_fee = b])
  BY Zenon DEF execute_resolution_transition
<1> HIDE DEF decided, Written
<1>5. Written(g)
  <2>1. ASSUME NEW x, Written(x), save_dispute(id, x) PROVE Written(g)
    BY <2>1, Entries
  <2> QED
    BY <1>2, <1>3, <1>4, <2>1, Zenon
<1>6. get_resolution(resolution_code(r)) = r
  BY DEF get_resolution, resolution_code, Resolution
<1>7. save_resolver_votes(id, v)
  BY Zenon DEF execute_resolution_transition
<1>8. votes'[id] = v
  BY <1>7 DEF TypeOK, save_resolver_votes
<1> QED
  BY <1>5, <1>6, <1>8 DEF Written

(* Before a dispute and after it nothing is asked of the votes.            *)
LEMMA QuietVotes ==
    ASSUME TypeOK, BooksInv, VotesInv, NEW id \in Ids,
           \/ Create(id)
           \/ \E buyer \in Address : fund(buyer, id)
           \/ Lapse(id)
           \/ Carry(id)
           \/ Settle(id)
           \/ GiveBack(id)
           \/ finalize_dispute(id)
    PROVE  SoundVotes(escrow'[id], dispute'[id], votes'[id])
<1> DEFINE f == escrow'[id]
<1>1. SoundVotes(escrow[id], dispute[id], votes[id]) /\ escrow[id] \in EscrowRecord
  BY Entries DEF VotesInv
<1>2. ASSUME f.state \in TerminalStates
      PROVE  SoundVotes(f, dispute'[id], votes'[id])
  BY <1>2 DEF SoundVotes, DisputedStates, TerminalStates
<1>3. ASSUME escrow[id].state \in {"Absent", "Pending", "Funded", "Shipped",
                                   "RefundRequested"},
             f.state \in {"Pending", "Funded", "Shipped", "RefundRequested"},
             votes' = votes
      PROVE  SoundVotes(f, dispute'[id], votes'[id])
  BY <1>1, <1>3 DEF SoundVotes, DisputedStates, TerminalStates
<1>4. CASE Create(id)
  <2>1. id = next_id /\ id \in Nat /\ votes' = votes /\ f.state = "Pending"
    BY <1>4, Entries DEF Create, NewEscrow, Ids
  <2>2. escrow[id].state = "Absent"
    BY <2>1 DEF BooksInv, FreshIds
  <2> QED
    BY <1>3, <2>1, <2>2
<1>5. ASSUME NEW buyer \in Address, fund(buyer, id)
      PROVE  SoundVotes(f, dispute'[id], votes'[id])
  <2>1. /\ escrow[id].state = "Pending" /\ votes' = votes
        /\ f = [escrow[id] EXCEPT !.state = "Funded", !.buyer = buyer,
                  !.funded_at = pack_timestamp(now),
                  !.dispute_deadline = pack_timestamp(now + DISPUTE_WINDOW)]
    BY <1>5, Entries DEF fund, dispute_vars
  <2>2. f.state = "Funded"
    BY <1>1, <2>1 DEF EscrowRecord
  <2> QED
    BY <1>3, <2>1, <2>2
<1>6. CASE Lapse(id)
  BY <1>2, <1>6, StateMoves DEF Lapse, TerminalStates
<1>7. CASE Carry(id)
  <2>1. /\ escrow[id].state \in {"Funded", "Shipped", "RefundRequested"}
        /\ f.state \in {"Funded", "Shipped", "RefundRequested"}
        /\ votes' = votes
    BY <1>7, Entries DEF Carry
  <2> QED
    BY <1>3, <2>1
<1>8. CASE Settle(id)
  <2>1. move_to(id, "Completed")
    BY <1>8, Zenon DEF Settle
  <2> QED
    BY <1>2, <2>1, StateMoves DEF TerminalStates
<1>9. CASE GiveBack(id)
  <2>1. \E s \in {"Refunded", "Canceled", "Expired"} : move_to(id, s)
    BY <1>9, Zenon DEF GiveBack
  <2> QED
    BY <1>2, <2>1, StateMoves DEF TerminalStates
<1>10. CASE finalize_dispute(id)
  <2>1. move_to(id, "Completed") \/ move_to(id, "Refunded")
    BY <1>10, Zenon DEF finalize_dispute
  <2> QED
    BY <1>2, <2>1, StateMoves DEF TerminalStates
<1> QED
  BY <1>4, <1>5, <1>6, <1>7, <1>8, <1>9, <1>10

(* The vote of a dispute starts without votes.                             *)
LEMMA FreshRound ==
    ASSUME TypeOK, DealInv, VotesInv, NEW id \in Ids,
           \E caller \in Address : raise_dispute(caller, id) \/ appeal_dispute(caller, id)
    PROVE  SoundVotes(escrow'[id], dispute'[id], votes'[id])
<1> DEFINE f == escrow'[id]
<1>1. PICK caller \in Address : raise_dispute(caller, id) \/ appeal_dispute(caller, id)
  OBVIOUS
<1>2. /\ escrow[id].state \in {"Funded", "Shipped", "PendingFinalization"}
      /\ move_to(id, "Disputed")
  BY <1>1, Zenon DEF raise_dispute, appeal_dispute
<1>3. f.state = "Disputed" /\ f.resolvers = escrow[id].resolvers
  BY <1>2, StateMoves
<1>4. votes'[id] = <<>>
  <2>1. CASE raise_dispute(caller, id)
    BY <2>1 DEF raise_dispute, VotesInv, SoundVotes, DisputedStates, TerminalStates
  <2>2. CASE appeal_dispute(caller, id)
    BY <2>2 DEF appeal_dispute, save_resolver_votes, TypeOK
  <2> QED
    BY <1>1, <2>1, <2>2
<1>5. WellStaffed(f.resolvers) /\ f.resolvers.threshold \in Nat
      /\ f.resolvers.kind \in {"Single", "Multi", "Fallback"}
  BY <1>2, <1>3, Entries DEF DealInv, SoundDeal, EscrowRecord, ResolverSet
<1>6. threshold(f.resolvers) \in Nat /\ threshold(f.resolvers) > 0
  BY <1>5, SMT DEF threshold, WellStaffed
<1>7. <<>> \in Seq(Vote) /\ DOMAIN <<>> = {}
  BY EmptySeq
<1>8. tally_votes(<<>>, threshold(f.resolvers)) = None
  BY <1>6, <1>7, Tallies
<1> HIDE DEF f
<1>9. OwnVotes(f, <<>>)
  BY <1>7, <1>8, Zenon DEF OwnVotes
<1> QED
  BY <1>3, <1>4, <1>9 DEF SoundVotes, DisputedStates, f

(* A single resolver can be replaced because it has not voted.             *)
LEMMA RotatedVotes ==
    ASSUME TypeOK, DealInv, VotesInv, NEW id \in Ids, Rotate(id)
    PROVE  SoundVotes(escrow'[id], dispute'[id], votes'[id])
<1> DEFINE e == escrow[id]
<1>1. PICK new \in Address :
         /\ e.state \notin TerminalStates \cup {"Absent"}
         /\ e.resolvers.kind = "Single"
         /\ save_escrow(id, [e EXCEPT !.resolvers.members = <<new>>])
         /\ UNCHANGED <<dispute, votes>>
  BY Zenon DEF Rotate, rotate_resolver, dispute_vars
<1> DEFINE f == [e EXCEPT !.resolvers.members = <<new>>]
<1>2. e \in EscrowRecord /\ escrow'[id] = f
  BY <1>1, Entries
<1>3. /\ f.state = e.state /\ f.payees = e.payees /\ f.buyer = e.buyer
      /\ f.resolvers.kind = "Single"
  BY <1>1, <1>2 DEF EscrowRecord, ResolverSet
<1>4. SoundVotes(e, dispute[id], votes[id])
  BY DEF VotesInv
<1>5. threshold(f.resolvers) = 1 /\ threshold(e.resolvers) = 1
  BY <1>1, <1>3 DEF threshold
<1> HIDE DEF e, f
<1>6. OwnVotes(e, votes[id]) => OwnVotes(f, votes[id])
  <2>1. SUFFICES ASSUME OwnVotes(e, votes[id]) PROVE OwnVotes(f, votes[id])
    OBVIOUS
  <2>2. votes[id] = <<>>
    BY <1>1, <2>1 DEF OwnVotes
  <2>3. DOMAIN <<>> = {}
    BY EmptySeq
  <2> QED
    BY <1>5, <2>1, <2>2, <2>3 DEF OwnVotes
<1>7. Grounds(e, dispute[id], votes[id]) => Grounds(f, dispute[id], votes[id])
  BY <1>3, <1>5 DEF Grounds, buyer_and_seller, primary_payee
<1> QED
  BY <1>1, <1>2, <1>3, <1>4, <1>6, <1>7 DEF SoundVotes

(* Whoever may resolve now is one of the resolvers.                        *)
LEMMA ResolverIsMember ==
    ASSUME NEW resolvers \in ResolverSet, NEW addr, WellStaffed(resolvers),
           can_resolve_now(resolvers, addr)
    PROVE  contains(resolvers, addr)
<1>1. CASE resolvers.kind = "Fallback"
  <2>1. 1 \in DOMAIN resolvers.members /\ 2 \in DOMAIN resolvers.members
    BY <1>1 DEF ResolverSet, WellStaffed
  <2> QED
    BY <1>1, <2>1 DEF can_resolve_now, contains
<1> QED
  BY <1>1 DEF can_resolve_now

(* A vote that is too few is added to the round, any other decides.        *)
LEMMA VoteCast ==
    ASSUME TypeOK, DealInv, VotesInv, NEW id \in Ids, NEW caller \in Address,
           NEW r \in Resolution, resolve_or_vote(caller, id, r)
    PROVE  SoundVotes(escrow'[id], dispute'[id], votes'[id])
<1> DEFINE e == escrow[id]
           v == votes[id]
           needed == threshold(e.resolvers)
           w == add_or_update_vote(v, caller, r)
           verdict == tally_votes(w, needed)
<1>1. e \in EscrowRecord /\ v \in Seq(Vote)
  BY DEF TypeOK
<1>2. /\ e.state = "Disputed" /\ can_resolve_now(e.resolvers, caller)
      /\ \/ /\ verdict # None
            /\ execute_resolution_transition(id, caller, verdict, w, TRUE)
         \/ /\ verdict = None
            /\ save_resolver_votes(id, w) /\ UNCHANGED <<escrow, dispute>>
  BY Zenon DEF resolve_or_vote
<1>3. OwnVotes(e, v) /\ WellStaffed(e.resolvers) /\ e.resolvers \in ResolverSet
  BY <1>1, <1>2 DEF VotesInv, SoundVotes, DealInv, SoundDeal, EscrowRecord
<1>4. /\ \A i \in DOMAIN w : contains(e.resolvers, w[i].resolver)
      /\ \A i, j \in DOMAIN w : w[i].resolver = w[j].resolver => i = j
      /\ w # <<>> /\ w \in Seq(Vote)
  <2>1. contains(e.resolvers, caller)
    BY <1>2, <1>3, ResolverIsMember
  <2>2. /\ \A i \in DOMAIN v : contains(e.resolvers, v[i].resolver)
        /\ \A i, j \in DOMAIN v : v[i].resolver = v[j].resolver => i = j
    BY <1>3, Zenon DEF OwnVotes
  <2> HIDE DEF e, v
  <2>3. w \in Seq(Vote)
    BY <1>1, VoteUpdateType
  <2> QED
    BY <1>1, <2>1, <2>2, <2>3, VoteUpdateKeeps
<1>5. /\ needed \in Nat /\ needed > 0
      /\ e.resolvers.kind # "Multi" => needed = 1
  BY <1>3, SMT DEF threshold, WellStaffed, ResolverSet
<1> HIDE DEF w, needed
<1>6. /\ needed = 1 => verdict # None
      /\ verdict # None => verdict \in Resolution /\ votes_for(w, verdict) >= needed
  BY <1>4, <1>5, Tallies
<1> HIDE DEF verdict
<1>7. CASE verdict # None /\ execute_resolution_transition(id, caller, verdict, w, TRUE)
  <2> DEFINE f == escrow'[id]
             g == dispute'[id]
  <2>1. f.state = "PendingFinalization" /\ f.resolvers = e.resolvers
    BY <1>7, DecisionMove
  <2>2. get_resolution(g.resolution) = verdict /\ votes'[id] = w
    BY <1>6, <1>7, DecisionRecord
  <2> HIDE DEF f, g
  <2>3. Grounds(f, g, w)
    BY <1>6, <1>7, <2>1, <2>2 DEF Grounds, needed
  <2> QED
    BY <2>1, <2>2, <2>3 DEF SoundVotes, DisputedStates, f, g
<1>8. CASE verdict = None /\ save_resolver_votes(id, w) /\ UNCHANGED <<escrow, dispute>>
  <2>1. votes'[id] = w /\ escrow'[id] = e
    BY <1>8 DEF TypeOK, save_resolver_votes
  <2>2. e.resolvers.kind = "Multi"
    BY <1>5, <1>6, <1>8
  <2> HIDE DEF e
  <2>3. OwnVotes(e, w)
    BY <1>4, <1>8, <2>2 DEF OwnVotes, verdict, needed
  <2> QED
    BY <1>2, <2>1, <2>3 DEF SoundVotes, DisputedStates
<1> QED
  BY <1>2, <1>7, <1>8

(* The two ways to decide without enough votes.                            *)
LEMMA ForcedDecision ==
    ASSUME TypeOK, DealInv, VotesInv, NEW id \in Ids,
           \/ resolve_deadlocked_dispute(id)
           \/ \E caller \in Address : claim_dispute_timeout(caller, id)
    PROVE  SoundVotes(escrow'[id], dispute'[id], votes'[id])
<1> DEFINE e == escrow[id]
           f == escrow'[id]
           d == dispute[id]
           g == dispute'[id]
           v == votes[id]
           r == tally_votes_majority(v)
<1>1. /\ v \in Seq(Vote) /\ d.disputed_at \in Nat /\ now \in Nat
      /\ config.dispute_timeout \in Nat /\ MIN_DISPUTE_TIMEOUT \in Nat
  BY WindowsAssumption DEF TypeOK, DisputeRecord, Config, Time
<1>2. CASE resolve_deadlocked_dispute(id)
  <2>1. /\ now >= d.disputed_at + DISPUTE_DEADLOCK_WINDOW /\ v # <<>>
        /\ execute_resolution_transition(id, voter_for(v, r), r, v, TRUE)
    BY <1>2, Zenon DEF resolve_deadlocked_dispute
  <2>2. /\ r \in Resolution
        /\ \E i \in DOMAIN v : v[i].resolver = voter_for(v, r) /\ v[i].resolution = r
    BY <1>1, <2>1, MajorityHasVoter
  <2>3. f.state = "PendingFinalization"
    BY <2>1, DecisionMove
  <2>4. /\ g.disputed_at = d.disputed_at /\ get_resolution(g.resolution) = r
        /\ g.resolved_by = voter_for(v, r) /\ g.resolved_at = now /\ votes'[id] = v
    BY <2>1, <2>2, DecisionRecord
  <2> DEFINE voter == voter_for(v, r)
  <2> HIDE DEF f, g, d, v, voter
  <2>5. Grounds(f, g, v)
    BY <2>1, <2>2, <2>4, Zenon DEF Grounds
  <2> QED
    BY <2>3, <2>4, <2>5 DEF SoundVotes, DisputedStates, f, g
<1>3. ASSUME NEW caller \in Address, claim_dispute_timeout(caller, id)
      PROVE  SoundVotes(f, g, votes'[id])
  <2>1. /\ caller \in buyer_and_seller(e)
        /\ now >= d.disputed_at + config.dispute_timeout
        /\ execute_resolution_transition(id, caller, "Refund", v, FALSE)
    BY <1>3, Zenon DEF claim_dispute_timeout
  <2>2. "Refund" \in Resolution
    BY DEF Resolution
  <2>3. /\ f.state = "PendingFinalization" /\ f.buyer = e.buyer
        /\ f.payees = e.payees
    BY <2>1, DecisionMove
  <2>4. /\ g.disputed_at = d.disputed_at /\ get_resolution(g.resolution) = "Refund"
        /\ g.resolved_by = caller /\ g.resolved_at = now /\ votes'[id] = v
    BY <2>1, <2>2, DecisionRecord
  <2>5. config.dispute_timeout >= MIN_DISPUTE_TIMEOUT
    BY DEF VotesInv
  <2>6. now >= d.disputed_at + MIN_DISPUTE_TIMEOUT
    <3> DEFINE since == d.disputed_at
    <3> HIDE DEF since, d
    <3>1. since \in Nat /\ now >= since + config.dispute_timeout
      BY <1>1, <2>1 DEF since
    <3>2. now >= since + MIN_DISPUTE_TIMEOUT
      BY <1>1, <2>5, <3>1, SMT
    <3> QED
      BY <3>2 DEF since
  <2> HIDE DEF f, g, d, v, e
  <2>7. buyer_and_seller(f) = buyer_and_seller(e)
    BY <2>3 DEF buyer_and_seller, primary_payee
  <2>8. Grounds(f, g, v)
    BY <2>1, <2>2, <2>4, <2>6, <2>7, Zenon DEF Grounds
  <2> QED
    BY <2>3, <2>4, <2>8 DEF SoundVotes, DisputedStates
<1> QED
  BY <1>2, <1>3

(* The timeout stays one that set_dispute_timeout accepts.                 *)
LEMMA TimeoutStaysLong ==
    ASSUME TypeOK, VotesInv, [Next]_vars
    PROVE  config'.dispute_timeout >= MIN_DISPUTE_TIMEOUT
<1>1. config \in Config /\ config.dispute_timeout >= MIN_DISPUTE_TIMEOUT
  BY DEF TypeOK, VotesInv
<1>2. config' = config => config'.dispute_timeout >= MIN_DISPUTE_TIMEOUT
  BY <1>1
<1>3. ASSUME NEW seconds, set_dispute_timeout(seconds)
      PROVE  config'.dispute_timeout >= MIN_DISPUTE_TIMEOUT
  <2>1. config'.dispute_timeout = seconds
    BY <1>1, <1>3 DEF set_dispute_timeout, configure, Config
  <2>2. seconds >= MIN_DISPUTE_TIMEOUT
    BY <1>3, WindowsAssumption, SMT DEF set_dispute_timeout
  <2> QED
    BY <2>1, <2>2
<1>4. Administer => config'.dispute_timeout >= MIN_DISPUTE_TIMEOUT
  BY <1>1, <1>3
     DEF Administer, configure, set_paused, set_recovery_mode,
         pause_action, unpause_action, set_arbitration_fee, set_platform_fee,
         execute_set_appeal_fee, execute_set_max_appeals, Config
<1>5. Tick \/ UNCHANGED vars => config' = config
  BY DEF Tick, vars
<1> QED
  BY <1>2, <1>4, <1>5, InstantSteps DEF Next

LEMMA VotesStep ==
    ASSUME TypeOK, BooksInv, DealInv, VotesInv, [Next]_vars
    PROVE  VotesInv'
<1>1. ASSUME NEW id \in Ids, TradeMove(id) \/ DisputeMove(id)
      PROVE  \A i \in Ids : SoundVotes(escrow'[i], dispute'[i], votes'[i])
  <2>1. SoundVotes(escrow'[id], dispute'[id], votes'[id])
    BY <1>1, QuietVotes, FreshRound, RotatedVotes, VoteCast, ForcedDecision, Zenon
       DEF TradeMove, DisputeMove, DecideOrVote
  <2> QED
    BY <1>1, <2>1, MoveFrame DEF VotesInv, Same
<1>2. NoMove => \A i \in Ids : SoundVotes(escrow'[i], dispute'[i], votes'[i])
  BY DEF NoMove, VotesInv
<1>3. \A i \in Ids : SoundVotes(escrow'[i], dispute'[i], votes'[i])
  BY <1>1, <1>2, EveryMove
<1>4. config'.dispute_timeout >= MIN_DISPUTE_TIMEOUT
  BY TimeoutStaysLong
<1> QED
  BY <1>3, <1>4 DEF VotesInv

THEOREM VotesHold == Spec => []VotesInv
<1>1. Init => VotesInv
  <2>1. SUFFICES ASSUME Init PROVE VotesInv
    OBVIOUS
  <2>2. config.dispute_timeout >= MIN_DISPUTE_TIMEOUT
    BY <2>1, TimeoutAssumption, ConfigAssumption, WindowsAssumption, SMT
       DEF Init, Config, Time
  <2>3. \A id \in Ids : escrow[id].state = "Absent" /\ votes[id] = <<>>
    BY <2>1 DEF Init, NoEscrow
  <2> QED
    BY <2>2, <2>3 DEF VotesInv, SoundVotes
<1> QED
  BY <1>1, VotesStep, TypeCorrect, BooksHold, DealsHold, PTL DEF Spec

(* VotesAreSound: while a dispute is open add_or_update_vote keeps one     *)
(* vote per resolver, cast by the resolvers of can_resolve_now, and what   *)
(* is on record never decides: a vote that does leads on at once.          *)
THEOREM OpenVotesAreSound == Spec => []VotesAreSound
<1>1. VotesInv => VotesAreSound
  BY DEF VotesInv, SoundVotes, OwnVotes, VotesAreSound
<1> QED
  BY <1>1, VotesHold, PTL

(* DecisionIsBacked: whatever execute_resolution_transition was called     *)
(* for, and through every appeal, the decision that waits has enough       *)
(* votes, the majority of an old deadlock, or a party's timeout behind it. *)
THEOREM DecisionsAreBacked == Spec => []DecisionIsBacked
<1>1. VotesInv => DecisionIsBacked
  BY DEF VotesInv, SoundVotes, Grounds, DecisionIsBacked
<1> QED
  BY <1>1, VotesHold, PTL

-----------------------------------------------------------------------------
(* Counters.                                                               *)

EverDisputed == {id \in Ids : dispute[id].status # "Absent"}

(* The sum in CountersMatchEscrows, of the disputes d.                     *)
FeeTotal(d) ==
    LET fees[n \in 0..MaxEscrows] ==
            IF n = 0 THEN 0 ELSE fees[n - 1] + d[n].arbitration_fee
    IN  fees[MaxEscrows]

(* A dispute is on record from raise_dispute on and not before.            *)
SoundCase(e, d) ==
    /\ e.state \in {"Absent", "Pending", "Funded", "Shipped", "RefundRequested"} =>
          d.status = "Absent"
    /\ e.state \in DisputedStates => d.status # "Absent"
    /\ d.status = "Absent" => d.arbitration_fee = 0

CountsInv ==
    /\ \A id \in Ids : SoundCase(escrow[id], dispute[id])
    /\ CountersMatchEscrows

(* A set of escrows that differs from another in one escrow at most.       *)
LEMMA OneApart ==
    ASSUME NEW S \in SUBSET Ids, NEW T \in SUBSET Ids, NEW id \in Ids,
           \A other \in Ids \ {id} : other \in S <=> other \in T
    PROVE  /\ Cardinality(S) \in Int /\ Cardinality(T) \in Int
           /\ (id \in S <=> id \in T) => T = S
           /\ id \notin S /\ id \in T => Cardinality(T) = Cardinality(S) + 1
           /\ id \in S /\ id \notin T => Cardinality(T) = Cardinality(S) - 1
<1>1. IsFiniteSet(S) /\ IsFiniteSet(T)
  <2>1. IsFiniteSet(Ids)
    BY FS_Interval, BoundsAssumption DEF Ids
  <2> QED
    BY <2>1, FS_Subset
<1>2. Cardinality(S) \in Nat /\ Cardinality(T) \in Nat
  BY <1>1, FS_CardinalityType
<1>3. (id \in S <=> id \in T) => T = S
  <2>1. ASSUME id \in S <=> id \in T, NEW x \in Ids PROVE x \in T <=> x \in S
    BY <2>1
  <2> QED
    BY <2>1
<1>4. id \notin S /\ id \in T => T = S \cup {id}
  OBVIOUS
<1>5. id \in S /\ id \notin T => T = S \ {id}
  OBVIOUS
<1>6. id \notin S => Cardinality(S \cup {id}) = Cardinality(S) + 1
  BY <1>1, FS_AddElement
<1>7. id \in S => Cardinality(S \ {id}) = Cardinality(S) - 1
  BY <1>1, FS_RemoveElement
<1>8. id \notin S /\ id \in T => Cardinality(T) = Cardinality(S) + 1
  BY <1>4, <1>6, Zenon
<1>9. id \in S /\ id \notin T => Cardinality(T) = Cardinality(S) - 1
  BY <1>5, <1>7, Zenon
<1>10. \A k \in Nat : k \in Int
  BY SMT
<1> QED
  BY <1>2, <1>3, <1>8, <1>9, <1>10, Zenon

(* The sum is the last of the partial sums of its loop.                    *)
LEMMA FeeSums ==
    ASSUME NEW d, \A n \in Ids : d[n].arbitration_fee \in Int
    PROVE  \E f \in [0..MaxEscrows -> Int] :
              /\ FeeTotal(d) = f[MaxEscrows]
              /\ \A n \in 0..MaxEscrows :
                    f[n] = IF n = 0 THEN 0 ELSE f[n - 1] + d[n].arbitration_fee
<1> DEFINE N == MaxEscrows
           c == [n \in 1..N |-> d[n].arbitration_fee]
           f == CHOOSE total : total = [n \in 0..N |->
                    IF n = 0 THEN 0 ELSE total[n - 1] + d[n].arbitration_fee]
<1>1. \A n \in 1..N : d[n].arbitration_fee \in Int
  BY DEF Ids
<1>2. c \in [1..N -> Int] /\ N \in Nat /\ 0 \in Nat
  BY <1>1, BoundsAssumption
<1> HIDE DEF c
<1>3. PICK g \in [0..N -> Int] :
         g = [n \in 0..N |-> IF n <= 0 THEN 0 ELSE g[n - 1] + c[n]]
  <2> HIDE DEF N
  <2> QED
    BY <1>2, PartialSumsExist
<1>4. \A n \in 0..N : /\ n <= 0 <=> n = 0
                      /\ n # 0 => c[n] = d[n].arbitration_fee
  BY <1>2, SMT DEF c
<1>5. g = [n \in 0..N |-> IF n = 0 THEN 0 ELSE g[n - 1] + d[n].arbitration_fee]
  BY <1>3, <1>4, Zenon
<1>6. f = [n \in 0..N |-> IF n = 0 THEN 0 ELSE f[n - 1] + d[n].arbitration_fee]
  BY <1>5, Zenon
<1>7. FeeTotal(d) = f[N]
  BY Zenon DEF FeeTotal
<1> HIDE DEF f
<1>8. \A n \in 0..N :
         f[n] = IF n = 0 THEN 0 ELSE f[n - 1] + d[n].arbitration_fee
  BY <1>6, Zenon
<1>9. f \in [0..N -> Int]
  <2> DEFINE S == {k \in Nat : k <= N => f[k] \in Int}
  <2>1. 0 \in S
    BY <1>2, <1>8, SMT
  <2>2. ASSUME NEW k \in Nat, k \in S PROVE k + 1 \in S
    <3>1. SUFFICES ASSUME k + 1 <= N PROVE f[k + 1] \in Int
      OBVIOUS
    <3>2. k + 1 \in 0..N /\ k + 1 \in 1..N /\ k <= N /\ (k + 1) - 1 = k /\ k + 1 # 0
      BY <3>1, <1>2, SMT
    <3>3. f[k] \in Int /\ d[k + 1].arbitration_fee \in Int
      BY <2>2, <3>2, <1>1
    <3>4. f[k + 1] = f[k] + d[k + 1].arbitration_fee
      BY <1>8, <3>2, Zenon
    <3> QED
      BY <3>3, <3>4, SMT
  <2> HIDE DEF S
  <2>3. \A k \in Nat : k \in S
    BY <2>1, <2>2, NatSetInduction
  <2>4. \A k \in 0..N : f[k] \in Int
    BY <1>2, <2>3, SMT DEF S
  <2> QED
    BY <1>6, <2>4, Zenon
<1> QED
  BY <1>7, <1>8, <1>9

(* What one dispute adds to its fee is added to the sum.                   *)
LEMMA FeeTotalMoves ==
    ASSUME NEW d, NEW g, NEW id \in Ids,
           \A n \in Ids : d[n].arbitration_fee \in Int,
           g[id].arbitration_fee \in Int,
           \A n \in Ids \ {id} : g[n].arbitration_fee = d[n].arbitration_fee
    PROVE  /\ FeeTotal(d) \in Int
           /\ FeeTotal(g) = FeeTotal(d)
                  + (g[id].arbitration_fee - d[id].arbitration_fee)
<1> DEFINE N == MaxEscrows
           more == g[id].arbitration_fee - d[id].arbitration_fee
<1>1. PICK p \in [0..N -> Int] :
         /\ FeeTotal(d) = p[N]
         /\ \A n \in 0..N : p[n] = IF n = 0 THEN 0 ELSE p[n - 1] + d[n].arbitration_fee
  BY FeeSums
<1>2. \A n \in Ids : g[n].arbitration_fee \in Int
  OBVIOUS
<1>3. PICK q \in [0..N -> Int] :
         /\ FeeTotal(g) = q[N]
         /\ \A n \in 0..N : q[n] = IF n = 0 THEN 0 ELSE q[n - 1] + g[n].arbitration_fee
  BY <1>2, FeeSums
<1>4. N \in Nat /\ id \in 1..N /\ more \in Int
  BY BoundsAssumption, <1>2 DEF Ids
<1> DEFINE S == {k \in Nat : k <= N => q[k] = p[k] + (IF k >= id THEN more ELSE 0)}
<1>5. 0 \in S
  <2>1. q[0] = 0 /\ p[0] = 0 /\ ~(0 >= id)
    BY <1>1, <1>3, <1>4, SMT
  <2> QED
    BY <2>1
<1>6. ASSUME NEW k \in Nat, k \in S PROVE k + 1 \in S
  <2>1. SUFFICES ASSUME k + 1 <= N
                 PROVE  q[k + 1] = p[k + 1] + (IF k + 1 >= id THEN more ELSE 0)
    OBVIOUS
  <2>2. k + 1 \in 0..N /\ k + 1 \in 1..N /\ k <= N /\ (k + 1) - 1 = k /\ k + 1 # 0
        /\ k \in 0..N
    BY <2>1, <1>4, SMT
  <2> DEFINE a == d[k + 1].arbitration_fee
             b == g[k + 1].arbitration_fee
  <2>3. a \in Int /\ b \in Int /\ (k + 1 # id => b = a) /\ (k + 1 = id => b = a + more)
    <3>1. k + 1 \in Ids
      BY <2>2 DEF Ids
    <3> QED
      BY <3>1, <1>2, SMT
  <2>4. p[k + 1] = p[k] + a /\ q[k + 1] = q[k] + b
    BY <1>1, <1>3, <2>2, Zenon
  <2>5. q[k] = p[k] + (IF k >= id THEN more ELSE 0) /\ p[k] \in Int
    BY <1>6, <2>2
  <2> DEFINE x == q[k]
             y == p[k]
             u == q[k + 1]
             w == p[k + 1]
  <2>6. x = y + (IF k >= id THEN more ELSE 0) /\ w = y + a /\ u = x + b /\ y \in Int
    BY <2>4, <2>5
  <2>7. id \in Nat
    BY <1>4
  <2> HIDE DEF a, b, more, x, y, u, w
  <2>8. u = w + (IF k + 1 >= id THEN more ELSE 0)
    BY <1>4, <2>3, <2>6, <2>7, SMT
  <2> QED
    BY <2>8 DEF u, w
<1> HIDE DEF S
<1>7. N \in S
  BY <1>4, <1>5, <1>6, NatSetInduction
<1>8. q[N] = p[N] + more /\ p[N] \in Int
  <2> HIDE DEF more
  <2> QED
    BY <1>4, <1>7, SMT DEF S
<1> QED
  BY <1>1, <1>3, <1>8

(* One more is counted when what is counted becomes true, and it stays so. *)
Gained(was, is, before, after) ==
    /\ was => is
    /\ after = IF is /\ ~was THEN before + 1 ELSE before

(* A move from escrow e to f and dispute d to g, and the counters c and k. *)
Tally(e, f, d, g, c, k) ==
    /\ SoundCase(f, g)
    /\ Gained(e.state # "Absent", f.state # "Absent", c.created, k.created)
    /\ Gained(e.state = "Completed", f.state = "Completed", c.completed, k.completed)
    /\ Gained(e.state = "Refunded", f.state = "Refunded", c.refunded, k.refunded)
    /\ Gained(d.status # "Absent", g.status # "Absent", c.disputed, k.disputed)
    /\ k.arbitration_fees
          = c.arbitration_fees + (g.arbitration_fee - d.arbitration_fee)

CountStep(id) ==
    Tally(escrow[id], escrow'[id], dispute[id], dispute'[id], counters, counters')

(* What the counters record.                                               *)
LEMMA CounterRecords ==
    ASSUME TypeOK
    PROVE  /\ counters.created \in Int /\ counters.completed \in Int
           /\ counters.refunded \in Int /\ counters.disputed \in Int
           /\ counters.arbitration_fees \in Int
           /\ record_escrow_created =>
                 counters' = [counters EXCEPT !.created = counters.created + 1]
           /\ record_escrow_completed =>
                 counters' = [counters EXCEPT !.completed = counters.completed + 1]
           /\ record_escrow_refunded =>
                 counters' = [counters EXCEPT !.refunded = counters.refunded + 1]
           /\ record_escrow_disputed =>
                 counters' = [counters EXCEPT !.disputed = counters.disputed + 1]
<1>1. counters \in Counters
  BY DEF TypeOK
<1> QED
  BY <1>1, SMT DEF Counters, record_escrow_created, record_escrow_completed,
                   record_escrow_refunded, record_escrow_disputed

(* Nothing is counted while an escrow is under way.                        *)
LEMMA Uncounted ==
    ASSUME TypeOK, NEW id \in Ids, SoundCase(escrow'[id], dispute'[id]),
           escrow[id].state \notin {"Absent", "Completed", "Refunded"},
           escrow'[id].state \notin {"Absent", "Completed", "Refunded"},
           dispute'[id].status = "Absent" <=> dispute[id].status = "Absent",
           dispute'[id].arbitration_fee = dispute[id].arbitration_fee,
           counters' = counters
    PROVE  CountStep(id)
<1>1. dispute[id].arbitration_fee \in Int /\ counters.arbitration_fees \in Int
  BY Entries, CounterRecords DEF DisputeRecord
<1>2. \A a, b \in Int : a = a + (b - b)
  BY SMT
<1>3. counters.arbitration_fees = counters.arbitration_fees
         + (dispute'[id].arbitration_fee - dispute[id].arbitration_fee)
  BY <1>1, <1>2
<1> QED
  BY <1>3 DEF CountStep, Tally, Gained

(* An escrow that closes: completed, refunded, or neither.                 *)
LEMMA Closed ==
    ASSUME TypeOK, NEW id \in Ids, SoundCase(escrow[id], dispute[id]),
           escrow[id].state \in HoldingStates,
           NEW s \in TerminalStates, move_to(id, s),
           \/ s = "Completed" /\ record_escrow_completed
           \/ s = "Refunded" /\ record_escrow_refunded
           \/ s \in {"Canceled", "Expired"} /\ UNCHANGED counters,
           \/ dispute' = dispute
           \/ /\ escrow[id].state = "PendingFinalization"
              /\ dispute'[id].status = "Resolved"
              /\ dispute'[id].arbitration_fee = dispute[id].arbitration_fee
    PROVE  CountStep(id)
<1> DEFINE e == escrow[id]
           f == escrow'[id]
           d == dispute[id]
           g == dispute'[id]
           c == counters
           k == counters'
<1>1. f.state = s
  BY StateMoves
<1>2. d.arbitration_fee \in Int /\ c.arbitration_fees \in Int /\ c \in Counters
  BY Entries, CounterRecords DEF DisputeRecord, TypeOK
<1>3. /\ g.arbitration_fee = d.arbitration_fee
      /\ g.status = "Absent" <=> d.status = "Absent"
      /\ g.status = "Absent" => d.arbitration_fee = 0
  BY DEF SoundCase, DisputedStates
<1>4. SoundCase(f, g)
  BY <1>1, <1>3 DEF SoundCase, DisputedStates, TerminalStates
<1>5. \A a, b \in Int : a = a + (b - b)
  BY SMT
<1>6. /\ k.created = c.created /\ k.disputed = c.disputed
      /\ k.arbitration_fees = c.arbitration_fees
      /\ k.completed = IF s = "Completed" THEN c.completed + 1 ELSE c.completed
      /\ k.refunded = IF s = "Refunded" THEN c.refunded + 1 ELSE c.refunded
  BY <1>2, CounterRecords, SMT DEF Counters, TerminalStates
<1>7. k.arbitration_fees = c.arbitration_fees + (g.arbitration_fee - d.arbitration_fee)
  BY <1>2, <1>3, <1>5, <1>6
<1>8. e.state \notin {"Absent", "Completed", "Refunded"} /\ s # "Absent"
  BY DEF HoldingStates, TerminalStates
<1> HIDE DEF e, f, d, g, c, k
<1>9. Tally(e, f, d, g, c, k)
  BY <1>1, <1>3, <1>4, <1>6, <1>7, <1>8 DEF Tally, Gained
<1> QED
  BY <1>9 DEF CountStep, e, f, d, g, c, k

(* A trade that goes on, closes, or gives the money back.                  *)
LEMMA TradeCounts ==
    ASSUME TypeOK, BooksInv, NEW id \in Ids, SoundCase(escrow[id], dispute[id]),
           TradeMove(id)
    PROVE  CountStep(id)
<1> DEFINE e == escrow[id]
           f == escrow'[id]
           early == {"Pending", "Funded", "Shipped", "RefundRequested"}
<1>1. e \in EscrowRecord
  BY Entries
<1>2. ASSUME e.state \in early, f.state \in early \cup {"Canceled"},
             dispute' = dispute, counters' = counters
      PROVE  CountStep(id)
  <2>1. SoundCase(f, dispute'[id])
    BY <1>2 DEF SoundCase, DisputedStates
  <2> HIDE DEF f, e
  <2> QED
    BY <1>2, <2>1, Uncounted DEF f, e
<1>3. CASE Create(id)
  <2>1. /\ id = next_id /\ id \in Nat /\ dispute' = dispute /\ f.state = "Pending"
        /\ record_escrow_created
    BY <1>3, Entries DEF Create, NewEscrow, Ids
  <2>2. e.state = "Absent"
    BY <2>1 DEF BooksInv, FreshIds
  <2> DEFINE c == counters
             k == counters'
             d == dispute[id]
  <2>3. d.arbitration_fee \in Int /\ c.arbitration_fees \in Int /\ c \in Counters
    BY Entries, CounterRecords DEF DisputeRecord, TypeOK
  <2>4. /\ k.created = c.created + 1 /\ k.completed = c.completed
        /\ k.refunded = c.refunded /\ k.disputed = c.disputed
        /\ k.arbitration_fees = c.arbitration_fees
    BY <2>1, <2>3, CounterRecords DEF Counters
  <2>5. \A a, b \in Int : a = a + (b - b)
    BY SMT
  <2>6. k.arbitration_fees = c.arbitration_fees + (d.arbitration_fee - d.arbitration_fee)
    BY <2>3, <2>4, <2>5
  <2>7. dispute'[id] = d /\ SoundCase(f, d)
    BY <2>1, <2>2 DEF SoundCase, DisputedStates
  <2> HIDE DEF e, f, c, k, d
  <2>8. Tally(e, f, d, d, c, k)
    BY <2>1, <2>2, <2>4, <2>6, <2>7 DEF Tally, Gained
  <2> QED
    BY <2>7, <2>8 DEF CountStep, e, f, c, k, d
<1>4. ASSUME NEW buyer \in Address, fund(buyer, id)
      PROVE  CountStep(id)
  <2>1. /\ e.state = "Pending" /\ dispute' = dispute /\ counters' = counters
        /\ f = [e EXCEPT !.state = "Funded", !.buyer = buyer,
                  !.funded_at = pack_timestamp(now),
                  !.dispute_deadline = pack_timestamp(now + DISPUTE_WINDOW)]
    BY <1>4, Entries DEF fund, dispute_vars
  <2>2. f.state = "Funded"
    BY <1>1, <2>1 DEF EscrowRecord
  <2> QED
    BY <1>2, <2>1, <2>2
<1>5. CASE Lapse(id)
  BY <1>2, <1>5, StateMoves DEF Lapse
<1>6. CASE Carry(id)
  BY <1>2, <1>6, Entries DEF Carry
<1>7. CASE Rotate(id)
  <2>1. PICK new \in Address :
           /\ save_escrow(id, [e EXCEPT !.resolvers.members = <<new>>])
           /\ e.state \notin TerminalStates \cup {"Absent"}
           /\ dispute' = dispute /\ counters' = counters
    BY <1>7, Zenon DEF Rotate, rotate_resolver, dispute_vars
  <2>2. f = [e EXCEPT !.resolvers.members = <<new>>]
    BY <2>1, Entries
  <2>3. f.state = e.state
    BY <1>1, <2>2 DEF EscrowRecord
  <2>4. SoundCase(f, dispute'[id])
    BY <2>1, <2>3 DEF SoundCase
  <2> QED
    BY <2>1, <2>3, <2>4, Uncounted DEF TerminalStates
<1>8. CASE Settle(id)
  BY <1>8, Closed DEF Settle, HoldingStates, TerminalStates, dispute_vars
<1>9. CASE GiveBack(id)
  <2> DEFINE overridden(caller) ==
                [dispute[id] EXCEPT
                   !.status = "Resolved", !.resolved_by = caller,
                   !.resolution = REFUND_DISCRIMINANT, !.resolved_at = now]
  <2>1. ASSUME NEW caller \in Address, save_dispute(id, overridden(caller))
        PROVE  /\ dispute'[id].status = "Resolved"
               /\ dispute'[id].arbitration_fee = dispute[id].arbitration_fee
    <3>1. dispute[id] \in DisputeRecord
      BY Entries
    <3>2. /\ overridden(caller).status = "Resolved"
          /\ overridden(caller).arbitration_fee = dispute[id].arbitration_fee
      BY <3>1 DEF DisputeRecord
    <3> HIDE DEF overridden
    <3> QED
      BY <2>1, <3>2, Entries
  <2>2. \/ dispute' = dispute
        \/ /\ e.state = "PendingFinalization"
           /\ dispute'[id].status = "Resolved"
           /\ dispute'[id].arbitration_fee = dispute[id].arbitration_fee
    BY <1>9, <2>1, Zenon DEF GiveBack, Overridden
  <2>3. /\ e.state \in HoldingStates
        /\ \/ move_to(id, "Refunded") /\ record_escrow_refunded
           \/ /\ move_to(id, "Canceled") \/ move_to(id, "Expired")
              /\ UNCHANGED counters
    BY <1>9, Zenon DEF GiveBack
  <2> QED
    BY <2>2, <2>3, Closed DEF TerminalStates
<1> QED
  BY <1>3, <1>4, <1>5, <1>6, <1>7, <1>8, <1>9 DEF TradeMove

(* A dispute is counted once, when it is raised.                           *)
LEMMA RaisedCount ==
    ASSUME TypeOK, NEW id \in Ids, SoundCase(escrow[id], dispute[id]),
           NEW caller \in Address, raise_dispute(caller, id)
    PROVE  CountStep(id)
<1> DEFINE e == escrow[id]
           f == escrow'[id]
           d == dispute[id]
           g == dispute'[id]
           c == counters
           k == counters'
<1>1. /\ e.state \in {"Funded", "Shipped"} /\ move_to(id, "Disputed")
      /\ g = [NoDispute EXCEPT !.status = "Active", !.disputed_at = now]
      /\ record_escrow_disputed
  BY Entries DEF raise_dispute
<1>2. f.state = "Disputed" /\ g.status = "Active" /\ g.arbitration_fee = 0
  BY <1>1, StateMoves DEF NoDispute
<1>3. d.status = "Absent" /\ d.arbitration_fee = 0
  BY <1>1 DEF SoundCase
<1>4. c.arbitration_fees \in Int /\ c \in Counters
  BY CounterRecords DEF TypeOK
<1>5. /\ k.created = c.created /\ k.completed = c.completed
      /\ k.refunded = c.refunded /\ k.disputed = c.disputed + 1
      /\ k.arbitration_fees = c.arbitration_fees
  BY <1>1, <1>4, CounterRecords DEF Counters
<1>6. \A a \in Int : a = a + (0 - 0)
  BY SMT
<1>7. k.arbitration_fees = c.arbitration_fees + (g.arbitration_fee - d.arbitration_fee)
  BY <1>2, <1>3, <1>4, <1>5, <1>6
<1>8. SoundCase(f, g)
  BY <1>2 DEF SoundCase
<1> HIDE DEF e, f, d, g, c, k
<1>9. Tally(e, f, d, g, c, k)
  BY <1>1, <1>2, <1>3, <1>5, <1>7, <1>8 DEF Tally, Gained
<1> QED
  BY <1>9 DEF CountStep, e, f, d, g, c, k

(* TotalArbitrationFees grows by what the decision records: the dispute    *)
(* that is charged has recorded none before.                               *)
LEMMA DecisionCounts ==
    ASSUME TypeOK, BooksInv, NEW id \in Ids, SoundCase(escrow[id], dispute[id]),
           escrow[id].state = "Disputed",
           NEW caller, NEW r \in Resolution, NEW v, NEW charge_fees,
           execute_resolution_transition(id, caller, r, v, charge_fees)
    PROVE  CountStep(id)
<1> DEFINE e == escrow[id]
           f == escrow'[id]
           d == dispute[id]
           g == dispute'[id]
           c == counters
           k == counters'
           fee == calculate_fee(e.amount, config.arbitration_fee_bps)
           decided == [d EXCEPT !.resolution = resolution_code(r),
                                !.resolved_by = caller, !.resolved_at = now,
                                !.fees_charged = TRUE]
<1>1. f.state = "PendingFinalization" /\ g.status = d.status /\ d.status # "Absent"
  BY DecisionMove, DecisionRecord DEF SoundCase, DisputedStates
<1>2. /\ d \in DisputeRecord /\ c \in Counters /\ d.arbitration_fee \in Int
      /\ c.arbitration_fees \in Int
  BY Entries, CounterRecords DEF DisputeRecord, TypeOK
<1>3. ~d.fees_charged => d.arbitration_fee = 0
  BY DEF BooksInv, SoundBooks, FeesBooked, DisputedStates
<1>4. /\ decided.arbitration_fee = d.arbitration_fee
      /\ \A a, b : [decided EXCEPT !.arbitration_fee = a,
                                   !.resolver_fee = b].arbitration_fee = a
  BY <1>2 DEF DisputeRecord
<1>5. \/ /\ ~d.fees_charged
         /\ \E b : save_dispute(id, [decided EXCEPT !.arbitration_fee = fee,
                                                    !.resolver_fee = b])
         /\ counters' = [counters EXCEPT !.arbitration_fees = @ + fee]
      \/ /\ \/ d.fees_charged /\ save_dispute(id, decided)
            \/ /\ ~d.fees_charged
               /\ \E b : save_dispute(id, [decided EXCEPT !.arbitration_fee = 0,
                                                          !.resolver_fee = b])
         /\ counters' = counters
  BY Zenon DEF execute_resolution_transition, first_charge
<1>6. fee \in Int
  BY EscrowParts, ConfigRates, FeeIsInt
<1> HIDE DEF fee, decided
<1>7. /\ k.created = c.created /\ k.completed = c.completed
      /\ k.refunded = c.refunded /\ k.disputed = c.disputed
      /\ \/ /\ k.arbitration_fees = c.arbitration_fees + fee
            /\ g.arbitration_fee = fee /\ d.arbitration_fee = 0
         \/ /\ k.arbitration_fees = c.arbitration_fees
            /\ g.arbitration_fee = d.arbitration_fee
  <2>1. CASE /\ ~d.fees_charged
             /\ \E b : save_dispute(id, [decided EXCEPT !.arbitration_fee = fee,
                                                        !.resolver_fee = b])
             /\ counters' = [counters EXCEPT !.arbitration_fees = @ + fee]
    <3>1. g.arbitration_fee = fee
      <4>1. ASSUME NEW x, save_dispute(id, x), x.arbitration_fee = fee
            PROVE  g.arbitration_fee = fee
        BY <4>1, Entries
      <4> HIDE DEF g
      <4> QED
        BY <1>4, <2>1, <4>1, Zenon
    <3>2. /\ k.created = c.created /\ k.completed = c.completed
          /\ k.refunded = c.refunded /\ k.disputed = c.disputed
          /\ k.arbitration_fees = c.arbitration_fees + fee
      BY <1>2, <2>1 DEF Counters
    <3> QED
      BY <1>3, <2>1, <3>1, <3>2
  <2>2. CASE /\ \/ d.fees_charged /\ save_dispute(id, decided)
                \/ /\ ~d.fees_charged
                   /\ \E b : save_dispute(id, [decided EXCEPT !.arbitration_fee = 0,
                                                              !.resolver_fee = b])
             /\ counters' = counters
    <3>1. ASSUME NEW x, save_dispute(id, x), x.arbitration_fee = d.arbitration_fee
          PROVE  g.arbitration_fee = d.arbitration_fee
      BY <3>1, Entries
    <3> HIDE DEF g, d
    <3>2. g.arbitration_fee = d.arbitration_fee
      BY <1>3, <1>4, <2>2, <3>1, Zenon
    <3> QED
      BY <2>2, <3>2
  <2> QED
    BY <1>5, <2>1, <2>2
<1>8. k.arbitration_fees = c.arbitration_fees + (g.arbitration_fee - d.arbitration_fee)
  <2>1. \A a, b \in Int : a = a + (b - b) /\ a + b = a + (b - 0)
    BY SMT
  <2> QED
    BY <1>2, <1>6, <1>7, <2>1
<1>9. SoundCase(f, g)
  BY <1>1 DEF SoundCase
<1> HIDE DEF e, f, d, g, c, k
<1>10. e.state = "Disputed"
  BY DEF e
<1>11. Tally(e, f, d, g, c, k)
  BY <1>1, <1>7, <1>8, <1>9, <1>10 DEF Tally, Gained
<1> QED
  BY <1>11 DEF CountStep, e, f, d, g, c, k

(* The other moves of a dispute.                                           *)
LEMMA DisputeCounts ==
    ASSUME TypeOK, BooksInv, NEW id \in Ids, SoundCase(escrow[id], dispute[id]),
           DisputeMove(id)
    PROVE  CountStep(id)
<1> DEFINE e == escrow[id]
           f == escrow'[id]
           d == dispute[id]
           g == dispute'[id]
<1>1. e \in EscrowRecord /\ d \in DisputeRecord
  BY Entries
<1>2. ASSUME DecideOrVote(id) PROVE CountStep(id)
  <2>1. e.state = "Disputed"
    BY <1>2, Zenon DEF DecideOrVote, resolve_deadlocked_dispute,
                       claim_dispute_timeout, resolve_or_vote
  <2>2. ASSUME NEW caller, NEW r \in Resolution, NEW v, NEW charge_fees,
               execute_resolution_transition(id, caller, r, v, charge_fees)
        PROVE  CountStep(id)
    BY <2>1, <2>2, DecisionCounts
  <2>3. ASSUME UNCHANGED <<escrow, dispute, counters>> PROVE CountStep(id)
    BY <2>1, <2>3, Uncounted
  <2>4. /\ \A v : tally_votes_majority(v) \in Resolution
        /\ \A v, needed : tally_votes(v, needed) \in Resolution \cup {None}
        /\ "Refund" \in Resolution
    BY DEF tally_votes_majority, tally_votes, Resolution
  <2>5. CASE resolve_deadlocked_dispute(id)
    BY <2>2, <2>4, <2>5, Zenon DEF resolve_deadlocked_dispute
  <2>6. ASSUME NEW caller \in Address, claim_dispute_timeout(caller, id)
        PROVE  CountStep(id)
    BY <2>2, <2>4, <2>6, Zenon DEF claim_dispute_timeout
  <2>7. ASSUME NEW caller \in Address, NEW r \in Resolution,
               resolve_or_vote(caller, id, r)
        PROVE  CountStep(id)
    <3> DEFINE v == add_or_update_vote(votes[id], caller, r)
               final == tally_votes(v, threshold(e.resolvers))
    <3>1. \/ /\ final # None
             /\ execute_resolution_transition(id, caller, final, v, TRUE)
          \/ UNCHANGED <<escrow, dispute, counters>>
      BY <2>7, Zenon DEF resolve_or_vote
    <3>2. final \in Resolution \cup {None}
      BY <2>4, Zenon
    <3> HIDE DEF final, v
    <3> QED
      BY <2>2, <2>3, <3>1, <3>2
  <2> QED
    BY <1>2, <2>5, <2>6, <2>7 DEF DecideOrVote
<1>3. ASSUME NEW caller \in Address, appeal_dispute(caller, id)
      PROVE  CountStep(id)
  <2> DEFINE reopened == [d EXCEPT !.status = "Active", !.resolution = 0,
                            !.resolved_by = None, !.resolved_at = 0,
                            !.appeal_count = d.appeal_count + 1]
  <2>1. /\ e.state = "PendingFinalization" /\ move_to(id, "Disputed")
        /\ save_dispute(id, reopened) /\ counters' = counters
    BY <1>3 DEF appeal_dispute
  <2>2. reopened.status = "Active" /\ reopened.arbitration_fee = d.arbitration_fee
    BY <1>1 DEF DisputeRecord
  <2> HIDE DEF reopened
  <2>3. g.status = "Active" /\ g.arbitration_fee = d.arbitration_fee
    BY <2>1, <2>2, Entries
  <2>4. f.state = "Disputed" /\ d.status # "Absent"
    BY <2>1, StateMoves DEF SoundCase, DisputedStates
  <2>5. SoundCase(f, g)
    BY <2>3, <2>4 DEF SoundCase
  <2> QED
    BY <2>1, <2>3, <2>4, <2>5, Uncounted
<1>4. CASE finalize_dispute(id)
  <2> DEFINE closed == [d EXCEPT !.status = "Resolved"]
  <2>1. /\ e.state = "PendingFinalization" /\ save_dispute(id, closed)
        /\ \/ move_to(id, "Completed") /\ record_escrow_completed
           \/ move_to(id, "Refunded") /\ record_escrow_refunded
    BY <1>4, Zenon DEF finalize_dispute
  <2>2. closed.status = "Resolved" /\ closed.arbitration_fee = d.arbitration_fee
    BY <1>1 DEF DisputeRecord
  <2> HIDE DEF closed
  <2>3. g.status = "Resolved" /\ g.arbitration_fee = d.arbitration_fee
    BY <2>1, <2>2, Entries
  <2> QED
    BY <2>1, <2>3, Closed DEF HoldingStates, TerminalStates
<1>5. ASSUME NEW caller \in Address, raise_dispute(caller, id)
      PROVE  CountStep(id)
  BY <1>5, RaisedCount
<1>6. CASE GiveBack(id)
  BY <1>6, TradeCounts DEF TradeMove
<1> QED
  BY <1>2, <1>3, <1>4, <1>5, <1>6 DEF DisputeMove

(* What one escrow counts for is what its move adds to the counters.       *)
LEMMA CountedMove ==
    ASSUME TypeOK, TypeOK', CountsInv, NEW id \in Ids, CountStep(id),
           \A other \in Ids \ {id} : Same(other)
    PROVE  CountsInv'
<1> DEFINE In(s) == {i \in Ids : escrow[i].state = s}
           InNow(s) == {i \in Ids : escrow'[i].state = s}
           open == EverDisputed
           openNow == {i \in Ids : dispute'[i].status # "Absent"}
           c == counters
           k == counters'
<1>1. \A i \in Ids : SoundCase(escrow'[i], dispute'[i])
  BY DEF CountsInv, CountStep, Tally, Same
<1>2. ASSUME NEW s
      PROVE  /\ In(s) \in SUBSET Ids /\ InNow(s) \in SUBSET Ids
             /\ \A other \in Ids \ {id} : other \in In(s) <=> other \in InNow(s)
             /\ id \in In(s) <=> escrow[id].state = s
             /\ id \in InNow(s) <=> escrow'[id].state = s
  BY DEF Same
<1>3. /\ open \in SUBSET Ids /\ openNow \in SUBSET Ids
      /\ \A other \in Ids \ {id} : other \in open <=> other \in openNow
      /\ id \in open <=> dispute[id].status # "Absent"
      /\ id \in openNow <=> dispute'[id].status # "Absent"
  BY DEF Same, EverDisputed
<1>4. /\ c.created = MaxEscrows - Cardinality(In("Absent"))
      /\ c.completed = Cardinality(In("Completed"))
      /\ c.refunded = Cardinality(In("Refunded"))
      /\ c.disputed = Cardinality(open)
      /\ c.arbitration_fees = FeeTotal(dispute)
  BY Zenon DEF CountsInv, CountersMatchEscrows, FeeTotal, EverDisputed
<1> HIDE DEF In, InNow, open, openNow
<1>5. ASSUME NEW s
      PROVE  /\ Cardinality(In(s)) \in Int /\ Cardinality(InNow(s)) \in Int
             /\ (escrow[id].state = s <=> escrow'[id].state = s) =>
                   InNow(s) = In(s)
             /\ escrow[id].state # s /\ escrow'[id].state = s =>
                   Cardinality(InNow(s)) = Cardinality(In(s)) + 1
             /\ escrow[id].state = s /\ escrow'[id].state # s =>
                   Cardinality(InNow(s)) = Cardinality(In(s)) - 1
  BY <1>2, OneApart
<1>6. /\ Cardinality(open) \in Int /\ Cardinality(openNow) \in Int
      /\ (dispute[id].status # "Absent" <=> dispute'[id].status # "Absent") =>
            openNow = open
      /\ dispute[id].status = "Absent" /\ dispute'[id].status # "Absent" =>
            Cardinality(openNow) = Cardinality(open) + 1
  BY <1>3, OneApart
<1>7. /\ Gained(escrow[id].state # "Absent", escrow'[id].state # "Absent",
                c.created, k.created)
      /\ Gained(escrow[id].state = "Completed", escrow'[id].state = "Completed",
                c.completed, k.completed)
      /\ Gained(escrow[id].state = "Refunded", escrow'[id].state = "Refunded",
                c.refunded, k.refunded)
      /\ Gained(dispute[id].status # "Absent", dispute'[id].status # "Absent",
                c.disputed, k.disputed)
      /\ k.arbitration_fees = c.arbitration_fees
            + (dispute'[id].arbitration_fee - dispute[id].arbitration_fee)
  BY DEF CountStep, Tally
<1>8. k.completed = Cardinality(InNow("Completed"))
  BY <1>4, <1>5, <1>7 DEF Gained
<1>9. k.refunded = Cardinality(InNow("Refunded"))
  BY <1>4, <1>5, <1>7 DEF Gained
<1>10. k.disputed = Cardinality(openNow)
  BY <1>4, <1>6, <1>7 DEF Gained
<1>11. k.created = MaxEscrows - Cardinality(InNow("Absent"))
  <2>1. Cardinality(In("Absent")) \in Int /\ MaxEscrows \in Int
    BY <1>5, BoundsAssumption
  <2>2. \A m, n \in Int : m - n + 1 = m - (n - 1)
    BY SMT
  <2>3. CASE escrow[id].state = "Absent" <=> escrow'[id].state = "Absent"
    BY <1>4, <1>5, <1>7, <2>3 DEF Gained
  <2>4. CASE escrow[id].state = "Absent" /\ escrow'[id].state # "Absent"
    BY <1>4, <1>5, <1>7, <2>1, <2>2, <2>4 DEF Gained
  <2> QED
    BY <1>7, <2>3, <2>4 DEF Gained
<1>12. k.arbitration_fees = FeeTotal(dispute')
  <2>1. /\ \A n \in Ids : dispute[n].arbitration_fee \in Int
        /\ dispute'[id].arbitration_fee \in Int
    BY DEF TypeOK, DisputeRecord
  <2>2. \A n \in Ids \ {id} : dispute'[n].arbitration_fee = dispute[n].arbitration_fee
    BY DEF Same
  <2>3. FeeTotal(dispute') = FeeTotal(dispute)
           + (dispute'[id].arbitration_fee - dispute[id].arbitration_fee)
    BY <2>1, <2>2, FeeTotalMoves
  <2> QED
    BY <1>4, <1>7, <2>3, Zenon
<1>13. CountersMatchEscrows'
  BY <1>8, <1>9, <1>10, <1>11, <1>12, Zenon
     DEF CountersMatchEscrows, FeeTotal, InNow, openNow
<1> QED
  BY <1>1, <1>13 DEF CountsInv

LEMMA CountsStep ==
    ASSUME TypeOK, TypeOK', BooksInv, CountsInv, [Next]_vars
    PROVE  CountsInv'
<1>1. ASSUME NEW id \in Ids, TradeMove(id) \/ DisputeMove(id)
      PROVE  CountsInv'
  <2>1. SoundCase(escrow[id], dispute[id])
    BY DEF CountsInv
  <2>2. CountStep(id)
    BY <1>1, <2>1, TradeCounts, DisputeCounts
  <2> QED
    BY <1>1, <2>2, MoveFrame, CountedMove
<1>2. ASSUME NoMove PROVE CountsInv'
  BY <1>2, Zenon DEF NoMove, CountsInv, CountersMatchEscrows
<1> QED
  BY <1>1, <1>2, EveryMove

THEOREM CountsHold == Spec => []CountsInv
<1>1. Init => CountsInv
  <2>1. SUFFICES ASSUME Init PROVE CountsInv
    OBVIOUS
  <2>2. /\ \A id \in Ids : escrow[id].state = "Absent"
        /\ \A id \in Ids :
              dispute[id].status = "Absent" /\ dispute[id].arbitration_fee = 0
    BY <2>1 DEF Init, NoEscrow, NoDispute
  <2>3. \A id \in Ids : SoundCase(escrow[id], dispute[id])
    BY <2>2 DEF SoundCase, DisputedStates
  <2>4. /\ {id \in Ids : escrow[id].state = "Absent"} = Ids
        /\ {id \in Ids : escrow[id].state = "Completed"} = {}
        /\ {id \in Ids : escrow[id].state = "Refunded"} = {}
        /\ EverDisputed = {}
    BY <2>2 DEF EverDisputed
  <2>5. Cardinality({}) = 0 /\ Cardinality(Ids) = MaxEscrows
    BY FS_EmptySet, FS_Interval, BoundsAssumption, SMT DEF Ids
  <2>6. FeeTotal(dispute) = 0
    <3>1. PICK f \in [0..MaxEscrows -> Int] :
             /\ FeeTotal(dispute) = f[MaxEscrows]
             /\ \A n \in 0..MaxEscrows :
                   f[n] = IF n = 0 THEN 0 ELSE f[n - 1] + dispute[n].arbitration_fee
      BY <2>2, FeeSums
    <3> DEFINE S == {k \in Nat : k <= MaxEscrows => f[k] = 0}
    <3>2. 0 \in S
      <4>1. 0 \in 0..MaxEscrows
        BY BoundsAssumption
      <4>2. f[0] = 0
        BY <3>1, <4>1, Zenon
      <4> QED
        BY <4>2
    <3>3. ASSUME NEW k \in Nat, k \in S PROVE k + 1 \in S
      <4>1. SUFFICES ASSUME k + 1 <= MaxEscrows PROVE f[k + 1] = 0
        OBVIOUS
      <4>2. k + 1 \in 0..MaxEscrows /\ k + 1 \in Ids /\ k <= MaxEscrows
            /\ (k + 1) - 1 = k /\ k + 1 # 0
        BY <4>1, BoundsAssumption, SMT DEF Ids
      <4>3. f[k] = 0 /\ dispute[k + 1].arbitration_fee = 0
        BY <2>2, <3>3, <4>2
      <4>4. f[k + 1] = f[k] + dispute[k + 1].arbitration_fee
        BY <3>1, <4>2, Zenon
      <4> QED
        BY <4>3, <4>4, SMT
    <3> HIDE DEF S
    <3>4. MaxEscrows \in S
      BY <3>2, <3>3, NatSetInduction, BoundsAssumption
    <3> QED
      BY <3>1, <3>4, BoundsAssumption, SMT DEF S
  <2>7. /\ counters.created = 0 /\ counters.completed = 0 /\ counters.disputed = 0
        /\ counters.refunded = 0 /\ counters.arbitration_fees = 0
    BY <2>1 DEF Init
  <2>8. MaxEscrows - MaxEscrows = 0
    BY BoundsAssumption
  <2>9. CountersMatchEscrows
    BY <2>4, <2>5, <2>6, <2>7, <2>8, Zenon
       DEF CountersMatchEscrows, FeeTotal, EverDisputed
  <2> QED
    BY <2>3, <2>9 DEF CountsInv
<1> QED
  BY <1>1, CountsStep, TypeCorrect, BooksHold, PTL DEF Spec

(* CountersMatchEscrows: the lifecycle counters and TotalArbitrationFees   *)
(* are what a scan of all escrows and disputes would find, whichever entry *)
(* point created, disputed, completed or refunded them.                    *)
THEOREM CountersCount == Spec => []CountersMatchEscrows
<1>1. CountsInv => CountersMatchEscrows
  BY DEF CountsInv
<1> QED
  BY <1>1, CountsHold, PTL
=============================================================================
