---------------------------- MODULE EscrowProofs ----------------------------
(***************************************************************************)
(* Types and money of the escrow contract, for every value of the          *)
(* constants: every reachable state is well typed, the books of every      *)
(* escrow balance on every path (CustodyConservation), the fees of a       *)
(* dispute are charged once (FeesChargedOnce) and a settlement pays one    *)
(* side (OneSideIsPaid).                                                   *)
(*                                                                         *)
(* None of the three is inductive.  That a settlement empties an escrow    *)
(* needs the payees' shares to add up and the fees not to exceed the       *)
(* amount; that needs the rates stored in the escrow to be within their    *)
(* limits and, for a decided dispute, what its decision charged to be a    *)
(* small part of the principal.  SoundBooks is the strengthening.          *)
(***************************************************************************)
EXTENDS EscrowContract, EscrowFeesProofs, SequenceTheorems, FiniteSetTheorems

-----------------------------------------------------------------------------
(* The writes that many entry points share.                                *)

(* Saving a typed record keeps the table of escrows typed.                 *)
LEMMA SaveEscrowType ==
    ASSUME TypeOK, NEW id \in Ids, NEW e \in EscrowRecord, save_escrow(id, e)
    PROVE  escrow' \in [Ids -> EscrowRecord]
BY DEF TypeOK, save_escrow

(* Moving an escrow to another state keeps the table of escrows typed.     *)
LEMMA MoveToType ==
    ASSUME TypeOK, NEW id \in Ids, NEW state \in EscrowStates, move_to(id, state)
    PROVE  escrow' \in [Ids -> EscrowRecord]
<1>1. escrow[id] \in EscrowRecord
  BY DEF TypeOK
<1>2. [escrow[id] EXCEPT !.state = state] \in EscrowRecord
  BY <1>1 DEF EscrowRecord
<1> QED
  BY <1>2, SaveEscrowType DEF move_to

(* So does saving a typed entry in the other tables.                       *)
LEMMA TableTypes ==
    ASSUME TypeOK, NEW id \in Ids
    PROVE  /\ clear_delivery_proposal(id) => proposal' \in [Ids -> OptionTime]
           /\ clear_pending_expiry(id) => pending_expiry' \in [Ids -> OptionTime]
           /\ \A l \in Ledger : book(id, l) => ledger' \in [Ids -> Ledger]
           /\ \A d \in DisputeRecord : save_dispute(id, d)
                                    => dispute' \in [Ids -> DisputeRecord]
           /\ \A v \in Seq(Vote) : save_resolver_votes(id, v)
                                    => votes' \in [Ids -> Seq(Vote)]
BY DEF TypeOK, OptionTime, clear_delivery_proposal, clear_pending_expiry,
       save_dispute, save_resolver_votes, book

(* The lifecycle counters only count up.                                   *)
LEMMA CounterTypes ==
    ASSUME TypeOK
    PROVE  /\ record_escrow_created => counters' \in Counters
           /\ record_escrow_completed => counters' \in Counters
           /\ record_escrow_disputed => counters' \in Counters
           /\ record_escrow_refunded => counters' \in Counters
<1>1. counters \in Counters
  BY DEF TypeOK
<1>2. /\ counters.created + 1 \in Nat /\ counters.completed + 1 \in Nat
      /\ counters.disputed + 1 \in Nat /\ counters.refunded + 1 \in Nat
  BY <1>1 DEF Counters
<1>3. ASSUME NEW n \in Nat
      PROVE  /\ [counters EXCEPT !.created = n] \in Counters
             /\ [counters EXCEPT !.completed = n] \in Counters
             /\ [counters EXCEPT !.disputed = n] \in Counters
             /\ [counters EXCEPT !.refunded = n] \in Counters
  BY <1>1 DEF Counters
<1> QED
  BY <1>2, <1>3 DEF record_escrow_created, record_escrow_completed,
                    record_escrow_disputed, record_escrow_refunded

(* payout moves an integer.                                                *)
LEMMA PayoutIsInt ==
    ASSUME NEW amount \in Int
    PROVE  payout(amount) \in Int
BY DEF payout

(* A stored list of payees is one the arithmetic of EscrowFees is about.   *)
LEMMA StoredPayees ==
    ASSUME NEW payees \in Seq(Payee)
    PROVE  IsPayeeList(payees)
<1>1. Len(payees) \in Nat
  BY LenProperties
<1>2. ASSUME NEW i \in 1..Len(payees) PROVE payees[i].bps \in 0..BASIS_POINTS
  <2>1. payees[i] \in Payee
    BY ElementOfSeq
  <2> QED
    BY <2>1 DEF Payee
<1>3. \A bps \in 0..BASIS_POINTS : bps \in Nat
  BY DEF BASIS_POINTS
<1> QED
  BY <1>1, <1>2, <1>3 DEF IsPayeeList

(* The parts of a stored escrow the money arithmetic reads.                *)
LEMMA EscrowParts ==
    ASSUME TypeOK, NEW id \in Ids
    PROVE  /\ escrow[id] \in EscrowRecord
           /\ escrow[id].amount \in Int
           /\ escrow[id].basket \in Nat
           /\ escrow[id].fee_bps \in Nat
           /\ escrow[id].resolver_fee_bps \in Nat
           /\ IsPayeeList(escrow[id].payees)
<1>1. escrow[id] \in EscrowRecord
  BY DEF TypeOK
<1>2. /\ escrow[id].amount \in Int /\ escrow[id].basket \in Nat
      /\ escrow[id].fee_bps \in 0..BASIS_POINTS
      /\ escrow[id].resolver_fee_bps \in 0..BASIS_POINTS
      /\ escrow[id].payees \in Seq(Payee)
  BY <1>1 DEF EscrowRecord
<1>3. \A bps \in 0..BASIS_POINTS : bps \in Nat
  BY DEF BASIS_POINTS
<1> QED
  BY <1>1, <1>2, <1>3, StoredPayees

(* A refund books integers.                                                *)
LEMMA PayBuyerType ==
    ASSUME TypeOK, NEW id \in Ids, pay_buyer_in_full(id)
    PROVE  ledger' \in [Ids -> Ledger]
<1> DEFINE l == ledger[id]
<1>1. l \in Ledger
  BY DEF TypeOK
<1>2. payout(escrow[id].amount) \in Int /\ escrow[id].basket \in Nat
  BY EscrowParts, PayoutIsInt
<1>3. /\ l.to_buyer + payout(escrow[id].amount) \in Int
      /\ l.basket_to_buyer + escrow[id].basket \in Nat
  BY <1>1, <1>2 DEF Ledger
<1>4. ASSUME NEW a \in Int, NEW b \in Nat
      PROVE  [l EXCEPT !.to_buyer = a, !.basket_to_buyer = b] \in Ledger
  BY <1>1 DEF Ledger
<1> QED
  BY <1>3, <1>4, TableTypes DEF pay_buyer_in_full

(* What a settlement moves are integers, whatever rate it is settled at.   *)
LEMMA SettlementParts ==
    ASSUME TypeOK, NEW id \in Ids, NEW fee_bps \in Nat
    PROVE  LET e == escrow[id]
               fee == calculate_fee(e.amount, fee_bps)
           IN  /\ fee \in Int /\ payout(fee) \in Int
               /\ payout(e.amount - fee) \in Int
               /\ distribute_to_payees(e.amount - fee, e.payees) \in Int
<1> DEFINE e == escrow[id]
           fee == calculate_fee(e.amount, fee_bps)
<1>1. e.amount \in Int /\ IsPayeeList(e.payees)
  BY EscrowParts
<1>2. fee \in Int
  BY <1>1, FeeIsInt
<1> HIDE DEF fee
<1>3. e.amount - fee \in Int
  BY <1>1, <1>2
<1>4. payout(fee) \in Int /\ payout(e.amount - fee) \in Int
  BY <1>2, <1>3, PayoutIsInt
<1>5. distribute_to_payees(e.amount - fee, e.payees) \in Int
  BY <1>1, <1>3, DistributedIsInt
<1> QED
  BY <1>2, <1>4, <1>5 DEF fee

(* A release books integers.                                               *)
LEMMA ReleaseType ==
    ASSUME TypeOK, NEW id \in Ids, NEW fee \in Int, NEW paid \in Int,
           book(id, [ledger[id] EXCEPT
              !.to_collector = @ + fee,
              !.to_payees = @ + paid,
              !.basket_to_seller = @ + escrow[id].basket])
    PROVE  ledger' \in [Ids -> Ledger]
<1> DEFINE l == ledger[id]
<1>1. l \in Ledger
  BY DEF TypeOK
<1>2. /\ l.to_collector + fee \in Int /\ l.to_payees + paid \in Int
      /\ l.basket_to_seller + escrow[id].basket \in Nat
  BY <1>1, EscrowParts DEF Ledger
<1>3. ASSUME NEW a \in Int, NEW b \in Int, NEW c \in Nat
      PROVE  [l EXCEPT !.to_collector = a, !.to_payees = b,
                       !.basket_to_seller = c] \in Ledger
  BY <1>1 DEF Ledger
<1> QED
  BY <1>2, <1>3, TableTypes

(* settle_escrow_to_payees leaves every table it writes typed.             *)
LEMMA SettleType ==
    ASSUME TypeOK, NEW id \in Ids, NEW fee_bps \in Nat,
           settle_escrow_to_payees(id, fee_bps)
    PROVE  /\ escrow' \in [Ids -> EscrowRecord]
           /\ counters' \in Counters
           /\ proposal' \in [Ids -> OptionTime]
           /\ ledger' \in [Ids -> Ledger]
<1> DEFINE e == escrow[id]
           fee == calculate_fee(e.amount, fee_bps)
<1>1. "Completed" \in EscrowStates
  BY DEF EscrowStates
<1>2. /\ payout(fee) \in Int
      /\ distribute_to_payees(e.amount - fee, e.payees) \in Int
  BY SettlementParts
<1>3. /\ move_to(id, "Completed")
      /\ record_escrow_completed
      /\ clear_delivery_proposal(id)
      /\ book(id, [ledger[id] EXCEPT
            !.to_collector = @ + payout(fee),
            !.to_payees = @ + distribute_to_payees(e.amount - fee, e.payees),
            !.basket_to_seller = @ + e.basket])
  BY DEF settle_escrow_to_payees
<1>4. escrow' \in [Ids -> EscrowRecord]
  BY <1>1, <1>3, MoveToType
<1>5. counters' \in Counters /\ proposal' \in [Ids -> OptionTime]
  BY <1>3, CounterTypes, TableTypes
<1>6. ledger' \in [Ids -> Ledger]
  BY <1>2, <1>3, ReleaseType
<1> QED
  BY <1>4, <1>5, <1>6
-----------------------------------------------------------------------------
(* The creators.                                                           *)

(* The fields of the argument records the creators accept.                 *)
LEMMA TermsTypes ==
    ASSUME NEW t \in Terms
    PROVE  /\ t.payees \in Seq(Payee) /\ t.buyer \in OptionAddress
           /\ t.resolvers \in ResolverSet
           /\ t.amount \in Nat /\ t.basket \in Seq(Nat)
           /\ t.fee_bps \in Nat /\ t.resolver_fee_bps \in Nat
           /\ t.shipping_window \in Time /\ t.expires_at \in OptionTime
           /\ t.grace_period \in Time
<1>1. t \in EscrowTerms
  BY TermsAssumption
<1> QED
  BY <1>1 DEF EscrowTerms

(* The secondary tokens of a basket add up to a natural number.            *)
LEMMA BasketValueIsNat ==
    ASSUME NEW amounts \in Seq(Nat)
    PROVE  basket_value(amounts) \in Nat
<1> DEFINE N == Len(amounts)
           f == CHOOSE total : total = [n \in 0..N |->
                    IF n = 0 THEN 0 ELSE total[n - 1] + amounts[n]]
<1>1. N \in Nat /\ 0 \in Nat /\ amounts \in [1..N -> Int]
  BY SMT
<1>2. \A n \in 1..N : amounts[n] \in Nat
  BY SMT
<1>3. PICK g \in [0..N -> Int] :
         g = [n \in 0..N |-> IF n <= 0 THEN 0 ELSE g[n - 1] + amounts[n]]
  <2> HIDE DEF N
  <2> QED
    BY <1>1, PartialSumsExist
<1>4. \A n \in 0..N : n <= 0 <=> n = 0
  BY <1>1, SMT
<1>5. g = [n \in 0..N |-> IF n = 0 THEN 0 ELSE g[n - 1] + amounts[n]]
  BY <1>3, <1>4, Zenon
<1>6. f = [n \in 0..N |-> IF n = 0 THEN 0 ELSE f[n - 1] + amounts[n]]
  BY <1>5, Zenon
<1>7. basket_value(amounts) = f[N]
  BY Zenon DEF basket_value
<1> HIDE DEF f, N
<1> DEFINE S == {k \in Nat : k <= N => f[k] \in Nat}
<1>8. 0 \in S
  BY <1>1, <1>6, SMT
<1>9. ASSUME NEW k \in Nat, k \in S PROVE k + 1 \in S
  <2>1. SUFFICES ASSUME k + 1 <= N PROVE f[k + 1] \in Nat
    OBVIOUS
  <2>2. k + 1 \in 0..N /\ k + 1 \in 1..N /\ k <= N /\ (k + 1) - 1 = k
    BY <2>1, <1>1, SMT
  <2>3. f[k] \in Nat /\ amounts[k + 1] \in Nat
    BY <1>9, <2>2, <1>2
  <2>4. f[k + 1] = IF k + 1 = 0 THEN 0 ELSE f[k] + amounts[k + 1]
    BY <1>6, <2>2, Zenon
  <2> QED
    BY <2>3, <2>4, SMT
<1> HIDE DEF S
<1>10. N \in S
  BY <1>1, <1>8, <1>9, NatSetInduction
<1> QED
  BY <1>1, <1>7, <1>10 DEF S

LEMMA BasketSizeIsNat ==
    ASSUME NEW t \in Terms
    PROVE  basket_size(t) \in Nat
<1>1. Len(t.basket) \in Nat
  BY TermsTypes
<1> QED
  BY <1>1, SMT DEF basket_size

(* The next id is a free one, and the new record is typed if its rates are *)
(* within the limit every creator checks.                                  *)
LEMMA NewEscrowType ==
    ASSUME TypeOK, NEW t \in Terms, NewEscrow(t),
           t.fee_bps <= MAX_ESCROW_FEE_BPS,
           t.resolver_fee_bps <= MAX_ESCROW_FEE_BPS,
           \/ UNCHANGED pending_expiry
           \/ save_pending_expiry(next_id, t.expires_at)
    PROVE  TypeOK'
<1> DEFINE e == [state |-> "Pending", payees |-> t.payees, buyer |-> t.buyer,
             resolvers |-> t.resolvers, amount |-> t.amount,
             basket |-> basket_value(t.basket), basket_tokens |-> basket_size(t),
             fee_bps |-> t.fee_bps, resolver_fee_bps |-> t.resolver_fee_bps,
             shipping_window |-> t.shipping_window, funded_at |-> 0,
             dispute_deadline |-> 0, shipped_at |-> 0, delivered_at |-> None,
             expires_at |-> t.expires_at, grace_period |-> t.grace_period]
<1>1. t.fee_bps \in 0..BASIS_POINTS /\ t.resolver_fee_bps \in 0..BASIS_POINTS
  <2>1. \A bps \in Nat : bps <= MAX_ESCROW_FEE_BPS => bps \in 0..BASIS_POINTS
    BY DEF MAX_ESCROW_FEE_BPS, BASIS_POINTS
  <2>2. t.fee_bps \in Nat /\ t.resolver_fee_bps \in Nat
    BY TermsTypes
  <2> QED
    BY <2>1, <2>2
<1>2. "Pending" \in EscrowStates /\ 0 \in Time /\ None \in OptionTime
  BY DEF EscrowStates, Time, OptionTime
<1>3. t.amount \in Int /\ basket_value(t.basket) \in Nat /\ basket_size(t) \in Nat
  BY TermsTypes, BasketValueIsNat, BasketSizeIsNat
<1>4. e \in EscrowRecord
  BY <1>1, <1>2, <1>3, TermsTypes DEF EscrowRecord
<1>5. next_id \in Ids /\ save_escrow(next_id, e)
  BY DEF NewEscrow
<1> HIDE DEF e
<1>6. escrow' \in [Ids -> EscrowRecord]
  BY <1>4, <1>5, SaveEscrowType
<1>7. next_id' \in 1..(MaxEscrows + 1)
  BY <1>5, BoundsAssumption DEF NewEscrow, Ids
<1>8. created_at' \in [Ids -> Time]
  BY DEF TypeOK, NewEscrow
<1>9. counters' \in Counters
  BY CounterTypes DEF NewEscrow
<1>10. pending_expiry' \in [Ids -> OptionTime]
  BY <1>5, TermsTypes DEF TypeOK, save_pending_expiry
<1>11. UNCHANGED <<now, config, dispute, votes, proposal, ledger>>
  BY DEF NewEscrow
<1> QED
  BY <1>6, <1>7, <1>8, <1>9, <1>10, <1>11 DEF TypeOK

(* Each of the five creators saves a typed escrow under a fresh id.        *)
LEMMA CreationTypes ==
    ASSUME TypeOK, NEW t \in Terms,
           \/ create_escrow(t)
           \/ create_escrow_with_expiration(t)
           \/ create_escrow_multi(t)
           \/ create_escrow_with_fallback(t)
           \/ create_basket_escrow(t)
    PROVE  TypeOK'
<1>1. 0 <= MAX_ESCROW_FEE_BPS
  BY DEF MAX_ESCROW_FEE_BPS
<1>2. CASE create_escrow(t)
  BY <1>2, NewEscrowType DEF create_escrow, create_escrow_internal, validate_price
<1>3. CASE create_escrow_with_expiration(t)
  BY <1>3, NewEscrowType
     DEF create_escrow_with_expiration, create_escrow_internal, validate_price
<1>4. CASE create_escrow_multi(t)
  BY <1>1, <1>4, NewEscrowType
     DEF create_escrow_multi, create_with_resolver_set, validate_price
<1>5. CASE create_escrow_with_fallback(t)
  BY <1>1, <1>5, NewEscrowType
     DEF create_escrow_with_fallback, create_with_resolver_set, validate_price
<1>6. CASE create_basket_escrow(t)
  BY <1>1, <1>6, NewEscrowType DEF create_basket_escrow, validate_price
<1> QED
  BY <1>2, <1>3, <1>4, <1>5, <1>6
-----------------------------------------------------------------------------
(* The trade.                                                              *)

(* The timestamps fund stores stay natural numbers when they are packed.   *)
LEMMA PackedIsTime ==
    ASSUME NEW t \in Time
    PROVE  pack_timestamp(t) \in Time
BY WindowsAssumption DEF pack_timestamp, Time

(* Funding writes a buyer and two packed timestamps.                       *)
LEMMA FundType ==
    ASSUME TypeOK, NEW id \in Ids, NEW caller \in Address, fund(caller, id)
    PROVE  TypeOK'
<1> DEFINE e == escrow[id]
           l == ledger[id]
           funded_at == pack_timestamp(now)
           deadline == pack_timestamp(now + DISPUTE_WINDOW)
           funded == [e EXCEPT !.state = "Funded", !.buyer = caller,
                         !.funded_at = funded_at, !.dispute_deadline = deadline]
<1>1. funded_at \in Time /\ deadline \in Time
  <2>1. now \in Time /\ now + DISPUTE_WINDOW \in Time
    BY WindowsAssumption DEF TypeOK, Time
  <2> QED
    BY <2>1, PackedIsTime
<1>2. /\ save_escrow(id, funded)
      /\ book(id, [l EXCEPT !.deposited = @ + e.amount,
                            !.basket_deposited = @ + e.basket])
      /\ clear_pending_expiry(id)
      /\ UNCHANGED <<creation_vars, dispute_vars, proposal, counters>>
  BY DEF fund
<1> HIDE DEF funded_at, deadline
<1>3. funded \in EscrowRecord
  <2>1. e \in EscrowRecord /\ "Funded" \in EscrowStates
    BY EscrowParts DEF EscrowStates
  <2>2. caller \in OptionAddress
    BY DEF OptionAddress
  <2> QED
    BY <1>1, <2>1, <2>2 DEF EscrowRecord
<1>4. escrow' \in [Ids -> EscrowRecord]
  BY <1>2, <1>3, SaveEscrowType
<1>5. ledger' \in [Ids -> Ledger]
  <2>1. l \in Ledger
    BY DEF TypeOK
  <2>2. l.deposited + e.amount \in Int /\ l.basket_deposited + e.basket \in Nat
    BY <2>1, EscrowParts DEF Ledger
  <2>3. ASSUME NEW a \in Int, NEW b \in Nat
        PROVE  [l EXCEPT !.deposited = a, !.basket_deposited = b] \in Ledger
    BY <2>1 DEF Ledger
  <2> QED
    BY <1>2, <2>2, <2>3, TableTypes
<1>6. pending_expiry' \in [Ids -> OptionTime]
  BY <1>2, TableTypes
<1> QED
  BY <1>2, <1>4, <1>5, <1>6 DEF TypeOK, creation_vars, dispute_vars

(* The three ways to cancel an escrow.                                     *)
LEMMA CancelTypes ==
    ASSUME TypeOK, NEW id \in Ids,
           \/ auto_cancel_pending(id)
           \/ mutual_cancel(id)
           \/ \E caller \in Address : cancel_escrow(caller, id)
    PROVE  TypeOK'
<1>1. {"Canceled", "Refunded"} \subseteq EscrowStates
  BY DEF EscrowStates
<1>2. CASE auto_cancel_pending(id)
  <2>1. /\ escrow' \in [Ids -> EscrowRecord]
        /\ pending_expiry' \in [Ids -> OptionTime]
    BY <1>1, <1>2, MoveToType, TableTypes DEF auto_cancel_pending
  <2> QED
    BY <1>2, <2>1 DEF auto_cancel_pending, TypeOK, creation_vars, dispute_vars
<1>3. CASE mutual_cancel(id)
  <2>1. /\ escrow' \in [Ids -> EscrowRecord]
        /\ proposal' \in [Ids -> OptionTime]
        /\ ledger' \in [Ids -> Ledger]
    BY <1>1, <1>3, MoveToType, TableTypes, PayBuyerType DEF mutual_cancel
  <2> QED
    BY <1>3, <2>1 DEF mutual_cancel, TypeOK, creation_vars, dispute_vars
<1>4. ASSUME NEW caller \in Address, cancel_escrow(caller, id)
      PROVE  TypeOK'
  <2>1. /\ escrow' \in [Ids -> EscrowRecord]
        /\ pending_expiry' \in [Ids -> OptionTime]
        /\ ledger' \in [Ids -> Ledger]
        /\ counters' \in Counters
    <3>1. CASE move_to(id, "Canceled") /\ UNCHANGED <<counters, ledger>>
      BY <1>1, <1>4, <3>1, MoveToType, TableTypes DEF cancel_escrow, TypeOK
    <3>2. CASE /\ move_to(id, "Refunded")
               /\ record_escrow_refunded
               /\ pay_buyer_in_full(id)
      BY <1>1, <1>4, <3>2, MoveToType, TableTypes, PayBuyerType, CounterTypes
         DEF cancel_escrow
    <3> QED
      BY <1>4, <3>1, <3>2 DEF cancel_escrow
  <2> QED
    BY <1>4, <2>1 DEF cancel_escrow, TypeOK, creation_vars, dispute_vars
<1> QED
  BY <1>2, <1>3, <1>4

(* Shipping, and the proposal and recording of a delivery.                 *)
LEMMA DeliveryTypes ==
    ASSUME TypeOK, NEW id \in Ids, NEW caller \in Address,
           \/ mark_shipped(caller, id)
           \/ propose_record_delivery(caller, id)
           \/ cancel_delivery_proposal(caller, id)
           \/ reject_delivery_proposal(caller, id)
           \/ record_delivery(caller, id)
    PROVE  TypeOK'
<1> DEFINE e == escrow[id]
<1>1. e \in EscrowRecord /\ now \in Time /\ now \in OptionTime
  BY EscrowParts DEF TypeOK, OptionTime
<1>2. CASE mark_shipped(caller, id)
  <2>1. [e EXCEPT !.state = "Shipped", !.shipped_at = now] \in EscrowRecord
    <3>1. "Shipped" \in EscrowStates
      BY DEF EscrowStates
    <3> QED
      BY <1>1, <3>1 DEF EscrowRecord
  <2>2. escrow' \in [Ids -> EscrowRecord]
    BY <1>2, <2>1, SaveEscrowType DEF mark_shipped
  <2> QED
    BY <1>2, <2>2 DEF mark_shipped, TypeOK, creation_vars, dispute_vars
<1>3. CASE propose_record_delivery(caller, id)
  <2>1. now + DELIVERY_TIMELOCK \in OptionTime
    BY <1>1, WindowsAssumption DEF Time, OptionTime
  <2>2. proposal' \in [Ids -> OptionTime]
    BY <1>3, <2>1 DEF propose_record_delivery, TypeOK
  <2> QED
    BY <1>3, <2>2 DEF propose_record_delivery, TypeOK, creation_vars, dispute_vars
<1>4. CASE cancel_delivery_proposal(caller, id) \/ reject_delivery_proposal(caller, id)
  <2>1. /\ clear_delivery_proposal(id)
        /\ UNCHANGED <<creation_vars, escrow, dispute_vars, pending_expiry,
                       counters, ledger>>
    BY <1>4 DEF cancel_delivery_proposal, reject_delivery_proposal,
                drop_delivery_proposal
  <2>2. proposal' \in [Ids -> OptionTime]
    BY <2>1, TableTypes
  <2> QED
    BY <2>1, <2>2 DEF TypeOK, creation_vars, dispute_vars
<1>5. CASE record_delivery(caller, id)
  <2>1. [e EXCEPT !.delivered_at = now] \in EscrowRecord
    BY <1>1 DEF EscrowRecord
  <2>2. escrow' \in [Ids -> EscrowRecord]
    BY <1>5, <2>1, SaveEscrowType DEF record_delivery
  <2>3. proposal' \in [Ids -> OptionTime]
    BY <1>5, TableTypes DEF record_delivery
  <2> QED
    BY <1>5, <2>2, <2>3 DEF record_delivery, TypeOK, creation_vars, dispute_vars
<1> QED
  BY <1>2, <1>3, <1>4, <1>5

(* The three ways to settle in favour of the payees.                       *)
LEMMA SettlementTypes ==
    ASSUME TypeOK, NEW id \in Ids,
           \/ co_signed_release(id)
           \/ auto_release(id)
           \/ \E caller \in Address, waive \in BOOLEAN :
                 confirm_delivery(caller, id, waive)
    PROVE  TypeOK'
<1> DEFINE e == escrow[id]
<1>1. ProtocolFeeBps \in Nat /\ e.fee_bps \in Nat
  BY ConfigAssumption, EscrowParts DEF MAX_PROTOCOL_FEE_BPS
<1>2. CASE co_signed_release(id)
  <2> DEFINE fee == calculate_fee(e.amount, ProtocolFeeBps)
  <2>1. payout(fee) \in Int /\ payout(e.amount - fee) \in Int
    BY <1>1, SettlementParts
  <2>2. /\ move_to(id, "Completed")
        /\ clear_delivery_proposal(id)
        /\ record_escrow_completed
        /\ book(id, [ledger[id] EXCEPT
              !.to_collector = @ + payout(fee),
              !.to_payees = @ + payout(e.amount - fee),
              !.basket_to_seller = @ + e.basket])
        /\ UNCHANGED <<creation_vars, dispute_vars, pending_expiry>>
    BY <1>2 DEF co_signed_release
  <2> HIDE DEF fee
  <2>3. ledger' \in [Ids -> Ledger]
    BY <2>1, <2>2, ReleaseType
  <2>4. "Completed" \in EscrowStates
    BY DEF EscrowStates
  <2>5. /\ escrow' \in [Ids -> EscrowRecord]
        /\ proposal' \in [Ids -> OptionTime]
        /\ counters' \in Counters
    BY <2>2, <2>4, MoveToType, TableTypes, CounterTypes
  <2> QED
    BY <2>2, <2>3, <2>5 DEF TypeOK, creation_vars, dispute_vars
<1>3. CASE auto_release(id)
  BY <1>1, <1>3, SettleType
     DEF auto_release, TypeOK, creation_vars, dispute_vars
<1>4. ASSUME NEW caller \in Address, NEW waive \in BOOLEAN,
             confirm_delivery(caller, id, waive)
      PROVE  TypeOK'
  BY <1>1, <1>4, SettleType
     DEF confirm_delivery, TypeOK, creation_vars, dispute_vars
<1> QED
  BY <1>2, <1>3, <1>4

(* A refund asked for, approved or reclaimed.                              *)
LEMMA RefundTypes ==
    ASSUME TypeOK, NEW id \in Ids, NEW caller \in Address,
           \/ request_refund(caller, id)
           \/ approve_refund(caller, id)
           \/ reclaim_expired(caller, id)
    PROVE  TypeOK'
<1>1. {"RefundRequested", "Refunded", "Expired"} \subseteq EscrowStates
  BY DEF EscrowStates
<1>2. CASE request_refund(caller, id)
  <2>1. escrow' \in [Ids -> EscrowRecord]
    BY <1>1, <1>2, MoveToType DEF request_refund
  <2> QED
    BY <1>2, <2>1 DEF request_refund, TypeOK, creation_vars, dispute_vars
<1>3. CASE approve_refund(caller, id)
  <2>1. /\ escrow' \in [Ids -> EscrowRecord]
        /\ counters' \in Counters
        /\ ledger' \in [Ids -> Ledger]
    BY <1>1, <1>3, MoveToType, CounterTypes, PayBuyerType DEF approve_refund
  <2> QED
    BY <1>3, <2>1 DEF approve_refund, TypeOK, creation_vars, dispute_vars
<1>4. CASE reclaim_expired(caller, id)
  <2>1. /\ escrow' \in [Ids -> EscrowRecord]
        /\ pending_expiry' \in [Ids -> OptionTime]
        /\ proposal' \in [Ids -> OptionTime]
        /\ ledger' \in [Ids -> Ledger]
    BY <1>1, <1>4, MoveToType, TableTypes, PayBuyerType DEF reclaim_expired
  <2> QED
    BY <1>4, <2>1 DEF reclaim_expired, TypeOK, creation_vars, dispute_vars
<1> QED
  BY <1>2, <1>3, <1>4

(* A new resolver is a resolver set of one.                                *)
LEMMA RotationType ==
    ASSUME TypeOK, NEW id \in Ids, NEW caller \in Address,
           NEW new_resolver \in Address, rotate_resolver(caller, id, new_resolver)
    PROVE  TypeOK'
<1> DEFINE e == escrow[id]
           rotated == [e.resolvers EXCEPT !.members = <<new_resolver>>]
<1>1. e \in EscrowRecord
  BY EscrowParts
<1>2. e.resolvers \in ResolverSet
  BY <1>1 DEF EscrowRecord
<1>3. <<new_resolver>> \in Seq(Address)
  OBVIOUS
<1>4. rotated \in ResolverSet
  BY <1>2, <1>3 DEF ResolverSet
<1>5. [e EXCEPT !.resolvers.members = <<new_resolver>>] = [e EXCEPT !.resolvers = rotated]
  BY <1>1 DEF EscrowRecord
<1> HIDE DEF rotated
<1>6. [e EXCEPT !.resolvers = rotated] \in EscrowRecord
  BY <1>1, <1>4 DEF EscrowRecord
<1>7. escrow' \in [Ids -> EscrowRecord]
  BY <1>5, <1>6, SaveEscrowType DEF rotate_resolver
<1> QED
  BY <1>7 DEF rotate_resolver, TypeOK, creation_vars, dispute_vars

(* Every operation of the trade keeps the types.                           *)
LEMMA TradeType ==
    ASSUME TypeOK, Trade
    PROVE  TypeOK'
<1>1. ASSUME NEW id \in Ids, NEW caller \in Address,
             fund_escrow(caller, id) \/ fund_basket_escrow(caller, id)
      PROVE  TypeOK'
  BY <1>1, FundType DEF fund_escrow, fund_basket_escrow
<1> QED
  BY <1>1, CreationTypes, CancelTypes, DeliveryTypes, SettlementTypes,
     RefundTypes, RotationType DEF Trade
-----------------------------------------------------------------------------
(* The votes.                                                              *)

(* Changing a vote in place or appending one gives a sequence of votes.    *)
LEMMA VoteUpdateType ==
    ASSUME NEW v \in Seq(Vote), NEW resolver \in Address, NEW r \in Resolution
    PROVE  add_or_update_vote(v, resolver, r) \in Seq(Vote)
<1> DEFINE n == Len(v)
           changed(i) == IF v[i].resolver = resolver
                         THEN [v[i] EXCEPT !.resolution = r] ELSE v[i]
           own == [resolver |-> resolver, resolution |-> r]
<1>1. n \in Nat /\ DOMAIN v = 1..n /\ \A i \in 1..n : v[i] \in Vote
  BY LenProperties, ElementOfSeq
<1>2. \A i \in 1..n : changed(i) \in Vote
  BY <1>1 DEF Vote
<1> HIDE DEF changed
<1>3. [i \in 1..n |-> changed(i)] \in Seq(Vote)
  BY <1>1, <1>2, SMT
<1>4. own \in Vote
  BY DEF Vote
<1> HIDE DEF own
<1>5. Append(v, own) \in Seq(Vote)
  BY <1>4, AppendProperties
<1>6. add_or_update_vote(v, resolver, r) \in
         {[i \in 1..n |-> changed(i)], Append(v, own)}
  BY <1>1, Zenon DEF add_or_update_vote, changed, own
<1> QED
  BY <1>3, <1>5, <1>6

(* A vote that has a voter has a majority with a voter: the one a deadlock *)
(* is credited to is an address, and one that voted for it.                *)
LEMMA MajorityHasVoter ==
    ASSUME NEW v \in Seq(Vote), v # <<>>
    PROVE  LET r == tally_votes_majority(v)
           IN  /\ r \in Resolution
               /\ voter_for(v, r) \in Address
               /\ \E i \in DOMAIN v :
                     v[i].resolver = voter_for(v, r) /\ v[i].resolution = r
<1> DEFINE indices(r) == {i \in DOMAIN v : v[i].resolution = r}
           r == tally_votes_majority(v)
<1>1. DOMAIN v = 1..Len(v) /\ Len(v) \in Nat /\ Len(v) > 0
  BY LenProperties, EmptySeq
<1>2. \A i \in DOMAIN v : v[i].resolver \in Address /\ v[i].resolution \in Resolution
  <2>1. \A i \in DOMAIN v : v[i] \in Vote
    BY <1>1, ElementOfSeq
  <2> QED
    BY <2>1 DEF Vote
<1>3. r \in Resolution
  BY DEF tally_votes_majority, Resolution
<1>4. ASSUME NEW s
      PROVE  /\ Cardinality(indices(s)) \in Nat
             /\ Cardinality(indices(s)) = 0 <=> indices(s) = {}
  <2>1. IsFiniteSet(DOMAIN v)
    BY <1>1, FS_Interval
  <2>2. indices(s) \in SUBSET DOMAIN v
    OBVIOUS
  <2>3. IsFiniteSet(indices(s))
    BY <2>1, <2>2, FS_Subset, Zenon
  <2> QED
    BY <2>3, FS_CardinalityType, FS_EmptySet, Zenon
<1>5. indices(r) # {}
  <2>1. SUFFICES ASSUME indices(r) = {} PROVE FALSE
    OBVIOUS
  <2>2. votes_for(v, "Release") = Cardinality(indices("Release"))
    BY DEF votes_for
  <2>3. votes_for(v, "Refund") = Cardinality(indices("Refund"))
    BY DEF votes_for
  <2> HIDE DEF indices
  <2>4. indices("Release") = {} /\ indices("Refund") = {}
    BY <1>4, <2>1, <2>2, <2>3, SMT DEF tally_votes_majority
  <2>5. 1 \in DOMAIN v
    BY <1>1
  <2> QED
    BY <1>2, <2>4, <2>5 DEF indices, Resolution
<1>6. \E i \in DOMAIN v : /\ v[i].resolution = r
                         /\ \A j \in DOMAIN v : v[j].resolution = r => i <= j
  <2>1. indices(r) \in SUBSET Nat
    BY <1>1
  <2>2. PICK i \in indices(r) : \A j \in indices(r) : i <= j
    BY <1>5, <2>1, NatSetHasLeast, Zenon
  <2> QED
    BY <2>2
<1> HIDE DEF r
<1>7. \E i \in DOMAIN v : v[i].resolver = voter_for(v, r) /\ v[i].resolution = r
  BY <1>6, Zenon DEF voter_for
<1>8. voter_for(v, r) \in Address
  BY <1>2, <1>7
<1> QED
  BY <1>3, <1>7, <1>8 DEF r
-----------------------------------------------------------------------------
(* The disputes.                                                           *)

(* The rates the admin may have set.                                       *)
LEMMA ConfigRates ==
    ASSUME TypeOK
    PROVE  /\ config.arbitration_fee_bps \in Nat
           /\ config.platform_fee_bps \in Nat
           /\ config.appeal_fee_bps \in Nat
<1>1. config \in Config
  BY DEF TypeOK
<1>2. /\ config.arbitration_fee_bps \in 0..MAX_ARBITRATION_FEE_BPS
      /\ config.platform_fee_bps \in 0..MAX_PLATFORM_FEE_BPS
      /\ config.appeal_fee_bps \in 0..MAX_APPEAL_FEE_BPS
  BY <1>1 DEF Config
<1>3. \A limit \in Nat : 0..limit \subseteq Nat
  OBVIOUS
<1>4. {MAX_ARBITRATION_FEE_BPS, MAX_PLATFORM_FEE_BPS, MAX_APPEAL_FEE_BPS} \subseteq Nat
  BY DEF MAX_ARBITRATION_FEE_BPS, MAX_PLATFORM_FEE_BPS, MAX_APPEAL_FEE_BPS
<1> QED
  BY <1>2, <1>3, <1>4

(* A decision is typed whatever it charges.                                *)
LEMMA TransitionType ==
    ASSUME TypeOK, NEW id \in Ids, NEW caller \in Address, NEW r \in Resolution,
           NEW v \in Seq(Vote), NEW charge_fees \in BOOLEAN,
           execute_resolution_transition(id, caller, r, v, charge_fees)
    PROVE  TypeOK'
<1> DEFINE e == escrow[id]
           d == dispute[id]
           l == ledger[id]
           arbitration_fee == calculate_fee(e.amount, config.arbitration_fee_bps)
           resolver_fee == calculate_fee(e.amount, e.resolver_fee_bps)
           decided == [d EXCEPT !.resolution = resolution_code(r),
                                !.resolved_by = caller, !.resolved_at = now,
                                !.fees_charged = TRUE]
           rest == e.amount - arbitration_fee - resolver_fee
<1>1. e \in EscrowRecord /\ e.amount \in Int /\ e.resolver_fee_bps \in Nat
  BY EscrowParts
<1>2. arbitration_fee \in Int /\ resolver_fee \in Int
  <2>1. config.arbitration_fee_bps \in Nat
    BY ConfigRates
  <2> QED
    BY <1>1, <2>1, FeeIsInt
<1>3. decided \in DisputeRecord
  <2>1. d \in DisputeRecord /\ now \in Time
    BY DEF TypeOK
  <2>2. resolution_code(r) \in 0..2 /\ caller \in OptionAddress
    BY DEF resolution_code, OptionAddress
  <2> QED
    BY <2>1, <2>2 DEF DisputeRecord
<1>4. "PendingFinalization" \in EscrowStates
  BY DEF EscrowStates
<1>5. votes' \in [Ids -> Seq(Vote)]
  BY TableTypes DEF execute_resolution_transition
<1>6. UNCHANGED <<creation_vars, proposal, pending_expiry>>
  BY DEF execute_resolution_transition
<1>7. CASE /\ save_escrow(id, [e EXCEPT !.state = "PendingFinalization",
                                        !.amount = @ - arbitration_fee - resolver_fee])
           /\ save_dispute(id, [decided EXCEPT
                 !.arbitration_fee = arbitration_fee,
                 !.resolver_fee = resolver_fee])
           /\ counters' = [counters EXCEPT !.arbitration_fees = @ + arbitration_fee]
           /\ book(id, [l EXCEPT
                 !.to_collector = @ + payout(arbitration_fee),
                 !.to_resolver = @ + payout(resolver_fee)])
  <2>1. escrow' \in [Ids -> EscrowRecord]
    <3>1. rest \in Int
      BY <1>1, <1>2
    <3>2. save_escrow(id, [e EXCEPT !.state = "PendingFinalization", !.amount = rest])
      BY <1>7
    <3> HIDE DEF rest
    <3>3. [e EXCEPT !.state = "PendingFinalization", !.amount = rest] \in EscrowRecord
      BY <1>1, <1>4, <3>1 DEF EscrowRecord
    <3> QED
      BY <3>2, <3>3, SaveEscrowType
  <2> HIDE DEF arbitration_fee, resolver_fee
  <2>2. dispute' \in [Ids -> DisputeRecord]
    <3> HIDE DEF decided
    <3>1. [decided EXCEPT !.arbitration_fee = arbitration_fee,
                          !.resolver_fee = resolver_fee] \in DisputeRecord
      BY <1>2, <1>3 DEF DisputeRecord
    <3> QED
      BY <1>7, <3>1, TableTypes
  <2>3. counters' \in Counters
    <3>1. counters \in Counters
      BY DEF TypeOK
    <3>2. counters.arbitration_fees + arbitration_fee \in Int
      BY <1>2, <3>1 DEF Counters
    <3>3. \A n \in Int : [counters EXCEPT !.arbitration_fees = n] \in Counters
      BY <3>1 DEF Counters
    <3> QED
      BY <1>7, <3>2, <3>3
  <2>4. ledger' \in [Ids -> Ledger]
    <3>1. l \in Ledger
      BY DEF TypeOK
    <3>2. payout(arbitration_fee) \in Int /\ payout(resolver_fee) \in Int
      BY <1>2, PayoutIsInt
    <3>3. /\ l.to_collector + payout(arbitration_fee) \in Int
          /\ l.to_resolver + payout(resolver_fee) \in Int
      BY <3>1, <3>2 DEF Ledger
    <3>4. ASSUME NEW a \in Int, NEW b \in Int
          PROVE  [l EXCEPT !.to_collector = a, !.to_resolver = b] \in Ledger
      BY <3>1 DEF Ledger
    <3> QED
      BY <1>7, <3>3, <3>4, TableTypes
  <2> QED
    BY <1>5, <1>6, <2>1, <2>2, <2>3, <2>4 DEF TypeOK, creation_vars
<1>8. CASE /\ move_to(id, "PendingFinalization")
           /\ save_dispute(id,
                 IF d.fees_charged THEN decided
                 ELSE [decided EXCEPT !.arbitration_fee = 0, !.resolver_fee = 0])
           /\ UNCHANGED <<counters, ledger>>
  <2>1. escrow' \in [Ids -> EscrowRecord]
    BY <1>4, <1>8, MoveToType
  <2> HIDE DEF decided
  <2>2. [decided EXCEPT !.arbitration_fee = 0, !.resolver_fee = 0] \in DisputeRecord
    <3>1. \A a, b \in Int : [decided EXCEPT !.arbitration_fee = a,
                                            !.resolver_fee = b] \in DisputeRecord
      BY <1>3 DEF DisputeRecord
    <3>2. 0 \in Int
      OBVIOUS
    <3> QED
      BY <3>1, <3>2, Zenon
  <2>3. dispute' \in [Ids -> DisputeRecord]
    BY <1>3, <1>8, <2>2, TableTypes
  <2> QED
    BY <1>5, <1>6, <1>8, <2>1, <2>3 DEF TypeOK, creation_vars
<1> QED
  BY <1>7, <1>8 DEF execute_resolution_transition

(* The three ways to decide a dispute, and a vote that decides nothing.    *)
LEMMA DecisionTypes ==
    ASSUME TypeOK, NEW id \in Ids,
           \/ resolve_deadlocked_dispute(id)
           \/ \E caller \in Address :
                 \/ claim_dispute_timeout(caller, id)
                 \/ \E r \in Resolution : resolve_or_vote(caller, id, r)
    PROVE  TypeOK'
<1>1. votes[id] \in Seq(Vote)
  BY DEF TypeOK
<1>2. CASE resolve_deadlocked_dispute(id)
  BY <1>1, <1>2, MajorityHasVoter, TransitionType DEF resolve_deadlocked_dispute
<1>3. ASSUME NEW caller \in Address, claim_dispute_timeout(caller, id)
      PROVE  TypeOK'
  BY <1>1, <1>3, TransitionType DEF claim_dispute_timeout, Resolution
<1>4. ASSUME NEW caller \in Address, NEW r \in Resolution,
             resolve_or_vote(caller, id, r)
      PROVE  TypeOK'
  <2> DEFINE v == add_or_update_vote(votes[id], caller, r)
             final == tally_votes(v, threshold(escrow[id].resolvers))
  <2>1. v \in Seq(Vote)
    BY <1>1, VoteUpdateType
  <2>2. CASE final # None /\ execute_resolution_transition(id, caller, final, v, TRUE)
    <3>1. final \in Resolution
      BY <2>2, Zenon DEF tally_votes, Resolution
    <3> HIDE DEF final, v
    <3> QED
      BY <2>1, <2>2, <3>1, TransitionType
  <2>3. CASE /\ save_resolver_votes(id, v)
             /\ UNCHANGED <<creation_vars, escrow, dispute, proposal,
                            pending_expiry, counters, ledger>>
    <3> HIDE DEF v
    <3>1. votes' \in [Ids -> Seq(Vote)]
      BY <2>1, <2>3, TableTypes
    <3> QED
      BY <2>3, <3>1 DEF TypeOK, creation_vars
  <2> QED
    BY <1>4, <2>2, <2>3, Zenon DEF resolve_or_vote
<1> QED
  BY <1>2, <1>3, <1>4

(* A raised dispute is a fresh dispute record.                             *)
LEMMA RaiseType ==
    ASSUME TypeOK, NEW id \in Ids, NEW caller \in Address, raise_dispute(caller, id)
    PROVE  TypeOK'
<1> DEFINE raised == [NoDispute EXCEPT !.status = "Active", !.disputed_at = now]
<1>1. /\ move_to(id, "Disputed")
      /\ save_dispute(id, raised)
      /\ clear_delivery_proposal(id)
      /\ record_escrow_disputed
      /\ UNCHANGED <<creation_vars, votes, pending_expiry, ledger>>
  BY DEF raise_dispute
<1>2. raised \in DisputeRecord
  <2>1. now \in Time /\ 0 \in Time /\ None \in OptionAddress
    BY DEF TypeOK, Time, OptionAddress
  <2>2. NoDispute \in DisputeRecord
    BY <2>1 DEF NoDispute, DisputeRecord
  <2> QED
    BY <2>1, <2>2 DEF DisputeRecord
<1> HIDE DEF raised
<1>3. "Disputed" \in EscrowStates
  BY DEF EscrowStates
<1>4. /\ escrow' \in [Ids -> EscrowRecord]
      /\ dispute' \in [Ids -> DisputeRecord]
      /\ proposal' \in [Ids -> OptionTime]
      /\ counters' \in Counters
  BY <1>1, <1>2, <1>3, MoveToType, TableTypes, CounterTypes
<1> QED
  BY <1>1, <1>4 DEF TypeOK, creation_vars

(* An appeal reopens the record and books what the appellant pays.         *)
LEMMA AppealType ==
    ASSUME TypeOK, NEW id \in Ids, NEW caller \in Address, appeal_dispute(caller, id)
    PROVE  TypeOK'
<1> DEFINE d == dispute[id]
           l == ledger[id]
           fee == payout(calculate_fee(escrow[id].amount, config.appeal_fee_bps))
           count == d.appeal_count + 1
           reopened == [d EXCEPT !.status = "Active", !.resolution = 0,
                           !.resolved_by = None, !.resolved_at = 0,
                           !.appeal_count = count]
<1>1. /\ move_to(id, "Disputed")
      /\ save_dispute(id, reopened)
      /\ save_resolver_votes(id, <<>>)
      /\ book(id, [l EXCEPT !.appeal_fees = @ + fee])
      /\ UNCHANGED <<creation_vars, proposal, pending_expiry, counters>>
  BY DEF appeal_dispute
<1>2. reopened \in DisputeRecord
  <2>1. d \in DisputeRecord
    BY DEF TypeOK
  <2>2. count \in Nat
    BY <2>1 DEF DisputeRecord
  <2>3. 0 \in Time /\ 0 \in 0..2 /\ None \in OptionAddress
    BY DEF Time, OptionAddress
  <2> HIDE DEF count
  <2>4. ASSUME NEW code \in 0..2, NEW time \in Time, NEW addr \in OptionAddress
        PROVE  [d EXCEPT !.status = "Active", !.resolution = code,
                         !.resolved_by = addr, !.resolved_at = time,
                         !.appeal_count = count] \in DisputeRecord
    BY <2>1, <2>2 DEF DisputeRecord
  <2> QED
    BY <2>3, <2>4
<1>3. ledger' \in [Ids -> Ledger]
  <2>1. fee \in Int
    <3>1. calculate_fee(escrow[id].amount, config.appeal_fee_bps) \in Int
      BY ConfigRates, EscrowParts, FeeIsInt
    <3> QED
      BY <3>1, PayoutIsInt
  <2>2. l \in Ledger
    BY DEF TypeOK
  <2> HIDE DEF fee
  <2>3. l.appeal_fees + fee \in Int
    BY <2>1, <2>2 DEF Ledger
  <2>4. \A n \in Int : [l EXCEPT !.appeal_fees = n] \in Ledger
    BY <2>2 DEF Ledger
  <2> QED
    BY <1>1, <2>3, <2>4, TableTypes
<1> HIDE DEF reopened
<1>4. "Disputed" \in EscrowStates /\ <<>> \in Seq(Vote)
  BY EmptySeq DEF EscrowStates
<1>5. /\ escrow' \in [Ids -> EscrowRecord]
      /\ dispute' \in [Ids -> DisputeRecord]
      /\ votes' \in [Ids -> Seq(Vote)]
  BY <1>1, <1>2, <1>4, MoveToType, TableTypes
<1> QED
  BY <1>1, <1>3, <1>5 DEF TypeOK, creation_vars

(* The finalization books integers on either side.                         *)
LEMMA FinalizeType ==
    ASSUME TypeOK, NEW id \in Ids, finalize_dispute(id)
    PROVE  TypeOK'
<1> DEFINE e == escrow[id]
           d == dispute[id]
           l == ledger[id]
           platform == payout(platform_fee(id))
           protocol == payout(protocol_fee(id))
           paid == payout(payout_amount(id))
           after_fees == [l EXCEPT !.to_treasury = @ + platform,
                                   !.to_collector = @ + protocol]
           released == [after_fees EXCEPT !.to_payees = @ + paid,
                                          !.basket_to_seller = @ + e.basket]
           refunded == [after_fees EXCEPT !.to_buyer = @ + paid,
                                          !.basket_to_buyer = @ + e.basket]
<1>1. /\ save_dispute(id, [d EXCEPT !.status = "Resolved"])
      /\ \/ /\ move_to(id, "Completed")
            /\ record_escrow_completed
            /\ book(id, released)
         \/ /\ move_to(id, "Refunded")
            /\ record_escrow_refunded
            /\ book(id, refunded)
      /\ UNCHANGED <<creation_vars, votes, proposal, pending_expiry>>
  BY DEF finalize_dispute
<1>2. platform \in Int /\ protocol \in Int /\ paid \in Int
  <2>1. d \in DisputeRecord
    BY DEF TypeOK
  <2>2. e.amount \in Int /\ d.arbitration_fee \in Int /\ d.resolver_fee \in Int
    BY <2>1, EscrowParts DEF DisputeRecord
  <2>3. fee_basis(id) \in Int
    BY <2>2 DEF fee_basis
  <2>4. platform_fee(id) \in Int /\ protocol_fee(id) \in Int
    BY <2>3, ConfigRates, EscrowParts, FeeIsInt DEF platform_fee, protocol_fee
  <2>5. payout_amount(id) \in Int
    BY <2>2, <2>4 DEF payout_amount
  <2> QED
    BY <2>4, <2>5, PayoutIsInt
<1> HIDE DEF platform, protocol, paid
<1>3. [d EXCEPT !.status = "Resolved"] \in DisputeRecord
  <2>1. d \in DisputeRecord
    BY DEF TypeOK
  <2> QED
    BY <2>1 DEF DisputeRecord
<1>4. after_fees \in Ledger
  <2>1. l \in Ledger
    BY DEF TypeOK
  <2>2. l.to_treasury + platform \in Int /\ l.to_collector + protocol \in Int
    BY <1>2, <2>1 DEF Ledger
  <2>3. \A a, b \in Int : [l EXCEPT !.to_treasury = a, !.to_collector = b] \in Ledger
    BY <2>1 DEF Ledger
  <2> QED
    BY <2>2, <2>3
<1> HIDE DEF after_fees
<1>5. released \in Ledger /\ refunded \in Ledger
  <2>1. e.basket \in Nat
    BY EscrowParts
  <2>2. /\ after_fees.to_payees + paid \in Int
        /\ after_fees.to_buyer + paid \in Int
        /\ after_fees.basket_to_seller + e.basket \in Nat
        /\ after_fees.basket_to_buyer + e.basket \in Nat
    BY <1>2, <1>4, <2>1 DEF Ledger
  <2>3. \A a \in Int, b \in Nat :
           /\ [after_fees EXCEPT !.to_payees = a, !.basket_to_seller = b] \in Ledger
           /\ [after_fees EXCEPT !.to_buyer = a, !.basket_to_buyer = b] \in Ledger
    BY <1>4 DEF Ledger
  <2> QED
    BY <2>2, <2>3
<1> HIDE DEF released, refunded
<1>6. {"Completed", "Refunded"} \subseteq EscrowStates
  BY DEF EscrowStates
<1>7. /\ escrow' \in [Ids -> EscrowRecord]
      /\ dispute' \in [Ids -> DisputeRecord]
      /\ counters' \in Counters
      /\ ledger' \in [Ids -> Ledger]
  BY <1>1, <1>3, <1>5, <1>6, MoveToType, TableTypes, CounterTypes
<1> QED
  BY <1>1, <1>7 DEF TypeOK, creation_vars

(* The admin's override stores a discriminant that is a valid code.        *)
LEMMA OverrideType ==
    ASSUME TypeOK, NEW id \in Ids, NEW caller \in Address,
           cancel_pending_finalization(caller, id)
    PROVE  TypeOK'
<1> DEFINE d == dispute[id]
           overridden == [d EXCEPT !.status = "Resolved", !.resolved_by = caller,
                             !.resolution = REFUND_DISCRIMINANT, !.resolved_at = now]
<1>1. /\ move_to(id, "Refunded")
      /\ record_escrow_refunded
      /\ save_dispute(id, overridden)
      /\ pay_buyer_in_full(id)
      /\ UNCHANGED <<creation_vars, votes, proposal, pending_expiry>>
  BY DEF cancel_pending_finalization
<1>2. overridden \in DisputeRecord
  <2>1. d \in DisputeRecord /\ now \in Time
    BY DEF TypeOK
  <2>2. caller \in OptionAddress /\ REFUND_DISCRIMINANT \in 0..2
    BY DEF OptionAddress, REFUND_DISCRIMINANT
  <2> QED
    BY <2>1, <2>2 DEF DisputeRecord
<1> HIDE DEF overridden
<1>3. "Refunded" \in EscrowStates
  BY DEF EscrowStates
<1>4. /\ escrow' \in [Ids -> EscrowRecord]
      /\ dispute' \in [Ids -> DisputeRecord]
      /\ counters' \in Counters
      /\ ledger' \in [Ids -> Ledger]
  BY <1>1, <1>2, <1>3, MoveToType, TableTypes, CounterTypes, PayBuyerType
<1> QED
  BY <1>1, <1>4 DEF TypeOK, creation_vars

(* Every operation on a dispute keeps the types.                           *)
LEMMA DisputeType ==
    ASSUME TypeOK, Dispute
    PROVE  TypeOK'
BY DecisionTypes, RaiseType, AppealType, FinalizeType, OverrideType DEF Dispute
-----------------------------------------------------------------------------
(* The admin and the emergency exits.                                      *)

(* The setters keep every rate within its limit.                           *)
LEMMA AdministerType ==
    ASSUME TypeOK, Administer
    PROVE  TypeOK'
<1>1. config \in Config
  BY DEF TypeOK
<1>2. ASSUME NEW c \in Config, configure(c)
      PROVE  TypeOK'
  BY <1>2 DEF configure, TypeOK
<1>3. ASSUME NEW flag \in BOOLEAN, set_paused(flag) \/ set_recovery_mode(flag)
      PROVE  TypeOK'
  <2>1. /\ [config EXCEPT !.paused = flag] \in Config
        /\ [config EXCEPT !.recovery_mode = flag] \in Config
    BY <1>1 DEF Config
  <2> QED
    BY <1>2, <1>3, <2>1 DEF set_paused, set_recovery_mode
<1>4. ASSUME NEW action \in Settings.action,
             pause_action(action) \/ unpause_action(action)
      PROVE  TypeOK'
  <2>1. action \in STRING /\ config.action_paused \in SUBSET STRING
    BY <1>1, SettingsAssumption DEF Config
  <2>2. /\ config.action_paused \cup {action} \in SUBSET STRING
        /\ config.action_paused \ {action} \in SUBSET STRING
    BY <2>1
  <2>3. ASSUME NEW set \in SUBSET STRING
        PROVE  [config EXCEPT !.action_paused = set] \in Config
    BY <1>1 DEF Config
  <2> QED
    BY <1>2, <1>4, <2>2, <2>3 DEF pause_action, unpause_action
<1>5. ASSUME NEW bps \in Settings.arbitration_fee_bps, set_arbitration_fee(bps)
      PROVE  TypeOK'
  <2>1. bps \in 0..MAX_ARBITRATION_FEE_BPS
    BY <1>5, SettingsAssumption DEF set_arbitration_fee, MAX_ARBITRATION_FEE_BPS
  <2>2. [config EXCEPT !.arbitration_fee_bps = bps] \in Config
    BY <1>1, <2>1 DEF Config
  <2> QED
    BY <1>2, <1>5, <2>2 DEF set_arbitration_fee
<1>6. ASSUME NEW bps \in Settings.platform_fee_bps, set_platform_fee(bps)
      PROVE  TypeOK'
  <2>1. bps \in 0..MAX_PLATFORM_FEE_BPS
    BY <1>6, SettingsAssumption DEF set_platform_fee, MAX_PLATFORM_FEE_BPS
  <2>2. [config EXCEPT !.platform_fee_bps = bps] \in Config
    BY <1>1, <2>1 DEF Config
  <2> QED
    BY <1>2, <1>6, <2>2 DEF set_platform_fee
<1>7. ASSUME NEW bps \in Settings.appeal_fee_bps, execute_set_appeal_fee(bps)
      PROVE  TypeOK'
  <2>1. bps \in 0..MAX_APPEAL_FEE_BPS
    BY <1>7, SettingsAssumption
       DEF execute_set_appeal_fee, validate_appeal_fee_bps, MIN_APPEAL_FEE_BPS,
           MAX_APPEAL_FEE_BPS
  <2>2. [config EXCEPT !.appeal_fee_bps = bps] \in Config
    BY <1>1, <2>1 DEF Config
  <2> QED
    BY <1>2, <1>7, <2>2 DEF execute_set_appeal_fee
<1>8. ASSUME NEW seconds \in Settings.dispute_timeout, set_dispute_timeout(seconds)
      PROVE  TypeOK'
  <2>1. [config EXCEPT !.dispute_timeout = seconds] \in Config
    BY <1>1, SettingsAssumption DEF Config
  <2> QED
    BY <1>2, <1>8, <2>1 DEF set_dispute_timeout
<1>9. ASSUME NEW limit \in Settings.max_appeals, execute_set_max_appeals(limit)
      PROVE  TypeOK'
  <2>1. [config EXCEPT !.max_appeals = limit] \in Config
    BY <1>1, SettingsAssumption DEF Config
  <2> QED
    BY <1>2, <1>9, <2>1 DEF execute_set_max_appeals
<1> QED
  BY <1>3, <1>4, <1>5, <1>6, <1>7, <1>8, <1>9 DEF Administer

(* The emergency exits write what a refund writes.                         *)
LEMMA RescueType ==
    ASSUME TypeOK, Rescue
    PROVE  TypeOK'
<1>1. ASSUME NEW id \in Ids, NEW states, refund_from(id, states)
      PROVE  TypeOK'
  <2>1. "Refunded" \in EscrowStates
    BY DEF EscrowStates
  <2>2. /\ escrow' \in [Ids -> EscrowRecord]
        /\ proposal' \in [Ids -> OptionTime]
        /\ counters' \in Counters
        /\ ledger' \in [Ids -> Ledger]
    BY <1>1, <2>1, MoveToType, TableTypes, CounterTypes, PayBuyerType DEF refund_from
  <2> QED
    BY <1>1, <2>2 DEF refund_from, TypeOK, creation_vars, dispute_vars
<1> QED
  BY <1>1 DEF Rescue, emergency_drain, recovery_withdraw

LEMMA InitTyped ==
    ASSUME Init
    PROVE  TypeOK
<1>1. 0 \in Time /\ 1 \in Time /\ None \in OptionTime /\ None \in OptionAddress
  BY DEF Time, OptionTime, OptionAddress
<1>2. NoResolvers \in ResolverSet /\ NoEscrow \in EscrowRecord
  <2>1. <<>> \in Seq(Address) /\ <<>> \in Seq(Payee)
    BY EmptySeq
  <2>2. NoResolvers \in ResolverSet
    BY <1>1, <2>1 DEF NoResolvers, ResolverSet
  <2>3. "Absent" \in EscrowStates /\ 0 \in 0..BASIS_POINTS
    BY DEF EscrowStates, BASIS_POINTS
  <2> HIDE DEF NoResolvers
  <2> QED
    BY <1>1, <2>1, <2>2, <2>3 DEF NoEscrow, EscrowRecord
<1>3. NoDispute \in DisputeRecord
  BY <1>1 DEF NoDispute, DisputeRecord
<1>4. NoMoney \in Ledger
  BY DEF NoMoney, Ledger
<1>5. counters \in Counters
  BY DEF Init, Counters
<1>6. next_id \in 1..(MaxEscrows + 1)
  BY BoundsAssumption DEF Init
<1>7. <<>> \in Seq(Vote)
  BY EmptySeq
<1> QED
  BY <1>1, <1>2, <1>3, <1>4, <1>5, <1>6, <1>7, ConfigAssumption DEF Init, TypeOK

LEMMA TypeStep ==
    ASSUME TypeOK, [Next]_vars
    PROVE  TypeOK'
<1>1. CASE Tick
  BY <1>1 DEF Tick, TypeOK, Time
<1>2. CASE UNCHANGED vars
  BY <1>2 DEF vars, TypeOK
<1> QED
  BY <1>1, <1>2, TradeType, DisputeType, AdministerType, RescueType DEF Next
-----------------------------------------------------------------------------
(* In every reachable state the contract's storage is well typed, whatever *)
(* the terms offered, the rates chosen and the windows: no fee, split or   *)
(* counter of any entry point leaves the domain its readers expect.        *)
THEOREM TypeCorrect == Spec => []TypeOK
<1>1. Init => TypeOK
  BY InitTyped
<1>2. TypeOK /\ [Next]_vars => TypeOK'
  BY TypeStep
<1> QED
  BY <1>1, <1>2, PTL DEF Spec

-----------------------------------------------------------------------------
(* Sound books.                                                            *)

DisputedStates == {"Disputed", "PendingFinalization"}

(* What the creators check once and nothing changes but the amount.        *)
Priced(e) ==
    e.state # "Absent" =>
        /\ IsAcceptedList(e.payees)
        /\ e.amount \in Nat
        /\ e.fee_bps <= MAX_ESCROW_FEE_BPS
        /\ e.resolver_fee_bps <= MAX_ESCROW_FEE_BPS

(* CustodyConservation of one escrow.                                      *)
Balanced(e, l) ==
    LET held == e.state \in HoldingStates
    IN  /\ l.deposited - l.to_buyer - l.to_payees - l.to_collector
              - l.to_resolver - l.to_treasury = IF held THEN e.amount ELSE 0
        /\ l.basket_deposited - l.basket_to_buyer - l.basket_to_seller
              = IF held THEN e.basket ELSE 0

(* Before its settlement an escrow has paid nobody but fees, and those     *)
(* only after a dispute.                                                   *)
Unsettled(e, d, l) ==
    /\ e.state \notin TerminalStates =>
          /\ l.to_buyer = 0 /\ l.to_payees = 0 /\ l.to_treasury = 0
          /\ l.basket_to_buyer = 0 /\ l.basket_to_seller = 0
    /\ e.state \notin TerminalStates \cup DisputedStates =>
          l.to_collector = 0 /\ l.to_resolver = 0

(* FeesChargedOnce of one escrow, with the bound on what was charged: 5%   *)
(* for the arbitration and 3% for the resolver.                            *)
FeesBooked(e, d, l) ==
    /\ l.to_resolver = d.resolver_fee
    /\ e.state \in DisputedStates =>
          /\ d.arbitration_fee \in Nat /\ d.resolver_fee \in Nat
          /\ l.to_collector = d.arbitration_fee
          /\ 100 * (d.arbitration_fee + d.resolver_fee)
                <= 8 * (e.amount + d.arbitration_fee + d.resolver_fee)
          /\ ~d.fees_charged => d.arbitration_fee = 0 /\ d.resolver_fee = 0
    /\ e.state = "PendingFinalization" => d.fees_charged

(* OneSideIsPaid of one escrow.                                            *)
OneSided(e, d, l) ==
    /\ e.state = "Completed" => l.to_buyer = 0 /\ l.basket_to_buyer = 0
    /\ e.state \in TerminalStates \ {"Completed"} =>
          /\ l.to_payees = 0 /\ l.basket_to_seller = 0
          /\ ~d.fees_charged => l.to_buyer = l.deposited

SoundBooks(e, d, l) ==
    /\ Priced(e)
    /\ Balanced(e, l)
    /\ Unsettled(e, d, l)
    /\ FeesBooked(e, d, l)
    /\ OneSided(e, d, l)

(* The ids not handed out yet are free.                                    *)
FreshIds == \A id \in Ids : id >= next_id => escrow[id].state = "Absent"

BooksInv ==
    FreshIds /\ \A id \in Ids : SoundBooks(escrow[id], dispute[id], ledger[id])
-----------------------------------------------------------------------------
(* Fees and amounts.                                                       *)

(* A fee at a rate of at most limit takes at most that share.              *)
LEMMA FeeShare ==
    ASSUME NEW amount \in Nat, NEW fee_bps \in Nat, NEW limit \in Nat,
           fee_bps <= limit, limit <= BASIS_POINTS
    PROVE  /\ calculate_fee(amount, fee_bps) \in 0..amount
           /\ BASIS_POINTS * calculate_fee(amount, fee_bps) <= amount * limit
<1> DEFINE product == amount * fee_bps
           fee == calculate_fee(amount, fee_bps)
<1>1. fee_bps \in 0..BASIS_POINTS
  BY SMT DEF BASIS_POINTS
<1>2. fee \in 0..amount
  BY <1>1, FeeBounds
<1>3. product \in Nat /\ product <= amount * limit
  BY SMT DEF BASIS_POINTS
<1>4. fee = product \div BASIS_POINTS
  BY FeeIsFloorForAll
<1> HIDE DEF product, fee
<1>5. BASIS_POINTS * fee <= product
  BY <1>3, <1>4, FloorBounds
<1>6. amount * limit \in Int
  BY SMT DEF BASIS_POINTS
<1> DEFINE bound == amount * limit
<1> HIDE DEF bound
<1>7. BASIS_POINTS * fee <= bound
  BY <1>2, <1>3, <1>5, <1>6, SMT DEF BASIS_POINTS, bound
<1> QED
  BY <1>2, <1>7 DEF fee, bound

(* helpers::payout::payout moves every amount that is not negative.        *)
LEMMA PayoutOfNat ==
    ASSUME NEW amount \in Nat
    PROVE  payout(amount) = amount
BY DEF payout

(* What a refund, a release and a decision do to sound books.              *)

(* The amounts and rates of an escrow with sound books.                    *)
LEMMA PricedParts ==
    ASSUME NEW e \in EscrowRecord, NEW d, NEW l, SoundBooks(e, d, l),
           e.state # "Absent"
    PROVE  /\ IsAcceptedList(e.payees) /\ e.amount \in Nat /\ e.basket \in Nat
           /\ e.fee_bps \in Nat /\ e.fee_bps <= MAX_ESCROW_FEE_BPS
           /\ e.resolver_fee_bps \in Nat
           /\ e.resolver_fee_bps <= MAX_ESCROW_FEE_BPS
<1>1. /\ e.fee_bps \in 0..BASIS_POINTS /\ e.resolver_fee_bps \in 0..BASIS_POINTS
      /\ e.basket \in Nat
  BY DEF EscrowRecord
<1>2. \A bps \in 0..BASIS_POINTS : bps \in Nat
  BY DEF BASIS_POINTS
<1> QED
  BY <1>1, <1>2 DEF SoundBooks, Priced

(* A change of the state changes nothing of the price.                     *)
LEMMA StateUpdate ==
    ASSUME NEW e \in EscrowRecord, NEW s
    PROVE  LET f == [e EXCEPT !.state = s]
           IN  /\ f.state = s /\ f.payees = e.payees /\ f.amount = e.amount
               /\ f.basket = e.basket /\ f.fee_bps = e.fee_bps
               /\ f.resolver_fee_bps = e.resolver_fee_bps
BY DEF EscrowRecord

(* The fields of an escrow's record of transfers are integers.             *)
LEMMA LedgerParts ==
    ASSUME NEW l \in Ledger
    PROVE  /\ l.deposited \in Int /\ l.to_buyer \in Int /\ l.to_payees \in Int
           /\ l.to_collector \in Int /\ l.to_resolver \in Int
           /\ l.to_treasury \in Int /\ l.basket_deposited \in Nat
           /\ l.basket_to_buyer \in Nat /\ l.basket_to_seller \in Nat
BY DEF Ledger

(* The remainder of an open escrow goes to the buyer and closes it.        *)
LEMMA RefundedBooks ==
    ASSUME NEW e \in EscrowRecord, NEW d, NEW d2, NEW l \in Ledger,
           SoundBooks(e, d, l), e.state \in HoldingStates,
           NEW s \in TerminalStates \ {"Completed"},
           d2.resolver_fee = d.resolver_fee, d2.fees_charged = d.fees_charged
    PROVE  SoundBooks([e EXCEPT !.state = s], d2,
                      [l EXCEPT !.to_buyer = @ + payout(e.amount),
                                !.basket_to_buyer = @ + e.basket])
<1> DEFINE f == [e EXCEPT !.state = s]
           paid == l.to_buyer + payout(e.amount)
           returned == l.basket_to_buyer + e.basket
           m == [l EXCEPT !.to_buyer = paid, !.basket_to_buyer = returned]
<1>1. /\ e.state # "Absent" /\ e.state \notin TerminalStates
      /\ s # "Absent" /\ s # "Completed" /\ s \notin HoldingStates
      /\ s \notin DisputedStates
  BY DEF HoldingStates, TerminalStates, DisputedStates
<1>2. /\ f.state = s /\ f.payees = e.payees /\ f.amount = e.amount
      /\ f.basket = e.basket /\ f.fee_bps = e.fee_bps
      /\ f.resolver_fee_bps = e.resolver_fee_bps
  BY StateUpdate
<1>3. /\ m.deposited = l.deposited /\ m.to_buyer = paid
      /\ m.to_payees = l.to_payees /\ m.to_collector = l.to_collector
      /\ m.to_resolver = l.to_resolver /\ m.to_treasury = l.to_treasury
      /\ m.basket_deposited = l.basket_deposited
      /\ m.basket_to_buyer = returned /\ m.basket_to_seller = l.basket_to_seller
  BY DEF Ledger
<1>4. payout(e.amount) = e.amount /\ e.amount \in Nat /\ e.basket \in Nat
  BY <1>1, PricedParts, PayoutOfNat
<1> HIDE DEF f, m
<1>5. Priced(f)
  BY <1>1, <1>2 DEF SoundBooks, Priced
<1>6. Balanced(f, m)
  <2>1. /\ l.deposited - l.to_buyer - l.to_payees - l.to_collector
              - l.to_resolver - l.to_treasury = e.amount
        /\ l.basket_deposited - l.basket_to_buyer - l.basket_to_seller = e.basket
    BY DEF SoundBooks, Balanced
  <2>2. /\ m.deposited - m.to_buyer - m.to_payees - m.to_collector
              - m.to_resolver - m.to_treasury = 0
        /\ m.basket_deposited - m.basket_to_buyer - m.basket_to_seller = 0
    BY <1>3, <1>4, <2>1, LedgerParts, SMT
  <2> QED
    BY <1>1, <1>2, <2>2, Zenon DEF Balanced
<1>7. Unsettled(f, d2, m)
  BY <1>1, <1>2 DEF Unsettled
<1>8. FeesBooked(f, d2, m)
  BY <1>1, <1>2, <1>3 DEF SoundBooks, FeesBooked, DisputedStates
<1>9. m.to_payees = 0 /\ m.basket_to_seller = 0
  BY <1>1, <1>3 DEF SoundBooks, Unsettled
<1>10. ~d2.fees_charged => m.to_buyer = m.deposited
  <2>1. SUFFICES ASSUME ~d.fees_charged PROVE m.to_buyer = m.deposited
    OBVIOUS
  <2>2. /\ l.to_collector = 0 /\ l.to_resolver = 0 /\ l.to_treasury = 0
        /\ l.to_buyer = 0 /\ l.to_payees = 0
    BY <1>1, <2>1 DEF SoundBooks, Unsettled, FeesBooked
  <2>3. l.deposited - l.to_buyer - l.to_payees - l.to_collector - l.to_resolver
           - l.to_treasury = e.amount
    BY DEF SoundBooks, Balanced
  <2> QED
    BY <1>3, <1>4, <2>2, <2>3, LedgerParts, SMT
<1>11. OneSided(f, d2, m)
  BY <1>1, <1>2, <1>9, <1>10 DEF OneSided
<1> QED
  BY <1>5, <1>6, <1>7, <1>8, <1>11 DEF SoundBooks, f, m

(* A release: a to the collector, b to the treasury and c to the payees.   *)
LEMMA ReleasedBooks ==
    ASSUME NEW e \in EscrowRecord, NEW d, NEW d2, NEW l \in Ledger, NEW m,
           SoundBooks(e, d, l), e.state \in HoldingStates,
           d2.resolver_fee = d.resolver_fee,
           NEW a \in Int, NEW b \in Int, NEW c \in Int, a + b + c = e.amount,
           m.deposited = l.deposited, m.to_buyer = l.to_buyer,
           m.to_payees = l.to_payees + c, m.to_collector = l.to_collector + a,
           m.to_resolver = l.to_resolver, m.to_treasury = l.to_treasury + b,
           m.basket_deposited = l.basket_deposited,
           m.basket_to_buyer = l.basket_to_buyer,
           m.basket_to_seller = l.basket_to_seller + e.basket
    PROVE  SoundBooks([e EXCEPT !.state = "Completed"], d2, m)
<1> DEFINE f == [e EXCEPT !.state = "Completed"]
<1>1. /\ e.state # "Absent" /\ e.state \notin TerminalStates
      /\ "Completed" \in TerminalStates /\ "Completed" \notin HoldingStates
      /\ "Completed" \notin DisputedStates
  BY DEF HoldingStates, TerminalStates, DisputedStates
<1>2. /\ f.state = "Completed" /\ f.payees = e.payees /\ f.amount = e.amount
      /\ f.basket = e.basket /\ f.fee_bps = e.fee_bps
      /\ f.resolver_fee_bps = e.resolver_fee_bps
  BY StateUpdate
<1>3. e.amount \in Nat /\ e.basket \in Nat
  BY <1>1, PricedParts
<1> HIDE DEF f
<1>4. Priced(f)
  BY <1>1, <1>2 DEF SoundBooks, Priced
<1>5. Balanced(f, m)
  <2>1. /\ l.deposited - l.to_buyer - l.to_payees - l.to_collector
              - l.to_resolver - l.to_treasury = e.amount
        /\ l.basket_deposited - l.basket_to_buyer - l.basket_to_seller = e.basket
    BY DEF SoundBooks, Balanced
  <2>2. /\ m.deposited - m.to_buyer - m.to_payees - m.to_collector
              - m.to_resolver - m.to_treasury = 0
        /\ m.basket_deposited - m.basket_to_buyer - m.basket_to_seller = 0
    BY <1>3, <2>1, LedgerParts, SMT
  <2> QED
    BY <1>1, <1>2, <2>2, Zenon DEF Balanced
<1>6. Unsettled(f, d2, m)
  BY <1>1, <1>2 DEF Unsettled
<1>7. FeesBooked(f, d2, m)
  BY <1>1, <1>2 DEF SoundBooks, FeesBooked, DisputedStates
<1>8. OneSided(f, d2, m)
  BY <1>1, <1>2 DEF SoundBooks, Unsettled, OneSided
<1> QED
  BY <1>4, <1>5, <1>6, <1>7, <1>8 DEF SoundBooks, f

(* A dispute decided for the buyer, whose fees are charged.                *)
LEMMA RefundedAfterFeesBooks ==
    ASSUME NEW e \in EscrowRecord, NEW d, NEW d2, NEW l \in Ledger, NEW m,
           SoundBooks(e, d, l), e.state = "PendingFinalization",
           d2.resolver_fee = d.resolver_fee, d2.fees_charged = d.fees_charged,
           NEW a \in Int, NEW b \in Int, NEW c \in Int, a + b + c = e.amount,
           m.deposited = l.deposited, m.to_buyer = l.to_buyer + c,
           m.to_payees = l.to_payees, m.to_collector = l.to_collector + a,
           m.to_resolver = l.to_resolver, m.to_treasury = l.to_treasury + b,
           m.basket_deposited = l.basket_deposited,
           m.basket_to_buyer = l.basket_to_buyer + e.basket,
           m.basket_to_seller = l.basket_to_seller
    PROVE  SoundBooks([e EXCEPT !.state = "Refunded"], d2, m)
<1> DEFINE f == [e EXCEPT !.state = "Refunded"]
<1>1. /\ e.state # "Absent" /\ e.state \notin TerminalStates
      /\ e.state \in HoldingStates
      /\ "Refunded" \in TerminalStates /\ "Refunded" \notin HoldingStates
      /\ "Refunded" \notin DisputedStates /\ "Refunded" # "Completed"
  BY DEF HoldingStates, TerminalStates, DisputedStates
<1>2. /\ f.state = "Refunded" /\ f.payees = e.payees /\ f.amount = e.amount
      /\ f.basket = e.basket /\ f.fee_bps = e.fee_bps
      /\ f.resolver_fee_bps = e.resolver_fee_bps
  BY StateUpdate
<1>3. e.amount \in Nat /\ e.basket \in Nat
  BY <1>1, PricedParts
<1> HIDE DEF f
<1>4. Priced(f)
  BY <1>1, <1>2 DEF SoundBooks, Priced
<1>5. Balanced(f, m)
  <2>1. /\ l.deposited - l.to_buyer - l.to_payees - l.to_collector
              - l.to_resolver - l.to_treasury = e.amount
        /\ l.basket_deposited - l.basket_to_buyer - l.basket_to_seller = e.basket
    BY <1>1 DEF SoundBooks, Balanced
  <2>2. /\ m.deposited - m.to_buyer - m.to_payees - m.to_collector
              - m.to_resolver - m.to_treasury = 0
        /\ m.basket_deposited - m.basket_to_buyer - m.basket_to_seller = 0
    BY <1>3, <2>1, LedgerParts, SMT
  <2> QED
    BY <1>1, <1>2, <2>2, Zenon DEF Balanced
<1>6. Unsettled(f, d2, m)
  BY <1>1, <1>2 DEF Unsettled
<1>7. FeesBooked(f, d2, m)
  BY <1>1, <1>2 DEF SoundBooks, FeesBooked, DisputedStates
<1>8. OneSided(f, d2, m)
  BY <1>1, <1>2 DEF SoundBooks, Unsettled, FeesBooked, OneSided
<1> QED
  BY <1>4, <1>5, <1>6, <1>7, <1>8 DEF SoundBooks, f

(* A step between two open states that moves no money.                     *)
SamePrice(e, f) ==
    /\ f.payees = e.payees /\ f.amount = e.amount /\ f.basket = e.basket
    /\ f.fee_bps = e.fee_bps /\ f.resolver_fee_bps = e.resolver_fee_bps

(* An open escrow moves to another open state and no money moves.          *)
LEMMA MovedBooks ==
    ASSUME NEW e, NEW f, NEW d, NEW d2, NEW l, SoundBooks(e, d, l), SamePrice(e, f),
           e.state \in HoldingStates, f.state \in HoldingStates,
           e.state \in DisputedStates => f.state \in DisputedStates,
           d2.resolver_fee = d.resolver_fee,
           f.state \in DisputedStates =>
              /\ d2.arbitration_fee = l.to_collector
              /\ e.state \notin DisputedStates =>
                    d2.resolver_fee = 0 /\ d2.arbitration_fee = 0
              /\ e.state \in DisputedStates /\ ~d2.fees_charged => ~d.fees_charged,
           f.state = "PendingFinalization" => d2.fees_charged
    PROVE  SoundBooks(f, d2, l)
<1>1. /\ e.state # "Absent" /\ e.state \notin TerminalStates
      /\ f.state \notin TerminalStates /\ f.state # "Completed"
  BY DEF HoldingStates, TerminalStates
<1>2. Priced(f) /\ f.amount \in Nat
  BY <1>1 DEF SoundBooks, Priced, SamePrice
<1>3. Balanced(f, l)
  BY Zenon DEF SoundBooks, Balanced, SamePrice
<1>4. Unsettled(f, d2, l)
  BY <1>1 DEF SoundBooks, Unsettled
<1>5. l.to_resolver = d2.resolver_fee
  BY DEF SoundBooks, FeesBooked
<1>6. CASE f.state \notin DisputedStates
  <2>1. FeesBooked(f, d2, l)
    BY <1>5, <1>6 DEF FeesBooked, DisputedStates
  <2> QED
    BY <1>1, <1>2, <1>3, <1>4, <2>1 DEF SoundBooks, OneSided
<1>7. CASE f.state \in DisputedStates /\ e.state \notin DisputedStates
  <2>1. d2.arbitration_fee = 0 /\ d2.resolver_fee = 0 /\ l.to_collector = 0
    BY <1>7
  <2>2. 100 * (0 + 0) <= 8 * (f.amount + 0 + 0)
    BY <1>2, SMT
  <2>3. FeesBooked(f, d2, l)
    BY <1>5, <1>7, <2>1, <2>2 DEF FeesBooked
  <2> QED
    BY <1>1, <1>2, <1>3, <1>4, <2>3 DEF SoundBooks, OneSided
<1>8. CASE f.state \in DisputedStates /\ e.state \in DisputedStates
  <2>1. d2.arbitration_fee = d.arbitration_fee
    BY <1>8 DEF SoundBooks, FeesBooked
  <2>2. FeesBooked(f, d2, l)
    BY <1>5, <1>8, <2>1 DEF SoundBooks, FeesBooked, SamePrice
  <2> QED
    BY <1>1, <1>2, <1>3, <1>4, <2>2 DEF SoundBooks, OneSided
<1> QED
  BY <1>6, <1>7, <1>8

(* An escrow nobody funded is closed.                                      *)
LEMMA ClosedUnpaidBooks ==
    ASSUME NEW e \in EscrowRecord, NEW d, NEW l \in Ledger, SoundBooks(e, d, l),
           e.state = "Pending"
    PROVE  SoundBooks([e EXCEPT !.state = "Canceled"], d, l)
<1> DEFINE f == [e EXCEPT !.state = "Canceled"]
<1>1. f.state = "Canceled" /\ SamePrice(e, f)
  BY StateUpdate DEF SamePrice
<1> HIDE DEF f
<1>2. /\ l.to_buyer = 0 /\ l.to_payees = 0 /\ l.basket_to_seller = 0
      /\ l.to_collector = 0 /\ l.to_resolver = 0 /\ l.to_treasury = 0
  BY DEF SoundBooks, Unsettled, TerminalStates, DisputedStates
<1>3. l.deposited - l.to_buyer - l.to_payees - l.to_collector
         - l.to_resolver - l.to_treasury = 0
  BY DEF SoundBooks, Balanced, HoldingStates
<1>4. l.to_buyer = l.deposited
  BY <1>2, <1>3, LedgerParts, SMT
<1>5. Balanced(f, l)
  BY <1>1 DEF SoundBooks, Balanced, HoldingStates
<1>6. Priced(f) /\ Unsettled(f, d, l) /\ FeesBooked(f, d, l)
  BY <1>1 DEF SoundBooks, Priced, Unsettled, FeesBooked, SamePrice,
              TerminalStates, DisputedStates
<1>7. OneSided(f, d, l)
  BY <1>1, <1>2, <1>4 DEF OneSided
<1> QED
  BY <1>5, <1>6, <1>7 DEF SoundBooks, f

(* The buyer pays the price and the basket in.                             *)
LEMMA FundedBooks ==
    ASSUME NEW e, NEW f, NEW d, NEW l \in Ledger, NEW m \in Ledger,
           SoundBooks(e, d, l), e.state = "Pending", f.state = "Funded", SamePrice(e, f),
           e.amount \in Nat, e.basket \in Nat,
           m.deposited = l.deposited + e.amount,
           m.basket_deposited = l.basket_deposited + e.basket,
           m.to_buyer = l.to_buyer, m.to_payees = l.to_payees,
           m.to_collector = l.to_collector, m.to_resolver = l.to_resolver,
           m.to_treasury = l.to_treasury, m.basket_to_buyer = l.basket_to_buyer,
           m.basket_to_seller = l.basket_to_seller
    PROVE  SoundBooks(f, d, m)
<1>1. Priced(f)
  BY DEF SoundBooks, Priced, SamePrice
<1>2. /\ l.deposited - l.to_buyer - l.to_payees - l.to_collector
            - l.to_resolver - l.to_treasury = 0
      /\ l.basket_deposited - l.basket_to_buyer - l.basket_to_seller = 0
  BY DEF SoundBooks, Balanced, HoldingStates
<1>3. /\ m.deposited - m.to_buyer - m.to_payees - m.to_collector
            - m.to_resolver - m.to_treasury = e.amount
      /\ m.basket_deposited - m.basket_to_buyer - m.basket_to_seller = e.basket
  <2> DEFINE price == e.amount
             basket == e.basket
  <2>1. /\ price \in Int /\ m.deposited = l.deposited + price
        /\ basket \in Int /\ m.basket_deposited = l.basket_deposited + basket
    OBVIOUS
  <2> HIDE DEF price, basket
  <2>2. /\ m.deposited - l.to_buyer - l.to_payees - l.to_collector
              - l.to_resolver - l.to_treasury = price
        /\ m.basket_deposited - l.basket_to_buyer - l.basket_to_seller = basket
    BY <1>2, <2>1, LedgerParts
  <2> QED
    BY <2>2 DEF price, basket
<1>4. "Funded" \in HoldingStates
  BY DEF HoldingStates
<1>5. Balanced(f, m)
  BY <1>3, <1>4, Zenon DEF Balanced, SamePrice
<1>6. Unsettled(f, d, m) /\ FeesBooked(f, d, m) /\ OneSided(f, d, m)
  BY DEF SoundBooks, Unsettled, FeesBooked, OneSided, TerminalStates, DisputedStates
<1> QED
  BY <1>1, <1>5, <1>6 DEF SoundBooks

(* A first decision: its two fees leave the amount, one to the collector   *)
(* and one to the resolver.                                                *)
LEMMA ChargedBooks ==
    ASSUME NEW e \in EscrowRecord, NEW f, NEW d, NEW d2, NEW l \in Ledger,
           NEW m \in Ledger, SoundBooks(e, d, l), e.state = "Disputed",
           ~d.fees_charged, NEW arbitration_fee \in Nat, NEW resolver_fee \in Nat,
           arbitration_fee + resolver_fee <= e.amount,
           100 * (arbitration_fee + resolver_fee) <= 8 * e.amount,
           f.state = "PendingFinalization", f.payees = e.payees,
           f.amount = e.amount - arbitration_fee - resolver_fee,
           f.basket = e.basket, f.fee_bps = e.fee_bps,
           f.resolver_fee_bps = e.resolver_fee_bps,
           d2.arbitration_fee = arbitration_fee, d2.resolver_fee = resolver_fee,
           d2.fees_charged,
           m.deposited = l.deposited, m.to_buyer = l.to_buyer,
           m.to_payees = l.to_payees, m.to_treasury = l.to_treasury,
           m.to_collector = l.to_collector + arbitration_fee,
           m.to_resolver = l.to_resolver + resolver_fee,
           m.basket_deposited = l.basket_deposited,
           m.basket_to_buyer = l.basket_to_buyer,
           m.basket_to_seller = l.basket_to_seller
    PROVE  SoundBooks(f, d2, m)
<1>1. e.state # "Absent" /\ e.state \in HoldingStates /\ f.state \in HoldingStates
  BY DEF HoldingStates
<1> DEFINE amount == e.amount
           rest == f.amount
<1>2. /\ amount \in Nat /\ rest = amount - arbitration_fee - resolver_fee
      /\ arbitration_fee + resolver_fee <= amount
      /\ 100 * (arbitration_fee + resolver_fee) <= 8 * amount
  BY <1>1, PricedParts
<1>3. l.to_collector = 0 /\ l.to_resolver = 0
  BY DEF SoundBooks, FeesBooked, DisputedStates
<1>4. /\ l.deposited - l.to_buyer - l.to_payees - l.to_collector
            - l.to_resolver - l.to_treasury = amount
      /\ l.basket_deposited - l.basket_to_buyer - l.basket_to_seller = e.basket
  BY <1>1 DEF SoundBooks, Balanced
<1> HIDE DEF amount, rest
<1>5. m.to_collector = arbitration_fee /\ m.to_resolver = resolver_fee
  BY <1>3, SMT
<1>6. rest \in Nat
  BY <1>2, SMT
<1>7. m.deposited - m.to_buyer - m.to_payees - m.to_collector
         - m.to_resolver - m.to_treasury = rest
  <2>1. m.deposited - m.to_buyer - m.to_payees - l.to_collector
           - l.to_resolver - m.to_treasury = amount
    BY <1>4
  <2> QED
    BY <1>2, <1>3, <1>5, <2>1, LedgerParts
<1>8. m.basket_deposited - m.basket_to_buyer - m.basket_to_seller = f.basket
  BY <1>4
<1>9. 100 * (arbitration_fee + resolver_fee)
         <= 8 * (rest + arbitration_fee + resolver_fee)
  BY <1>2, SMT
<1>10. Priced(f)
  BY <1>1, <1>6 DEF SoundBooks, Priced, rest
<1>11. Balanced(f, m)
  BY <1>1, <1>7, <1>8, Zenon DEF Balanced, rest
<1>12. Unsettled(f, d2, m)
  BY DEF SoundBooks, Unsettled, TerminalStates, DisputedStates
<1>13. FeesBooked(f, d2, m)
  BY <1>5, <1>9, Zenon DEF FeesBooked, DisputedStates, rest
<1>14. OneSided(f, d2, m)
  BY DEF OneSided, TerminalStates
<1> QED
  BY <1>10, <1>11, <1>12, <1>13, <1>14 DEF SoundBooks

(* What the appellant pays does not touch the escrow's money.              *)
LEMMA AppealFeeIsOutside ==
    ASSUME NEW e, NEW d, NEW l \in Ledger, SoundBooks(e, d, l), NEW fee
    PROVE  SoundBooks(e, d, [l EXCEPT !.appeal_fees = fee])
<1> DEFINE m == [l EXCEPT !.appeal_fees = fee]
<1>1. /\ m.deposited = l.deposited /\ m.to_buyer = l.to_buyer
      /\ m.to_payees = l.to_payees /\ m.to_collector = l.to_collector
      /\ m.to_resolver = l.to_resolver /\ m.to_treasury = l.to_treasury
      /\ m.basket_deposited = l.basket_deposited
      /\ m.basket_to_buyer = l.basket_to_buyer
      /\ m.basket_to_seller = l.basket_to_seller
  BY DEF Ledger
<1> HIDE DEF m
<1>2. Balanced(e, m)
  BY <1>1 DEF SoundBooks, Balanced
<1>3. Unsettled(e, d, m) /\ FeesBooked(e, d, m) /\ OneSided(e, d, m)
  BY <1>1 DEF SoundBooks, Unsettled, FeesBooked, OneSided
<1> QED
  BY <1>2, <1>3 DEF SoundBooks, m
-----------------------------------------------------------------------------
(* From one escrow to the contract.                                        *)

(* Saving changes the entry of one escrow and leaves the others alone.     *)
LEMMA Entries ==
    ASSUME TypeOK, NEW id \in Ids
    PROVE  /\ escrow[id] \in EscrowRecord /\ ledger[id] \in Ledger
           /\ dispute[id] \in DisputeRecord
           /\ \A e : save_escrow(id, e) =>
                 /\ escrow'[id] = e
                 /\ \A other \in Ids \ {id} : escrow'[other] = escrow[other]
           /\ \A d : save_dispute(id, d) =>
                 /\ dispute'[id] = d
                 /\ \A other \in Ids \ {id} : dispute'[other] = dispute[other]
           /\ \A l : book(id, l) =>
                 /\ ledger'[id] = l
                 /\ \A other \in Ids \ {id} : ledger'[other] = ledger[other]
BY DEF TypeOK, save_escrow, save_dispute, book

(* The step of one escrow.                                                 *)
OnlyTouches(id) ==
    \A other \in Ids \ {id} :
        /\ escrow'[other] = escrow[other]
        /\ dispute'[other] = dispute[other]
        /\ ledger'[other] = ledger[other]

(* A call changes one escrow; the sound books of the others stay sound.    *)
LEMMA OneEscrowStep ==
    ASSUME BooksInv, NEW id \in Ids, OnlyTouches(id), next_id' = next_id,
           escrow[id].state # "Absent",
           SoundBooks(escrow'[id], dispute'[id], ledger'[id])
    PROVE  BooksInv'
<1>1. FreshIds'
  BY DEF BooksInv, FreshIds, OnlyTouches, Ids
<1>2. \A i \in Ids : SoundBooks(escrow'[i], dispute'[i], ledger'[i])
  BY Zenon DEF BooksInv, OnlyTouches
<1> QED
  BY <1>1, <1>2 DEF BooksInv
-----------------------------------------------------------------------------
(* Creation.                                                               *)

(* The creators that take a single seller store a list that validates.     *)
LEMMA SinglePayeeIsAccepted ==
    ASSUME NEW payees \in Seq(Payee), Len(payees) = 1,
           payees[1].bps = BASIS_POINTS
    PROVE  IsAcceptedList(payees)
<1>1. IsPayeeList(payees)
  BY StoredPayees
<1>2. PICK f \in [0..Len(payees) -> Int] :
         /\ bps_total(payees) = f[Len(payees)]
         /\ \A n \in 0..Len(payees) :
               f[n] = IF n = 0 THEN 0 ELSE f[n - 1] + payees[n].bps
  BY <1>1, BpsSums
<1>3. f[0] = 0 /\ f[1] = f[0] + payees[1].bps
  BY <1>2, SMT
<1>4. bps_total(payees) = BASIS_POINTS
  BY <1>2, <1>3, SMT DEF BASIS_POINTS
<1> QED
  BY <1>1, <1>4, SMT DEF IsAcceptedList, validate_payees, MAX_PAYEES

(* A new escrow takes the next free id and starts with empty books.        *)
LEMMA NewEscrowBooks ==
    ASSUME TypeOK, BooksInv, NEW t \in Terms, NewEscrow(t),
           t.fee_bps <= MAX_ESCROW_FEE_BPS,
           t.resolver_fee_bps <= MAX_ESCROW_FEE_BPS,
           IsAcceptedList(t.payees)
    PROVE  BooksInv'
<1> DEFINE id == next_id
           f == escrow'[id]
           d == dispute[id]
           l == ledger[id]
<1>1. id \in Ids /\ id \in Int /\ next_id' = id + 1
  BY DEF NewEscrow, Ids
<1>2. UNCHANGED <<dispute, ledger>>
  BY DEF NewEscrow
<1>3. /\ f.state = "Pending" /\ f.payees = t.payees /\ f.amount = t.amount
      /\ f.fee_bps = t.fee_bps /\ f.resolver_fee_bps = t.resolver_fee_bps
      /\ \A other \in Ids \ {id} : escrow'[other] = escrow[other]
  BY <1>1, Entries DEF NewEscrow
<1>4. escrow[id].state = "Absent" /\ SoundBooks(escrow[id], d, l)
  BY <1>1 DEF BooksInv, FreshIds
<1> HIDE DEF id, f, d, l
<1>5. SoundBooks(f, d, l)
  <2>1. Priced(f)
    BY <1>3, TermsTypes DEF Priced
  <2>2. Balanced(f, l)
    BY <1>3, <1>4 DEF SoundBooks, Balanced, HoldingStates
  <2>3. Unsettled(f, d, l) /\ FeesBooked(f, d, l) /\ OneSided(f, d, l)
    BY <1>3, <1>4 DEF SoundBooks, Unsettled, FeesBooked, OneSided,
                      TerminalStates, DisputedStates
  <2> QED
    BY <2>1, <2>2, <2>3 DEF SoundBooks
<1>6. \A i \in Ids : SoundBooks(escrow'[i], dispute'[i], ledger'[i])
  <2>1. ASSUME NEW i \in Ids \ {id}
        PROVE  SoundBooks(escrow'[i], dispute'[i], ledger'[i])
    BY <1>2, <1>3 DEF BooksInv
  <2>2. SoundBooks(escrow'[id], dispute'[id], ledger'[id])
    BY <1>2, <1>5 DEF f, d, l
  <2> QED
    BY <2>1, <2>2
<1>7. FreshIds'
  <2>1. ASSUME NEW i \in Ids, i >= next_id'
        PROVE  escrow'[i].state = "Absent"
    <3>1. i >= id /\ i # id
      BY <1>1, <2>1 DEF Ids
    <3>2. escrow'[i] = escrow[i]
      BY <1>3, <3>1
    <3> QED
      BY <3>1, <3>2 DEF BooksInv, FreshIds, id
  <2> QED
    BY <2>1 DEF FreshIds
<1> QED
  BY <1>6, <1>7 DEF BooksInv

(* Each creator checks what NewEscrowBooks needs of its arguments.         *)
LEMMA CreationBooks ==
    ASSUME TypeOK, BooksInv, NEW t \in Terms,
           \/ create_escrow(t)
           \/ create_escrow_with_expiration(t)
           \/ create_escrow_multi(t)
           \/ create_escrow_with_fallback(t)
           \/ create_basket_escrow(t)
    PROVE  BooksInv'
<1>1. 0 <= MAX_ESCROW_FEE_BPS /\ t.payees \in Seq(Payee)
  BY TermsTypes DEF MAX_ESCROW_FEE_BPS
<1>2. CASE create_escrow_internal(t)
  <2>1. IsAcceptedList(t.payees)
    BY <1>1, <1>2, StoredPayees DEF create_escrow_internal, IsAcceptedList
  <2> QED
    BY <1>2, <2>1, NewEscrowBooks DEF create_escrow_internal, validate_price
<1>3. ASSUME NEW kind, create_with_resolver_set(t, kind)
      PROVE  BooksInv'
  <2>1. IsAcceptedList(t.payees)
    BY <1>1, <1>3, SinglePayeeIsAccepted DEF create_with_resolver_set
  <2> QED
    BY <1>1, <1>3, <2>1, NewEscrowBooks DEF create_with_resolver_set, validate_price
<1>4. CASE create_basket_escrow(t)
  <2>1. IsAcceptedList(t.payees)
    BY <1>1, <1>4, SinglePayeeIsAccepted DEF create_basket_escrow, validate_basket_roles
  <2> QED
    BY <1>1, <1>4, <2>1, NewEscrowBooks DEF create_basket_escrow, validate_price
<1> QED
  BY <1>2, <1>3, <1>4 DEF create_escrow, create_escrow_with_expiration,
                          create_escrow_multi, create_escrow_with_fallback
-----------------------------------------------------------------------------
(* The exits.                                                              *)

(* Whoever takes the whole remainder back to the buyer keeps the books.    *)
LEMMA RefundStep ==
    ASSUME TypeOK, BooksInv, NEW id \in Ids,
           NEW s \in TerminalStates \ {"Completed"},
           escrow[id].state \in HoldingStates,
           move_to(id, s), pay_buyer_in_full(id),
           \A other \in Ids \ {id} : dispute'[other] = dispute[other],
           dispute'[id].resolver_fee = dispute[id].resolver_fee,
           dispute'[id].fees_charged = dispute[id].fees_charged,
           next_id' = next_id
    PROVE  BooksInv'
<1> DEFINE e == escrow[id]
           l == ledger[id]
<1>1. e \in EscrowRecord /\ l \in Ledger /\ SoundBooks(e, dispute[id], l)
  BY Entries DEF BooksInv
<1> DEFINE f == [e EXCEPT !.state = s]
           m == [l EXCEPT !.to_buyer = @ + payout(e.amount),
                          !.basket_to_buyer = @ + e.basket]
<1>2. SoundBooks(f, dispute'[id], m)
  BY <1>1, RefundedBooks
<1>3. save_escrow(id, f) /\ book(id, m) /\ e.state # "Absent"
  BY DEF move_to, pay_buyer_in_full, HoldingStates
<1> HIDE DEF f, m
<1>4. escrow'[id] = f /\ ledger'[id] = m /\ OnlyTouches(id)
  BY <1>3, Entries DEF OnlyTouches
<1> QED
  BY <1>2, <1>3, <1>4, OneEscrowStep

(* An unpaid escrow is closed without a transfer.                          *)
LEMMA ClosedUnpaidStep ==
    ASSUME TypeOK, BooksInv, NEW id \in Ids, escrow[id].state = "Pending",
           move_to(id, "Canceled"), UNCHANGED <<dispute, ledger>>,
           next_id' = next_id
    PROVE  BooksInv'
<1>1. /\ escrow[id] \in EscrowRecord /\ ledger[id] \in Ledger
      /\ SoundBooks(escrow[id], dispute[id], ledger[id])
  BY Entries DEF BooksInv
<1>2. /\ escrow'[id] = [escrow[id] EXCEPT !.state = "Canceled"]
      /\ OnlyTouches(id)
  BY Entries, Zenon DEF move_to, OnlyTouches
<1>3. SoundBooks(escrow'[id], dispute'[id], ledger'[id])
  BY <1>1, <1>2, ClosedUnpaidBooks
<1> QED
  BY <1>2, <1>3, OneEscrowStep

(* Cancellations, refunds and the two emergency exits.                     *)
LEMMA RefundBooks ==
    ASSUME TypeOK, BooksInv, NEW id \in Ids,
           \/ auto_cancel_pending(id)
           \/ mutual_cancel(id)
           \/ emergency_drain(id)
           \/ \E caller \in Address :
                 \/ cancel_escrow(caller, id)
                 \/ approve_refund(caller, id)
                 \/ reclaim_expired(caller, id)
                 \/ cancel_pending_finalization(caller, id)
                 \/ recovery_withdraw(caller, id)
    PROVE  BooksInv'
<1>1. CASE auto_cancel_pending(id)
  BY <1>1, ClosedUnpaidStep
     DEF auto_cancel_pending, creation_vars, dispute_vars
<1>2. CASE mutual_cancel(id)
  BY <1>2, RefundStep
     DEF mutual_cancel, HoldingStates, TerminalStates, creation_vars, dispute_vars
<1>3. ASSUME NEW states \in SUBSET HoldingStates, refund_from(id, states)
      PROVE  BooksInv'
  BY <1>3, RefundStep
     DEF refund_from, TerminalStates, creation_vars, dispute_vars
<1>4. ASSUME NEW caller \in Address, cancel_escrow(caller, id)
      PROVE  BooksInv'
  <2>1. CASE escrow[id].state = "Pending" /\ move_to(id, "Canceled")
             /\ UNCHANGED <<counters, ledger>>
    BY <1>4, <2>1, ClosedUnpaidStep DEF cancel_escrow, creation_vars, dispute_vars
  <2>2. CASE escrow[id].state = "Funded" /\ move_to(id, "Refunded")
             /\ pay_buyer_in_full(id)
    BY <1>4, <2>2, RefundStep
       DEF cancel_escrow, HoldingStates, TerminalStates, creation_vars, dispute_vars
  <2> QED
    BY <1>4, <2>1, <2>2 DEF cancel_escrow
<1>5. ASSUME NEW caller \in Address,
             approve_refund(caller, id) \/ reclaim_expired(caller, id)
      PROVE  BooksInv'
  BY <1>5, RefundStep
     DEF approve_refund, reclaim_expired, HoldingStates, TerminalStates,
         creation_vars, dispute_vars
<1>6. ASSUME NEW caller \in Address, cancel_pending_finalization(caller, id)
      PROVE  BooksInv'
  <2>1. /\ dispute'[id] = [dispute[id] EXCEPT
               !.status = "Resolved", !.resolved_by = caller,
               !.resolution = REFUND_DISCRIMINANT, !.resolved_at = now]
        /\ \A other \in Ids \ {id} : dispute'[other] = dispute[other]
        /\ dispute[id] \in DisputeRecord
    BY <1>6, Entries DEF cancel_pending_finalization
  <2>2. /\ dispute'[id].resolver_fee = dispute[id].resolver_fee
        /\ dispute'[id].fees_charged = dispute[id].fees_charged
    BY <2>1 DEF DisputeRecord
  <2> QED
    BY <1>6, <2>1, <2>2, RefundStep
       DEF cancel_pending_finalization, HoldingStates, TerminalStates, creation_vars
<1> QED
  BY <1>1, <1>2, <1>3, <1>4, <1>5, <1>6 DEF emergency_drain, recovery_withdraw

(* A settlement in favour of the payees: the fee goes to the collector and *)
(* the split gives the payees all of the rest.                             *)
LEMMA ReleaseStep ==
    ASSUME TypeOK, BooksInv, NEW id \in Ids, NEW fee_bps \in Nat,
           fee_bps <= MAX_PROTOCOL_FEE_BPS,
           escrow[id].state \in HoldingStates,
           move_to(id, "Completed"),
           NEW paid, paid = escrow[id].amount
                               - calculate_fee(escrow[id].amount, fee_bps),
           book(id, [ledger[id] EXCEPT
              !.to_collector = @ + payout(calculate_fee(escrow[id].amount, fee_bps)),
              !.to_payees = @ + paid,
              !.basket_to_seller = @ + escrow[id].basket]),
           UNCHANGED dispute, next_id' = next_id
    PROVE  BooksInv'
<1> DEFINE e == escrow[id]
           l == ledger[id]
           fee == calculate_fee(e.amount, fee_bps)
           f == [e EXCEPT !.state = "Completed"]
           m == [l EXCEPT !.to_collector = @ + payout(fee),
                          !.to_payees = @ + paid,
                          !.basket_to_seller = @ + e.basket]
<1>1. e \in EscrowRecord /\ l \in Ledger /\ SoundBooks(e, dispute[id], l)
  BY Entries DEF BooksInv
<1>2. e.state # "Absent" /\ e.amount \in Nat
  BY <1>1, PricedParts DEF HoldingStates
<1>3. fee \in 0..e.amount
  BY <1>2, FeeShare, SMT DEF MAX_PROTOCOL_FEE_BPS, BASIS_POINTS
<1>4. save_escrow(id, f) /\ book(id, m)
  BY DEF move_to
<1>5. /\ m.deposited = l.deposited /\ m.to_buyer = l.to_buyer
      /\ m.to_payees = l.to_payees + paid
      /\ m.to_collector = l.to_collector + payout(fee)
      /\ m.to_resolver = l.to_resolver /\ m.to_treasury = l.to_treasury
      /\ m.basket_deposited = l.basket_deposited
      /\ m.basket_to_buyer = l.basket_to_buyer
      /\ m.basket_to_seller = l.basket_to_seller + e.basket
  BY <1>1 DEF Ledger
<1>6. paid = e.amount - fee
  OBVIOUS
<1> HIDE DEF m, fee
<1>7. payout(fee) = fee
  BY <1>3, PayoutOfNat
<1> DEFINE price == e.amount
<1>8. price \in Nat /\ fee \in 0..price /\ paid = price - fee
  BY <1>2, <1>3, <1>6
<1> HIDE DEF price
<1>9. fee \in Int /\ paid \in Int /\ 0 \in Int /\ fee + 0 + paid = price
  BY <1>8, SMT
<1>10. l.to_treasury = l.to_treasury + 0
  BY <1>1, LedgerParts
<1>11. SoundBooks(f, dispute[id], m)
  BY <1>1, <1>5, <1>7, <1>9, <1>10, ReleasedBooks DEF price
<1> HIDE DEF f
<1>12. escrow'[id] = f /\ ledger'[id] = m /\ OnlyTouches(id)
  BY <1>4, Entries DEF OnlyTouches
<1> QED
  BY <1>2, <1>11, <1>12, OneEscrowStep

(* A fee at one of the contract's rates leaves a natural number.           *)
LEMMA AfterFee ==
    ASSUME TypeOK, BooksInv, NEW id \in Ids, NEW fee_bps \in Nat,
           fee_bps <= MAX_PROTOCOL_FEE_BPS, escrow[id].state # "Absent"
    PROVE  LET e == escrow[id]
               rest == e.amount - calculate_fee(e.amount, fee_bps)
           IN  rest \in Nat /\ IsAcceptedList(e.payees)
<1>1. /\ escrow[id] \in EscrowRecord
      /\ SoundBooks(escrow[id], dispute[id], ledger[id])
  BY Entries DEF BooksInv
<1>2. escrow[id].amount \in Nat /\ IsAcceptedList(escrow[id].payees)
  BY <1>1, PricedParts
<1>3. calculate_fee(escrow[id].amount, fee_bps) \in 0..escrow[id].amount
  BY <1>2, FeeShare, SMT DEF MAX_PROTOCOL_FEE_BPS, BASIS_POINTS
<1> DEFINE fee == calculate_fee(escrow[id].amount, fee_bps)
           price == escrow[id].amount
<1>4. price \in Nat /\ fee \in 0..price
  BY <1>2, <1>3
<1> HIDE DEF fee, price
<1>5. price - fee \in Nat
  BY <1>4, SMT
<1> QED
  BY <1>2, <1>5 DEF fee, price

(* settle_escrow_to_payees splits all of what the fee leaves.              *)
LEMMA SettleStep ==
    ASSUME TypeOK, BooksInv, NEW id \in Ids, NEW fee_bps \in Nat,
           fee_bps <= MAX_PROTOCOL_FEE_BPS,
           escrow[id].state \in HoldingStates,
           settle_escrow_to_payees(id, fee_bps),
           UNCHANGED dispute, next_id' = next_id
    PROVE  BooksInv'
<1> DEFINE rest == escrow[id].amount - calculate_fee(escrow[id].amount, fee_bps)
           paid == distribute_to_payees(rest, escrow[id].payees)
<1>1. escrow[id].state # "Absent"
  BY DEF HoldingStates
<1>2. rest \in Nat /\ IsAcceptedList(escrow[id].payees)
  BY <1>1, AfterFee
<1>3. paid = rest
  BY <1>2, SplitIsExactForAll
<1>4. /\ move_to(id, "Completed")
      /\ book(id, [ledger[id] EXCEPT
            !.to_collector = @ + payout(calculate_fee(escrow[id].amount, fee_bps)),
            !.to_payees = @ + paid,
            !.basket_to_seller = @ + escrow[id].basket])
  BY DEF settle_escrow_to_payees
<1> HIDE DEF paid
<1> QED
  BY <1>3, <1>4, ReleaseStep

(* auto_release, co_signed_release and confirm_delivery.                   *)
LEMMA SettlementBooks ==
    ASSUME TypeOK, BooksInv, NEW id \in Ids,
           \/ auto_release(id)
           \/ co_signed_release(id)
           \/ \E caller \in Address, waive \in BOOLEAN :
                 confirm_delivery(caller, id, waive)
    PROVE  BooksInv'
<1>1. ProtocolFeeBps \in Nat /\ ProtocolFeeBps <= MAX_PROTOCOL_FEE_BPS
  BY ConfigAssumption, SMT DEF MAX_PROTOCOL_FEE_BPS
<1>2. CASE auto_release(id)
  BY <1>1, <1>2, SettleStep
     DEF auto_release, ensure_auto_release_eligible, HoldingStates,
         creation_vars, dispute_vars
<1>3. CASE co_signed_release(id)
  <2> DEFINE rest == escrow[id].amount
                        - calculate_fee(escrow[id].amount, ProtocolFeeBps)
             paid == payout(rest)
  <2>1. escrow[id].state # "Absent" /\ escrow[id].state \in HoldingStates
    BY <1>3 DEF co_signed_release, HoldingStates
  <2>2. rest \in Nat
    BY <1>1, <2>1, AfterFee
  <2>3. paid = rest
    BY <2>2, PayoutOfNat
  <2>4. /\ move_to(id, "Completed")
        /\ book(id, [ledger[id] EXCEPT
              !.to_collector =
                 @ + payout(calculate_fee(escrow[id].amount, ProtocolFeeBps)),
              !.to_payees = @ + paid,
              !.basket_to_seller = @ + escrow[id].basket])
        /\ UNCHANGED dispute /\ next_id' = next_id
    BY <1>3 DEF co_signed_release, creation_vars, dispute_vars
  <2> HIDE DEF paid
  <2> QED
    BY <1>1, <2>1, <2>3, <2>4, ReleaseStep
<1>4. ASSUME NEW caller \in Address, NEW waive \in BOOLEAN,
             confirm_delivery(caller, id, waive)
      PROVE  BooksInv'
  <2>1. escrow[id].state = "Shipped" /\ escrow[id].state \in HoldingStates
    BY <1>4 DEF confirm_delivery, HoldingStates
  <2>2. /\ escrow[id] \in EscrowRecord
        /\ SoundBooks(escrow[id], dispute[id], ledger[id])
    BY Entries DEF BooksInv
  <2>3. escrow[id].fee_bps \in Nat /\ escrow[id].fee_bps <= MAX_PROTOCOL_FEE_BPS
    BY <2>1, <2>2, PricedParts, SMT DEF MAX_PROTOCOL_FEE_BPS, MAX_ESCROW_FEE_BPS
  <2> QED
    BY <1>4, <2>1, <2>3, SettleStep
       DEF confirm_delivery, creation_vars, dispute_vars
<1> QED
  BY <1>2, <1>3, <1>4

-----------------------------------------------------------------------------
(* The steps that pay nobody.                                              *)

(* The whole price and basket come in when an escrow is funded.            *)
LEMMA FundStep ==
    ASSUME TypeOK, TypeOK', BooksInv, NEW id \in Ids, NEW buyer \in Address,
           fund(buyer, id)
    PROVE  BooksInv'
<1> DEFINE e == escrow[id]
           l == ledger[id]
           f == [e EXCEPT !.state = "Funded", !.buyer = buyer,
                          !.funded_at = pack_timestamp(now),
                          !.dispute_deadline = pack_timestamp(now + DISPUTE_WINDOW)]
           m == [l EXCEPT !.deposited = @ + e.amount,
                          !.basket_deposited = @ + e.basket]
<1>1. /\ e \in EscrowRecord /\ l \in Ledger /\ SoundBooks(e, dispute[id], l)
      /\ ledger'[id] \in Ledger
  BY Entries DEF BooksInv, TypeOK
<1>2. /\ e.state = "Pending" /\ save_escrow(id, f) /\ book(id, m)
      /\ UNCHANGED dispute /\ next_id' = next_id
  BY DEF fund, creation_vars, dispute_vars
<1>3. e.amount \in Nat /\ e.basket \in Nat /\ e.state # "Absent"
  BY <1>1, <1>2, PricedParts
<1>4. f.state = "Funded" /\ SamePrice(e, f)
  BY <1>1 DEF EscrowRecord, SamePrice
<1>5. /\ m.deposited = l.deposited + e.amount
      /\ m.basket_deposited = l.basket_deposited + e.basket
      /\ m.to_buyer = l.to_buyer /\ m.to_payees = l.to_payees
      /\ m.to_collector = l.to_collector /\ m.to_resolver = l.to_resolver
      /\ m.to_treasury = l.to_treasury /\ m.basket_to_buyer = l.basket_to_buyer
      /\ m.basket_to_seller = l.basket_to_seller
  BY <1>1 DEF Ledger
<1> HIDE DEF f, m
<1>6. escrow'[id] = f /\ ledger'[id] = m /\ OnlyTouches(id)
  BY <1>2, Entries DEF OnlyTouches
<1>7. SoundBooks(f, dispute[id], m)
  BY <1>1, <1>2, <1>3, <1>4, <1>5, <1>6, FundedBooks
<1> QED
  BY <1>2, <1>3, <1>6, <1>7, OneEscrowStep

(* A step between two states that hold the money, outside a dispute.       *)
LEMMA MoveStep ==
    ASSUME TypeOK, BooksInv, NEW id \in Ids, NEW f,
           save_escrow(id, f), SamePrice(escrow[id], f),
           escrow[id].state \in HoldingStates, f.state \in HoldingStates,
           f.state \in DisputedStates => f.state = escrow[id].state,
           escrow[id].state \in DisputedStates => f.state \in DisputedStates,
           UNCHANGED <<dispute, ledger>>, next_id' = next_id
    PROVE  BooksInv'
<1>1. SoundBooks(escrow[id], dispute[id], ledger[id])
  BY DEF BooksInv
<1>2. escrow'[id] = f /\ OnlyTouches(id) /\ escrow[id].state # "Absent"
  BY Entries DEF OnlyTouches, HoldingStates
<1>3. /\ f.state \in DisputedStates =>
            dispute[id].arbitration_fee = ledger[id].to_collector
      /\ f.state = "PendingFinalization" => dispute[id].fees_charged
  BY <1>1 DEF SoundBooks, FeesBooked, DisputedStates
<1>4. SoundBooks(f, dispute[id], ledger[id])
  BY <1>1, <1>3, MovedBooks
<1> QED
  BY <1>2, <1>4, OneEscrowStep

(* Shipping, deliveries, requested refunds and new resolvers move no       *)
(* money.                                                                  *)
LEMMA DeliveryBooks ==
    ASSUME TypeOK, BooksInv, NEW id \in Ids, NEW caller \in Address,
           \/ mark_shipped(caller, id)
           \/ record_delivery(caller, id)
           \/ request_refund(caller, id)
           \/ \E new_resolver \in Address : rotate_resolver(caller, id, new_resolver)
           \/ propose_record_delivery(caller, id)
           \/ cancel_delivery_proposal(caller, id)
           \/ reject_delivery_proposal(caller, id)
    PROVE  BooksInv'
<1> DEFINE e == escrow[id]
<1>1. e \in EscrowRecord /\ SoundBooks(e, dispute[id], ledger[id])
  BY Entries DEF BooksInv
<1>2. CASE mark_shipped(caller, id)
  <2> DEFINE f == [e EXCEPT !.state = "Shipped", !.shipped_at = now]
  <2>1. SamePrice(e, f) /\ f.state = "Shipped"
    BY <1>1 DEF SamePrice, EscrowRecord
  <2>2. /\ save_escrow(id, f) /\ e.state \in {"Funded", "RefundRequested"}
        /\ UNCHANGED <<dispute, ledger>> /\ next_id' = next_id
    BY <1>2 DEF mark_shipped, creation_vars, dispute_vars
  <2> HIDE DEF f
  <2> QED
    BY <2>1, <2>2, MoveStep DEF HoldingStates, DisputedStates
<1>3. CASE record_delivery(caller, id)
  <2> DEFINE f == [e EXCEPT !.delivered_at = now]
  <2>1. SamePrice(e, f) /\ f.state = e.state
    BY <1>1 DEF SamePrice, EscrowRecord
  <2>2. /\ save_escrow(id, f) /\ e.state = "Shipped"
        /\ UNCHANGED <<dispute, ledger>> /\ next_id' = next_id
    BY <1>3 DEF record_delivery, creation_vars, dispute_vars
  <2> HIDE DEF f
  <2> QED
    BY <2>1, <2>2, MoveStep DEF HoldingStates, DisputedStates
<1>4. CASE request_refund(caller, id)
  <2> DEFINE f == [e EXCEPT !.state = "RefundRequested"]
  <2>1. SamePrice(e, f) /\ f.state = "RefundRequested"
    BY <1>1 DEF SamePrice, EscrowRecord
  <2>2. /\ save_escrow(id, f) /\ e.state = "Funded"
        /\ UNCHANGED <<dispute, ledger>> /\ next_id' = next_id
    BY <1>4 DEF request_refund, move_to, creation_vars, dispute_vars
  <2> HIDE DEF f
  <2> QED
    BY <2>1, <2>2, MoveStep DEF HoldingStates, DisputedStates
<1>5. ASSUME NEW new_resolver \in Address, rotate_resolver(caller, id, new_resolver)
      PROVE  BooksInv'
  <2> DEFINE f == [e EXCEPT !.resolvers.members = <<new_resolver>>]
  <2>1. SamePrice(e, f) /\ f.state = e.state
    BY <1>1 DEF SamePrice, EscrowRecord
  <2>2. /\ save_escrow(id, f) /\ e.state \notin TerminalStates \cup {"Absent"}
        /\ UNCHANGED <<dispute, ledger>> /\ next_id' = next_id
    BY <1>5 DEF rotate_resolver, creation_vars, dispute_vars
  <2> HIDE DEF f
  <2>3. CASE e.state \in HoldingStates
    BY <2>1, <2>2, <2>3, MoveStep
  <2>4. CASE e.state = "Pending"
    <3>1. SoundBooks(f, dispute[id], ledger[id])
      BY <1>1, <2>1, <2>4
         DEF SoundBooks, Priced, Balanced, Unsettled, FeesBooked, OneSided,
             SamePrice, HoldingStates, TerminalStates, DisputedStates
    <3>2. escrow'[id] = f /\ OnlyTouches(id)
      BY <2>2, Entries DEF OnlyTouches
    <3> QED
      BY <2>2, <2>4, <3>1, <3>2, OneEscrowStep
  <2> QED
    BY <1>1, <2>2, <2>3, <2>4
       DEF EscrowRecord, EscrowStates, TerminalStates, HoldingStates
<1>6. CASE UNCHANGED <<escrow, dispute, ledger>> /\ next_id' = next_id
  BY <1>6 DEF BooksInv, FreshIds
<1> QED
  BY <1>2, <1>3, <1>4, <1>5, <1>6
     DEF propose_record_delivery, cancel_delivery_proposal,
         reject_delivery_proposal, drop_delivery_proposal, creation_vars,
         dispute_vars

(* All of the trade.                                                       *)
LEMMA TradeBooks ==
    ASSUME TypeOK, TypeOK', BooksInv, Trade
    PROVE  BooksInv'
<1>1. ASSUME NEW id \in Ids, NEW caller \in Address,
             fund_escrow(caller, id) \/ fund_basket_escrow(caller, id)
      PROVE  BooksInv'
  BY <1>1, FundStep DEF fund_escrow, fund_basket_escrow
<1> QED
  BY <1>1, CreationBooks, RefundBooks, SettlementBooks, DeliveryBooks DEF Trade

-----------------------------------------------------------------------------
(* Disputes.                                                               *)

(* A dispute starts with no fee on record, and none has been paid.         *)
LEMMA RaiseBooks ==
    ASSUME TypeOK, BooksInv, NEW id \in Ids, NEW caller \in Address,
           raise_dispute(caller, id)
    PROVE  BooksInv'
<1> DEFINE e == escrow[id]
           d == dispute[id]
           l == ledger[id]
           f == [e EXCEPT !.state = "Disputed"]
           raised == [NoDispute EXCEPT !.status = "Active", !.disputed_at = now]
<1>1. e \in EscrowRecord /\ l \in Ledger /\ SoundBooks(e, d, l)
  BY Entries DEF BooksInv
<1>2. /\ e.state \in {"Funded", "Shipped"} /\ save_escrow(id, f)
      /\ save_dispute(id, raised) /\ UNCHANGED ledger /\ next_id' = next_id
  BY DEF raise_dispute, move_to, creation_vars
<1>3. f.state = "Disputed" /\ SamePrice(e, f)
  BY <1>1 DEF EscrowRecord, SamePrice
<1>4. raised.resolver_fee = 0 /\ raised.arbitration_fee = 0
  BY DEF NoDispute
<1> HIDE DEF f, raised
<1>5. /\ escrow'[id] = f /\ dispute'[id] = raised /\ ledger'[id] = l
      /\ OnlyTouches(id)
  BY <1>2, Entries DEF OnlyTouches
<1>6. l.to_collector = 0 /\ l.to_resolver = 0 /\ d.resolver_fee = 0
  BY <1>1, <1>2 DEF SoundBooks, Unsettled, FeesBooked, TerminalStates, DisputedStates
<1>7. /\ e.state \in HoldingStates /\ f.state \in HoldingStates
      /\ e.state \notin DisputedStates /\ f.state # "PendingFinalization"
      /\ e.state # "Absent"
  BY <1>2, <1>3 DEF HoldingStates, DisputedStates
<1>8. SoundBooks(f, raised, l)
  BY <1>1, <1>3, <1>4, <1>6, <1>7, MovedBooks
<1> QED
  BY <1>2, <1>5, <1>7, <1>8, OneEscrowStep

(* An appeal keeps the record of what the earlier rounds charged.          *)
LEMMA AppealBooks ==
    ASSUME TypeOK, BooksInv, NEW id \in Ids, NEW caller \in Address,
           appeal_dispute(caller, id)
    PROVE  BooksInv'
<1> DEFINE e == escrow[id]
           d == dispute[id]
           l == ledger[id]
           f == [e EXCEPT !.state = "Disputed"]
           fee == payout(calculate_fee(e.amount, config.appeal_fee_bps))
           count == d.appeal_count + 1
           reopened == [d EXCEPT !.status = "Active", !.resolution = 0,
                           !.resolved_by = None, !.resolved_at = 0,
                           !.appeal_count = count]
           paid == l.appeal_fees + fee
           m == [l EXCEPT !.appeal_fees = paid]
<1>1. /\ e \in EscrowRecord /\ l \in Ledger /\ d \in DisputeRecord
      /\ SoundBooks(e, d, l)
  BY Entries DEF BooksInv
<1>2. /\ e.state = "PendingFinalization" /\ save_escrow(id, f)
      /\ save_dispute(id, reopened) /\ book(id, m) /\ next_id' = next_id
  BY DEF appeal_dispute, move_to, creation_vars
<1>3. f.state = "Disputed" /\ SamePrice(e, f)
  BY <1>1 DEF EscrowRecord, SamePrice
<1> HIDE DEF f, count, paid
<1>4. /\ reopened.resolver_fee = d.resolver_fee
      /\ reopened.arbitration_fee = d.arbitration_fee
      /\ reopened.fees_charged = d.fees_charged
  BY <1>1 DEF DisputeRecord
<1> HIDE DEF reopened
<1>5. /\ e.state \in HoldingStates /\ f.state \in HoldingStates
      /\ e.state \in DisputedStates /\ f.state \in DisputedStates
      /\ f.state # "PendingFinalization" /\ e.state # "Absent"
  BY <1>2, <1>3 DEF HoldingStates, DisputedStates
<1>6. d.arbitration_fee = l.to_collector
  BY <1>1, <1>5 DEF SoundBooks, FeesBooked
<1>7. SoundBooks(f, reopened, l)
  BY <1>1, <1>3, <1>4, <1>5, <1>6, MovedBooks
<1>8. SoundBooks(f, reopened, m)
  BY <1>1, <1>7, AppealFeeIsOutside
<1> HIDE DEF m
<1>9. /\ escrow'[id] = f /\ dispute'[id] = reopened /\ ledger'[id] = m
      /\ OnlyTouches(id)
  BY <1>2, Entries DEF OnlyTouches
<1> QED
  BY <1>2, <1>5, <1>8, <1>9, OneEscrowStep

(* The two fees of a decision, at the rates their setters accept, are at   *)
(* most 8% of the principal.                                               *)
LEMMA DecisionFees ==
    ASSUME TypeOK, NEW amount \in Nat, NEW resolver_fee_bps \in Nat,
           resolver_fee_bps <= MAX_ESCROW_FEE_BPS
    PROVE  LET arbitration_fee == calculate_fee(amount, config.arbitration_fee_bps)
               resolver_fee == calculate_fee(amount, resolver_fee_bps)
           IN  /\ arbitration_fee \in Nat /\ resolver_fee \in Nat
               /\ 100 * (arbitration_fee + resolver_fee) <= 8 * amount
<1> DEFINE arbitration_fee == calculate_fee(amount, config.arbitration_fee_bps)
           resolver_fee == calculate_fee(amount, resolver_fee_bps)
<1>1. config.arbitration_fee_bps \in 0..500
  BY DEF TypeOK, Config, MAX_ARBITRATION_FEE_BPS
<1>2. /\ arbitration_fee \in 0..amount
      /\ BASIS_POINTS * arbitration_fee <= amount * 500
  <2>1. /\ config.arbitration_fee_bps \in Nat /\ config.arbitration_fee_bps <= 500
        /\ 500 \in Nat /\ 500 <= BASIS_POINTS
    BY <1>1 DEF BASIS_POINTS
  <2> QED
    BY <2>1, FeeShare
<1>3. resolver_fee \in 0..amount /\ BASIS_POINTS * resolver_fee <= amount * 300
  BY FeeShare, SMT DEF BASIS_POINTS, MAX_ESCROW_FEE_BPS
<1> HIDE DEF arbitration_fee, resolver_fee
<1>4. 100 * (arbitration_fee + resolver_fee) <= 8 * amount
  BY <1>2, <1>3, SMT DEF BASIS_POINTS
<1> QED
  BY <1>2, <1>3, <1>4, SMT DEF arbitration_fee, resolver_fee

(* A decision moves its fees once and records that it did.                 *)
LEMMA TransitionBooks ==
    ASSUME TypeOK, TypeOK', BooksInv, NEW id \in Ids, NEW caller, NEW r, NEW v,
           NEW charge_fees \in BOOLEAN, escrow[id].state = "Disputed",
           execute_resolution_transition(id, caller, r, v, charge_fees)
    PROVE  BooksInv'
<1> DEFINE e == escrow[id]
           d == dispute[id]
           l == ledger[id]
           arbitration_fee == calculate_fee(e.amount, config.arbitration_fee_bps)
           resolver_fee == calculate_fee(e.amount, e.resolver_fee_bps)
           decided == [d EXCEPT !.resolution = resolution_code(r),
                                !.resolved_by = caller, !.resolved_at = now,
                                !.fees_charged = TRUE]
           rest == e.amount - arbitration_fee - resolver_fee
<1>1. /\ e \in EscrowRecord /\ l \in Ledger /\ d \in DisputeRecord
      /\ SoundBooks(e, d, l) /\ ledger'[id] \in Ledger
  BY Entries DEF BooksInv, TypeOK
<1>2. /\ e.state # "Absent" /\ e.state \in HoldingStates
      /\ e.state \in DisputedStates
  BY DEF HoldingStates, DisputedStates
<1>3. next_id' = next_id
  BY DEF execute_resolution_transition, creation_vars
<1>4. /\ decided.fees_charged /\ decided.arbitration_fee = d.arbitration_fee
      /\ decided.resolver_fee = d.resolver_fee
  BY <1>1 DEF DisputeRecord
<1>5. \A a, b : LET d2 == [decided EXCEPT !.arbitration_fee = a, !.resolver_fee = b]
                IN  /\ d2.arbitration_fee = a /\ d2.resolver_fee = b
                    /\ d2.fees_charged
  BY <1>1 DEF DisputeRecord
<1>6. ASSUME ~d.fees_charged,
             arbitration_fee + resolver_fee <= e.amount,
             save_escrow(id, [e EXCEPT !.state = "PendingFinalization",
                                       !.amount = @ - arbitration_fee - resolver_fee]),
             save_dispute(id, [decided EXCEPT !.arbitration_fee = arbitration_fee,
                                              !.resolver_fee = resolver_fee]),
             book(id, [l EXCEPT !.to_collector = @ + payout(arbitration_fee),
                                !.to_resolver = @ + payout(resolver_fee)])
      PROVE  BooksInv'
  <2> DEFINE f == [e EXCEPT !.state = "PendingFinalization", !.amount = rest]
             d2 == [decided EXCEPT !.arbitration_fee = arbitration_fee,
                                   !.resolver_fee = resolver_fee]
             m == [l EXCEPT !.to_collector = @ + payout(arbitration_fee),
                            !.to_resolver = @ + payout(resolver_fee)]
  <2>1. e.amount \in Nat /\ e.resolver_fee_bps \in Nat
        /\ e.resolver_fee_bps <= MAX_ESCROW_FEE_BPS
    BY <1>1, <1>2, PricedParts
  <2>2. /\ arbitration_fee \in Nat /\ resolver_fee \in Nat
        /\ 100 * (arbitration_fee + resolver_fee) <= 8 * e.amount
    BY <2>1, DecisionFees
  <2>3. save_escrow(id, f) /\ save_dispute(id, d2) /\ book(id, m)
    BY <1>6
  <2>4. /\ d2.arbitration_fee = arbitration_fee /\ d2.resolver_fee = resolver_fee
        /\ d2.fees_charged
    BY <1>5
  <2>5. /\ m.deposited = l.deposited /\ m.to_buyer = l.to_buyer
        /\ m.to_payees = l.to_payees /\ m.to_treasury = l.to_treasury
        /\ m.to_collector = l.to_collector + payout(arbitration_fee)
        /\ m.to_resolver = l.to_resolver + payout(resolver_fee)
        /\ m.basket_deposited = l.basket_deposited
        /\ m.basket_to_buyer = l.basket_to_buyer
        /\ m.basket_to_seller = l.basket_to_seller
    BY <1>1 DEF Ledger
  <2> HIDE DEF rest
  <2>6. /\ f.state = "PendingFinalization" /\ f.payees = e.payees
        /\ f.amount = rest /\ f.basket = e.basket /\ f.fee_bps = e.fee_bps
        /\ f.resolver_fee_bps = e.resolver_fee_bps
    BY <1>1 DEF EscrowRecord
  <2>7. rest = e.amount - arbitration_fee - resolver_fee
    BY DEF rest
  <2> HIDE DEF f, d2, m, arbitration_fee, resolver_fee
  <2>8. payout(arbitration_fee) = arbitration_fee /\ payout(resolver_fee) = resolver_fee
    BY <2>2, PayoutOfNat
  <2>9. /\ escrow'[id] = f /\ dispute'[id] = d2 /\ ledger'[id] = m
        /\ OnlyTouches(id)
    BY <2>3, Entries DEF OnlyTouches
  <2>10. SoundBooks(f, d2, m)
    <3>1. /\ m.to_collector = l.to_collector + arbitration_fee
          /\ m.to_resolver = l.to_resolver + resolver_fee
          /\ f.amount = e.amount - arbitration_fee - resolver_fee
          /\ m \in Ledger
      BY <1>1, <2>5, <2>6, <2>7, <2>8, <2>9
    <3>2. ~d.fees_charged /\ arbitration_fee + resolver_fee <= e.amount
      BY <1>6 DEF arbitration_fee, resolver_fee
    <3> QED
      BY <1>1, <2>2, <2>4, <2>5, <2>6, <3>1, <3>2, ChargedBooks
  <2> QED
    BY <1>2, <1>3, <2>9, <2>10, OneEscrowStep
<1>7. ASSUME move_to(id, "PendingFinalization"),
             save_dispute(id,
                IF d.fees_charged THEN decided
                ELSE [decided EXCEPT !.arbitration_fee = 0, !.resolver_fee = 0]),
             UNCHANGED ledger
      PROVE  BooksInv'
  <2> DEFINE f == [e EXCEPT !.state = "PendingFinalization"]
             d2 == IF d.fees_charged THEN decided
                   ELSE [decided EXCEPT !.arbitration_fee = 0, !.resolver_fee = 0]
  <2>1. f.state = "PendingFinalization" /\ SamePrice(e, f) /\ save_escrow(id, f)
    BY <1>1, <1>7 DEF EscrowRecord, SamePrice, move_to
  <2>2. ~d.fees_charged => d.arbitration_fee = 0 /\ d.resolver_fee = 0
    BY <1>1, <1>2 DEF SoundBooks, FeesBooked
  <2>3. /\ d2.arbitration_fee = d.arbitration_fee
        /\ d2.resolver_fee = d.resolver_fee /\ d2.fees_charged
    BY <1>4, <1>5, <2>2
  <2> HIDE DEF f, d2, decided
  <2>4. /\ escrow'[id] = f /\ dispute'[id] = d2 /\ ledger'[id] = l
        /\ OnlyTouches(id)
    BY <1>7, <2>1, Entries DEF OnlyTouches, d2
  <2>5. d.arbitration_fee = l.to_collector /\ f.state \in HoldingStates
        /\ f.state \in DisputedStates
    BY <1>1, <1>2, <2>1 DEF SoundBooks, FeesBooked, HoldingStates, DisputedStates
  <2>6. SoundBooks(f, d2, l)
    BY <1>1, <1>2, <2>1, <2>3, <2>5, MovedBooks
  <2> QED
    BY <1>2, <1>3, <2>4, <2>6, OneEscrowStep
<1> QED
  BY <1>6, <1>7, Zenon DEF execute_resolution_transition, first_charge

(* Every decision is a transition of a disputed escrow or only a vote.     *)
LEMMA DecisionBooks ==
    ASSUME TypeOK, TypeOK', BooksInv, NEW id \in Ids,
           \/ resolve_deadlocked_dispute(id)
           \/ \E caller \in Address :
                 \/ claim_dispute_timeout(caller, id)
                 \/ \E r \in Resolution : resolve_or_vote(caller, id, r)
    PROVE  BooksInv'
<1>1. CASE resolve_deadlocked_dispute(id)
  BY <1>1, TransitionBooks, Zenon DEF resolve_deadlocked_dispute
<1>2. ASSUME NEW caller \in Address, claim_dispute_timeout(caller, id)
      PROVE  BooksInv'
  BY <1>2, TransitionBooks, Zenon DEF claim_dispute_timeout
<1>3. ASSUME NEW caller \in Address, NEW r \in Resolution,
             resolve_or_vote(caller, id, r)
      PROVE  BooksInv'
  <2>1. CASE UNCHANGED <<escrow, dispute, ledger>> /\ next_id' = next_id
    BY <2>1 DEF BooksInv, FreshIds
  <2>2. ASSUME NEW winner, NEW v,
               execute_resolution_transition(id, caller, winner, v, TRUE)
        PROVE  BooksInv'
    <3>1. escrow[id].state = "Disputed"
      BY <1>3, Zenon DEF resolve_or_vote
    <3> QED
      BY <2>2, <3>1, TransitionBooks
  <2> QED
    BY <1>3, <2>1, <2>2, Zenon DEF resolve_or_vote, creation_vars
<1> QED
  BY <1>1, <1>2, <1>3

(* What the decision left covers the two fees of the finalization, which   *)
(* are at most 5% of the principal as it was funded.                       *)
LEMMA PayoutCoversFees ==
    ASSUME TypeOK, BooksInv, NEW id \in Ids,
           escrow[id].state = "PendingFinalization"
    PROVE  /\ platform_fee(id) \in Nat /\ protocol_fee(id) \in Nat
           /\ payout_amount(id) \in Nat
           /\ protocol_fee(id) + platform_fee(id) + payout_amount(id)
                 = escrow[id].amount
<1> DEFINE e == escrow[id]
           d == dispute[id]
           basis == fee_basis(id)
           platform == platform_fee(id)
           protocol == protocol_fee(id)
           paid == payout_amount(id)
           amount == e.amount
           charged == d.arbitration_fee + d.resolver_fee
<1>1. e \in EscrowRecord /\ SoundBooks(e, d, ledger[id])
  BY Entries DEF BooksInv
<1>2. /\ amount \in Nat /\ e.fee_bps \in Nat /\ e.fee_bps <= MAX_ESCROW_FEE_BPS
  BY <1>1, PricedParts
<1>3. /\ d.arbitration_fee \in Nat /\ d.resolver_fee \in Nat
      /\ 100 * (d.arbitration_fee + d.resolver_fee)
            <= 8 * (e.amount + d.arbitration_fee + d.resolver_fee)
  BY <1>1 DEF SoundBooks, FeesBooked, DisputedStates
<1>4. basis = amount + d.arbitration_fee + d.resolver_fee
  BY DEF fee_basis
<1> HIDE DEF basis, amount
<1>5. basis \in Nat /\ 100 * (basis - amount) <= 8 * basis
  <2>1. 100 * charged <= 8 * (amount + d.arbitration_fee + d.resolver_fee)
    BY <1>3 DEF amount
  <2> QED
    BY <1>2, <1>3, <1>4, <2>1, SMT
<1>6. platform \in 0..basis /\ BASIS_POINTS * platform <= basis * 200
  <2>1. config.platform_fee_bps \in 0..200
    BY DEF TypeOK, Config, MAX_PLATFORM_FEE_BPS
  <2>2. /\ config.platform_fee_bps \in Nat /\ config.platform_fee_bps <= 200
        /\ 200 \in Nat /\ 200 <= BASIS_POINTS
    BY <2>1 DEF BASIS_POINTS
  <2> QED
    BY <1>5, <2>2, FeeShare DEF platform_fee, basis
<1>7. protocol \in 0..basis /\ BASIS_POINTS * protocol <= basis * 300
  <2>1. 300 \in Nat /\ 300 <= BASIS_POINTS /\ e.fee_bps <= 300
    BY <1>2 DEF BASIS_POINTS, MAX_ESCROW_FEE_BPS
  <2> QED
    BY <1>2, <1>5, <2>1, FeeShare DEF protocol_fee, basis
<1>8. paid = amount - platform - protocol
  BY DEF payout_amount, amount
<1> HIDE DEF platform, protocol, paid
<1>9. /\ platform \in Nat /\ protocol \in Nat /\ paid \in Nat
      /\ protocol + platform + paid = amount
  BY <1>2, <1>5, <1>6, <1>7, <1>8, SMT DEF BASIS_POINTS
<1> QED
  BY <1>9 DEF platform, protocol, paid, amount

(* The finalization pays the collector, the treasury and the winner, and   *)
(* nothing is left.                                                        *)
LEMMA FinalizeBooks ==
    ASSUME TypeOK, BooksInv, NEW id \in Ids, finalize_dispute(id)
    PROVE  BooksInv'
<1> DEFINE e == escrow[id]
           d == dispute[id]
           l == ledger[id]
           platform == payout(platform_fee(id))
           protocol == payout(protocol_fee(id))
           paid == payout(payout_amount(id))
           closed == [d EXCEPT !.status = "Resolved"]
           after_fees == [l EXCEPT !.to_treasury = @ + platform,
                                   !.to_collector = @ + protocol]
           released == [after_fees EXCEPT !.to_payees = @ + paid,
                                          !.basket_to_seller = @ + e.basket]
           refunded == [after_fees EXCEPT !.to_buyer = @ + paid,
                                          !.basket_to_buyer = @ + e.basket]
           completed == [e EXCEPT !.state = "Completed"]
           returned == [e EXCEPT !.state = "Refunded"]
<1>1. /\ e.state = "PendingFinalization"
      /\ save_dispute(id, closed)
      /\ \/ save_escrow(id, completed) /\ book(id, released)
         \/ save_escrow(id, returned) /\ book(id, refunded)
      /\ next_id' = next_id
  BY DEF finalize_dispute, move_to, creation_vars
<1>2. /\ e \in EscrowRecord /\ l \in Ledger /\ d \in DisputeRecord
      /\ SoundBooks(e, d, l)
  BY Entries DEF BooksInv
<1>3. /\ platform \in Int /\ protocol \in Int /\ paid \in Int
      /\ protocol + platform + paid = e.amount
  BY <1>1, PayoutCoversFees, PayoutOfNat, SMT
<1> HIDE DEF platform, protocol, paid
<1>4. closed.resolver_fee = d.resolver_fee /\ closed.fees_charged = d.fees_charged
  BY <1>2 DEF DisputeRecord
<1>5. /\ DOMAIN after_fees = DOMAIN l
      /\ after_fees.deposited = l.deposited /\ after_fees.to_buyer = l.to_buyer
      /\ after_fees.to_payees = l.to_payees
      /\ after_fees.to_collector = l.to_collector + protocol
      /\ after_fees.to_resolver = l.to_resolver
      /\ after_fees.to_treasury = l.to_treasury + platform
      /\ after_fees.basket_deposited = l.basket_deposited
      /\ after_fees.basket_to_buyer = l.basket_to_buyer
      /\ after_fees.basket_to_seller = l.basket_to_seller
  BY <1>2 DEF Ledger
<1>6. DOMAIN l = {"deposited", "to_buyer", "to_payees", "to_collector",
                  "to_resolver", "to_treasury", "basket_deposited",
                  "basket_to_buyer", "basket_to_seller", "appeal_fees"}
  BY <1>2 DEF Ledger
<1>7. e.state \in HoldingStates /\ e.state # "Absent"
  BY <1>1 DEF HoldingStates
<1> HIDE DEF after_fees
<1>8. SoundBooks(completed, closed, released)
  <2>1. /\ released.deposited = l.deposited /\ released.to_buyer = l.to_buyer
        /\ released.to_payees = l.to_payees + paid
        /\ released.to_collector = l.to_collector + protocol
        /\ released.to_resolver = l.to_resolver
        /\ released.to_treasury = l.to_treasury + platform
        /\ released.basket_deposited = l.basket_deposited
        /\ released.basket_to_buyer = l.basket_to_buyer
        /\ released.basket_to_seller = l.basket_to_seller + e.basket
    BY <1>5, <1>6
  <2> HIDE DEF released, closed
  <2> QED
    BY <1>2, <1>3, <1>4, <1>7, <2>1, ReleasedBooks
<1>9. SoundBooks(returned, closed, refunded)
  <2>1. /\ refunded.deposited = l.deposited
        /\ refunded.to_buyer = l.to_buyer + paid
        /\ refunded.to_payees = l.to_payees
        /\ refunded.to_collector = l.to_collector + protocol
        /\ refunded.to_resolver = l.to_resolver
        /\ refunded.to_treasury = l.to_treasury + platform
        /\ refunded.basket_deposited = l.basket_deposited
        /\ refunded.basket_to_buyer = l.basket_to_buyer + e.basket
        /\ refunded.basket_to_seller = l.basket_to_seller
    BY <1>5, <1>6
  <2> HIDE DEF refunded, closed
  <2> QED
    BY <1>1, <1>2, <1>3, <1>4, <2>1, RefundedAfterFeesBooks
<1> HIDE DEF completed, returned, released, refunded, closed
<1>10. dispute'[id] = closed /\ OnlyTouches(id)
  BY <1>1, Entries DEF OnlyTouches
<1>11. CASE save_escrow(id, completed) /\ book(id, released)
  <2>1. escrow'[id] = completed /\ ledger'[id] = released
    BY <1>11, Entries
  <2> QED
    BY <1>1, <1>7, <1>8, <1>10, <2>1, OneEscrowStep
<1>12. CASE save_escrow(id, returned) /\ book(id, refunded)
  <2>1. escrow'[id] = returned /\ ledger'[id] = refunded
    BY <1>12, Entries
  <2> QED
    BY <1>1, <1>7, <1>9, <1>10, <2>1, OneEscrowStep
<1> QED
  BY <1>1, <1>11, <1>12

(* All of the disputes.                                                    *)
LEMMA DisputeBooks ==
    ASSUME TypeOK, TypeOK', BooksInv, Dispute
    PROVE  BooksInv'
BY RaiseBooks, AppealBooks, DecisionBooks, FinalizeBooks, RefundBooks DEF Dispute
-----------------------------------------------------------------------------
(* The theorems.                                                           *)

(* The strengthened invariant holds whatever is offered, decided, appealed *)
(* or switched, and at whatever rates within the limits of the setters.    *)
THEOREM BooksHold == Spec => []BooksInv
<1>1. Init => BooksInv
  <2> SUFFICES ASSUME Init PROVE BooksInv
    OBVIOUS
  <2>1. \A id \in Ids :
           escrow[id] = NoEscrow /\ dispute[id] = NoDispute /\ ledger[id] = NoMoney
    BY DEF Init
  <2>2. FreshIds
    BY <2>1 DEF FreshIds, NoEscrow
  <2>3. SoundBooks(NoEscrow, NoDispute, NoMoney)
    BY SMT DEF SoundBooks, Priced, Balanced, Unsettled, FeesBooked, OneSided,
               NoEscrow, NoDispute, NoMoney, HoldingStates, TerminalStates,
               DisputedStates
  <2> QED
    BY <2>1, <2>2, <2>3, Zenon DEF BooksInv
<1>2. TypeOK /\ TypeOK' /\ BooksInv /\ [Next]_vars => BooksInv'
  <2> SUFFICES ASSUME TypeOK, TypeOK', BooksInv, [Next]_vars PROVE BooksInv'
    OBVIOUS
  <2>1. CASE UNCHANGED <<escrow, dispute, ledger>> /\ next_id' = next_id
    BY <2>1 DEF BooksInv, FreshIds
  <2>2. Tick \/ UNCHANGED vars => BooksInv'
    BY <2>1 DEF Tick, vars
  <2>3. Administer => BooksInv'
    BY <2>1, Zenon DEF Administer, configure, set_paused, set_recovery_mode,
              pause_action, unpause_action, set_arbitration_fee,
              set_platform_fee, execute_set_appeal_fee, set_dispute_timeout,
              execute_set_max_appeals
  <2>4. Rescue => BooksInv'
    BY RefundBooks DEF Rescue
  <2> QED
    BY <2>2, <2>3, <2>4, TradeBooks, DisputeBooks DEF Next
<1> QED
  BY <1>1, <1>2, TypeCorrect, PTL DEF Spec

(* Every stroop paid in is accounted for: an open escrow holds exactly its *)
(* recorded amount and basket and a closed one nothing, on every path      *)
(* through release, refund, dispute, appeal and emergency exit.            *)
THEOREM MoneyIsConserved == Spec => []CustodyConservation
<1>1. BooksInv => CustodyConservation
  BY Zenon DEF BooksInv, SoundBooks, Balanced, CustodyConservation, custody,
               basket_custody
<1> QED
  BY <1>1, BooksHold, PTL

(* The resolver and arbitration fees leave the contract once per dispute,  *)
(* in any number of appeals, and finalize_dispute reconstructs the         *)
(* principal exactly as it was funded.                                     *)
THEOREM DisputeFeesChargedOnce == Spec => []FeesChargedOnce
<1>1. TypeOK /\ BooksInv => FeesChargedOnce
  <2> SUFFICES ASSUME TypeOK, BooksInv, NEW id \in Ids
               PROVE  /\ ledger[id].to_resolver = dispute[id].resolver_fee
                      /\ escrow[id].state \in {"Disputed", "PendingFinalization"} =>
                            /\ ledger[id].to_collector = dispute[id].arbitration_fee
                            /\ fee_basis(id) = ledger[id].deposited
    BY DEF FeesChargedOnce
  <2> DEFINE e == escrow[id]
             d == dispute[id]
             l == ledger[id]
  <2>1. l \in Ledger /\ e \in EscrowRecord /\ SoundBooks(e, d, l)
    BY Entries DEF BooksInv
  <2>2. l.to_resolver = d.resolver_fee
    BY <2>1 DEF SoundBooks, FeesBooked
  <2>3. ASSUME e.state \in DisputedStates
        PROVE  l.to_collector = d.arbitration_fee /\ fee_basis(id) = l.deposited
    <3>1. e.state \in HoldingStates /\ e.state \notin TerminalStates
      BY <2>3 DEF DisputedStates, HoldingStates, TerminalStates
    <3>2. l.to_collector = d.arbitration_fee
      BY <2>1, <2>3 DEF SoundBooks, FeesBooked
    <3>3. l.to_buyer = 0 /\ l.to_payees = 0 /\ l.to_treasury = 0
      BY <2>1, <3>1 DEF SoundBooks, Unsettled
    <3>4. l.deposited - l.to_buyer - l.to_payees - l.to_collector - l.to_resolver
             - l.to_treasury = e.amount
      BY <2>1, <3>1 DEF SoundBooks, Balanced
    <3>5. fee_basis(id) = e.amount + l.to_collector + l.to_resolver
      BY <2>2, <3>2 DEF fee_basis
    <3> DEFINE amount == e.amount
    <3>6. amount = l.deposited - l.to_collector - l.to_resolver
      BY <2>1, <3>3, <3>4, LedgerParts, SMT
    <3>7. fee_basis(id) = amount + l.to_collector + l.to_resolver
      BY <3>5
    <3> HIDE DEF amount
    <3> QED
      BY <2>1, <3>2, <3>6, <3>7, LedgerParts
  <2> QED
    BY <2>2, <2>3 DEF DisputedStates
<1> QED
  BY <1>1, BooksHold, TypeCorrect, PTL

(* A settlement pays one side: no path releases to the payees and refunds  *)
(* the buyer of the same escrow, and a buyer who leaves before a fee was   *)
(* charged gets the whole deposit back.                                    *)
THEOREM SettlementPaysOneSide == Spec => []OneSideIsPaid
<1>1. BooksInv => OneSideIsPaid
  BY Zenon DEF BooksInv, SoundBooks, OneSided, OneSideIsPaid
<1> QED
  BY <1>1, BooksHold, PTL
=============================================================================
