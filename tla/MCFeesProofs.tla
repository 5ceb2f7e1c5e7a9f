---------------------------- MODULE MCFeesProofs ----------------------------
(***************************************************************************)
(* The properties of MCFees in every state whatsoever: for all amounts and *)
(* rates and all lists of payees the contract accepts, not only for those  *)
(* that TLC visits.                                                        *)
(***************************************************************************)
EXTENDS MCFees, EscrowFeesProofs

(* FeeIsFloor for all amounts and rates: the split form of calculate_fee,  *)
(* which keeps the product inside an i128, loses nothing.                  *)
THEOREM FeeClaim ==
    ASSUME amount \in Nat, fee_bps \in Nat
    PROVE  FeeIsFloor
BY FeeIsFloorForAll DEF FeeIsFloor

(* SplitIsExact for all amounts and accepted lists: distribute_to_payees   *)
(* moves the whole amount.                                                 *)
THEOREM SplitClaim ==
    ASSUME amount \in Nat, IsAcceptedList(payees)
    PROVE  SplitIsExact
BY SplitIsExactForAll DEF SplitIsExact, IsAcceptedList

(* DustIsBounded for all of them: the sharper bound of DustIsBoundedForAll *)
(* stays below one unit for each payee but the primary one.                *)
THEOREM DustClaim ==
    ASSUME amount \in Nat, IsAcceptedList(payees)
    PROVE  DustIsBounded
<1> DEFINE others == Len(payees) - 1
           bias == BASIS_POINTS * primary_payee_share(amount, payees)
                       - amount * payees[1].bps
<1>1. bias \in 0..((BASIS_POINTS - 1) * others)
  BY DustIsBoundedForAll
<1>2. others \in Nat
  BY AcceptedIsNotEmpty
<1>3. bias = 0 \/ (0 < bias /\ bias < BASIS_POINTS * others)
  <2> HIDE DEF bias, others
  <2> QED
    BY <1>1, <1>2, SMT DEF BASIS_POINTS
<1> QED
  BY <1>3, Zenon DEF DustIsBounded
=============================================================================
