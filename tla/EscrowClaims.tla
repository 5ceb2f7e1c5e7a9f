---------------------------- MODULE EscrowClaims ----------------------------
(***************************************************************************)
(* What a comment or a document of the repository says of the contract and *)
(* the code does not do.  Each formula is violated by EscrowContract.      *)
(***************************************************************************)
EXTENDS EscrowContract

(* types.rs: a recorded resolution is 1 for a release and 2 for a refund,  *)
(* so the record of a dispute that ended in a refund reads as a refund.    *)
(* cancel_pending_finalization writes the discriminant of the enum.        *)
RefundIsRecorded ==
    \A id \in Ids :
        /\ escrow[id].state = "Refunded"
        /\ dispute[id].status = "Resolved"
        => get_resolution(dispute[id].resolution) = "Refund"

(* instructions.rs: a funded but unshipped escrow is reclaimable at        *)
(* expires_at rather than being locked in limbo.  reclaim_expired does not *)
(* know RefundRequested, and every other exit of it but the recovery mode  *)
(* refuses an expired escrow.                                              *)
UnshippedIsReclaimable ==
    \A id \in Ids :
        LET e == escrow[id]
        IN  /\ e.state \in {"Funded", "RefundRequested"}
            /\ e.expires_at # None
            /\ now >= e.expires_at
            => ENABLED (\E caller \in Address : reclaim_expired(caller, id))
=============================================================================
