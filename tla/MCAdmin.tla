------------------------------- MODULE MCAdmin -------------------------------
(***************************************************************************)
(* An instance of AdminTimelock for TLC: one unit of time is the least     *)
(* delay.                                                                  *)
(***************************************************************************)
EXTENDS AdminTimelock

CONSTANTS admin, successor, collector, treasury

(* The office goes to a successor or to the fee collector, the delay is    *)
(* made shorter than it is by default; of the settings that are written    *)
(* the same way, one.                                                      *)
QueuedParams ==
    [SetAdmin |-> {successor, collector}, SetTimelockDelay |-> {1},
     SetFeeCollector |-> {successor, admin}, SetTreasury |-> {successor},
     SetArbitrationFee |-> {500}, SetAmountLimits |-> {[min |-> 2, max |-> 3]},
     AddApprovedResolver |-> {successor},
     UnpauseContract |-> {None}]

ImmediateParams == [SetPlatformFee |-> {100}]

(* Version 1 of a contract whose treasury was set before the upgrade.      *)
UpgradedConfig ==
    [NoLegacy EXCEPT !.fee_collector = collector, !.treasury = treasury,
                     !.platform_fee_bps = 50, !.paused = TRUE]
=============================================================================
