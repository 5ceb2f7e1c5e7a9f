---------------------------- MODULE AdminTimelock ----------------------------
(***************************************************************************)
(* The admin of the contract (admin.rs): operations that are queued and    *)
(* executed after a delay, the ones the admin may also make at once, and   *)
(* the two-step change of the fee collector and of the treasury.           *)
(*                                                                         *)
(* A queued proposal does not expire and outlives the admin who queued it. *)
(* Executing it needs nobody's signature, with two exceptions: anyone may  *)
(* submit it in the proposer's name once it is ready.                      *)
(***************************************************************************)
EXTENDS AdminConfig

CONSTANTS
    Params,         \* per operation, the parameters the admin may queue
    DirectParams,   \* per operation with a direct setter, its parameters
    MaxQueued,      \* bound: proposals queued in a behaviour
    MaxTime         \* bound: last ledger timestamp

VARIABLES
    now,    \* env.ledger().timestamp()
    slot,   \* DataKey::TimelockOp(operation): the proposal, or None
    log     \* the Timelock events, each with the admin and the time it was emitted

vars == <<now, instance, global, legacy, version, slot, log>>

Operation ==
    {"SetAdmin", "Upgrade", "SetArbitrationFee", "SetPlatformFee", "SetTreasury",
     "SetFeeCollector", "SetTtlExtension", "SetAmountLimits",
     "AddApprovedResolver", "RemoveApprovedResolver", "SetResolverStrict",
     "SetTokenAllowlistEnabled", "AddAllowedToken", "RemoveAllowedToken",
     "PauseContract", "UnpauseContract", "SetMaxAppeals", "SetMaxBasketSize",
     "SetAppealFee", "SetTimelockDelay"}

(* The two executions that ask for the proposer's signature.               *)
SignedExecutions == {"SetArbitrationFee", "SetAppealFee"}

(* The operations the admin may also make at once.                         *)
DirectOperation ==
    {"SetArbitrationFee", "SetPlatformFee", "SetTreasury", "SetFeeCollector",
     "SetTokenAllowlistEnabled", "AddAllowedToken", "RemoveAllowedToken"}

ASSUME ParamsAssumption ==
    /\ DOMAIN Params \subseteq Operation
    /\ DOMAIN DirectParams \subseteq DirectOperation
    /\ MaxQueued \in Nat /\ MaxTime \in Nat \ {0}

Init ==
    /\ ConfigInit
    /\ now = 1
    /\ slot = [operation \in Operation |-> None]
    /\ log = <<>>

Tick ==
    /\ now < MaxTime
    /\ now' = now + 1
    /\ UNCHANGED <<config_vars, slot, log>>
-----------------------------------------------------------------------------
(* What an operation does, whichever door it came through.                 *)

(* The arbitration fee is the one operation that asks whether the proposer *)
(* is the admin still.                                                     *)
update_arbitration_fee(caller, bps) ==
    /\ caller = instance.admin
    /\ bps <= MAX_ARBITRATION_FEE_BPS
    /\ read_global_config.protocol_fee_bps + bps <= MAX_COMBINED_FEE_BPS
    /\ set_setting("arbitration_fee_bps", bps)

(* The new admin takes office without being asked.                         *)
set_admin(new_admin) ==
    /\ new_admin # instance.admin
    /\ set_own("admin", new_admin)

set_amount_limits(limits) ==
    /\ limits.min > 0
    /\ limits.max > limits.min
    /\ update_global_config([read_global_config EXCEPT
          !.min_amount = limits.min, !.max_amount = limits.max])
    /\ UNCHANGED <<instance, legacy>>

set_platform_fee(bps) ==
    /\ bps <= MAX_PLATFORM_FEE_BPS
    /\ set_setting("platform_fee_bps", bps)

set_appeal_fee(bps) ==
    /\ validate_appeal_fee_bps(bps)
    /\ set_setting("appeal_fee_bps", bps)

set_ttl_extension(ledgers) ==
    /\ ledgers \in MIN_TTL_EXTENSION..MAX_TTL_EXTENSION
    /\ set_setting("ttl_extension_ledgers", ledgers)

set_resolver_strict(strict) == set_setting("resolver_strict", strict)

set_token_allowlist_enabled(enabled) ==
    set_setting("token_allowlist_enabled", enabled)

pause_contract == set_setting("paused", TRUE)

unpause_contract == set_setting("paused", FALSE)

(* The first half of a change in two steps: the new holder is to accept.   *)
set_fee_collector(new_collector) ==
    /\ validate_role_change("fee_collector", new_collector)
    /\ set_own("pending_fee_collector", new_collector)

set_treasury(new_treasury) ==
    /\ validate_role_change("treasury", new_treasury)
    /\ set_own("pending_treasury", new_treasury)

add_approved_resolver(resolver) ==
    set_own("approved_resolvers", instance.approved_resolvers \cup {resolver})

remove_approved_resolver(resolver) ==
    /\ resolver \in instance.approved_resolvers
    /\ set_own("approved_resolvers", instance.approved_resolvers \ {resolver})

add_allowed_token(token) ==
    set_own("allowed_tokens", instance.allowed_tokens \cup {token})

remove_allowed_token(token) ==
    /\ token \in instance.allowed_tokens
    /\ set_own("allowed_tokens", instance.allowed_tokens \ {token})

set_max_appeals(count) ==
    /\ count \in MIN_MAX_APPEALS..MAX_MAX_APPEALS
    /\ set_own("max_appeals", count)

set_max_basket_size(size) ==
    /\ size \in MIN_MAX_BASKET_SIZE..MAX_BASKET_SIZE
    /\ set_own("max_basket_size", size)

set_timelock_delay(delay) ==
    /\ delay \in MIN_TIMELOCK_DELAY_SECONDS..MAX_TIMELOCK_DELAY_SECONDS
    /\ set_own("timelock_delay", delay)

upgrade(wasm_hash) == wasm_hash # zero_hash /\ set_own("wasm", wasm_hash)

effect(operation, param, caller) ==
    \/ operation = "SetAdmin" /\ set_admin(param)
    \/ operation = "Upgrade" /\ upgrade(param)
    \/ operation = "SetArbitrationFee" /\ update_arbitration_fee(caller, param)
    \/ operation = "SetPlatformFee" /\ set_platform_fee(param)
    \/ operation = "SetTreasury" /\ set_treasury(param)
    \/ operation = "SetFeeCollector" /\ set_fee_collector(param)
    \/ operation = "SetTtlExtension" /\ set_ttl_extension(param)
    \/ operation = "SetAmountLimits" /\ set_amount_limits(param)
    \/ operation = "AddApprovedResolver" /\ add_approved_resolver(param)
    \/ operation = "RemoveApprovedResolver" /\ remove_approved_resolver(param)
    \/ operation = "SetResolverStrict" /\ set_resolver_strict(param)
    \/ operation = "SetTokenAllowlistEnabled" /\ set_token_allowlist_enabled(param)
    \/ operation = "AddAllowedToken" /\ add_allowed_token(param)
    \/ operation = "RemoveAllowedToken" /\ remove_allowed_token(param)
    \/ operation = "PauseContract" /\ pause_contract
    \/ operation = "UnpauseContract" /\ unpause_contract
    \/ operation = "SetMaxAppeals" /\ set_max_appeals(param)
    \/ operation = "SetMaxBasketSize" /\ set_max_basket_size(param)
    \/ operation = "SetAppealFee" /\ set_appeal_fee(param)
    \/ operation = "SetTimelockDelay" /\ set_timelock_delay(param)
-----------------------------------------------------------------------------
(* The timelock.                                                           *)

(* An event, with the admin and the parameters nobody but the model sees:  *)
(* the events of the code name them only once the operation is executed.   *)
emit(event, operation, param, proposer) ==
    log' = Append(log,
        [event |-> event, operation |-> operation, param |-> param,
         proposer |-> proposer, admin |-> instance.admin, at |-> now])

write_timelock_proposal(operation, p) ==
    slot' = [slot EXCEPT ![operation] = p]

(* Mutant of remove_timelock_proposal: the slot keeps its proposal.        *)
leave_timelock_proposal(operation) == UNCHANGED slot

remove_timelock_proposal(operation) == write_timelock_proposal(operation, None)

(* Mutant of timelock_delay: a new contract has no delay.                  *)
timelock_delay_unset_is_zero ==
    IF instance.timelock_delay = None THEN 0 ELSE instance.timelock_delay

timelock_delay ==
    IF instance.timelock_delay = None
    THEN ADMIN_TIMELOCK_DELAY_SECONDS ELSE instance.timelock_delay

may_queue(caller, operation, param) ==
    /\ Cardinality({i \in DOMAIN log : log[i].event = "Queued"}) < MaxQueued
    /\ caller = instance.admin
    /\ operation = "SetTimelockDelay" =>
          param \in MIN_TIMELOCK_DELAY_SECONDS..MAX_TIMELOCK_DELAY_SECONDS

(* Mutant of queue: a proposal that is replaced passes on its day.         *)
queue_keeping_clock(caller, operation, param) ==
    LET old == slot[operation]
    IN  /\ may_queue(caller, operation, param)
        /\ write_timelock_proposal(operation,
              [proposer |-> caller, param |-> param, queued_at |-> now,
               ready_at |-> IF old = None THEN now + timelock_delay ELSE old.ready_at])
        /\ emit("Queued", operation, param, caller)
        /\ UNCHANGED <<now, config_vars>>

(* One slot per operation: queueing again replaces the earlier proposal    *)
(* and starts its delay anew.  Only the range of a new delay is checked    *)
(* here, every other parameter when the operation is executed.             *)
queue(caller, operation, param) ==
    /\ may_queue(caller, operation, param)
    /\ write_timelock_proposal(operation,
          [proposer |-> caller, param |-> param, queued_at |-> now,
           ready_at |-> now + timelock_delay])
    /\ emit("Queued", operation, param, caller)
    /\ UNCHANGED <<now, config_vars>>

(* Mutant of execute_timelock_op: only while the proposer is the admin.    *)
execute_for_sitting_admin(caller, operation, param) ==
    /\ slot[operation] # None
    /\ now >= slot[operation].ready_at
    /\ caller = slot[operation].proposer
    /\ caller = instance.admin
    /\ param = slot[operation].param
    /\ remove_timelock_proposal(operation)
    /\ emit("Executed", operation, param, caller)

(* The caller is compared with the proposer, not authenticated.            *)
execute_timelock_op(caller, operation, param) ==
    /\ slot[operation] # None
    /\ now >= slot[operation].ready_at
    /\ caller = slot[operation].proposer
    /\ param = slot[operation].param
    /\ remove_timelock_proposal(operation)
    /\ emit("Executed", operation, param, caller)

(* A change that is refused when it is executed reverts the call: its      *)
(* proposal stays in its slot.                                             *)
execute(caller, operation, param) ==
    /\ execute_timelock_op(caller, operation, param)
    /\ effect(operation, param, caller)
    /\ UNCHANGED <<now, version>>

cancel_timelock_op(caller, operation) ==
    /\ caller = instance.admin
    /\ slot[operation] # None
    /\ remove_timelock_proposal(operation)
    /\ emit("Cancelled", operation, slot[operation].param, slot[operation].proposer)
    /\ UNCHANGED <<now, config_vars>>

(* The setters of the same settings that stayed immediate.                 *)
set_directly(caller, operation, param) ==
    /\ caller = instance.admin
    /\ effect(operation, param, caller)
    /\ UNCHANGED <<now, version, slot, log>>
-----------------------------------------------------------------------------
Timelock ==
    \E caller \in Address :
        \/ \E operation \in DOMAIN Params : \E param \in Params[operation] :
              \/ queue(caller, operation, param)
              \/ execute(caller, operation, param)
        \/ \E operation \in DOMAIN Params : cancel_timelock_op(caller, operation)

Immediate ==
    \E caller \in Address :
        \/ \E operation \in DOMAIN DirectParams :
              \E param \in DirectParams[operation] :
                  set_directly(caller, operation, param)
        \/ /\ \/ migrate(caller)
              \/ accept_fee_collector(caller)
              \/ accept_treasury(caller)
           /\ UNCHANGED <<now, slot, log>>

Next == Tick \/ Timelock \/ Immediate

Spec == Init /\ [][Next]_vars

(* Ledger time passes, and keepers submit what is ready, one proposal after *)
(* the other, in the proposer's name: the code leaves these executions     *)
(* permissionless.                                                         *)
keep ==
    \E operation \in DOMAIN Params \ SignedExecutions :
        \E caller \in Address, param \in Params[operation] :
            execute(caller, operation, param)

Fairness == WF_vars(Tick) /\ WF_vars(keep)

FairSpec == Spec /\ Fairness
-----------------------------------------------------------------------------
TypeOK ==
    /\ now \in 1..MaxTime
    /\ version \in 1..STORAGE_VERSION
    /\ global # NoEntry => DOMAIN global = Setting
    /\ DOMAIN legacy = Setting
    /\ instance.timelock_delay # None =>
          instance.timelock_delay \in
              MIN_TIMELOCK_DELAY_SECONDS..MAX_TIMELOCK_DELAY_SECONDS
    /\ DOMAIN slot = Operation
    /\ \A o \in Operation :
          slot[o] # None =>
              /\ slot[o].queued_at \in 1..now
              /\ slot[o].ready_at \in Nat
              /\ slot[o].ready_at >= slot[o].queued_at + MIN_TIMELOCK_DELAY_SECONDS
-----------------------------------------------------------------------------
(* Safety.                                                                 *)

(* The events log[j] and log[i] are about the same proposal: nothing that  *)
(* happened to the operation's slot between them replaced it.              *)
same_proposal(j, i) ==
    /\ log[j].event = "Queued"
    /\ log[j].operation = log[i].operation
    /\ log[j].param = log[i].param
    /\ log[j].proposer = log[i].proposer
    /\ \A k \in (j + 1)..(i - 1) : log[k].operation # log[i].operation

(* Whatever the delay was when it was queued, however often the delay, the *)
(* admin or the proposal itself was changed meanwhile, and whoever submits *)
(* it: what is executed was queued with these parameters by the admin of   *)
(* that day, has waited for the least delay there is, and has not been     *)
(* replaced, cancelled or executed since.                                  *)
ExecutionWasAnnounced ==
    \A i \in DOMAIN log :
        log[i].event = "Executed" =>
            \E j \in 1..(i - 1) :
                /\ same_proposal(j, i)
                /\ log[j].admin = log[j].proposer
                /\ log[j].at + MIN_TIMELOCK_DELAY_SECONDS <= log[i].at

(* The office is only handed on by who holds it.  Proposals of a former    *)
(* admin wait on and can still be executed, but none of them can be the    *)
(* way back: the one slot of the operation is emptied by the handover.     *)
HandoverBySittingAdmin ==
    slot["SetAdmin"] # None => slot["SetAdmin"].proposer = instance.admin

(* The admin and the fee collector are different people, which initialize  *)
(* and every change of the collector check, until the office itself is     *)
(* handed on: set_admin is not checked against the collector, and a        *)
(* pending collector who has become the admin may still accept.            *)
CollectorIsNotAdmin ==
    read_global_config.fee_collector = instance.admin =>
        \E i \in DOMAIN log :
            /\ log[i].event = "Executed"
            /\ log[i].operation = "SetAdmin"
            /\ log[i].param = instance.admin
-----------------------------------------------------------------------------
(* What a step may never do.                                               *)

changed_settings ==
    {s \in Setting : read_global_config'[s] # read_global_config[s]}

(* A setting is written without disturbing the others, and the migration   *)
(* disturbs none, whether a setter has run between the upgrade and the     *)
(* migration or not.                                                       *)
MigrationKeepsSettings ==
    [][/\ changed_settings \subseteq {"min_amount", "max_amount"}
          \/ Cardinality(changed_settings) <= 1
       /\ version' # version => changed_settings = {}]_vars

(* What is under the timelock alone changes by an execution and by nothing *)
(* else: the admin, the code, the delay itself, the pause, the limits and  *)
(* the resolver registry.                                                  *)
GovernedOnlyByTimelock ==
    [][LET governed == <<instance.admin, instance.wasm, instance.timelock_delay,
                         instance.approved_resolvers, instance.max_appeals,
                         instance.max_basket_size, read_global_config.paused,
                         read_global_config.min_amount,
                         read_global_config.max_amount,
                         read_global_config.ttl_extension_ledgers,
                         read_global_config.appeal_fee_bps,
                         read_global_config.resolver_strict>>
       IN  governed' # governed =>
               /\ Len(log') = Len(log) + 1
               /\ log'[Len(log')].event = "Executed"]_vars
-----------------------------------------------------------------------------
(* Progress, up to the horizon MaxTime.                                    *)

(* The operations of the timelock that nothing can make fail.              *)
AlwaysAccepted == {"PauseContract", "UnpauseContract", "SetResolverStrict",
                   "SetTokenAllowlistEnabled", "AddAllowedToken",
                   "AddApprovedResolver"}

(* A proposal does not wait for its proposer, who may have gone offline or *)
(* out of office: once it is ready it takes effect, unless it is cancelled *)
(* or replaced.                                                            *)
ReadyChangeTakesEffect ==
    \A operation \in DOMAIN Params \cap AlwaysAccepted :
        (slot[operation] # None /\ slot[operation].ready_at <= MaxTime)
            ~> (\/ slot[operation] = None
                \/ slot[operation].ready_at > MaxTime)
=============================================================================
