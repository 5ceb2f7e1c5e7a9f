------------------------- MODULE AdminTimelockProofs -------------------------
(***************************************************************************)
(* Proofs about AdminTimelock, for every set of accounts, every parameter  *)
(* of the operations, every delay and every number of proposals.           *)
(*                                                                         *)
(* What an operation does to the storage is summed up in EffectFrame; the  *)
(* invariants only use that summary.                                       *)
(***************************************************************************)
EXTENDS AdminTimelock, FiniteSetTheorems, TLAPS

OwnKey == DOMAIN OwnKeys(None)

(* The storage has its layout, and the delay is one the setter accepts.    *)
StorageInv ==
    /\ DOMAIN instance = OwnKey
    /\ global # NoEntry => DOMAIN global = Setting
    /\ DOMAIN legacy = Setting
    /\ version \in 1..STORAGE_VERSION
    /\ instance.timelock_delay # None =>
          instance.timelock_delay \in
              MIN_TIMELOCK_DELAY_SECONDS..MAX_TIMELOCK_DELAY_SECONDS

(* What a change of settings may do to the keys the invariants look at.    *)
Frame ==
    /\ DOMAIN instance' = OwnKey
    /\ global' # NoEntry => DOMAIN global' = Setting
    /\ DOMAIN legacy' = Setting
    /\ instance'.timelock_delay # None =>
          instance'.timelock_delay \in
              MIN_TIMELOCK_DELAY_SECONDS..MAX_TIMELOCK_DELAY_SECONDS

SettingsDef ==
    {"fee_collector", "treasury", "protocol_fee_bps", "arbitration_fee_bps",
     "platform_fee_bps", "appeal_fee_bps", "min_amount", "max_amount",
     "dispute_timeout", "ttl_extension_ledgers", "paused",
     "token_allowlist_enabled", "resolver_strict", "recovery_mode"}

OwnKeysDef ==
    {"admin", "pending_fee_collector", "pending_treasury", "timelock_delay",
     "approved_resolvers", "allowed_tokens", "max_appeals", "max_basket_size",
     "wasm"}

(* The names of the settings and of the keys outside GlobalConfig.         *)
LEMMA KeyNames == Setting = SettingsDef /\ OwnKey = OwnKeysDef
BY DEF Setting, default_global_config, SettingsDef, OwnKey, OwnKeys, OwnKeysDef

(* The effective configuration has every setting, in both layouts.         *)
LEMMA ReadIsTotal ==
    ASSUME StorageInv
    PROVE  DOMAIN read_global_config = Setting
BY DEF StorageInv, read_global_config, read_legacy_global_config

(* Writing one setting of GlobalConfig.                                    *)
LEMMA WriteSetting ==
    ASSUME StorageInv, NEW setting, NEW value, set_setting(setting, value)
    PROVE  /\ Frame
           /\ instance' = instance
           /\ setting # "fee_collector" =>
                 read_global_config'.fee_collector = read_global_config.fee_collector
<1>1. DOMAIN read_global_config = Setting
  BY ReadIsTotal
<1>2. global' = [read_global_config EXCEPT ![setting] = value]
  BY DEF set_setting, update_global_config
<1>3. /\ instance' = instance /\ legacy' = legacy
      /\ DOMAIN global' = Setting
  BY <1>1, <1>2 DEF set_setting
<1>4. Frame
  BY <1>3 DEF Frame, StorageInv
<1>5. global' # NoEntry
  BY <1>3, KeyNames DEF NoEntry, SettingsDef
<1>6. read_global_config' = global'
  BY <1>5 DEF read_global_config
<1>7. setting # "fee_collector" => global'.fee_collector = read_global_config.fee_collector
  BY <1>1, <1>2, KeyNames DEF SettingsDef
<1> QED
  BY <1>3, <1>4, <1>6, <1>7

(* Writing one key outside GlobalConfig.                                   *)
LEMMA WriteOwn ==
    ASSUME StorageInv, NEW key \in OwnKeysDef, NEW value, set_own(key, value),
           key = "timelock_delay" => value \in
              MIN_TIMELOCK_DELAY_SECONDS..MAX_TIMELOCK_DELAY_SECONDS
    PROVE  /\ Frame
           /\ instance'[key] = value
           /\ \A k \in OwnKeysDef \ {key} : instance'[k] = instance[k]
           /\ read_global_config' = read_global_config
<1>1. instance' = [instance EXCEPT ![key] = value]
  BY DEF set_own
<1>2. DOMAIN instance = OwnKeysDef
  BY KeyNames DEF StorageInv
<1>3. instance'[key] = value /\ \A k \in OwnKeysDef \ {key} : instance'[k] = instance[k]
  BY <1>1, <1>2
<1>4. DOMAIN instance' = OwnKey
  BY <1>1, <1>2, KeyNames
<1>5. global' = global /\ legacy' = legacy
  BY DEF set_own
<1>6. read_global_config' = read_global_config
  BY <1>5 DEF read_global_config, read_legacy_global_config
<1>7. "timelock_delay" \in OwnKeysDef
  BY DEF OwnKeysDef
<1>8. instance'.timelock_delay # None =>
          instance'.timelock_delay \in
              MIN_TIMELOCK_DELAY_SECONDS..MAX_TIMELOCK_DELAY_SECONDS
  BY <1>3, <1>7 DEF StorageInv
<1>9. Frame
  BY <1>4, <1>5, <1>8 DEF Frame, StorageInv
<1> QED
  BY <1>3, <1>6, <1>9

(* The two fields of the amount limits.                                    *)
LEMMA WriteLimits ==
    ASSUME StorageInv, NEW limits, set_amount_limits(limits)
    PROVE  /\ Frame
           /\ instance' = instance
           /\ read_global_config'.fee_collector = read_global_config.fee_collector
<1>1. DOMAIN read_global_config = Setting
  BY ReadIsTotal
<1>2. /\ global' = [read_global_config EXCEPT !.min_amount = limits.min,
                                              !.max_amount = limits.max]
      /\ instance' = instance /\ legacy' = legacy
  BY DEF set_amount_limits, update_global_config
<1>3. DOMAIN global' = Setting
  BY <1>1, <1>2
<1>4. Frame
  BY <1>2, <1>3 DEF Frame, StorageInv
<1>5. global' # NoEntry
  BY <1>3, KeyNames DEF NoEntry, SettingsDef
<1>6. read_global_config' = global'
  BY <1>5 DEF read_global_config
<1>7. global'.fee_collector = read_global_config.fee_collector
  BY <1>1, <1>2, KeyNames DEF SettingsDef
<1> QED
  BY <1>2, <1>4, <1>6, <1>7

(* What an operation may do to the roles.                                  *)
EffectOn(operation, param) ==
    /\ Frame
    /\ read_global_config'.fee_collector = read_global_config.fee_collector
    /\ operation # "SetAdmin" => instance'.admin = instance.admin
    /\ operation = "SetAdmin" => instance'.admin = param
    /\ \/ instance'.pending_fee_collector = instance.pending_fee_collector
       \/ /\ instance'.pending_fee_collector # instance.admin
          /\ operation # "SetAdmin"

(* Whichever operation, through whichever door.                            *)
LEMMA EffectFrame ==
    ASSUME StorageInv, NEW operation, NEW param, NEW caller,
           effect(operation, param, caller)
    PROVE  EffectOn(operation, param)
<1>1. ASSUME NEW key \in OwnKeysDef \ {"admin", "pending_fee_collector", "timelock_delay"},
             NEW value, set_own(key, value), operation # "SetAdmin"
      PROVE  EffectOn(operation, param)
  <2>1. /\ Frame
        /\ \A k \in OwnKeysDef \ {key} : instance'[k] = instance[k]
        /\ read_global_config' = read_global_config
    BY <1>1, WriteOwn
  <2> QED
    BY <1>1, <2>1 DEF EffectOn, OwnKeysDef
<1>2. ASSUME NEW setting, setting # "fee_collector", NEW value,
             set_setting(setting, value), operation # "SetAdmin"
      PROVE  EffectOn(operation, param)
  BY <1>2, WriteSetting DEF EffectOn
<1>3. CASE operation = "SetAdmin" /\ set_admin(param)
  <2>1. /\ Frame
        /\ instance'.admin = param
        /\ instance'.pending_fee_collector = instance.pending_fee_collector
        /\ read_global_config' = read_global_config
    BY <1>3, WriteOwn DEF set_admin, OwnKeysDef
  <2> QED
    BY <1>3, <2>1 DEF EffectOn
<1>4. CASE operation = "SetTimelockDelay" /\ set_timelock_delay(param)
  <2>1. /\ Frame
        /\ instance'.admin = instance.admin
        /\ instance'.pending_fee_collector = instance.pending_fee_collector
        /\ read_global_config' = read_global_config
    BY <1>4, WriteOwn DEF OwnKeysDef, set_timelock_delay
  <2> QED
    BY <1>4, <2>1 DEF EffectOn
<1>5. CASE operation = "SetFeeCollector" /\ set_fee_collector(param)
  <2>1. /\ Frame
        /\ instance'.admin = instance.admin
        /\ instance'.pending_fee_collector = param
        /\ read_global_config' = read_global_config
    BY <1>5, WriteOwn DEF OwnKeysDef, set_fee_collector
  <2> QED
    BY <1>5, <2>1 DEF EffectOn, set_fee_collector, validate_role_change
<1>6. CASE operation = "SetAmountLimits" /\ set_amount_limits(param)
  BY <1>6, WriteLimits DEF EffectOn
<1>7. CASE operation = "SetArbitrationFee" /\ update_arbitration_fee(caller, param)
  BY <1>7, <1>2 DEF update_arbitration_fee
<1>8. CASE \/ operation = "PauseContract" /\ pause_contract
           \/ operation = "UnpauseContract" /\ unpause_contract
           \/ operation = "SetResolverStrict" /\ set_resolver_strict(param)
           \/ operation = "SetTokenAllowlistEnabled"
                /\ set_token_allowlist_enabled(param)
  BY <1>8, <1>2 DEF pause_contract, unpause_contract, set_resolver_strict,
                    set_token_allowlist_enabled
<1>9. CASE \/ operation = "SetPlatformFee" /\ set_platform_fee(param)
           \/ operation = "SetAppealFee" /\ set_appeal_fee(param)
           \/ operation = "SetTtlExtension" /\ set_ttl_extension(param)
  BY <1>9, <1>2 DEF set_platform_fee, set_appeal_fee, set_ttl_extension
<1>10. CASE \E key \in OwnKeysDef \ {"admin", "pending_fee_collector", "timelock_delay"} :
              \E value : operation # "SetAdmin" /\ set_own(key, value)
  BY <1>10, <1>1
<1>11. {"wasm", "pending_treasury", "approved_resolvers", "allowed_tokens",
        "max_appeals", "max_basket_size"} \subseteq
            OwnKeysDef \ {"admin", "pending_fee_collector", "timelock_delay"}
  BY DEF OwnKeysDef
<1>12. CASE \/ operation = "Upgrade" /\ upgrade(param)
            \/ operation = "SetTreasury" /\ set_treasury(param)
            \/ operation = "SetMaxAppeals" /\ set_max_appeals(param)
            \/ operation = "SetMaxBasketSize" /\ set_max_basket_size(param)
  BY <1>10, <1>11, <1>12 DEF upgrade, set_treasury, set_max_appeals,
                             set_max_basket_size
<1>13. CASE \/ operation = "AddApprovedResolver" /\ add_approved_resolver(param)
            \/ operation = "RemoveApprovedResolver" /\ remove_approved_resolver(param)
            \/ operation = "AddAllowedToken" /\ add_allowed_token(param)
            \/ operation = "RemoveAllowedToken" /\ remove_allowed_token(param)
  BY <1>10, <1>11, <1>13 DEF add_approved_resolver, remove_approved_resolver,
                             add_allowed_token, remove_allowed_token
<1> QED
  BY <1>3, <1>4, <1>5, <1>6, <1>7, <1>8, <1>9, <1>12, <1>13 DEF effect

-----------------------------------------------------------------------------
(* The log and the slots.                                                  *)

(* What is appended is the last entry, and the earlier ones stay.          *)
LEMMA AppendFacts ==
    ASSUME NEW S, NEW s \in Seq(S), NEW e
    PROVE  /\ \E T : Append(s, e) \in Seq(T)
           /\ Len(s) \in Nat /\ DOMAIN s = 1..Len(s)
           /\ Len(Append(s, e)) = Len(s) + 1
           /\ DOMAIN Append(s, e) = 1..(Len(s) + 1)
           /\ \A i \in 1..Len(s) : Append(s, e)[i] = s[i]
           /\ Append(s, e)[Len(s) + 1] = e
<1>1. s \in Seq(S \cup {e}) /\ e \in S \cup {e}
  OBVIOUS
<1>2. Append(s, e) \in Seq(S \cup {e})
  BY <1>1
<1> QED
  BY <1>1, <1>2

IsLog == \E S : log \in Seq(S)

(* The event that announced the proposal in the slot of an operation: no   *)
(* later event is about that operation.                                    *)
announces(j, operation) ==
    /\ log[j].event = "Queued"
    /\ log[j].operation = operation
    /\ log[j].param = slot[operation].param
    /\ log[j].proposer = slot[operation].proposer
    /\ log[j].admin = log[j].proposer
    /\ log[j].at = slot[operation].queued_at
    /\ \A k \in (j + 1)..Len(log) : log[k].operation # operation

SlotInv ==
    /\ now \in Nat \ {0}
    /\ DOMAIN slot = Operation
    /\ \A o \in Operation :
          slot[o] # None =>
              /\ slot[o].queued_at \in 1..now
              /\ slot[o].ready_at \in Nat
              /\ slot[o].ready_at >= slot[o].queued_at + MIN_TIMELOCK_DELAY_SECONDS

BookInv ==
    /\ IsLog
    /\ SlotInv
    /\ \A o \in Operation : slot[o] # None => \E j \in DOMAIN log : announces(j, o)
    /\ ExecutionWasAnnounced

(* Appending an event about one operation leaves the announcements of the  *)
(* others where they are.                                                  *)
LEMMA OthersStayAnnounced ==
    ASSUME BookInv, NEW operation \in Operation, NEW e, log' = Append(log, e),
           e.operation = operation, NEW o \in Operation \ {operation},
           slot[o] # None, slot'[o] = slot[o]
    PROVE  \E j \in DOMAIN log' : announces(j, o)'
<1>1. PICK S : log \in Seq(S)
  BY DEF BookInv, IsLog
<1>2. PICK j \in DOMAIN log : announces(j, o)
  BY DEF BookInv
<1>3. j \in 1..Len(log) /\ j \in DOMAIN log' /\ log'[j] = log[j]
  BY <1>1, AppendFacts
<1>4. ASSUME NEW k \in (j + 1)..Len(log')
      PROVE  log'[k].operation # o
  <2>1. CASE k \in 1..Len(log)
    BY <1>1, <1>2, <1>3, <1>4, <2>1, AppendFacts DEF announces
  <2>2. CASE k = Len(log) + 1
    BY <1>1, <2>2, AppendFacts
  <2> QED
    BY <1>1, <1>3, <1>4, <2>1, <2>2, AppendFacts
<1> QED
  BY <1>2, <1>3, <1>4 DEF announces

(* Executions that are in the log stay announced as the log grows.         *)
LEMMA PastStaysAnnounced ==
    ASSUME IsLog, ExecutionWasAnnounced, NEW e, log' = Append(log, e),
           NEW i \in 1..Len(log), log[i].event = "Executed"
    PROVE  \E j \in 1..(i - 1) :
                /\ same_proposal(j, i)'
                /\ log'[j].admin = log'[j].proposer
                /\ log'[j].at + MIN_TIMELOCK_DELAY_SECONDS <= log'[i].at
<1>1. PICK S : log \in Seq(S)
  BY DEF IsLog
<1>2. i \in DOMAIN log
  BY <1>1, AppendFacts
<1>3. PICK j \in 1..(i - 1) :
                /\ same_proposal(j, i)
                /\ log[j].admin = log[j].proposer
                /\ log[j].at + MIN_TIMELOCK_DELAY_SECONDS <= log[i].at
  BY <1>2 DEF ExecutionWasAnnounced
<1>4. \A k \in 1..i : k \in 1..Len(log) /\ log'[k] = log[k]
  BY <1>1, AppendFacts
<1>5. /\ i \in 1..i /\ j \in 1..i
      /\ \A k \in (j + 1)..(i - 1) : k \in 1..i
  BY <1>1
<1>6. same_proposal(j, i)'
  BY <1>3, <1>4, <1>5 DEF same_proposal
<1> QED
  BY <1>3, <1>4, <1>5, <1>6

(* An event that executes nothing.                                         *)
LEMMA NotAnExecution ==
    ASSUME IsLog, ExecutionWasAnnounced, NEW e, log' = Append(log, e),
           e.event # "Executed"
    PROVE  IsLog' /\ ExecutionWasAnnounced'
<1>1. PICK S : log \in Seq(S)
  BY DEF IsLog
<1>2. IsLog'
  BY <1>1, AppendFacts DEF IsLog
<1>3. ASSUME NEW i \in DOMAIN log', log'[i].event = "Executed"
      PROVE  i \in 1..Len(log) /\ log[i].event = "Executed"
  BY <1>1, <1>3, AppendFacts
<1>4. ASSUME NEW i \in DOMAIN log', log'[i].event = "Executed"
      PROVE  \E j \in 1..(i - 1) :
                /\ same_proposal(j, i)'
                /\ log'[j].admin = log'[j].proposer
                /\ log'[j].at + MIN_TIMELOCK_DELAY_SECONDS <= log'[i].at
  BY <1>3, <1>4, PastStaysAnnounced
<1>5. ExecutionWasAnnounced'
  BY <1>4 DEF ExecutionWasAnnounced
<1> QED
  BY <1>2, <1>5

(* The delay in force is at least the least one.                           *)
LEMMA DelayIsLongEnough ==
    ASSUME StorageInv
    PROVE  timelock_delay \in Nat /\ timelock_delay >= MIN_TIMELOCK_DELAY_SECONDS
<1>1. CASE instance.timelock_delay = None
  BY <1>1, DelayAssumption DEF timelock_delay
<1>2. CASE instance.timelock_delay # None
  BY <1>2, DelayAssumption DEF timelock_delay, StorageInv
<1> QED
  BY <1>1, <1>2

(* Queueing announces what it puts into the slot.                          *)
LEMMA QueueKeepsBook ==
    ASSUME StorageInv, BookInv, NEW caller, NEW operation \in Operation, NEW param,
           queue(caller, operation, param)
    PROVE  BookInv'
<1> DEFINE p == [proposer |-> caller, param |-> param, queued_at |-> now,
                 ready_at |-> now + timelock_delay]
           e == [event |-> "Queued", operation |-> operation, param |-> param,
                 proposer |-> caller, admin |-> instance.admin, at |-> now]
<1>1. /\ caller = instance.admin
      /\ slot' = [slot EXCEPT ![operation] = p]
      /\ log' = Append(log, e)
      /\ now' = now
  BY DEF queue, may_queue, write_timelock_proposal, emit
<1>2. PICK S : log \in Seq(S)
  BY DEF BookInv, IsLog
<1>3. IsLog' /\ ExecutionWasAnnounced'
  BY <1>1, NotAnExecution DEF BookInv
<1>4. now \in Nat /\ DOMAIN slot = Operation
  BY DEF BookInv, SlotInv
<1>5. slot'[operation] = p /\ \A o \in Operation \ {operation} : slot'[o] = slot[o]
  BY <1>1, <1>4
<1>6. now \in 1..now
  BY DEF BookInv, SlotInv
<1>7. SlotInv'
  <2>1. p.queued_at \in 1..now /\ p.ready_at \in Nat
        /\ p.ready_at >= p.queued_at + MIN_TIMELOCK_DELAY_SECONDS
    BY <1>4, <1>6, DelayIsLongEnough, DelayAssumption
  <2>2. DOMAIN slot' = Operation
    BY <1>1, <1>4
  <2> QED
    BY <1>1, <1>5, <2>1, <2>2 DEF BookInv, SlotInv
<1>8. ASSUME NEW o \in Operation, slot'[o] # None
      PROVE  \E j \in DOMAIN log' : announces(j, o)'
  <2>1. CASE o = operation
    <3>1. /\ Len(log) + 1 \in DOMAIN log'
          /\ log'[Len(log) + 1] = e
          /\ Len(log') = Len(log) + 1 /\ Len(log) \in Nat
      BY <1>1, <1>2, AppendFacts
    <3>2. slot'[o].param = param /\ slot'[o].proposer = caller
          /\ slot'[o].queued_at = now
      BY <1>5, <2>1
    <3>3. \A k \in (Len(log) + 2)..Len(log') : log'[k].operation # o
      BY <3>1
    <3>4. \A j : j = Len(log) + 1 => announces(j, o)'
      BY <1>1, <2>1, <3>1, <3>2, <3>3 DEF announces
    <3> QED
      BY <3>1, <3>4
  <2>2. CASE o # operation
    BY <1>1, <1>5, <1>8, <2>2, OthersStayAnnounced
  <2> QED
    BY <2>1, <2>2
<1> QED
  BY <1>3, <1>7, <1>8 DEF BookInv

(* Emptying a slot, by executing or by cancelling what is in it.           *)
LEMMA RemovalKeepsBook ==
    ASSUME BookInv, NEW operation \in Operation, slot[operation] # None,
           NEW event \in {"Executed", "Cancelled"},
           remove_timelock_proposal(operation),
           emit(event, operation, slot[operation].param, slot[operation].proposer),
           event = "Executed" => now >= slot[operation].ready_at,
           now' = now
    PROVE  BookInv'
<1> DEFINE e == [event |-> event, operation |-> operation,
                 param |-> slot[operation].param,
                 proposer |-> slot[operation].proposer,
                 admin |-> instance.admin, at |-> now]
<1>1. /\ slot' = [slot EXCEPT ![operation] = None]
      /\ log' = Append(log, e)
  BY DEF remove_timelock_proposal, write_timelock_proposal, emit
<1>2. PICK S : log \in Seq(S)
  BY DEF BookInv, IsLog
<1>3. DOMAIN slot = Operation
  BY DEF BookInv, SlotInv
<1>4. slot'[operation] = None /\ \A o \in Operation \ {operation} : slot'[o] = slot[o]
  BY <1>1, <1>3
<1>5. SlotInv'
  <2>1. DOMAIN slot' = Operation
    BY <1>1, <1>3
  <2> QED
    BY <1>4, <2>1 DEF BookInv, SlotInv
<1>6. IsLog'
  BY <1>1, <1>2, AppendFacts DEF IsLog
<1>7. ASSUME NEW o \in Operation, slot'[o] # None
      PROVE  \E j \in DOMAIN log' : announces(j, o)'
  BY <1>1, <1>4, <1>7, OthersStayAnnounced
<1>8. ASSUME NEW i \in DOMAIN log', log'[i].event = "Executed"
      PROVE  \E j \in 1..(i - 1) :
                /\ same_proposal(j, i)'
                /\ log'[j].admin = log'[j].proposer
                /\ log'[j].at + MIN_TIMELOCK_DELAY_SECONDS <= log'[i].at
  <2>1. CASE i \in 1..Len(log)
    <3>1. log[i].event = "Executed"
      BY <1>1, <1>2, <1>8, <2>1, AppendFacts
    <3> QED
      BY <1>1, <2>1, <3>1, PastStaysAnnounced DEF BookInv
  <2>2. CASE i = Len(log) + 1
    <3>1. log'[i] = e /\ Len(log) \in Nat /\ DOMAIN log = 1..Len(log)
          /\ \A k \in 1..Len(log) : log'[k] = log[k]
      BY <1>1, <1>2, <2>2, AppendFacts
    <3>2. PICK j \in DOMAIN log : announces(j, operation)
      BY DEF BookInv
    <3>3. j \in 1..(i - 1) /\ log'[j] = log[j]
      BY <2>2, <3>1, <3>2
    <3>4. \A k \in (j + 1)..(i - 1) : log'[k].operation # operation
      BY <2>2, <3>1, <3>2, <3>3 DEF announces
    <3>5. same_proposal(j, i)'
      BY <3>1, <3>2, <3>3, <3>4 DEF same_proposal, announces
    <3>6. now >= slot[operation].ready_at
      BY <1>8, <3>1
    <3>7. log'[j].at + MIN_TIMELOCK_DELAY_SECONDS <= log'[i].at
      BY <3>1, <3>2, <3>3, <3>6, DelayAssumption DEF announces, BookInv, SlotInv
    <3> QED
      BY <3>2, <3>3, <3>5, <3>7 DEF announces
  <2> QED
    BY <1>1, <1>2, <1>8, <2>1, <2>2, AppendFacts
<1> QED
  BY <1>5, <1>6, <1>7, <1>8 DEF BookInv, ExecutionWasAnnounced

(* Steps that touch neither a slot nor the log.                            *)
LEMMA OtherStepsKeepBook ==
    ASSUME BookInv, UNCHANGED <<slot, log>>, now' \in Nat \ {0}, now' >= now
    PROVE  BookInv'
<1>1. SlotInv'
  BY DEF BookInv, SlotInv
<1>2. \A j \in DOMAIN log, o \in Operation : announces(j, o) => announces(j, o)'
  BY DEF announces
<1>3. ExecutionWasAnnounced'
  BY DEF BookInv, ExecutionWasAnnounced, same_proposal
<1> QED
  BY <1>1, <1>2, <1>3 DEF BookInv, IsLog

-----------------------------------------------------------------------------
(* The offices.                                                            *)

handed_to(account) ==
    \E i \in DOMAIN log :
        /\ log[i].event = "Executed"
        /\ log[i].operation = "SetAdmin"
        /\ log[i].param = account

(* CollectorIsNotAdmin is not inductive: the pending collector may be the  *)
(* admin as well, once the office has been handed on.                      *)
OfficeInv ==
    /\ HandoverBySittingAdmin
    /\ read_global_config.fee_collector = instance.admin => handed_to(instance.admin)
    /\ /\ instance.pending_fee_collector # None
       /\ instance.pending_fee_collector = instance.admin
       => handed_to(instance.admin)

AdminInv ==
    /\ now \in 1..MaxTime
    /\ StorageInv
    /\ BookInv
    /\ OfficeInv

(* The log only grows.                                                     *)
LEMMA HandoverIsRemembered ==
    ASSUME IsLog, NEW e, log' = Append(log, e), NEW account, handed_to(account)
    PROVE  \E i \in DOMAIN log' :
              /\ log'[i].event = "Executed"
              /\ log'[i].operation = "SetAdmin"
              /\ log'[i].param = account
<1>1. PICK S : log \in Seq(S)
  BY DEF IsLog
<1>2. PICK i \in DOMAIN log :
              /\ log[i].event = "Executed"
              /\ log[i].operation = "SetAdmin"
              /\ log[i].param = account
  BY DEF handed_to
<1>3. i \in DOMAIN log' /\ log'[i] = log[i]
  BY <1>1, AppendFacts
<1> QED
  BY <1>2, <1>3

(* A step that leaves the accounts of the storage alone.                   *)
LEMMA OfficeKept ==
    ASSUME AdminInv, NEW e, log' = log \/ log' = Append(log, e),
           instance'.admin = instance.admin,
           read_global_config'.fee_collector = read_global_config.fee_collector,
           \/ instance'.pending_fee_collector = instance.pending_fee_collector
           \/ instance'.pending_fee_collector # instance.admin,
           \/ slot'["SetAdmin"] = slot["SetAdmin"]
           \/ slot'["SetAdmin"] = None
           \/ slot'["SetAdmin"].proposer = instance.admin
    PROVE  OfficeInv'
<1>1. ASSUME handed_to(instance.admin)
      PROVE  \E i \in DOMAIN log' :
                /\ log'[i].event = "Executed"
                /\ log'[i].operation = "SetAdmin"
                /\ log'[i].param = instance.admin
  <2>1. CASE log' = log
    BY <1>1, <2>1 DEF handed_to
  <2>2. CASE log' = Append(log, e)
    BY <1>1, <2>2, HandoverIsRemembered DEF AdminInv, BookInv
  <2> QED
    BY <2>1, <2>2
<1>2. HandoverBySittingAdmin'
  BY DEF HandoverBySittingAdmin, AdminInv, OfficeInv
<1>3. handed_to(instance.admin) => handed_to(instance.admin)'
  BY <1>1 DEF handed_to
<1> QED
  BY <1>2, <1>3 DEF AdminInv, OfficeInv

(* The initial storage, of a new contract and of an upgraded one.          *)
LEMMA InitEstablishes ==
    ASSUME Init
    PROVE  AdminInv
<1>1. /\ now = 1 /\ log = <<>>
      /\ slot = [operation \in Operation |-> None]
      /\ instance = OwnKeys(FirstAdmin)
      /\ version \in 1..STORAGE_VERSION
  BY DEF Init, ConfigInit, STORAGE_VERSION
<1>2. now \in 1..MaxTime
  BY <1>1, ParamsAssumption
<1>3. /\ DOMAIN instance = OwnKey
      /\ instance.admin = FirstAdmin
      /\ instance.pending_fee_collector = None
      /\ instance.timelock_delay = None
  BY <1>1 DEF OwnKeys, OwnKey
<1>4. /\ global # NoEntry => DOMAIN global = Setting
      /\ DOMAIN legacy = Setting
      /\ read_global_config.fee_collector # FirstAdmin
  <2>1. CASE /\ global = [default_global_config EXCEPT
                             !.fee_collector = FirstCollector,
                             !.arbitration_fee_bps = FirstArbitrationFee]
             /\ legacy = NoLegacy
    <3>1. /\ DOMAIN global = Setting /\ DOMAIN legacy = Setting
          /\ global.fee_collector = FirstCollector
      BY <2>1 DEF Setting, default_global_config, NoLegacy
    <3>2. global # NoEntry
      BY <3>1, KeyNames DEF NoEntry, SettingsDef
    <3> QED
      BY <3>1, <3>2, AddressAssumption DEF read_global_config
  <2>2. CASE global = NoEntry /\ legacy = LegacyConfig
    <3>1. "fee_collector" \in Setting
      BY KeyNames DEF SettingsDef
    <3>2. read_global_config.fee_collector \in {None, LegacyConfig.fee_collector}
      BY <2>2, <3>1 DEF read_global_config, read_legacy_global_config,
                        default_global_config
    <3> QED
      BY <2>2, <3>2, LegacyAssumption, AddressAssumption
  <2> QED
    BY <2>1, <2>2 DEF Init, ConfigInit
<1>5. StorageInv
  BY <1>1, <1>3, <1>4 DEF StorageInv
<1>6. BookInv
  <2>1. log \in Seq({}) /\ DOMAIN log = {}
    BY <1>1
  <2>2. SlotInv
    BY <1>1 DEF SlotInv
  <2> QED
    BY <1>1, <2>1, <2>2 DEF BookInv, IsLog, ExecutionWasAnnounced
<1>7. OfficeInv
  BY <1>1, <1>3, <1>4, AddressAssumption
     DEF OfficeInv, HandoverBySittingAdmin, Operation
<1> QED
  BY <1>2, <1>5, <1>6, <1>7 DEF AdminInv

-----------------------------------------------------------------------------
(* One lemma per action.                                                   *)

LEMMA FrameKeepsStorage ==
    ASSUME Frame, version' \in 1..STORAGE_VERSION
    PROVE  StorageInv'
BY DEF Frame, StorageInv

LEMMA QueueStep ==
    ASSUME AdminInv, NEW caller, NEW operation \in Operation, NEW param,
           queue(caller, operation, param)
    PROVE  AdminInv'
<1> DEFINE e == [event |-> "Queued", operation |-> operation, param |-> param,
                 proposer |-> caller, admin |-> instance.admin, at |-> now]
<1>1. BookInv'
  BY QueueKeepsBook DEF AdminInv
<1>2. /\ UNCHANGED <<now, config_vars>>
      /\ caller = instance.admin
      /\ log' = Append(log, e)
      /\ slot' = [slot EXCEPT ![operation] =
                    [proposer |-> caller, param |-> param, queued_at |-> now,
                     ready_at |-> now + timelock_delay]]
  BY DEF queue, may_queue, write_timelock_proposal, emit
<1>3. read_global_config' = read_global_config
  BY <1>2 DEF config_vars, read_global_config, read_legacy_global_config
<1>4. StorageInv' /\ now' \in 1..MaxTime
  BY <1>2 DEF AdminInv, StorageInv, config_vars
<1>5. \/ slot'["SetAdmin"] = slot["SetAdmin"]
      \/ slot'["SetAdmin"].proposer = instance.admin
  <2>1. DOMAIN slot = Operation /\ "SetAdmin" \in Operation
    BY DEF AdminInv, BookInv, SlotInv, Operation
  <2> QED
    BY <1>2, <2>1
<1>6. OfficeInv'
  BY <1>2, <1>3, <1>5, OfficeKept DEF config_vars
<1> QED
  BY <1>1, <1>4, <1>6 DEF AdminInv

LEMMA CancelStep ==
    ASSUME AdminInv, NEW caller, NEW operation \in Operation,
           cancel_timelock_op(caller, operation)
    PROVE  AdminInv'
<1> DEFINE e == [event |-> "Cancelled", operation |-> operation,
                 param |-> slot[operation].param,
                 proposer |-> slot[operation].proposer,
                 admin |-> instance.admin, at |-> now]
<1>1. /\ UNCHANGED <<now, config_vars>>
      /\ slot[operation] # None
      /\ remove_timelock_proposal(operation)
      /\ emit("Cancelled", operation, slot[operation].param, slot[operation].proposer)
  BY DEF cancel_timelock_op
<1>2. BookInv'
  BY <1>1, RemovalKeepsBook DEF AdminInv
<1>3. log' = Append(log, e) /\ slot' = [slot EXCEPT ![operation] = None]
  BY <1>1 DEF emit, remove_timelock_proposal, write_timelock_proposal
<1>4. read_global_config' = read_global_config
  BY <1>1 DEF config_vars, read_global_config, read_legacy_global_config
<1>5. StorageInv' /\ now' \in 1..MaxTime
  BY <1>1 DEF AdminInv, StorageInv, config_vars
<1>6. slot'["SetAdmin"] = slot["SetAdmin"] \/ slot'["SetAdmin"] = None
  <2>1. DOMAIN slot = Operation /\ "SetAdmin" \in Operation
    BY DEF AdminInv, BookInv, SlotInv, Operation
  <2> QED
    BY <1>3, <2>1
<1>7. OfficeInv'
  BY <1>1, <1>3, <1>4, <1>6, OfficeKept DEF config_vars
<1> QED
  BY <1>2, <1>5, <1>7 DEF AdminInv

LEMMA ExecuteStep ==
    ASSUME AdminInv, NEW caller, NEW operation \in Operation, NEW param,
           execute(caller, operation, param)
    PROVE  AdminInv'
<1> DEFINE e == [event |-> "Executed", operation |-> operation, param |-> param,
                 proposer |-> caller, admin |-> instance.admin, at |-> now]
<1>1. /\ now' = now /\ version' = version
      /\ slot[operation] # None
      /\ now >= slot[operation].ready_at
      /\ caller = slot[operation].proposer
      /\ param = slot[operation].param
      /\ remove_timelock_proposal(operation)
      /\ emit("Executed", operation, param, caller)
      /\ effect(operation, param, caller)
  BY DEF execute, execute_timelock_op
<1>2. BookInv'
  BY <1>1, RemovalKeepsBook DEF AdminInv
<1>3. log' = Append(log, e) /\ slot' = [slot EXCEPT ![operation] = None]
  BY <1>1 DEF emit, remove_timelock_proposal, write_timelock_proposal
<1>4. EffectOn(operation, param)
  BY <1>1, EffectFrame DEF AdminInv
<1>5. StorageInv' /\ now' \in 1..MaxTime
  BY <1>1, <1>4, FrameKeepsStorage DEF EffectOn, AdminInv, StorageInv
<1>6. DOMAIN slot = Operation /\ "SetAdmin" \in Operation
  BY DEF AdminInv, BookInv, SlotInv, Operation
<1>7. OfficeInv'
  <2>1. CASE operation = "SetAdmin"
    <3>1. PICK S : log \in Seq(S)
      BY DEF AdminInv, BookInv, IsLog
    <3>2. Len(log) + 1 \in DOMAIN log' /\ log'[Len(log) + 1] = e
      BY <1>3, <3>1, AppendFacts
    <3>3. \E i \in DOMAIN log' :
              /\ log'[i].event = "Executed"
              /\ log'[i].operation = "SetAdmin"
              /\ log'[i].param = param
      BY <2>1, <3>2
    <3>4. instance'.admin = param
      BY <1>4, <2>1 DEF EffectOn
    <3>5. handed_to(instance.admin)'
      BY <3>3, <3>4 DEF handed_to
    <3>6. slot'["SetAdmin"] = None
      BY <1>3, <1>6, <2>1
    <3> QED
      BY <3>5, <3>6 DEF OfficeInv, HandoverBySittingAdmin
  <2>2. CASE operation # "SetAdmin"
    <3>1. slot'["SetAdmin"] = slot["SetAdmin"]
      BY <1>3, <1>6, <2>2
    <3> QED
      BY <1>3, <1>4, <2>2, <3>1, OfficeKept DEF EffectOn
  <2> QED
    BY <2>1, <2>2
<1> QED
  BY <1>2, <1>5, <1>7 DEF AdminInv

LEMMA DirectStep ==
    ASSUME AdminInv, NEW caller, NEW operation \in DirectOperation, NEW param,
           set_directly(caller, operation, param)
    PROVE  AdminInv'
<1>1. /\ UNCHANGED <<now, version, slot, log>>
      /\ effect(operation, param, caller)
      /\ operation # "SetAdmin"
  BY DEF set_directly, DirectOperation
<1>2. EffectOn(operation, param)
  BY <1>1, EffectFrame DEF AdminInv
<1>3. StorageInv' /\ now' \in 1..MaxTime
  BY <1>1, <1>2, FrameKeepsStorage DEF EffectOn, AdminInv, StorageInv
<1>4. BookInv'
  BY <1>1, OtherStepsKeepBook DEF AdminInv, BookInv, SlotInv
<1>5. OfficeInv'
  BY <1>1, <1>2, OfficeKept DEF EffectOn
<1> QED
  BY <1>3, <1>4, <1>5 DEF AdminInv

LEMMA TickStep ==
    ASSUME AdminInv, Tick
    PROVE  AdminInv'
<1>1. /\ UNCHANGED <<config_vars, slot, log>>
      /\ now' = now + 1 /\ now < MaxTime
  BY DEF Tick
<1>2. now' \in 1..MaxTime /\ now' \in Nat \ {0} /\ now' >= now
  BY <1>1, ParamsAssumption DEF AdminInv
<1>3. BookInv'
  BY <1>1, <1>2, OtherStepsKeepBook DEF AdminInv
<1>4. read_global_config' = read_global_config /\ StorageInv'
  BY <1>1 DEF config_vars, read_global_config, read_legacy_global_config,
              AdminInv, StorageInv
<1>5. OfficeInv'
  BY <1>1, <1>4, OfficeKept DEF config_vars
<1> QED
  BY <1>2, <1>3, <1>4, <1>5 DEF AdminInv

LEMMA MigrateStep ==
    ASSUME AdminInv, NEW caller, migrate(caller), UNCHANGED <<now, slot, log>>
    PROVE  AdminInv'
<1>1. /\ global' = read_global_config
      /\ legacy' = NoLegacy
      /\ version' = STORAGE_VERSION
      /\ instance' = instance
  BY DEF migrate, migrate_legacy_global_config, update_global_config
<1>2. DOMAIN read_global_config = Setting
  BY ReadIsTotal DEF AdminInv
<1>3. global' # NoEntry
  BY <1>1, <1>2, KeyNames DEF NoEntry, SettingsDef
<1>4. read_global_config' = read_global_config
  BY <1>1, <1>3 DEF read_global_config
<1>5. StorageInv'
  BY <1>1, <1>2 DEF AdminInv, StorageInv, NoLegacy, STORAGE_VERSION
<1>6. BookInv' /\ now' \in 1..MaxTime
  BY OtherStepsKeepBook DEF AdminInv, BookInv, SlotInv
<1>7. OfficeInv'
  BY <1>1, <1>4, OfficeKept
<1> QED
  BY <1>5, <1>6, <1>7 DEF AdminInv

LEMMA AcceptStep ==
    ASSUME AdminInv, NEW caller, UNCHANGED <<now, slot, log>>,
           accept_fee_collector(caller) \/ accept_treasury(caller)
    PROVE  AdminInv'
<1>1. PICK role \in {"fee_collector", "treasury"},
           pending \in {"pending_fee_collector", "pending_treasury"} :
        /\ accept_role(role, pending, caller)
        /\ role = "fee_collector" <=> pending = "pending_fee_collector"
        /\ DOMAIN legacy' = Setting
  BY DEF accept_fee_collector, accept_treasury, AdminInv, StorageInv
<1>2. /\ instance[pending] # None /\ caller = instance[pending]
      /\ instance' = [instance EXCEPT ![pending] = None]
      /\ global' = [read_global_config EXCEPT ![role] = caller]
      /\ version' = version
  BY <1>1 DEF accept_role, update_global_config
<1>3. DOMAIN read_global_config = Setting /\ DOMAIN instance = OwnKeysDef
  BY ReadIsTotal, KeyNames DEF AdminInv, StorageInv
<1>4. DOMAIN global' = Setting /\ global' # NoEntry
  BY <1>2, <1>3, KeyNames DEF NoEntry, SettingsDef
<1>5. read_global_config' = global'
  BY <1>4 DEF read_global_config
<1>6. /\ instance'.admin = instance.admin
      /\ instance'.timelock_delay = instance.timelock_delay
      /\ DOMAIN instance' = OwnKey
  BY <1>1, <1>2, <1>3, KeyNames DEF OwnKeysDef
<1>7. StorageInv'
  BY <1>1, <1>2, <1>4, <1>6 DEF AdminInv, StorageInv
<1>8. BookInv' /\ now' \in 1..MaxTime
  BY OtherStepsKeepBook DEF AdminInv, BookInv, SlotInv
<1>9. OfficeInv'
  <2>1. CASE role = "fee_collector"
    <3>1. pending = "pending_fee_collector"
      BY <1>1, <2>1
    <3>2. read_global_config'.fee_collector = instance.pending_fee_collector
      BY <1>2, <1>3, <1>5, <2>1, <3>1, KeyNames DEF SettingsDef
    <3>3. instance'.pending_fee_collector = None
      BY <1>2, <1>3, <3>1 DEF OwnKeysDef
    <3>4. handed_to(instance.admin) => handed_to(instance.admin)'
      BY <1>6 DEF handed_to
    <3>5. HandoverBySittingAdmin'
      BY <1>6 DEF HandoverBySittingAdmin, AdminInv, OfficeInv
    <3> QED
      BY <1>2, <1>6, <3>1, <3>2, <3>3, <3>4, <3>5 DEF AdminInv, OfficeInv
  <2>2. CASE role = "treasury"
    <3>1. pending = "pending_treasury"
      BY <1>1, <2>2
    <3>2. read_global_config'.fee_collector = read_global_config.fee_collector
      BY <1>2, <1>3, <1>5, <2>2, KeyNames DEF SettingsDef
    <3>3. instance'.pending_fee_collector = instance.pending_fee_collector
      BY <1>2, <1>3, <3>1 DEF OwnKeysDef
    <3> QED
      BY <1>6, <3>2, <3>3, OfficeKept
  <2> QED
    BY <2>1, <2>2
<1> QED
  BY <1>7, <1>8, <1>9 DEF AdminInv

(* Every step of the admin's contract keeps the invariant.                 *)
LEMMA StepKeeps ==
    ASSUME AdminInv, [Next]_vars
    PROVE  AdminInv'
<1>1. CASE Tick
  BY <1>1, TickStep
<1>2. CASE Timelock
  BY <1>2, QueueStep, ExecuteStep, CancelStep, ParamsAssumption DEF Timelock
<1>3. CASE Immediate
  <2>1. ASSUME NEW caller \in Address, NEW operation \in DOMAIN DirectParams,
               NEW param, set_directly(caller, operation, param)
        PROVE  AdminInv'
    BY <2>1, DirectStep, ParamsAssumption
  <2> QED
    BY <1>3, <2>1, MigrateStep, AcceptStep DEF Immediate
<1>4. CASE UNCHANGED vars
  <2>1. /\ UNCHANGED <<now, instance, global, legacy, version, slot, log>>
        /\ read_global_config' = read_global_config
    BY <1>4 DEF vars, read_global_config, read_legacy_global_config
  <2>2. StorageInv' /\ now' \in 1..MaxTime
    BY <2>1 DEF AdminInv, StorageInv
  <2>3. BookInv'
    BY <2>1, OtherStepsKeepBook DEF AdminInv, BookInv, SlotInv
  <2>4. OfficeInv'
    BY <2>1, OfficeKept
  <2> QED
    BY <2>2, <2>3, <2>4 DEF AdminInv
<1> QED
  BY <1>1, <1>2, <1>3, <1>4 DEF Next
-----------------------------------------------------------------------------
LEMMA AdminInvariant == Spec => []AdminInv
<1>1. Init => AdminInv
  BY InitEstablishes
<1>2. AdminInv /\ [Next]_vars => AdminInv'
  BY StepKeeps
<1> QED
  BY <1>1, <1>2, PTL DEF Spec

(* The delay in force and every waiting proposal stay within the bounds.   *)
THEOREM TypesAreKept == Spec => []TypeOK
<1>1. AdminInv => TypeOK
  BY DEF AdminInv, StorageInv, BookInv, SlotInv, TypeOK
<1> QED
  BY <1>1, AdminInvariant, PTL

(* What is executed was announced by the admin of that day, unchanged, at  *)
(* least the least delay before.                                           *)
THEOREM ExecutionsAreAnnounced == Spec => []ExecutionWasAnnounced
<1>1. AdminInv => ExecutionWasAnnounced
  BY DEF AdminInv, BookInv
<1> QED
  BY <1>1, AdminInvariant, PTL

(* Only the sitting admin hands the office on.                             *)
THEOREM OfficeIsHandedOnByItsHolder == Spec => []HandoverBySittingAdmin
<1>1. AdminInv => HandoverBySittingAdmin
  BY DEF AdminInv, OfficeInv
<1> QED
  BY <1>1, AdminInvariant, PTL

(* The fee collector is the admin only after a handover of the office.     *)
THEOREM CollectorStaysSeparate == Spec => []CollectorIsNotAdmin
<1>1. AdminInv => CollectorIsNotAdmin
  BY DEF AdminInv, OfficeInv, handed_to, CollectorIsNotAdmin
<1> QED
  BY <1>1, AdminInvariant, PTL

-----------------------------------------------------------------------------
(* What a step writes.                                                     *)

(* Only these keys and these settings change.                              *)
Touches(keys, settings) ==
    /\ \A k \in OwnKeysDef \ keys : instance'[k] = instance[k]
    /\ \A s \in SettingsDef \ settings :
          read_global_config'[s] = read_global_config[s]

(* What the admin and the pending holders may change without the timelock. *)
DirectKeys == {"pending_fee_collector", "pending_treasury", "allowed_tokens"}

DirectSettings ==
    {"fee_collector", "treasury", "arbitration_fee_bps", "platform_fee_bps",
     "token_allowlist_enabled"}

Limits == {"min_amount", "max_amount"}

(* One setting at most, or the two limits.                                 *)
OneAtATime ==
    \/ Touches(OwnKeysDef, Limits)
    \/ \E s \in SettingsDef : Touches(OwnKeysDef, {s})

(* A write of some of the settings changes what is read of those only.     *)
LEMMA GlobalTouches ==
    ASSUME StorageInv, NEW settings, DOMAIN global' = Setting,
           \A s \in SettingsDef \ settings : global'[s] = read_global_config[s]
    PROVE  \A s \in SettingsDef \ settings :
              read_global_config'[s] = read_global_config[s]
<1>1. global' # NoEntry
  BY KeyNames DEF NoEntry, SettingsDef
<1>2. read_global_config' = global'
  BY <1>1 DEF read_global_config
<1> QED
  BY <1>2

LEMMA SettingTouches ==
    ASSUME StorageInv, NEW setting, NEW value, set_setting(setting, value)
    PROVE  Touches({}, {setting})
<1>1. DOMAIN read_global_config = SettingsDef
  BY ReadIsTotal, KeyNames
<1>2. /\ global' = [read_global_config EXCEPT ![setting] = value]
      /\ instance' = instance
  BY DEF set_setting, update_global_config
<1>3. /\ DOMAIN global' = Setting
      /\ \A s \in SettingsDef \ {setting} : global'[s] = read_global_config[s]
  BY <1>1, <1>2, KeyNames
<1> QED
  BY <1>2, <1>3, GlobalTouches DEF Touches

LEMMA LimitsTouch ==
    ASSUME StorageInv, NEW limits, set_amount_limits(limits)
    PROVE  Touches({}, Limits)
<1>1. DOMAIN read_global_config = SettingsDef
  BY ReadIsTotal, KeyNames
<1>2. /\ global' = [read_global_config EXCEPT !.min_amount = limits.min,
                                              !.max_amount = limits.max]
      /\ instance' = instance
  BY DEF set_amount_limits, update_global_config
<1>3. /\ DOMAIN global' = Setting
      /\ \A s \in SettingsDef \ Limits : global'[s] = read_global_config[s]
  BY <1>1, <1>2, KeyNames DEF Limits
<1> QED
  BY <1>2, <1>3, GlobalTouches DEF Touches

LEMMA OwnTouches ==
    ASSUME StorageInv, NEW key \in OwnKeysDef, NEW value, set_own(key, value)
    PROVE  Touches({key}, {})
<1>1. instance' = [instance EXCEPT ![key] = value] /\ UNCHANGED <<global, legacy>>
  BY DEF set_own
<1>2. DOMAIN instance = OwnKeysDef
  BY KeyNames DEF StorageInv
<1>3. read_global_config' = read_global_config
  BY <1>1 DEF read_global_config, read_legacy_global_config
<1> QED
  BY <1>1, <1>2, <1>3 DEF Touches

(* An operation changes one key, one setting or the two limits; what has a *)
(* direct setter is outside the timelock's own.                            *)
LEMMA EffectTouches ==
    ASSUME StorageInv, NEW operation, NEW param, NEW caller,
           effect(operation, param, caller)
    PROVE  /\ OneAtATime
           /\ operation \in DirectOperation => Touches(DirectKeys, DirectSettings)
<1> DEFINE Goal == /\ OneAtATime
                   /\ operation \in DirectOperation
                         => Touches(DirectKeys, DirectSettings)
<1>1. ASSUME NEW setting \in SettingsDef, NEW value, set_setting(setting, value),
             operation \in DirectOperation => setting \in DirectSettings
      PROVE  Goal
  <2>1. Touches({}, {setting})
    BY <1>1, SettingTouches
  <2>2. Touches(OwnKeysDef, {setting})
    BY <2>1 DEF Touches
  <2>3. operation \in DirectOperation => Touches(DirectKeys, DirectSettings)
    BY <1>1, <2>1 DEF Touches
  <2> QED
    BY <1>1, <2>2, <2>3 DEF OneAtATime
<1>2. ASSUME NEW key \in OwnKeysDef, NEW value, set_own(key, value),
             operation \in DirectOperation => key \in DirectKeys
      PROVE  Goal
  <2>1. Touches({key}, {})
    BY <1>2, OwnTouches
  <2>2. Touches(OwnKeysDef, Limits)
    BY <2>1 DEF Touches
  <2>3. operation \in DirectOperation => Touches(DirectKeys, DirectSettings)
    BY <1>2, <2>1 DEF Touches
  <2> QED
    BY <2>2, <2>3 DEF OneAtATime
<1> HIDE DEF Goal
<1>3. /\ {"arbitration_fee_bps", "platform_fee_bps", "appeal_fee_bps",
          "ttl_extension_ledgers", "resolver_strict",
          "token_allowlist_enabled", "paused"} \subseteq SettingsDef
      /\ {"admin", "wasm", "pending_treasury", "pending_fee_collector",
          "approved_resolvers", "allowed_tokens", "max_appeals",
          "max_basket_size", "timelock_delay"} \subseteq OwnKeysDef
  BY DEF SettingsDef, OwnKeysDef
<1>4. CASE operation = "SetAmountLimits" /\ set_amount_limits(param)
  <2>1. Touches({}, Limits)
    BY <1>4, LimitsTouch
  <2>2. Touches(OwnKeysDef, Limits) /\ operation \notin DirectOperation
    BY <1>4, <2>1 DEF Touches, DirectOperation
  <2> QED
    BY <2>2 DEF Goal, OneAtATime
<1>5. CASE \/ operation = "SetArbitrationFee" /\ update_arbitration_fee(caller, param)
           \/ operation = "SetPlatformFee" /\ set_platform_fee(param)
           \/ operation = "SetTokenAllowlistEnabled"
                /\ set_token_allowlist_enabled(param)
  BY <1>1, <1>3, <1>5 DEF update_arbitration_fee, set_platform_fee,
                          set_token_allowlist_enabled, DirectSettings, Goal
<1>6. CASE \/ operation = "SetAppealFee" /\ set_appeal_fee(param)
           \/ operation = "SetTtlExtension" /\ set_ttl_extension(param)
           \/ operation = "SetResolverStrict" /\ set_resolver_strict(param)
           \/ operation = "PauseContract" /\ pause_contract
           \/ operation = "UnpauseContract" /\ unpause_contract
  BY <1>1, <1>3, <1>6 DEF set_appeal_fee, set_ttl_extension, set_resolver_strict,
                          pause_contract, unpause_contract, DirectOperation, Goal
<1>7. CASE \/ operation = "SetTreasury" /\ set_treasury(param)
           \/ operation = "SetFeeCollector" /\ set_fee_collector(param)
           \/ operation = "AddAllowedToken" /\ add_allowed_token(param)
           \/ operation = "RemoveAllowedToken" /\ remove_allowed_token(param)
  BY <1>2, <1>3, <1>7 DEF set_treasury, set_fee_collector, add_allowed_token,
                          remove_allowed_token, DirectKeys, Goal
<1>8. CASE \/ operation = "SetAdmin" /\ set_admin(param)
           \/ operation = "Upgrade" /\ upgrade(param)
           \/ operation = "AddApprovedResolver" /\ add_approved_resolver(param)
           \/ operation = "RemoveApprovedResolver" /\ remove_approved_resolver(param)
           \/ operation = "SetMaxAppeals" /\ set_max_appeals(param)
           \/ operation = "SetMaxBasketSize" /\ set_max_basket_size(param)
           \/ operation = "SetTimelockDelay" /\ set_timelock_delay(param)
  BY <1>2, <1>3, <1>8 DEF set_admin, upgrade, add_approved_resolver,
                          remove_approved_resolver, set_max_appeals,
                          set_max_basket_size, set_timelock_delay,
                          DirectOperation, Goal
<1> QED
  BY <1>4, <1>5, <1>6, <1>7, <1>8, Zenon DEF effect, Goal

(* The migration of the storage changes nothing that is read.              *)
LEMMA MigrateTouches ==
    ASSUME StorageInv, NEW caller, migrate(caller)
    PROVE  Touches({}, {})
<1>1. global' = read_global_config /\ instance' = instance
  BY DEF migrate, migrate_legacy_global_config, update_global_config
<1>2. DOMAIN global' = Setting
  BY <1>1, ReadIsTotal
<1>3. \A s \in SettingsDef \ {} : global'[s] = read_global_config[s]
  BY <1>1
<1> QED
  BY <1>1, <1>2, <1>3, GlobalTouches DEF Touches

(* A pending holder takes over one role.                                   *)
LEMMA AcceptTouches ==
    ASSUME StorageInv, NEW caller,
           accept_fee_collector(caller) \/ accept_treasury(caller)
    PROVE  \E role \in {"fee_collector", "treasury"} : Touches(DirectKeys, {role})
<1>1. PICK role \in {"fee_collector", "treasury"},
           pending \in {"pending_fee_collector", "pending_treasury"} :
        accept_role(role, pending, caller)
  BY DEF accept_fee_collector, accept_treasury
<1>2. /\ instance' = [instance EXCEPT ![pending] = None]
      /\ global' = [read_global_config EXCEPT ![role] = caller]
  BY <1>1 DEF accept_role, update_global_config
<1>3. DOMAIN read_global_config = SettingsDef /\ DOMAIN instance = OwnKeysDef
  BY ReadIsTotal, KeyNames DEF StorageInv
<1>4. DOMAIN global' = Setting /\ pending \in DirectKeys
  BY <1>2, <1>3, KeyNames DEF DirectKeys
<1>5. \A s \in SettingsDef \ {role} : global'[s] = read_global_config[s]
  BY <1>2, <1>3
<1>6. \A k \in OwnKeysDef \ DirectKeys : instance'[k] = instance[k]
  BY <1>2, <1>3, <1>4
<1> QED
  BY <1>4, <1>5, <1>6, GlobalTouches DEF Touches

(* A step that writes no storage.                                          *)
LEMMA QuietTouches ==
    ASSUME UNCHANGED config_vars
    PROVE  Touches({}, {})
BY DEF config_vars, read_global_config, read_legacy_global_config, Touches

(* Every step.                                                             *)
LEMMA StepTouches ==
    ASSUME AdminInv, [Next]_vars
    PROVE  /\ OneAtATime
           /\ version' # version => Touches({}, {})
           /\ \/ Touches(DirectKeys, DirectSettings)
              \/ \E e : e.event = "Executed" /\ log' = Append(log, e)
<1>1. StorageInv
  BY DEF AdminInv
<1>2. ASSUME Touches({}, {})
      PROVE  OneAtATime /\ Touches(DirectKeys, DirectSettings)
  <2>1. Touches(OwnKeysDef, Limits) /\ Touches(DirectKeys, DirectSettings)
    BY <1>2 DEF Touches
  <2> QED
    BY <2>1 DEF OneAtATime
<1>3. CASE UNCHANGED config_vars
  BY <1>2, <1>3, QuietTouches
<1>4. ASSUME NEW caller \in Address, NEW operation, NEW param,
             execute(caller, operation, param)
      PROVE  /\ OneAtATime /\ version' = version
             /\ \E e : e.event = "Executed" /\ log' = Append(log, e)
  <2> DEFINE e == [event |-> "Executed", operation |-> operation, param |-> param,
                   proposer |-> caller, admin |-> instance.admin, at |-> now]
  <2>1. /\ effect(operation, param, caller) /\ version' = version
        /\ log' = Append(log, e)
    BY <1>4 DEF execute, execute_timelock_op, emit
  <2>2. e.event = "Executed"
    OBVIOUS
  <2> HIDE DEF e
  <2> QED
    BY <1>1, <2>1, <2>2, EffectTouches
<1>5. ASSUME NEW caller \in Address, NEW operation \in DirectOperation, NEW param,
             set_directly(caller, operation, param)
      PROVE  OneAtATime /\ version' = version /\ Touches(DirectKeys, DirectSettings)
  BY <1>1, <1>5, EffectTouches, Zenon DEF set_directly
<1>6. ASSUME NEW caller \in Address, migrate(caller)
      PROVE  Touches({}, {})
  BY <1>1, <1>6, MigrateTouches
<1>7. ASSUME NEW caller \in Address,
             accept_fee_collector(caller) \/ accept_treasury(caller)
      PROVE  OneAtATime /\ version' = version /\ Touches(DirectKeys, DirectSettings)
  <2>1. version' = version
    BY <1>7 DEF accept_fee_collector, accept_treasury, accept_role
  <2>2. PICK role \in {"fee_collector", "treasury"} : Touches(DirectKeys, {role})
    BY <1>1, <1>7, AcceptTouches
  <2>3. role \in SettingsDef /\ role \in DirectSettings
    BY DEF SettingsDef, DirectSettings
  <2>4. Touches(OwnKeysDef, {role}) /\ Touches(DirectKeys, DirectSettings)
    BY <2>2, <2>3 DEF Touches
  <2> QED
    BY <2>1, <2>3, <2>4 DEF OneAtATime
<1>8. \/ UNCHANGED config_vars
      \/ \E caller \in Address :
            \/ \E operation, param : execute(caller, operation, param)
            \/ \E operation \in DirectOperation : \E param :
                  set_directly(caller, operation, param)
            \/ migrate(caller)
            \/ accept_fee_collector(caller)
            \/ accept_treasury(caller)
  <2>1. Tick \/ UNCHANGED vars => UNCHANGED config_vars
    BY DEF Tick, vars, config_vars
  <2>2. ASSUME NEW caller, NEW operation, NEW param,
               queue(caller, operation, param) \/ cancel_timelock_op(caller, operation)
        PROVE  UNCHANGED config_vars
    BY <2>2, Zenon DEF queue, cancel_timelock_op
  <2>3. DOMAIN DirectParams \subseteq DirectOperation
    BY ParamsAssumption
  <2> QED
    BY <2>1, <2>2, <2>3, Zenon DEF Next, Timelock, Immediate
<1>9. config_vars' = config_vars => version' = version
  BY DEF config_vars
<1> QED
  BY <1>2, <1>3, <1>4, <1>5, <1>6, <1>7, <1>8, <1>9
-----------------------------------------------------------------------------
(* MigrationKeepsSettings: a write of the settings or of a role changes no *)
(* setting but its own, before the migration as after it, and the          *)
(* migration itself changes none.                                          *)
THEOREM SettingsAreKept == Spec => MigrationKeepsSettings
<1>1. ASSUME AdminInv, [Next]_vars
      PROVE  /\ \/ changed_settings \subseteq {"min_amount", "max_amount"}
                \/ Cardinality(changed_settings) <= 1
             /\ version' # version => changed_settings = {}
  <2>1. ASSUME NEW keys, NEW settings, Touches(keys, settings)
        PROVE  changed_settings \subseteq settings
    BY <2>1, KeyNames DEF changed_settings, Touches
  <2>2. ASSUME NEW s, changed_settings \subseteq {s}
        PROVE  Cardinality(changed_settings) <= 1
    <3>1. IsFiniteSet({s}) /\ Cardinality({s}) = 1
      BY FS_Singleton
    <3>2. Cardinality(changed_settings) <= Cardinality({s})
      BY <2>2, <3>1, FS_Subset
    <3> QED
      BY <3>1, <3>2
  <2>3. Touches(OwnKeysDef, Limits)
           => changed_settings \subseteq {"min_amount", "max_amount"}
    BY <2>1 DEF Limits
  <2>4. ASSUME \E s \in SettingsDef : Touches(OwnKeysDef, {s})
        PROVE  Cardinality(changed_settings) <= 1
    <3>1. \E s : changed_settings \subseteq {s}
      BY <2>1, <2>4
    <3> QED
      BY <2>2, <3>1
  <2>5. version' # version => changed_settings = {}
    BY <1>1, <2>1, StepTouches
  <2> QED
    BY <1>1, <2>3, <2>4, <2>5, StepTouches DEF OneAtATime
<1>2. AdminInv /\ [Next]_vars
         => [/\ \/ changed_settings \subseteq {"min_amount", "max_amount"}
                \/ Cardinality(changed_settings) <= 1
             /\ version' # version => changed_settings = {}]_vars
  BY <1>1
<1> QED
  BY <1>2, AdminInvariant, PTL DEF Spec, MigrationKeepsSettings

(* GovernedOnlyByTimelock: the direct setters, the acceptance of a role    *)
(* and the migration reach nothing the timelock governs; only an execution *)
(* does, and it is in the log.                                             *)
THEOREM TimelockGoverns == Spec => GovernedOnlyByTimelock
<1> DEFINE governed == <<instance.admin, instance.wasm, instance.timelock_delay,
                         instance.approved_resolvers, instance.max_appeals,
                         instance.max_basket_size, read_global_config.paused,
                         read_global_config.min_amount,
                         read_global_config.max_amount,
                         read_global_config.ttl_extension_ledgers,
                         read_global_config.appeal_fee_bps,
                         read_global_config.resolver_strict>>
           Logged == Len(log') = Len(log) + 1 /\ log'[Len(log')].event = "Executed"
<1>1. ASSUME AdminInv, [Next]_vars
      PROVE  governed' # governed => Logged
  <2>1. CASE Touches(DirectKeys, DirectSettings)
    <3>1. /\ {"admin", "wasm", "timelock_delay", "approved_resolvers", "max_appeals",
              "max_basket_size"} \subseteq OwnKeysDef \ DirectKeys
          /\ {"paused", "min_amount", "max_amount", "ttl_extension_ledgers",
              "appeal_fee_bps", "resolver_strict"}
                \subseteq SettingsDef \ DirectSettings
      BY DEF OwnKeysDef, DirectKeys, SettingsDef, DirectSettings
    <3>2. governed' = governed
      BY <2>1, <3>1 DEF Touches
    <3> QED
      BY <3>2
  <2>2. CASE \E e : e.event = "Executed" /\ log' = Append(log, e)
    <3>1. PICK S : log \in Seq(S)
      BY <1>1 DEF AdminInv, BookInv, IsLog
    <3> QED
      BY <2>2, <3>1, AppendFacts
  <2> QED
    BY <1>1, <2>1, <2>2, StepTouches
<1>2. AdminInv /\ [Next]_vars => [governed' # governed => Logged]_vars
  BY <1>1
<1> QED
  BY <1>2, AdminInvariant, PTL DEF Spec, GovernedOnlyByTimelock
=============================================================================
