----------------------------- MODULE AdminConfig -----------------------------
(***************************************************************************)
(* The instance storage behind the admin's settings (storage.rs, types.rs, *)
(* admin.rs): the settings folded into one GlobalConfig entry, the keys    *)
(* they had before version 2 of the storage, the keys of their own, and    *)
(* the migration from one layout to the other.  A contract upgraded from   *)
(* version 1 serves calls before anyone has called migrate.                *)
(***************************************************************************)
EXTENDS EscrowFees, FiniteSets

CONSTANTS
    Address,               \* accounts that can sign a call
    None,                  \* the Option::None of the code
    zero_address,          \* the all-zero account, which cannot
    zero_hash,             \* 32 zero bytes in place of a WASM hash
    MIN_TIMELOCK_DELAY_SECONDS,
    MAX_TIMELOCK_DELAY_SECONDS,
    ADMIN_TIMELOCK_DELAY_SECONDS,
    FirstAdmin, FirstCollector, FirstArbitrationFee,  \* what initialize is given
    LegacyConfig           \* a version 1 contract's keys: a value or None each

VARIABLES
    instance,   \* the keys a setting has of its own
    global,     \* DataKey::GlobalConfig, NoEntry before it is first written
    legacy,     \* the version 1 keys: a value or None each
    version     \* DataKey::StorageVersion

config_vars == <<instance, global, legacy, version>>

STORAGE_VERSION == 2
MIN_TTL_EXTENSION == 1000
MAX_TTL_EXTENSION == 2592000
MIN_MAX_BASKET_SIZE == 1

ASSUME AddressAssumption ==
    /\ None \notin Address /\ zero_address \notin Address
    /\ {FirstAdmin, FirstCollector} \subseteq Address
    /\ FirstAdmin # FirstCollector

ASSUME DelayAssumption ==
    /\ {MIN_TIMELOCK_DELAY_SECONDS, MAX_TIMELOCK_DELAY_SECONDS,
        ADMIN_TIMELOCK_DELAY_SECONDS} \subseteq Nat
    /\ ADMIN_TIMELOCK_DELAY_SECONDS \in
          MIN_TIMELOCK_DELAY_SECONDS..MAX_TIMELOCK_DELAY_SECONDS
-----------------------------------------------------------------------------
(* The flags of state_flags are fields of their own; the largest amount    *)
(* and the dispute timeout stand for the code's, which are larger.         *)
default_global_config ==
    [fee_collector |-> None, treasury |-> None, protocol_fee_bps |-> 0,
     arbitration_fee_bps |-> 0, platform_fee_bps |-> 0, appeal_fee_bps |-> 0,
     min_amount |-> 1, max_amount |-> 1000000, dispute_timeout |-> 30,
     ttl_extension_ledgers |-> 120960, paused |-> FALSE,
     token_allowlist_enabled |-> FALSE, resolver_strict |-> FALSE,
     recovery_mode |-> FALSE]

Setting == DOMAIN default_global_config

NoLegacy == [s \in Setting |-> None]

(* A version 1 contract has the same separation of roles initialize checks. *)
ASSUME LegacyAssumption ==
    /\ DOMAIN LegacyConfig = Setting
    /\ LegacyConfig.fee_collector # FirstAdmin

read_legacy_global_config ==
    [s \in Setting |->
        IF legacy[s] = None THEN default_global_config[s] ELSE legacy[s]]

(* A GlobalConfig that was never written has no fields.                    *)
NoEntry == [s \in {} |-> None]

read_global_config == IF global = NoEntry THEN read_legacy_global_config ELSE global

update_global_config(c) == global' = c

OwnKeys(admin) ==
    [admin |-> admin, pending_fee_collector |-> None, pending_treasury |-> None,
     timelock_delay |-> None, approved_resolvers |-> {}, allowed_tokens |-> {},
     max_appeals |-> None, max_basket_size |-> None, wasm |-> None]

(* A fresh contract that has just been initialized, or one that runs the   *)
(* new code over version 1's storage.                                      *)
ConfigInit ==
    /\ instance = OwnKeys(FirstAdmin)
    /\ \/ /\ global = [default_global_config EXCEPT
                          !.fee_collector = FirstCollector,
                          !.arbitration_fee_bps = FirstArbitrationFee]
          /\ legacy = NoLegacy
          /\ version = STORAGE_VERSION
       \/ /\ global = NoEntry
          /\ legacy = LegacyConfig
          /\ version = 1

(* Mutant of migrate_legacy_global_config: the legacy keys win.            *)
migrate_over_settings ==
    /\ update_global_config(read_legacy_global_config)
    /\ legacy' = NoLegacy

(* A GlobalConfig that a setter wrote before the migration is authoritative. *)
migrate_legacy_global_config ==
    /\ update_global_config(read_global_config)
    /\ legacy' = NoLegacy

migrate(caller) ==
    /\ caller = instance.admin
    /\ version < STORAGE_VERSION
    /\ migrate_legacy_global_config
    /\ version' = STORAGE_VERSION
    /\ UNCHANGED instance
-----------------------------------------------------------------------------
(* Writes.  Each of them says what becomes of every variable but version.  *)

set_own(key, value) ==
    /\ instance' = [instance EXCEPT ![key] = value]
    /\ UNCHANGED <<global, legacy>>

set_setting(setting, value) ==
    /\ update_global_config([read_global_config EXCEPT ![setting] = value])
    /\ UNCHANGED <<instance, legacy>>

(* Mutant of validate_role_change: the admin may be named.                 *)
validate_role_change_anyone(role, new) ==
    /\ new # zero_address
    /\ read_global_config[role] \notin {None, new}

(* validate_fee_collector_change and validate_treasury_change: the role's  *)
(* present holder must exist, and neither it, the admin nor the zero       *)
(* address can be named.                                                   *)
validate_role_change(role, new) ==
    /\ new \notin {zero_address, instance.admin}
    /\ read_global_config[role] \notin {None, new}

(* The pending holder takes the role over; nothing is checked again.       *)
accept_role(role, pending, caller) ==
    /\ instance[pending] # None
    /\ caller = instance[pending]
    /\ instance' = [instance EXCEPT ![pending] = None]
    /\ update_global_config([read_global_config EXCEPT ![role] = caller])
    /\ UNCHANGED version

(* This one also writes the version 1 key.                                 *)
accept_fee_collector(caller) ==
    /\ read_global_config.fee_collector # None
    /\ legacy' = [legacy EXCEPT !.fee_collector = caller]
    /\ accept_role("fee_collector", "pending_fee_collector", caller)

accept_treasury(caller) ==
    /\ UNCHANGED legacy
    /\ accept_role("treasury", "pending_treasury", caller)
=============================================================================
