# A specification of the trust-link escrow contract

TLA+ modules, TLC configurations and TLAPS proofs for the Soroban escrow
contract of this repository (`src/contracts/escrow/src/`) and for the indexer that
follows its events (`src/indexer/`). A seller and a buyer
trade through the contract: it holds the buyer's money, releases it when the
goods arrive, returns it when they do not, and lets resolvers decide a dispute.
This project says what must never happen to that money, who may decide about
it, and what must happen in the end, and checks that the code does it.

File names without a directory are relative to `src/contracts/escrow/src/`.

## 1. Inventory

### The parts of the system

| Part | State it keeps | Operations | Here |
|---|---|---|---|
| Fee and payout arithmetic (`helpers/payout.rs`, `distribute_to_payees` in `internal.rs`) | none | `calculate_fee`, `payout`, the split of a settlement between payees, validation of shares | `EscrowFees` |
| Escrow record and shared helpers (`types.rs`, `lib.rs`, `internal.rs`) | one `Escrow` per id, its history, its delivery proposal, its pending expiry, `EscrowCounter`, the sharded counters, `GlobalConfig` | load and save, pause checks, expiry checks, counters, transfers | `EscrowState` |
| Trade lifecycle (`instructions.rs`) | the same records | the five creators, two ways to fund, three to cancel, shipping, delivery proposals, three settlements, refunds, reclaim, resolver rotation | `EscrowTrade` |
| Disputes, votes and appeals (`disputes.rs`, `resolve_or_vote_internal` in `lib.rs`) | `DisputeData`, `ResolverVotes` | raise, resolve/vote, deadlock, timeout, appeal, finalize, admin override | `EscrowDisputes` |
| Emergency exits (`admin.rs`) | pause, recovery mode | `emergency_drain`, `recovery_withdraw` | `EscrowContract` |
| Admin settings (`admin.rs`, `storage.rs`) | `GlobalConfig`, the keys of its own per setting, the legacy keys, the storage version | the setters, immediate and timelocked, `migrate` | `AdminConfig`, `AdminTimelock`; those an escrow operation reads also in `EscrowContract` |
| Timelock of admin operations (`admin.rs`) | one proposal per operation, the delay | queue, execute, cancel | `AdminTimelock` |
| Two-step changes of fee collector and treasury | pending values | propose, accept | `AdminConfig`, `AdminTimelock` |
| Batch creation and multicall (`instructions.rs`) | none | a sequence of calls in one invocation | not modelled |
| Message log and paged indexes (`storage.rs`, `queries.rs`) | ids per seller and per buyer, in pages; messages per escrow; the same in the older layout | append, read, read a window, move to the newer layout | `EscrowRecords` |
| Events (`events.rs`) | what was published, in order | one emitter per event | `EscrowRecords` (an escrow's events, messages, pause, upgrade); the timelock's as `log` in `AdminTimelock` |
| Event indexer (`src/indexer/`) | cursor, raw log, materialized tables | poll, apply, fail, restart, replay | `EventIndexer` |
| History, TTL, queries but the paged ones | history | views | not modelled |
| Bindings, tooling, deployment | none | | not modelled |

`PROJECT.json` lists the same parts with their source files and the reason for
each one left out.

### How the parts interact

Every entry point is one Soroban invocation: it authenticates its caller, reads
the records it needs, returns early with an error or writes them all, and only
then calls the token contract. The host commits all of it or nothing. The parts
therefore share state and never run at the same time; what interleaves is the
order of whole calls, made by parties with opposite interests, by keepers
anyone may run, by the resolvers and by the admin, with the ledger clock moving
between them. The trade and the disputes meet in the escrow's state and in the
delivery proposal, which a dispute must drop. The emergency exits and the
admin's switches cut across both. The fee arithmetic is called by every
settlement. The admin's proposals wait for their delay beside all that, and take
effect in a call anyone may make.

The indexer learns of all this by polling: it sees the events of closed ledgers,
in order, a page at a time, and nothing tells it what it missed. Its transactions
and the contract's interleave freely, and it may be stopped between any two.

### What is hard in this code

* Fourteen paths move money out, from overlapping sets of states; the amount in
  the record shrinks when a decision is charged and is used again later to
  reconstruct the principal.
* An appeal repeats the decision: fees, votes, resolution and timeouts each have
  their own rule of what survives the round.
* Half a dozen windows run from different days (creation, funding, shipment,
  recorded delivery, raising, deciding), and opposite rights open and close with
  them.
* Schedules kept beside the escrow (delivery proposal, pending expiry) have to be
  dropped on every exit of the state they belong to.
* The admin may turn every switch and rate between any two calls.
* Roles are checked by five creators with different rules, again at funding, and
  again at every rotation of a resolver.
* A queued operation outlives its proposer's office, may be replaced or cancelled
  while it waits, and is executed against the settings of a later day.
* After an upgrade the settings, the indexes and the threads are in an older layout;
  the settings are moved by `migrate`, the others by the first write that needs them.
* The indexer's cursor stands in the middle of a ledger, its pages end there, and one
  event it cannot apply holds up all that follow.

`PROJECT.json` lists these hazards at the lines where they bite, with the
properties that would catch them.

### What makes each part correct

* Arithmetic: a fee is the floor of the exact share, a split moves exactly what it
  is given, rounding stays below one unit for each other payee.
* Records: types, counters that count escrows, no schedule without its state.
* Trade: money is conserved, one side is paid, a closed escrow is closed, roles
  stay separate, a release never races the right to dispute.
* Disputes: fees once, votes of this round only, no decision without a mandate,
  progress.
* Switches: a pause stops payments, a rate does not reach a decided dispute.
* Timelock: what is executed was announced, in time and unchanged; what is governed
  changes in no other way; what is ready does not depend on its proposer.
* Records: lists are complete and in order in either layout, threads only grow.
* Indexer: nothing skipped, nothing applied twice, rows that agree with the contract
  when it has caught up, and that it does catch up.

## 2. The modules

| Module | Contents |
|---|---|
| `EscrowFees` | the arithmetic, as operators without state |
| `EscrowState` | constants and their assumptions, variables, types, `Init`, shared helpers and writes |
| `EscrowTrade` | one action per entry point of the trade, and their disjunction `Trade` |
| `EscrowDisputes` | the same for disputes: `Dispute` |
| `EscrowContract` | clock, admin settings, emergency exits; `Next`, `Spec`, `FairSpec`; type invariant and all properties |
| `EscrowClaims` | what a comment or document says and the code does not do |
| `ConditionalPayment` | the abstract specification of one escrow's money: held until it goes to one side |
| `EscrowRefinement` | the refinement mapping from `EscrowContract` to it |
| `AdminConfig` | where settings live: `GlobalConfig`, keys of their own, legacy keys, migration, the two-step roles |
| `AdminTimelock` | queue, execute and cancel over all twenty operations, the immediate setters, clock; its properties |
| `EscrowRecords` | every escrow operation as a transaction with its index writes, its messages and its events |
| `EventIndexer` | the indexer following those events |
| `MCFees`, `MCEscrow`, `MCAdmin`, `MCIndexer` | the instances TLC checks |
| `EscrowFeesProofs`, `MCFeesProofs` | proofs about the arithmetic; the properties of `MCFees` in general |
| `EscrowProofs` | the proofs of the type invariant and of the money properties |
| `EscrowMoveProofs` | what a step may never do, the schedules; the operations as moves of one escrow: roles, votes, decisions, dates, pause, counters |
| `EscrowRefinementProofs` | the proof that the contract implements `ConditionalPayment` |
| `AdminTimelockProofs` | the proofs about the admin's office, proposals and settings |
| `EventIndexerProofs` | the proofs about the indexer that follows the contract |
| `EscrowRecordsProofs` | the proofs about what the contract leaves on record: threads and paged indexes, and the indexer's rows beside them |

`EscrowTrade` and `EscrowDisputes` both extend `EscrowState`, which extends
`EscrowFees`; `EscrowContract` composes the two. `EscrowRecords` extends `EscrowContract`
and `EventIndexer` extends `EscrowRecords`: the contract and the indexer run side by side.
`AdminTimelock` is a specification of its own; `EscrowContract` needs of it only that
settings may change, and allows more changes than the timelock does.

### From code to model

* One entry point is one action with the entry point's name. A check with an early
  return is a conjunct, an alternative of the code a disjunct. `caller` ranges over
  all addresses: `require_auth` only says that the caller agreed, and the guards say
  who may call. Calls that need two signatures (`mutual_cancel`,
  `co_signed_release`, `emergency_drain`) have no caller.
* Entry points that differ only in the tokens they move are one operator: `fund`
  stands for `fund_escrow` and `fund_basket_escrow`, `refund_from` for the two
  emergency exits.
* `escrow[id]` is the record under `DataKey::Escrow`, with state `"Absent"` while it
  does not exist. Of a basket it keeps `basket_tokens`, the number of tokens (0: no
  basket), and `basket`, the total of the tokens after the primary one. A basket may
  have a single token: such an escrow is funded with `fund_basket_escrow` and holds
  nothing but its primary amount. Each amount of a basket is held against the limits.
  `dispute`, `votes`, `proposal` and `pending_expiry` are the other keys of an
  escrow; `created_at` is what is left of its history, the only part a guard reads.
* `ledger[id]` is a history variable. It adds up what each transfer moved for an
  escrow, through `book`, and no guard reads it. `payout` skips amounts that are
  not positive, as the code does.
* `config` is the part of `GlobalConfig` the entry points read, with `MaxAppeals` and
  `ActionPaused`. `protocol_fee_bps` and `treasury` are constants: no entry point of
  a production build writes them (their setters are compiled for tests only) and a
  migrated deployment may carry any value, so the model allows any.
* The admin's operations change a setting to any value of `Settings` at any moment.
  A timelock delays a change and does not restrict which changes can happen, so the
  model allows every behaviour the timelock allows, and more.
* A timestamp is packed into 32 bits by the code; `pack_timestamp` is that remainder,
  with the width as the constant `TIMESTAMP_MOD`.
* Amounts are i128 with checked operations: an overflow reverts the call. Integers
  are unbounded here, so a call that would revert for its size is allowed.
* `slot[operation]` in `AdminTimelock` is the one proposal an operation may have; `log` is
  the sequence of Timelock events, with the admin and the hour of each, and is only
  read by properties. `effect` names the change of each operation, which `execute` and
  the immediate setter share as they share it in the code. Of the contract's code an
  upgrade changes `instance.wasm` alone: what other code would do is unknown.
* A `record_` action of `EscrowRecords` is the action of `EscrowContract` with the same
  guards, conjoined with the index it writes and the events it publishes, in their
  order. Of a payload it keeps the topic, the escrow, the state and the party that are
  named. A message is its sender. An absent page, vector or thread is the empty
  sequence.
* A row of the table `escrows` keeps the text of its state as a `StoredState`. The payload's
  `new_state` is an enum, which `scValToNative` decodes to an array; `toJsonSafe` leaves
  arrays as they are, and the driver writes one in its own notation. `applyRefundRequested`
  and `applyRefundApproved` pass it through `String()`, `applyDisputePending` and
  `applyDisputeAppealed` write literals. So the same state is stored in two spellings,
  and `told_state` says which handler writes which. The spelling of the first is what the
  two libraries do, which are not part of the repository.
* A position in the event stream is the ledger and the number within it: transaction
  index and event index as one. `batch` is what the running `ingestBatch` still has to
  apply; each `ingest_event` is one database transaction (raw log, tables, cursor),
  and `give_up` is every way to lose the rest: a transaction that was rolled back, a
  lost connection, a stopped process.
* Left out: token addresses, notes, tracking ids, TTLs, and `voted_at`, which is stored
  and never read by the contract; which tokens are allowed (of the token allowlist only
  the event is modelled, `record_token_allowlist`, because it stops the indexer); in the
  indexer the tables of votes, baskets, the allowlist and the registry, and the
  configuration keys but `paused`, all written with the same upserts.
* Definitions commented "Mutant of ..." stand next to the one they alter: a plausible
  slip in that code, with which the named property of a run fails. They belong to
  no specification.

## 3. The properties

Safety (invariants, in `EscrowContract`):

* `CustodyConservation`: the contract holds exactly the recorded amount and basket of
  each open escrow, nothing of a closed one.
* `FeesChargedOnce`: arbitration and resolver fees leave once per dispute, and the
  principal `finalize_dispute` reconstructs is the one that was funded.
* `OneSideIsPaid`: no escrow is both released and refunded; a buyer who leaves before a
  fee was charged gets the whole deposit.
* `VotesAreSound`, `DecisionIsBacked`: the votes belong to the open round, one per member,
  below the threshold; a decision has enough votes, the majority of an old enough
  deadlock, or a party's timeout that can only refund.
* `ReleaseWaitsForDisputeWindow`: the permissionless release is never open while the
  buyer may still raise a dispute.
* `NoOrphanedSchedule`, `RolesStaySeparate`, `CountersMatchEscrows`.

Refinement: `ImplementsPayment` (`EscrowRefinement`). Whatever thirty entry points do in
whatever order, an escrow's money takes the steps of `ConditionalPayment`: it is held until
it goes to one side whole but for fees, fees of a dispute are settled by its first
decision, a decided payment goes where the verdict says unless it is appealed or
returned in full, and no step touches two payments.

The admin (`AdminTimelock`): `ExecutionWasAnnounced`, `HandoverBySittingAdmin`,
`CollectorIsNotAdmin`; as steps `MigrationKeepsSettings` and `GovernedOnlyByTimelock`; as
progress `ReadyChangeTakesEffect`.

Records and indexer: `IndexesAreComplete` and `ThreadsOnlyGrow` (`EscrowRecords`);
`LogIsGapless`, `RowsMirrorEscrows`, `CursorOnlyAdvances` and `EventsAreIndexed`
(`EventIndexer`). `RowsMirrorEscrows` and `EventsAreIndexed` name what the code does not
deliver instead of assuming it away: states left by topics without a handler, basket
escrows of any size, which get no row, and events behind one that is refused for ever (a
later schema, the dispute of a basket escrow, `Token:Allowlist`) or behind a ledger that
fills a page (section 6). A row is right when it names the state, in either spelling.
`EveryEventIsIndexed` is the same progress as the documents promise it, without a
condition; the run `schema` shows it false of this commit.

Steps (action properties): `TerminalIsFinal`, `PauseStopsPayments`,
`DecidedFeesAreFixed`.

Progress: `DecidedDisputeMovesOn`, `OpenDisputeIsDecided`, `StaleOfferIsCancelled`,
`DeliveredEscrowIsSettled`.

### Fairness

`FairSpec` assumes that the ledger clock advances up to the horizon and that a call
whose time has come is made in the end: `auto_release`, `auto_cancel_pending` and
`finalize_dispute`, which anyone may call and which the code offers to keepers, and
`claim_dispute_timeout` and `reclaim_expired`, whose callers are paid by them. Nothing
is assumed of sellers, resolvers or the admin, nor of a buyer who has to confirm or to
raise. Weak fairness is enough: each of these calls stays possible until it, or a call
that makes it unnecessary, is made. The progress properties speak of windows that
close before `MaxTime`, since the model's clock stops there.

`AdminTimelock`'s `FairSpec` assumes the clock and that a proposal that is ready is
submitted in the end: `execute_*` is open to anyone, who names the proposer as caller.
The two executions that need the proposer's signature, and those whose validation can
fail, are not in `AlwaysAccepted`.

`IndexerSpec` assumes weak fairness of `poll` and strong fairness of `ingest_event`.
`runLive` polls for ever and swallows every error, so polling goes on; a transaction may
fail any number of times (`give_up` is always possible while a batch is open), and
strong fairness says that an event which is tried again and again succeeds some day:
outages end. An event that `throws` is not enabled and is not helped by it. Nothing is
assumed of replays, nor of the contract.

## 4. The runs

| Run | Question | Size |
|---|---|---|
| `fees` | is the arithmetic what it is meant to be? Amounts around the multiples of 10000 (25 from each of 0, 9990, 19995, 123450), rates at their limits, lists of one to three payees | 6.5 thousand states |
| `trade` | one escrow of each of six kinds (two payees, expiring with grace period, basket of three tokens and of one, fallback, seller as its own buyer) without disputes, clock to 8 | 160 thousand |
| `dispute` | one escrow with a single resolver, a 2-of-3 committee or a fallback; clock to 8, one appeal | 575 thousand |
| `pair` | two escrows, everything enabled: do the shared counters agree with them? | 75 thousand |
| `switches` | pause, action pause and recovery mode turned at any time | 80 thousand |
| `rates` | rates, timeout and number of appeals changed under disputes, up to two appeals | 684 thousand |
| `progress` | liveness under `FairSpec`, clock to 7 | 145 thousand |
| `admin` | proposals queued, replaced, executed by anyone and cancelled while the office, the delay, the roles and the storage layout change | 230 thousand |
| `indexer` | two escrows leave ids, messages and events on record over an upgrade while the indexer polls, fails, restarts and replays | 30 thousand |
| `refund_record`, `limbo`, `schema` | three sentences of the repository that the code does not keep (section 6) | |

`pair`, `dispute` and `switches` also check the refinement `ImplementsPayment`.

All `pass` runs end without an error and each property has a mutant that breaks it.

### The bounds and why they are enough

* `MaxEscrows` is 1 but for `pair`: escrows share nothing but the id counter, the
  counters and the configuration. The proofs below hold for any number.
* One unit of time is about a day. The windows of the code keep their order where it
  matters: a delivery proposal (1 day) before its release window (2 days), the dispute
  window (2 days), an appeal window (1 day), then the deadlock window and the pending
  expiry (7 days in the code, 3 here), the dispute timeout (30 days by default, 4 here).
  `MaxTime` leaves room for a dispute raised at the last moment, decided, appealed and
  decided again by timeout. `pair` and `switches` use an appeal window of 0 and `rates`
  shorter windows, because their question is the order of calls, not the windows.
* The principal is 10007 and the rates are 299, 300, 251, 499 and 199 basis points: no
  fee or share divides evenly, so an error of one unit is visible. Two payees have
  3333 and 6667 basis points.
* The actors are two payees, a buyer, up to three resolvers and the admin; any of
  them may take any caller's place. `seller` as the buyer of its own offer is included
  because two creators accept it.
* `trade` pauses `raise_dispute` and `dispute` pauses `mark_shipped` and
  `request_refund`, by the contract's own switches, to keep each state space small;
  `pair`, `switches` and `progress` pause nothing.
* `TIMESTAMP_MOD` is above every horizon: the 32-bit half of the packed timestamps
  overflows in 2106.
* `admin` has a two-valued choice for each parameter that matters, at most two proposals
  queued (`MaxQueued`) and a clock of 4 with delays of 1 to 3: a proposal can be queued
  under one delay, replaced or cancelled, and executed under another, by a successor's
  day. It starts from a new contract and from an upgraded one with legacy keys.
* `indexer` has a ledger per unit of time, three of them, pages of three events, so that a
  page ends inside a ledger and three events fill one. Index pages hold two ids: the
  inherited three end inside a page. Threads hold two messages, one inherited: the
  second fills it. `Histories` bounds the sequences of topics to the seventeen stories of
  `MCIndexer`, and their prefixes; they use every topic an escrow can publish and end
  in each way it can end, one with an upgrade in it that changes the schema, one with
  a disputed basket escrow, two with a change of the token allowlist. The baskets have
  one token and two. Within a story everything is free: which caller, which
  terms, which ledger, which events share one, and every interleaving with the indexer.
  `MaxPages` and `MaxSchemaVersion` are never in the way of a story.
* The contract of `indexer` publishes `EVENT_SCHEMA_VERSION`, 4 as in `events.rs:12`, and the
  indexer supports 4, not the 1 of `apply.ts:51`: it is the indexer that its own error
  message asks for ("Upgrade the indexer before continuing"), since the one of this commit
  applies no event and nothing else could be asked of it. An upgrade raises the schema to
  5, which this indexer refuses. `schema` has the versions of the commit, one plain trade
  and pages of 100; with a supported version of 4 TLC finds its property satisfied.
* `CHECK_DEADLOCK FALSE` is set because the model really stops: the clock ends at
  `MaxTime` and every escrow may be closed by then.

## 5. The proofs

TLAPS checks every theorem below to its last leaf, for every value of the constants
that satisfies the named assumptions of the modules: any number of escrows, any terms
within the types, any windows, any rates up to the limits of the setters. TLC evaluates
the assumptions in every run. Those that say more than a type:

* `TermsAssumption`: an offer names a payee; a single resolver is one, a fallback two.
* `ReleaseAssumption`: the dispute window is no longer than the delivery timelock and the
  release window together (2 days against 1 + 2 in `lib.rs`). Without it a delivery on
  record early would open the release before the dispute window has passed, and
  `ReleaseWaitsForDisputeWindow` would be false.
* `TimeoutAssumption`: the dispute timeout a contract starts with is one
  `set_dispute_timeout` would accept. `DecisionIsBacked` promises a party's timeout at
  least that long.
* `NoneAssumption`: `None` is no address, resolution or time: an `Option` of the code;
  `RowAssumption` (`EventIndexer`) the same for a row and a status of the tables.
* `PagingAssumption`, `ThreadsAssumption` (`EscrowRecords`), `PageAssumption`
  (`EventIndexer`): a page holds something, a schema version is a number, an inherited
  thread is a list of senders. No theorem assumes that the versions match.
* `InheritedAssumption` (`EscrowRecords`): the ids an upgrade finds are older than those the
  contract hands out after it (the counter is kept), sales stand in the order of their
  creation and no purchase stands twice, as appending one id per call leaves them; and
  `MaxPages`, a bound of the model, has room for all the ids there can be.

The arithmetic (`EscrowFeesProofs`):

* `FeeIsFloorForAll`, `SplitIsExactForAll`, `DustIsBoundedForAll`, and from them `FeeClaim`,
  `SplitClaim` and `DustClaim` (`MCFeesProofs`), the three properties of `MCFees` in every state
  with an amount, a rate and an accepted list, not only the states of the run:
  the three claims of the comment in `distribute_to_payees` (`internal.rs`, "ROUNDING /
  TRUNCATION PROOF") and the one in `calculate_fee`, for payee lists of any accepted
  length. The comment bounds the gain of the primary payee strictly below N - 1 units;
  with a single payee the gain is 0 and so is N - 1, which is why `DustIsBounded` allows
  equality at zero. The sums are recursive functions; their partial sums are related by
  induction over the naturals, done with sets (`NatSetInduction`) because the library's
  rule takes an operator as a parameter.

Types and money:

* `TypeCorrect` (`EscrowProofs`): `TypeOK` is inductive as it stands. One lemma per
  group of entry points. What it needs beyond types: a vote's majority has a voter
  (`MajorityHasVoter`), otherwise the deadlock would credit nobody.
* `BooksHold` (`EscrowProofs`): the invariant `BooksInv`. None of the three money
  properties is inductive: that a settlement empties the escrow needs the shares to
  add up to 10000 and the fees not to exceed the amount, which needs the rates stored in
  the escrow to be within their limits and, for a decided dispute, what the decision
  charged (at most 5% + 3% of the principal) to leave enough for the platform's 2% and the
  protocol's 3%. `BooksInv` says for each escrow that it is `Priced`, `Balanced`, that
  nothing but fees has left before a settlement (`Unsettled`), that the fees are those
  recorded and bounded (`FeesBooked`), that it is `OneSided`; and that ids not handed out
  are free (`FreshIds`). For each kind of step one lemma says what it does to one
  escrow's books (`RefundedBooks`, `ReleasedBooks`, `MovedBooks`, `ChargedBooks` ...),
  one per entry point that the step is of that kind, and `OneEscrowStep` that the other
  escrows are untouched.
* `MoneyIsConserved`, `DisputeFeesChargedOnce`, `SettlementPaysOneSide`
  (`EscrowProofs`): `CustodyConservation`, `FeesChargedOnce` and `OneSideIsPaid` follow from
  `BooksInv`.

What a step may do:

* `ClosedIsFinal` (`EscrowMoveProofs`): `TerminalIsFinal`, from one lemma per group of entry
  points that puts every step in one of two classes: it moves one escrow that is not
  closed and leaves the others `Same`, or it moves none. `FreshIds`, a part of
  `BooksInv`, is what keeps a creator from overwriting a closed escrow.
* `SchedulesAreDropped` (`EscrowMoveProofs`): `NoOrphanedSchedule`, inductive together with
  `FreshIds`. The work is in the exits of Pending and Shipped, which must each drop what
  was scheduled for the state.
* `SettledFeesAreFixed` (`EscrowMoveProofs`): `DecidedFeesAreFixed`. The step is safe only
  because fees are charged in a state a dispute reached: `FeesNeedDispute` says that the
  record of a charge belongs to a disputed or closed escrow, so that `raise_dispute` never
  finds one to reset. What the resolvers received follows from `BooksInv`, which ties the
  ledger to the record.

Who takes part and who decides (`EscrowMoveProofs`). The thirty operations come down to a
dozen moves of one escrow (`Create`, `Lapse`, `Carry`, `Rotate`, `Settle`, `GiveBack`,
`DecideOrVote` ...): `EveryMove` says that a step makes one of them or `NoMove`, `MoveFrame`
that the other escrows stay, `OnwardMoves` which states a move leads from and to. Each
invariant then has one lemma for each move that can disturb it.

* `RolesNeverMix`: `RolesStaySeparate` is not inductive by itself: the checks are spread over
  the creator, the funding and the rotation. `DealInv` says of every escrow that its set of
  resolvers is `WellStaffed` and names neither the primary payee nor the buyer, once there
  is one, that a buyer who has funded is no payee, and that an open offer has a price;
  `RotatedDeal` that a rotation keeps all that.
* `PausedContractOnlyRefunds`: of the paths that pay, those open during a pause are refunds
  (`RefundsOnly`, `PausedStep`).
* `ReleaseIsNeverEarly`: `DatesInv` bounds the dispute deadline by the present day and the
  window, and ties it to the recorded delivery and to a proposal that waits; the packed
  timestamps only make it earlier (`PackedIsEarlier`).
* `OpenVotesAreSound`, `DecisionsAreBacked`: `VotesInv`. Outside a dispute there are no votes;
  in one they are the votes of its round (`OwnVotes`); a decision has its `Grounds`, which a
  later change of the timeout does not remove because the timeout never sinks below its
  minimum.
* `CountersCount`: `CountsInv` adds that a dispute is on record exactly from `raise_dispute`
  on. Numbers of escrows are cardinalities of sets that a move changes in one element at
  most (`OneApart`); the arbitration fees are a sum, which `FeeTotalMoves` follows.
* `ContractImplementsPayment` (`EscrowRefinementProofs`): the initial states map to initial
  states and `PaymentNext` maps every step to a step of `ConditionalPayment` or to a stutter.
  `PaymentFor` is the mapping as a relation between a record, its dispute, its books and a
  payment; for each kind of move one lemma computes the payment before and after
  (`FundPayment`, `ReturnPayment`, `SettlePayment`, `ContestPayment`, `DecidePayment`,
  `AppealPayment`, `FinalPayment`), and `QuietPayment` shows the others to stutter. It stands on
  `BooksInv`: that a payout leaves nothing but fees behind is what conservation says.

The admin (`AdminTimelockProofs`):

* `TypesAreKept`, `ExecutionsAreAnnounced`, `OfficeIsHandedOnByItsHolder`,
  `CollectorStaysSeparate`: one invariant, `AdminInv`, under the
  assumptions of `AdminConfig` and `AdminTimelock`: any accounts, delays and parameters, any
  number of proposals. `EffectFrame` sums up what the twenty operations do to the keys
  the invariants look at, so that the steps need not split over them.
  `ExecutionWasAnnounced` speaks of a log; what makes it inductive is that every filled
  slot has its announcement in the log and no entry of the same operation after it
  (`QueueKeepsBook`, `RemovalKeepsBook`), and that the delay is never below the least
  one (`DelayIsLongEnough`), also before it was first set.
* `SettingsAreKept`, `TimelockGoverns`: `Touches(keys, settings)` says which keys and which
  effective settings a step may change, in whatever layout they are; `EffectTouches`
  computes it for each operation, `MigrateTouches` shows that the move from the legacy keys
  touches none, and `StepTouches` sums it up for every step: one setting at most, and an
  execution in the log unless it is one with an immediate setter.

The indexer (`EventIndexerProofs`):

* `IndexerOnlyFollows`: `IndexerSpec => Spec`. Every transaction of `EscrowRecords` contains the
  contract's step, every step of the indexer leaves the contract alone; all theorems on
  the contract therefore hold of the indexed one.
* `LogHasNoGap`, `CursorIsMonotone`: `ChainInv` says that events stand in the order of their
  ledgers and none is of the future. `LogInv` says how far the indexer is: for some c and m,
  the first c events of the chain are in the log, the cursor is the position of the c-th,
  and the batch is the run c + 1 .. c + m, all of closed ledgers. `PollStep` is where it
  matters: the page that starts at the cursor's ledger, less what is not after the
  cursor, is the run that follows; it fails for a page read from the open ledger or one
  that passes over events. Positions are pairs of a ledger and a number within it, and
  `PositionsAscend` shows their order to be that of the chain.

The records (`EscrowRecordsProofs`):

* `ThreadsAreAppendOnly`: `ThreadsInv` says that a thread is in one layout at a time. What
  a transaction publishes matters as well: `TransactionPublishes` shows that none but
  `post_message` ends with `Message:Posted`.
* `IndexesAlwaysComplete`: `Represents(ix, L)` says which list an index stands for, in either
  layout: the old vector, or the pages `page_of(L, p)`. Lemmas about the storage helpers
  alone show that each keeps to it: `Written` (write_index), `Migrated` (migrate_legacy),
  `Appended` (append_index), and that the readers return the list, `IndexIsRead` whole and
  `WindowIsRead` window by window; the concatenation of the pages is a recursive function,
  handled by `Flattened` with induction over sets. `IndexesInv` then says which list it is:
  the inherited ids, then in order the escrows created for the seller, or, once each, those
  the buyer has funded. It is inductive because an id is new when it is listed
  (`FreshIds`) and an escrow is funded once (`DatedInv`: no date without a funding), and
  because no operation but a creator and a funding changes who sells or has bought
  (`TradeUnlisted`, `DisputeUnlisted`). The theorem is stated for clocks that start within
  `MaxTime` and stay below `TIMESTAMP_MOD`: the code tells a funded escrow by a date that
  is not 0, and the packed date is 0 when the clock is a multiple of 2^32.

* `RowsAlwaysMirror`: the rows are a fold over the log, and a recursive definition of that fold
  would be out of the provers' reach, so `RowsInv` says it with a witness: there is a history g of tables, each what `Told`
  (`processEvent` as a function) makes of the one before and the next event; its last one
  is `Faithful` to the contract, and the tables stored are g[c] for the c of `LogInv`, the
  number of events applied. The indexer's steps move c along the history
  (`IndexerKeepsRows`). A transaction extends it (`HistoryGrows`), and the work is in
  `TransactionTells`: whatever operation it is, at most the last event it logs concerns the
  tables, and applied to a faithful table it leaves one faithful to the new state. There is
  one lemma per operation; `OneTold`, `MoveTold` and `StatusRight` are what they share, and `ToldName` and
  `NamesStored` that either spelling of a state names it.
  `Faithful` lets a row stay behind only after one of `UnhandledExits`, as the property does,
  and says more than the property: that a row exists exactly for a created escrow without
  a basket (of any size), which is what makes a creation an insertion (`BooksInv`: the id is free), and
  that a disputed escrow has an open dispute. The theorem is for contracts that start unpaused,
  as `default_global_config` has them: the copy of the switch starts at FALSE and only
  `Contract:Paused` sets it.

Model-checked only:

* Progress under fairness (`DecidedDisputeMovesOn`, `OpenDisputeIsDecided`,
  `StaleOfferIsCancelled`, `DeliveredEscrowIsSettled`, `ReadyChangeTakesEffect`,
  `EventsAreIndexed`): the installed provers have no rule for fairness and `ENABLED`. The
  parts of these properties that are invariants are among the theorems: no decision without
  its grounds, no schedule without its state, nothing behind the cursor that is not logged.

## 6. Where the code and its documents disagree

Shown by a run:

* `refund_record`: `cancel_pending_finalization` (`disputes.rs:579`) stores the enum
  discriminant of `Refund`, 1, in a field whose code 1 means release
  (`types.rs:355`). The buyer is refunded and the record says otherwise.
* `limbo`: a buyer who has asked for a refund before the expiry holds a funded, unshipped
  escrow that `reclaim_expired` does not accept (`instructions.rs:191`), against
  `instructions.rs:185-186`.
* `schema`: the contract stamps schema version 4 on every event (`events.rs:12`) and the
  indexer throws for every version above 1 (`apply.ts:51`, 57-66). `src/docs/events.md:10`
  says "Current version: `1`", `src/indexer/README.md:213` that every payload has
  `schema_version: 1`, and `ingest.ts:11-12` that no event is skipped. Built from this commit
  the indexer polls, fails on the first event and starts again, for ever.

Met while reading, not stated as runs:

* `reclaim_expired` ignores the grace period (`instructions.rs:208`), which
  `types.rs:121-124` and `src/docs/state-machine.md:154` still describe.
* `claim_dispute_timeout` is documented to charge no fee because no resolver acted; after
  an appeal a resolver has acted and has been paid, since the timeout runs from the
  day the dispute was raised. It also sets `fees_charged` without charging.
* `create_escrow_with_expiration` (`instructions.rs:122-125`) promises funding until
  `expires_at + grace_period`; `ensure_not_expired` refuses from `expires_at` on. For the
  same reason `auto_cancel_pending` refuses an offer whose custom expiry has passed, and
  the offer stays pending; no money is in it.
* `co_signed_release` and a released `finalize_dispute` pay the primary payee everything,
  whatever the shares of the others. `RefundRequested` has no timeout.
* The header of `admin.rs` (5-8) says that every privileged function that changes state is
  under the timelock. The platform and arbitration fee, the treasury, the fee collector,
  the token allowlist, the dispute timeout and the recovery mode have immediate setters;
  `set_platform_fee` publishes no event. `admin.rs:66-75` calls execution permissionless;
  `execute_set_appeal_fee` and `execute_set_arbitration_fee` ask for the caller's signature, and
  the arbitration fee's proposal cannot be executed once its admin has left.
* `internal.rs:459` keeps the admin and the fee collector apart; `execute_set_admin` and
  `accept_fee_collector` do not look (`CollectorIsNotAdmin` says exactly when they can be one).
  `execute_set_admin` accepts the zero address. A queued proposal never expires, and its
  event does not name the parameters. `SetProtocolFee` has neither a queue nor an execute.
* `create_basket_escrow` (`instructions.rs:1529-1532`) writes the vendor index with the new id
  and then appends the id again, so a basket escrow is listed twice
  (`IndexesAreComplete` allows it); where the index was still in the old layout, the
  old vector stays behind, unread.
* `ingest.ts:12` says that no event is skipped. A basket escrow gets no row in `escrows`, also
  when the basket has one token, and the dispute of one violates the foreign key of
  `disputes`: the event is retried for ever and nothing after it is indexed. The first
  `Token:Allowlist` does the same: its payload has no token (`events.rs:717`; the token is a
  topic, and `docs/events.md:66` lists it as a field too), and `apply.ts:556` inserts the missing
  field as the key of `token_allowlist`. So does an upgrade of the schema, which the
  message asks the operator to resolve, and, quietly, a ledger with at least
  `EVENTS_PAGE_SIZE` events: the request always starts at the cursor's ledger, and every
  answer is the same page. A replay, which has no pages, gets past the last one.
* `types.ts:52` claims every topic of `events.rs`. `Escrow:Expired`, `Escrow:AutoCncl`, `Emergency:Drain`,
  `Recovery:Withdraw`, `FeeColl:*`, `Delivery:*`, `PendingExpiry:Cleared` and `Timelock:*` have no handler:
  the row of an escrow closed by one of the first four keeps its last state. The row in
  `disputes` stays `Active` after every exit but `finalize_dispute`.
* `ingest.ts:72-75` calls passing an applied event again harmless because `writeCursor` is an
  upsert; it moves the cursor back. With one ingester it cannot happen
  (`CursorOnlyAdvances`), with two it can. `db.ts` speaks of serializable transactions and
  opens plain ones.
* `schema.sql:37` has `escrows.state` mirror the `EscrowState` enum, and `fixtures/events.json`
  has plain strings for `new_state`. A state from a payload is stored as the decoded enum,
  an array, by most handlers and as a name by four (`StoredState`): a query for one
  spelling misses the rows written in the other.
* With a platform fee above zero and no treasury `finalize_dispute` fails; no entry point of
  a production build sets the first treasury: both setters need one to be set.
* The emergency exits leave a running dispute's status `Active`. The strict resolver registry is
  applied to single resolvers only.

## 7. Not modelled

* Batch creation and multicall: a sequence of modelled calls in one invocation, with the
  clock standing still; one failing call reverts all.
* Storage TTL and archival, which belong to the host, and the state history but its
  first entry, which no guard reads. Which tokens are allowed.
* Overflow of i128 amounts, which reverts the call, and of the 32-bit timestamps, which
  the model has and the runs keep out of reach.
* Queries other than the paged ones, the GraphQL resolvers, the TypeScript bindings,
  the build and deployment tooling: no state of their own.
* Two ingesters at once: the deployment has one.

## 8. Plan

Built so far, in this order: `EscrowFees`, `EscrowState`, `EscrowTrade`, `EscrowDisputes`,
`EscrowContract` with its runs; the proofs of the arithmetic, the types, the money and
the schedules; `AdminConfig` and `AdminTimelock` with their proofs; `ConditionalPayment` and
the refinement; `EscrowRecords` and `EventIndexer`; the proofs of the remaining invariants
and action properties of the contract, of the refinement, of the timelock's steps, of the
log, the cursor, the threads, the paged indexes and the indexer's rows.

Next:

1. A ledger per payee, for `co_signed_release` and released disputes.
