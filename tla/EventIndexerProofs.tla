------------------------- MODULE EventIndexerProofs -------------------------
(***************************************************************************)
(* The indexer that follows the contract, for every value of the           *)
(* constants: the indexed contract behaves as the contract alone, the log  *)
(* has no gap (LogIsGapless), and the cursor only advances                 *)
(* (CursorOnlyAdvances).                                                   *)
(***************************************************************************)
EXTENDS EventIndexer, EscrowMoveProofs

-----------------------------------------------------------------------------
(* Lists of events.                                                        *)

(* A list of whatever kind.                                                *)
IsList(s) == \E V : s \in Seq(V)

LEMMA Singles == \A x : IsList(<<x>>)
<1>1. ASSUME NEW x PROVE <<x>> \in Seq({x})
  OBVIOUS
<1> QED
  BY <1>1 DEF IsList

LEMMA NoItems == IsList(<<>>)
<1>1. <<>> \in Seq({})
  OBVIOUS
<1> QED
  BY <1>1 DEF IsList

LEMMA Pairs == \A x, y : IsList(<<x, y>>)
<1>1. ASSUME NEW x, NEW y PROVE <<x, y>> \in Seq({x, y})
  OBVIOUS
<1> QED
  BY <1>1 DEF IsList

LEMMA Joins == \A s, t : IsList(s) /\ IsList(t) => IsList(s \o t)
<1>1. ASSUME NEW V, NEW W, NEW s \in Seq(V), NEW t \in Seq(W)
      PROVE  s \o t \in Seq(V \cup W)
  <2>1. s \in Seq(V \cup W) /\ t \in Seq(V \cup W)
    OBVIOUS
  <2> QED
    BY <2>1
<1> QED
  BY <1>1 DEF IsList

(* A list of events, none of them under one of the topics.                 *)
Without(es, topics) == IsList(es) /\ \A i \in DOMAIN es : es[i].topic \notin topics

LEMMA WithoutJoins ==
    \A topics, s, t : Without(s, topics) /\ Without(t, topics) => Without(s \o t, topics)
<1>1. ASSUME NEW topics, NEW V, NEW W, NEW s \in Seq(V), NEW t \in Seq(W),
             \A i \in DOMAIN s : s[i].topic \notin topics,
             \A i \in DOMAIN t : t[i].topic \notin topics
      PROVE  \A i \in DOMAIN (s \o t) : (s \o t)[i].topic \notin topics
  <2>1. s \in Seq(V \cup W) /\ t \in Seq(V \cup W)
    OBVIOUS
  <2>2. TAKE i \in DOMAIN (s \o t)
  <2>3. CASE i <= Len(s)
    <3>1. i \in DOMAIN s /\ (s \o t)[i] = s[i]
      BY <2>1, <2>2, <2>3
    <3> QED
      BY <1>1, <3>1
  <2>4. CASE ~(i <= Len(s))
    <3>1. i - Len(s) \in DOMAIN t /\ (s \o t)[i] = t[i - Len(s)]
      BY <2>1, <2>2, <2>4
    <3> QED
      BY <1>1, <3>1
  <2> QED
    BY <2>3, <2>4
<1> QED
  BY <1>1, Joins, Zenon DEF Without, IsList

(* A list of events among which no message is.                             *)
Quiet(es) == IsList(es) /\ \A i \in DOMAIN es : es[i].topic # "Message:Posted"

LEMMA QuietEvents ==
    \A topic, id, state, party : topic # "Message:Posted" =>
       /\ Quiet(<<event(topic, id)>>)
       /\ Quiet(<<event_to(topic, id, state)>>)
       /\ Quiet(<<event_of(topic, id, party)>>)
       /\ Quiet(<<[event_to(topic, id, state) EXCEPT !.party = party]>>)
<1>1. ASSUME NEW x, x.topic # "Message:Posted" PROVE Quiet(<<x>>)
  BY <1>1, Singles DEF Quiet
<1>2. TAKE topic, id, state, party
<1>3. HAVE topic # "Message:Posted"
<1>4. /\ event(topic, id).topic = topic
      /\ event_to(topic, id, state).topic = topic
      /\ event_of(topic, id, party).topic = topic
      /\ [event_to(topic, id, state) EXCEPT !.party = party].topic = topic
  BY DEF event, event_to, event_of
<1> QED
  BY <1>1, <1>3, <1>4

LEMMA QuietJoins == \A s, t : Quiet(s) /\ Quiet(t) => Quiet(s \o t)
<1>1. \A es : Quiet(es) <=> Without(es, {"Message:Posted"})
  BY DEF Quiet, Without
<1> QED
  BY <1>1, WithoutJoins, Zenon

LEMMA Clearings ==
    \A id : /\ Quiet(expiry_cleared(id))
            /\ Quiet(proposal_dropped(id))
            /\ Quiet(decision_pending(id))
<1>1. TAKE id
<1>2. Quiet(<<>>)
  BY NoItems DEF Quiet
<1>3. Quiet(expiry_cleared(id))
  BY QuietEvents DEF expiry_cleared
<1>4. Quiet(proposal_dropped(id))
  BY <1>2, QuietEvents DEF proposal_dropped
<1>5. Quiet(decision_pending(id))
  BY <1>2, QuietEvents DEF decision_pending
<1> QED
  BY <1>3, <1>4, <1>5

-----------------------------------------------------------------------------
(* Transactions.                                                           *)

(* What a transaction that posts no message is to the contract, to the     *)
(* threads and to the chain.                                               *)
Publishes ==
    /\ [Next]_vars
    /\ now' = now /\ thread' = thread
    /\ \E es : Quiet(es) /\ append_events(es)

LEMMA StepPublishes ==
    ASSUME TypeOK, Trade \/ Dispute \/ Rescue, NEW es, Quiet(es),
           publish(es) \/ (emit(es) /\ thread' = thread)
    PROVE  Publishes
<1>1. now' = now
  BY InstantSteps
<1>2. [Next]_vars
  BY Zenon DEF Next
<1>3. append_events(es) /\ thread' = thread
  BY DEF publish, emit, book_vars
<1> QED
  BY <1>1, <1>2, <1>3, Zenon DEF Publishes

LEMMA TradePublishes ==
    ASSUME TypeOK, NEW id \in Ids, NEW caller \in Address,
           \/ record_cancellation(id) \/ record_auto_cancellation(id)
           \/ record_completion(id) \/ record_auto_release(id)
           \/ record_funding(caller, id)
           \/ record_shipping(caller, id) \/ record_proposal(caller, id)
           \/ record_refund(caller, id) \/ record_reclaim(caller, id)
           \/ \E new_resolver \in Address : record_rotation(caller, id, new_resolver)
    PROVE  Publishes
<1>1. ASSUME NEW es, Quiet(es), Trade,
             publish(es) \/ (emit(es) /\ thread' = thread)
      PROVE  Publishes
  BY <1>1, StepPublishes, Zenon
<1>2. CASE record_cancellation(id)
  <2>1. Trade
    BY <1>2, Zenon DEF record_cancellation, Trade
  <2>2. \E es : Quiet(es) /\ publish(es)
    BY <1>2, Clearings, QuietEvents, QuietJoins, Zenon DEF record_cancellation
  <2> QED
    BY <1>1, <2>1, <2>2, Zenon
<1>3. CASE record_auto_cancellation(id)
  <2>1. Trade
    BY <1>3, Zenon DEF record_auto_cancellation, Trade
  <2>2. \E es : Quiet(es) /\ publish(es)
    BY <1>3, Clearings, QuietEvents, QuietJoins, Zenon DEF record_auto_cancellation
  <2> QED
    BY <1>1, <2>1, <2>2, Zenon
<1>4. CASE record_completion(id)
  <2>1. Trade
    BY <1>4, Zenon DEF record_completion, Trade
  <2>2. \E es : Quiet(es) /\ publish(es)
    BY <1>4, Clearings, QuietEvents, QuietJoins, Zenon DEF record_completion
  <2> QED
    BY <1>1, <2>1, <2>2, Zenon
<1>5. CASE record_auto_release(id)
  <2>1. Trade
    BY <1>5, Zenon DEF record_auto_release, Trade
  <2>2. \E es : Quiet(es) /\ publish(es)
    BY <1>5, Clearings, QuietEvents, QuietJoins, Zenon DEF record_auto_release
  <2> QED
    BY <1>1, <2>1, <2>2, Zenon
<1>6. CASE record_funding(caller, id)
  <2>1. Trade
    BY <1>6, Zenon DEF record_funding, Trade
  <2>2. \E es : Quiet(es) /\ emit(es) /\ thread' = thread
    BY <1>6, Clearings, QuietEvents, QuietJoins, Zenon DEF record_funding
  <2> QED
    BY <1>1, <2>1, <2>2, Zenon
<1>7. CASE record_shipping(caller, id) \/ record_proposal(caller, id)
  <2>1. Trade
    BY <1>7, Zenon DEF record_shipping, record_proposal, Trade
  <2>2. \E es : Quiet(es) /\ publish(es)
    BY <1>7, QuietEvents, Zenon DEF record_shipping, record_proposal, moved
  <2> QED
    BY <1>1, <2>1, <2>2, Zenon
<1>8. CASE record_refund(caller, id)
  <2>1. Trade
    BY <1>8, Zenon DEF record_refund, Trade
  <2>2. \E es : Quiet(es) /\ publish(es)
    BY <1>8, QuietEvents, Zenon DEF record_refund, moved
  <2> QED
    BY <1>1, <2>1, <2>2, Zenon
<1>9. CASE record_reclaim(caller, id)
  <2>1. Trade
    BY <1>9, Zenon DEF record_reclaim, Trade
  <2>2. \E es : Quiet(es) /\ publish(es)
    BY <1>9, Clearings, QuietEvents, QuietJoins, Zenon DEF record_reclaim
  <2> QED
    BY <1>1, <2>1, <2>2, Zenon
<1>10. CASE \E new_resolver \in Address : record_rotation(caller, id, new_resolver)
  <2>1. Trade
    BY <1>10, Zenon DEF record_rotation, Trade
  <2>2. \E es : Quiet(es) /\ publish(es)
    BY <1>10, QuietEvents, Zenon DEF record_rotation
  <2> QED
    BY <1>1, <2>1, <2>2, Zenon
<1> QED
  BY <1>2, <1>3, <1>4, <1>5, <1>6, <1>7, <1>8, <1>9, <1>10

(* The transactions of disputes and of the rescue.                         *)
LEMMA DisputePublishes ==
    ASSUME TypeOK, NEW id \in Ids, NEW caller \in Address,
           \/ record_forced_decision(id) \/ record_finalization(id)
           \/ record_drain(id)
           \/ record_appeal(caller, id) \/ record_override(caller, id)
           \/ record_recovery(caller, id)
           \/ record_dispute(caller, id)
           \/ \E r \in Resolution : record_vote(caller, id, r)
    PROVE  Publishes
<1>1. ASSUME NEW es, Quiet(es), Dispute \/ Rescue, publish(es) PROVE Publishes
  BY <1>1, StepPublishes, Zenon
<1>2. CASE record_forced_decision(id) \/ record_finalization(id)
  <2>1. Dispute
    BY <1>2, Zenon DEF record_forced_decision, record_finalization, Dispute
  <2>2. \E es : Quiet(es) /\ publish(es)
    BY <1>2, Clearings, QuietEvents, Zenon
       DEF record_forced_decision, record_finalization, moved
  <2> QED
    BY <1>1, <2>1, <2>2, Zenon
<1>3. CASE record_drain(id) \/ record_recovery(caller, id)
  <2>1. Rescue
    BY <1>3, Zenon DEF record_drain, record_recovery, Rescue
  <2>2. \E es : Quiet(es) /\ publish(es)
    BY <1>3, Clearings, QuietEvents, QuietJoins, Zenon DEF record_drain, record_recovery
  <2> QED
    BY <1>1, <2>1, <2>2, Zenon
<1>4. CASE record_appeal(caller, id) \/ record_override(caller, id)
  <2>1. Dispute
    BY <1>4, Zenon DEF record_appeal, record_override, Dispute
  <2>2. \E es : Quiet(es) /\ publish(es)
    BY <1>4, QuietEvents, Zenon DEF record_appeal, record_override, moved
  <2> QED
    BY <1>1, <2>1, <2>2, Zenon
<1>5. CASE record_dispute(caller, id)
  <2>1. Dispute
    BY <1>5, Zenon DEF record_dispute, Dispute
  <2>2. \E es : Quiet(es) /\ publish(es)
    BY <1>5, Clearings, QuietEvents, QuietJoins, Zenon DEF record_dispute
  <2> QED
    BY <1>1, <2>1, <2>2, Zenon
<1>6. CASE \E r \in Resolution : record_vote(caller, id, r)
  <2>1. Dispute
    BY <1>6, Zenon DEF record_vote, Dispute
  <2>2. \E es : Quiet(es) /\ publish(es)
    BY <1>6, Clearings, QuietEvents, QuietJoins, Zenon DEF record_vote
  <2> QED
    BY <1>1, <2>1, <2>2, Zenon
<1> QED
  BY <1>2, <1>3, <1>4, <1>5, <1>6

(* Every step of the contract and its records is a tick or a transaction.  *)
LEMMA TransactionPublishes ==
    ASSUME TypeOK, Transaction
    PROVE  \/ Publishes
           \/ \E id \in Ids \cup OldIds, sender \in Address : post_message(sender, id)
<1>1. ASSUME NEW t \in Terms, record_creation(t) \/ record_basket_creation(t)
      PROVE  Publishes
  <2>1. Trade
    BY <1>1, Zenon DEF record_creation, record_basket_creation, Trade
  <2>2. \E es : Quiet(es) /\ emit(es) /\ thread' = thread
    BY <1>1, QuietEvents, Zenon DEF record_creation, record_basket_creation
  <2> QED
    BY <2>1, <2>2, StepPublishes, Zenon
<1>2. ASSUME NEW flag \in BOOLEAN, record_pause(flag)
      PROVE  Publishes
  <2>1. /\ set_paused(flag) /\ thread' = thread
        /\ \E es : Quiet(es) /\ append_events(es)
    <3> DEFINE x == event("Timelock:Executed", None)
               y == event(IF flag THEN "Contract:Paused" ELSE "Contract:Unpaused", None)
    <3>1. x.topic # "Message:Posted" /\ y.topic # "Message:Posted"
      BY DEF event
    <3>2. set_paused(flag) /\ publish(<<x, y>>)
      BY <1>2, Zenon DEF record_pause
    <3> HIDE DEF x, y
    <3>3. Quiet(<<x, y>>)
      BY <3>1, Pairs DEF Quiet
    <3> QED
      BY <3>2, <3>3 DEF publish, emit, book_vars
  <2>2. [Next]_vars
    BY <2>1, Zenon DEF Next, Administer
  <2>3. now' = now
    BY <2>1 DEF set_paused, configure
  <2> QED
    BY <2>1, <2>2, <2>3, Zenon DEF Publishes
<1>3. ASSUME record_upgrade PROVE Publishes
  <2>1. /\ UNCHANGED vars /\ thread' = thread
        /\ append_events(<<event("contract_upgraded", None)>>)
    BY <1>3 DEF record_upgrade, book_vars
  <2>2. [Next]_vars /\ now' = now
    BY <2>1 DEF vars
  <2> QED
    BY <2>1, <2>2, QuietEvents, Zenon DEF Publishes
<1>3a. ASSUME record_token_allowlist PROVE Publishes
  <2>1. /\ UNCHANGED vars /\ thread' = thread
        /\ \E es : Quiet(es) /\ append_events(es)
    <3> DEFINE x == event("Timelock:Executed", None)
               y == event("Token:Allowlist", None)
    <3>1. x.topic # "Message:Posted" /\ y.topic # "Message:Posted"
      BY DEF event
    <3>2. /\ UNCHANGED vars
          /\ publish(<<y>>) \/ publish(<<x, y>>) \/ publish(<<x>>)
      BY <1>3a, Zenon DEF record_token_allowlist
    <3> HIDE DEF x, y
    <3>3. Quiet(<<x, y>>) /\ Quiet(<<x>>) /\ Quiet(<<y>>)
      BY <3>1, Singles, Pairs DEF Quiet
    <3> QED
      BY <3>2, <3>3 DEF publish, emit, book_vars
  <2>2. [Next]_vars /\ now' = now
    BY <2>1 DEF vars
  <2> QED
    BY <2>1, <2>2, Zenon DEF Publishes
<1>4. ASSUME NEW id \in Ids,
             \/ record_cancellation(id) \/ record_auto_cancellation(id)
             \/ record_completion(id) \/ record_auto_release(id)
             \/ record_forced_decision(id) \/ record_finalization(id)
             \/ record_drain(id)
      PROVE  Publishes
  <2>1. Admin \in Address
    BY RolesAssumption
  <2> QED
    BY <1>4, <2>1, TradePublishes, DisputePublishes, Zenon
<1>5. ASSUME NEW id \in Ids, NEW caller \in Address,
             \/ record_funding(caller, id)
             \/ record_shipping(caller, id) \/ record_proposal(caller, id)
             \/ record_refund(caller, id) \/ record_reclaim(caller, id)
             \/ record_appeal(caller, id) \/ record_override(caller, id)
             \/ record_recovery(caller, id)
             \/ \E new_resolver \in Address :
                   record_rotation(caller, id, new_resolver)
             \/ record_dispute(caller, id)
             \/ \E r \in Resolution : record_vote(caller, id, r)
      PROVE  Publishes
  BY <1>5, TradePublishes, DisputePublishes, Zenon
<1> QED
  BY <1>1, <1>2, <1>3, <1>3a, <1>4, <1>5, Zenon DEF Transaction

-----------------------------------------------------------------------------
(* The chain.                                                              *)

(* Events are in the order of their ledgers, and none is of the future.    *)
ChainInv ==
    /\ now >= 1
    /\ IsList(chain)
    /\ \A n \in 1..Len(chain) : chain[n].ledger \in 1..now
    /\ \A m, n \in 1..Len(chain) :
          m <= n => chain[m].ledger <= chain[n].ledger

(* What is on the chain stays there, and what comes is of this ledger.     *)
Grows ==
    /\ Len(chain') \in Nat
    /\ Len(chain) <= Len(chain')
    /\ \A n \in 1..Len(chain) : chain'[n] = chain[n]
    /\ \A n \in 1..Len(chain') : n > Len(chain) => chain'[n].ledger = now

LEMMA ListFacts ==
    ASSUME NEW s, IsList(s)
    PROVE  Len(s) \in Nat /\ DOMAIN s = 1..Len(s)
BY DEF IsList

LEMMA EventsJoin ==
    ASSUME IsList(chain), NEW es, IsList(es), append_events(es)
    PROVE  /\ IsList(chain')
           /\ Len(chain') = Len(chain) + Len(es)
           /\ \A n \in 1..Len(chain) : chain'[n] = chain[n]
           /\ \A i \in 1..Len(es) :
                 /\ chain'[Len(chain) + i].ledger = now
                 /\ chain'[Len(chain) + i].topic = es[i].topic
                 /\ chain'[Len(chain) + i].id = es[i].id
                 /\ chain'[Len(chain) + i].state = es[i].state
                 /\ chain'[Len(chain) + i].party = es[i].party
<1> DEFINE new == [i \in DOMAIN es |->
                    [ledger |-> now, version |-> schema_version,
                     topic |-> es[i].topic, id |-> es[i].id,
                     state |-> es[i].state, party |-> es[i].party]]
           W == {new[i] : i \in DOMAIN es}
<1>1. chain' = chain \o new
  BY Zenon DEF append_events
<1>2. Len(es) \in Nat /\ DOMAIN es = 1..Len(es)
  BY ListFacts
<1>3. \A i \in DOMAIN es : /\ new[i].ledger = now
                           /\ new[i].topic = es[i].topic
                           /\ new[i].id = es[i].id
                           /\ new[i].state = es[i].state
                           /\ new[i].party = es[i].party
  OBVIOUS
<1>4. new \in Seq(W) /\ Len(new) = Len(es)
  <2>1. \A i \in 1..Len(es) : new[i] \in W
    BY <1>2
  <2>2. DOMAIN new = 1..Len(es)
    BY <1>2
  <2>3. new = [i \in 1..Len(es) |-> new[i]]
    BY <1>2
  <2> HIDE DEF new, W
  <2> QED
    BY <1>2, <2>1, <2>2, <2>3
<1>5. PICK V : chain \in Seq(V)
  BY DEF IsList
<1> HIDE DEF new, W
<1>6. IsList(chain')
  <2>1. IsList(new)
    BY <1>4 DEF IsList
  <2> QED
    BY <1>1, <2>1, Joins, Zenon
<1>7. /\ Len(chain') = Len(chain) + Len(es)
      /\ \A n \in 1..Len(chain) : chain'[n] = chain[n]
      /\ \A n \in 1..Len(chain') :
            n > Len(chain) => chain'[n] = new[n - Len(chain)]
  <2> DEFINE U == V \cup W
  <2>1. chain \in Seq(U) /\ new \in Seq(U)
    BY <1>4, <1>5
  <2> HIDE DEF U
  <2>2. ASSUME NEW c, c = chain \o new
        PROVE  /\ Len(c) = Len(chain) + Len(es)
               /\ \A n \in 1..Len(chain) : c[n] = chain[n]
               /\ \A n \in 1..Len(c) : n > Len(chain) => c[n] = new[n - Len(chain)]
    <3>1. Len(c) = Len(chain) + Len(es)
      BY <1>4, <2>1, <2>2
    <3>2. \A n \in 1..Len(chain) : c[n] = chain[n]
      BY <1>4, <2>1, <2>2
    <3>3. \A n \in 1..Len(c) : n > Len(chain) => c[n] = new[n - Len(chain)]
      BY <1>4, <2>1, <2>2, <3>1
    <3> QED
      BY <3>1, <3>2, <3>3
  <2> QED
    BY <1>1, <2>2
<1>8. \A i \in 1..Len(es) : chain'[Len(chain) + i] = new[i]
  <2>1. SUFFICES ASSUME NEW i \in 1..Len(es) PROVE chain'[Len(chain) + i] = new[i]
    OBVIOUS
  <2>2. Len(chain) \in Nat
    BY <1>5
  <2>3. /\ Len(chain) + i \in 1..Len(chain') /\ Len(chain) + i > Len(chain)
        /\ (Len(chain) + i) - Len(chain) = i
    BY <1>2, <1>7, <2>1, <2>2
  <2>4. chain'[Len(chain) + i] = new[(Len(chain) + i) - Len(chain)]
    BY <1>7, <2>3, Zenon
  <2> QED
    BY <2>3, <2>4, Zenon
<1> QED
  BY <1>2, <1>3, <1>6, <1>7, <1>8

LEMMA PublishedEventsJoin ==
    ASSUME IsList(chain), NEW es, IsList(es), append_events(es)
    PROVE  IsList(chain') /\ Grows
<1>1. Len(chain) \in Nat /\ Len(es) \in Nat
  BY ListFacts
<1>2. /\ IsList(chain') /\ Len(chain') = Len(chain) + Len(es)
      /\ \A n \in 1..Len(chain) : chain'[n] = chain[n]
      /\ \A i \in 1..Len(es) : chain'[Len(chain) + i].ledger = now
  BY EventsJoin
<1>3. ASSUME NEW n \in 1..Len(chain'), n > Len(chain) PROVE chain'[n].ledger = now
  <2>1. n - Len(chain) \in 1..Len(es) /\ Len(chain) + (n - Len(chain)) = n
    BY <1>1, <1>2, <1>3
  <2> QED
    BY <1>2, <2>1
<1> QED
  BY <1>1, <1>2, <1>3 DEF Grows

(* A step of the contract and its records is one of the contract.          *)
LEMMA RecordsGrow ==
    ASSUME TypeOK, IsList(chain), RecordsNext
    PROVE  /\ [Next]_vars
           /\ IsList(chain')
           /\ Grows
           /\ now' = now \/ (now' = now + 1 /\ chain' = chain)
<1>1. CASE record_tick
  <2>1. Tick /\ chain' = chain
    BY <1>1 DEF record_tick, record_vars
  <2>2. [Next]_vars /\ now' = now + 1
    BY <2>1, Zenon DEF Next, Tick
  <2>3. Grows
    BY <2>1, ListFacts DEF Grows
  <2> QED
    BY <2>1, <2>2, <2>3
<1>2. CASE Transaction
  <2>1. CASE Publishes
    BY <2>1, PublishedEventsJoin, Zenon DEF Publishes, Quiet
  <2>2. ASSUME NEW id \in Ids \cup OldIds, NEW sender \in Address,
               post_message(sender, id)
        PROVE  /\ [Next]_vars /\ now' = now
               /\ IsList(chain') /\ Grows
    <3>1. UNCHANGED vars /\ append_events(<<event_of("Message:Posted", id, sender)>>)
      BY <2>2, Zenon DEF post_message, emit
    <3>2. [Next]_vars /\ now' = now
      BY <3>1 DEF vars
    <3> QED
      BY <3>1, <3>2, Singles, PublishedEventsJoin, Zenon
  <2> QED
    BY <1>2, <2>1, <2>2, TransactionPublishes, Zenon
<1> QED
  BY <1>1, <1>2 DEF RecordsNext

(* Every step of the indexed contract is a step of the contract.           *)
LEMMA IndexerSteps ==
    ASSUME TypeOK, IsList(chain), [IndexerNext]_all_vars
    PROVE  /\ [Next]_vars
           /\ IsList(chain')
           /\ Grows
           /\ now' = now \/ (now' = now + 1 /\ chain' = chain)
           /\ chain' # chain \/ now' # now => UNCHANGED indexer_vars
<1>1. CASE RecordsNext /\ UNCHANGED indexer_vars
  BY <1>1, RecordsGrow
<1>2. CASE UNCHANGED <<vars, record_vars>>
  <2>1. UNCHANGED vars /\ chain' = chain /\ now' = now
    BY <1>2 DEF vars, record_vars
  <2> QED
    BY <2>1, ListFacts DEF Grows
<1>3. IndexerNext \/ UNCHANGED all_vars =>
         (RecordsNext /\ UNCHANGED indexer_vars) \/ UNCHANGED <<vars, record_vars>>
  BY DEF IndexerNext, poll, replay, ingest_event, give_up, all_vars
<1> QED
  BY <1>1, <1>2, <1>3, Zenon

LEMMA ChainStep ==
    ASSUME TypeOK, ChainInv, [IndexerNext]_all_vars
    PROVE  ChainInv'
<1>1. /\ IsList(chain) /\ IsList(chain') /\ Grows
      /\ now' = now \/ (now' = now + 1 /\ chain' = chain)
  BY IndexerSteps DEF ChainInv
<1>2. /\ Len(chain) \in Nat /\ Len(chain') \in Nat
      /\ now \in Nat
  BY <1>1, ListFacts DEF TypeOK, Time
<1>3. now' >= 1 /\ now' >= now /\ now \in 1..now'
  BY <1>1, <1>2 DEF ChainInv
<1>4. \A n \in 1..Len(chain') :
         /\ chain'[n].ledger \in 1..now
         /\ \/ n > Len(chain) /\ chain'[n].ledger = now
            \/ n \in 1..Len(chain) /\ chain'[n] = chain[n]
  BY <1>1, <1>2 DEF ChainInv, Grows
<1>5. \A n \in 1..Len(chain') : chain'[n].ledger \in 1..now'
  BY <1>2, <1>3, <1>4, <1>1
<1>6. ASSUME NEW m \in 1..Len(chain'), NEW n \in 1..Len(chain'), m <= n
      PROVE  chain'[m].ledger <= chain'[n].ledger
  <2>1. CASE n > Len(chain)
    BY <1>2, <1>4, <1>6, <2>1
  <2>2. CASE ~(n > Len(chain))
    <3>1. m \in 1..Len(chain) /\ n \in 1..Len(chain)
      BY <1>2, <1>6, <2>2
    <3>2. chain[m].ledger <= chain[n].ledger
      BY <1>6, <3>1 DEF ChainInv
    <3> QED
      BY <1>1, <3>1, <3>2 DEF Grows
  <2> QED
    BY <2>1, <2>2
<1> QED
  BY <1>1, <1>3, <1>5, <1>6 DEF ChainInv
-----------------------------------------------------------------------------
(* Positions.                                                              *)

(* The events of the ledger of n before it: their number is its index.     *)
Before(n) == {k \in 1..(n - 1) : chain[k].ledger = chain[n].ledger}

(* A later event has a later position.                                     *)
LEMMA PositionsAscend ==
    ASSUME ChainInv, TypeOK,
           NEW m \in 1..Len(chain), NEW n \in 1..Len(chain), m < n
    PROVE  cursorAfter(position(n), position(m))
<1>1. /\ Len(chain) \in Nat /\ now \in Nat
      /\ chain[m].ledger \in Nat /\ chain[n].ledger \in Nat
      /\ chain[m].ledger <= chain[n].ledger
  BY ListFacts DEF ChainInv, TypeOK, Time
<1>2. CASE chain[m].ledger < chain[n].ledger
  BY <1>1, <1>2 DEF cursorAfter, position
<1>3. CASE chain[m].ledger = chain[n].ledger
  <2>1. m \in Before(n) /\ m \notin Before(m) /\ Before(m) \subseteq Before(n)
    BY <1>1, <1>3 DEF Before
  <2>2. IsFiniteSet(Before(n))
    <3>1. IsFiniteSet(1..(n - 1))
      BY <1>1, FS_Interval
    <3> QED
      BY <3>1, FS_Subset DEF Before
  <2>3. /\ Cardinality(Before(m)) \in Nat /\ Cardinality(Before(n)) \in Nat
        /\ Cardinality(Before(m)) < Cardinality(Before(n))
    <3>1. /\ IsFiniteSet(Before(m))
          /\ Cardinality(Before(m)) <= Cardinality(Before(n))
          /\ Cardinality(Before(m)) = Cardinality(Before(n)) => Before(m) = Before(n)
      BY <2>1, <2>2, FS_Subset
    <3>2. Cardinality(Before(m)) \in Nat /\ Cardinality(Before(n)) \in Nat
      BY <2>2, <3>1, FS_CardinalityType
    <3>3. Cardinality(Before(m)) # Cardinality(Before(n))
      BY <2>1, <3>1
    <3> QED
      BY <3>1, <3>2, <3>3
  <2>4. /\ position(n) = [ledger |-> chain[n].ledger, index |-> Cardinality(Before(n))]
        /\ position(m) = [ledger |-> chain[m].ledger, index |-> Cardinality(Before(m))]
    BY DEF position, Before
  <2> QED
    BY <1>3, <2>3, <2>4 DEF cursorAfter
<1> QED
  BY <1>1, <1>2, <1>3

LEMMA PositionTypes ==
    ASSUME ChainInv, TypeOK, NEW n \in 1..Len(chain)
    PROVE  /\ position(n).ledger = chain[n].ledger
           /\ position(n).ledger \in Nat \ {0}
           /\ position(n).index \in Nat
<1>1. chain[n].ledger \in Nat \ {0}
  BY DEF ChainInv, TypeOK, Time
<1>2. Len(chain) \in Nat
  BY ListFacts DEF ChainInv
<1>3. IsFiniteSet(Before(n))
  <2>1. IsFiniteSet(1..(n - 1))
    BY <1>2, FS_Interval
  <2> QED
    BY <2>1, FS_Subset DEF Before
<1>4. Cardinality(Before(n)) \in Nat
  BY <1>3, FS_CardinalityType
<1>5. position(n) = [ledger |-> chain[n].ledger, index |-> Cardinality(Before(n))]
  BY DEF position, Before
<1> QED
  BY <1>1, <1>4, <1>5

(* The position of an event is final when it is published.                 *)
LEMMA PositionsStay ==
    ASSUME Len(chain) \in Nat, Grows, NEW n \in 1..Len(chain)
    PROVE  position(n)' = position(n)
<1>1. chain'[n] = chain[n]
  BY DEF Grows
<1>2. \A k \in 1..(n - 1) : chain'[k] = chain[k]
  BY DEF Grows
<1>3. {k \in 1..(n - 1) : chain'[k].ledger = chain'[n].ledger}
         = {k \in 1..(n - 1) : chain[k].ledger = chain[n].ledger}
  BY <1>1, <1>2
<1> QED
  BY <1>1, <1>3, Zenon DEF position

(* The position of the c-th event, and where the cursor is before any.     *)
mark(c) == IF c = 0 THEN Origin ELSE position(c)

LEMMA MarksAscend ==
    ASSUME ChainInv, TypeOK, NEW c \in 0..Len(chain), NEW n \in 1..Len(chain)
    PROVE  cursorAfter(position(n), mark(c)) <=> n > c
<1>1. Len(chain) \in Nat
  BY ListFacts DEF ChainInv
<1>2. position(n).ledger \in Nat \ {0} /\ position(n).index \in Nat
  BY PositionTypes
<1>3. CASE c = 0
  <2>1. mark(c).ledger = 0
    BY <1>3 DEF mark, Origin
  <2> QED
    BY <1>1, <1>2, <1>3, <2>1 DEF cursorAfter
<1>4. CASE c # 0
  <2>1. c \in 1..Len(chain) /\ mark(c) = position(c)
    BY <1>1, <1>4 DEF mark
  <2>2. position(c).ledger \in Nat \ {0} /\ position(c).index \in Nat
    BY <2>1, PositionTypes
  <2>3. CASE n > c
    BY <2>1, <2>3, PositionsAscend
  <2>4. CASE n = c
    BY <2>1, <2>2, <2>4 DEF cursorAfter
  <2>5. CASE n < c
    <3>1. cursorAfter(position(c), position(n))
      BY <2>1, <2>5, PositionsAscend
    <3> QED
      BY <1>1, <1>2, <2>1, <2>2, <2>5, <3>1 DEF cursorAfter
  <2> QED
    BY <1>1, <2>3, <2>4, <2>5
<1> QED
  BY <1>3, <1>4

(* What consumed says of the cursor: it looks at an event the other way    *)
(* round.                                                                  *)
LEMMA ConsumedIsBehind ==
    ASSUME ChainInv, TypeOK, NEW c \in 0..Len(chain), cursor = mark(c),
           NEW n \in 1..Len(chain)
    PROVE  /\ after_cursor(n) <=> n > c
           /\ consumed(n) <=> n <= c
<1>1. Len(chain) \in Nat
  BY ListFacts DEF ChainInv
<1>2. /\ position(n).ledger = chain[n].ledger
      /\ position(n).ledger \in Nat /\ position(n).index \in Nat
  BY PositionTypes
<1>3. cursor.ledger \in Nat /\ cursor.index \in Nat
  <2>1. CASE c = 0
    BY <2>1 DEF mark, Origin
  <2>2. CASE c # 0
    <3>1. c \in 1..Len(chain) /\ cursor = position(c)
      BY <1>1, <2>2 DEF mark
    <3> QED
      BY <3>1, PositionTypes
  <2> QED
    BY <2>1, <2>2
<1>4. after_cursor(n) <=> n > c
  BY MarksAscend DEF after_cursor
<1>5. consumed(n) <=> ~after_cursor(n)
  BY <1>2, <1>3 DEF consumed, after_cursor, cursorAfter
<1> QED
  BY <1>1, <1>4, <1>5
-----------------------------------------------------------------------------
(* Pages.                                                                  *)

(* Events a to b, as a batch lists them.                                   *)
run(a, b) == [i \in 1..(b - a + 1) |-> a + i - 1]

(* in_order of an interval is that interval from its first to its last.    *)
LEMMA RunsInOrder ==
    ASSUME Len(chain) \in Nat, NEW a \in 1..(Len(chain) + 1),
           NEW b \in 0..Len(chain), a <= b + 1
    PROVE  in_order(a..b) = run(a, b)
<1> DEFINE L == Len(chain)
           E == a..b
           list == CHOOSE lst : lst = [n \in 0..L |->
                IF n = 0 THEN <<>>
                ELSE IF n \in E THEN Append(lst[n - 1], n) ELSE lst[n - 1]]
           till(n) == IF n < a THEN 0 ELSE IF n <= b THEN n - a + 1 ELSE b - a + 1
           g == [n \in 0..L |-> [i \in 1..till(n) |-> a + i - 1]]
<1>1. in_order(E) = list[L]
  BY Zenon DEF in_order
<1>2. \A n \in 0..L : till(n) \in Nat
  OBVIOUS
<1>3. \A n \in 0..L :
         g[n] = IF n = 0 THEN <<>>
                ELSE IF n \in E THEN Append(g[n - 1], n) ELSE g[n - 1]
  <2>1. SUFFICES ASSUME NEW n \in 0..L
                 PROVE  g[n] = IF n = 0 THEN <<>>
                               ELSE IF n \in E THEN Append(g[n - 1], n) ELSE g[n - 1]
    OBVIOUS
  <2>2. CASE n = 0
    <3>1. g[n] = [i \in 1..0 |-> a + i - 1]
      BY <2>2
    <3>2. [i \in 1..0 |-> a + i - 1] = <<>>
      OBVIOUS
    <3> QED
      BY <2>2, <3>1, <3>2
  <2>3. CASE n # 0 /\ n \in E
    <3>1. n - 1 \in 0..L /\ till(n - 1) = n - a /\ till(n) = n - a + 1
      BY <2>3
    <3>2. /\ g[n] = [i \in 1..(n - a + 1) |-> a + i - 1]
          /\ g[n - 1] = [i \in 1..(n - a) |-> a + i - 1]
      BY <3>1, <2>1
    <3> DEFINE u == [i \in 1..(n - a) |-> a + i - 1]
               k == n - a
    <3>3. k \in Nat /\ n = a + k
      BY <2>3
    <3>4. u \in Seq(Int) /\ Len(u) = k
      BY <3>3
    <3>5. Append(u, n) = [i \in 1..(k + 1) |-> IF i = k + 1 THEN n ELSE u[i]]
      <4> HIDE DEF u, k
      <4> QED
        BY <3>3, <3>4
    <3>6. Append(u, n) = [i \in 1..(n - a + 1) |-> a + i - 1]
      BY <3>3, <3>5
    <3> QED
      BY <2>3, <3>2, <3>6
  <2>4. CASE n # 0 /\ n \notin E
    <3>1. n - 1 \in 0..L /\ till(n) = till(n - 1)
      BY <2>4
    <3>2. g[n] = g[n - 1]
      <4>1. /\ g[n] = [i \in 1..till(n) |-> a + i - 1]
            /\ g[n - 1] = [i \in 1..till(n - 1) |-> a + i - 1]
        BY <3>1, <2>1
      <4> HIDE DEF g, till
      <4> QED
        BY <3>1, <4>1
    <3> QED
      BY <2>4, <3>2
  <2> QED
    BY <2>2, <2>3, <2>4
<1>4. g = [n \in 0..L |->
              IF n = 0 THEN <<>>
              ELSE IF n \in E THEN Append(g[n - 1], n) ELSE g[n - 1]]
  <2>1. DOMAIN g = 0..L /\ g = [n \in 0..L |-> g[n]]
    OBVIOUS
  <2> HIDE DEF g, E
  <2> QED
    BY <1>3, <2>1, Zenon
<1>5. list = [n \in 0..L |->
              IF n = 0 THEN <<>>
              ELSE IF n \in E THEN Append(list[n - 1], n) ELSE list[n - 1]]
  <2> HIDE DEF g, E, L
  <2> QED
    BY <1>4, Zenon
<1> HIDE DEF list
<1> DEFINE S == {k \in Nat : k <= L => list[k] = g[k]}
<1>6. 0 \in S
  <2>1. 0 \in 0..L
    OBVIOUS
  <2>2. list[0] = <<>> /\ g[0] = <<>>
    <3> HIDE DEF g, E, L
    <3> QED
      BY <1>3, <1>5, <2>1, Zenon
  <2> HIDE DEF g
  <2> QED
    BY <2>2
<1>7. ASSUME NEW k \in Nat, k \in S PROVE k + 1 \in S
  <2>1. SUFFICES ASSUME k + 1 <= L PROVE list[k + 1] = g[k + 1]
    OBVIOUS
  <2>2. k + 1 \in 0..L /\ (k + 1) - 1 = k /\ k + 1 # 0 /\ k <= L
    BY <2>1
  <2>3. list[k] = g[k]
    <3> HIDE DEF g, L
    <3> QED
      BY <1>7, <2>2
  <2>4. list[k + 1] = IF k + 1 \in E THEN Append(list[k], k + 1) ELSE list[k]
    <3> HIDE DEF g, E, L
    <3> QED
      BY <1>5, <2>2, Zenon
  <2>5. g[k + 1] = IF k + 1 \in E THEN Append(g[k], k + 1) ELSE g[k]
    <3> HIDE DEF g, E, L
    <3> QED
      BY <1>3, <2>2, Zenon
  <2> HIDE DEF g, E, L
  <2> QED
    BY <2>3, <2>4, <2>5
<1>8. L \in S
  <2> HIDE DEF S
  <2> QED
    BY <1>6, <1>7, NatSetInduction
<1>9. list[L] = g[L]
  <2> HIDE DEF g
  <2> QED
    BY <1>8
<1>10. g[L] = run(a, b)
  <2>1. till(L) = b - a + 1
    OBVIOUS
  <2>2. g[L] = [i \in 1..till(L) |-> a + i - 1]
    OBVIOUS
  <2> HIDE DEF g, till
  <2> QED
    BY <2>1, <2>2 DEF run
<1> QED
  BY <1>1, <1>9, <1>10
-----------------------------------------------------------------------------
(* Batches.                                                                *)

LEMMA RunFacts ==
    ASSUME NEW a \in Int, NEW b \in Int, a <= b + 1
    PROVE  /\ Len(run(a, b)) = b - a + 1
           /\ run(a, b) = <<>> <=> b < a
           /\ \A i \in 1..(b - a + 1) : run(a, b)[i] = a + i - 1
           /\ Range(run(a, b)) = a..b
           /\ b >= a => Head(run(a, b)) = a /\ Tail(run(a, b)) = run(a + 1, b)
<1> DEFINE k == b - a + 1
           r == run(a, b)
<1>1. k \in Nat /\ r = [i \in 1..k |-> a + i - 1]
  BY DEF run
<1>2. r \in Seq(Int) /\ Len(r) = k /\ DOMAIN r = 1..k
  BY <1>1
<1>3. \A i \in 1..k : r[i] = a + i - 1
  BY <1>1
<1>4. r = <<>> <=> b < a
  <2> HIDE DEF r
  <2> QED
    BY <1>2
<1>5. Range(r) = a..b
  <2>1. ASSUME NEW x \in Range(r) PROVE x \in a..b
    <3>1. PICK i \in 1..k : x = r[i]
      BY <1>2, Zenon DEF Range
    <3> QED
      BY <1>3, <3>1
  <2>2. ASSUME NEW x \in a..b PROVE x \in Range(r)
    <3>1. x - a + 1 \in 1..k /\ r[x - a + 1] = x
      BY <1>3
    <3> HIDE DEF r, k
    <3> QED
      BY <1>2, <3>1, Zenon DEF Range
  <2> QED
    BY <2>1, <2>2
<1>6. ASSUME b >= a PROVE Head(r) = a /\ Tail(r) = run(a + 1, b)
  <2>1. Head(r) = a
    <3>1. 1 \in 1..k /\ r[1] = a
      BY <1>3, <1>6
    <3> HIDE DEF r
    <3> QED
      BY <1>2, <1>6, <3>1
  <2>2. /\ Len(Tail(r)) = b - a
        /\ Tail(r) \in Seq(Int)
        /\ \A i \in 1..(b - a) : Tail(r)[i] = a + i
    <3> HIDE DEF r
    <3> QED
      BY <1>2, <1>3, <1>6
  <2>3. run(a + 1, b) = [i \in 1..(b - a) |-> a + i]
    BY DEF run
  <2>4. /\ run(a + 1, b) \in Seq(Int) /\ Len(run(a + 1, b)) = b - a
        /\ \A i \in 1..(b - a) : run(a + 1, b)[i] = a + i
    <3>1. b - a \in Nat
      BY <1>6
    <3> QED
      BY <2>3, <3>1
  <2> HIDE DEF r
  <2>5. Tail(r) = run(a + 1, b)
    BY <2>2, <2>4, SeqEqual
  <2> QED
    BY <2>1, <2>5
<1> QED
  BY <1>2, <1>3, <1>4, <1>5, <1>6

(* The first events of a run are a run.                                    *)
LEMMA RunsAreCut ==
    ASSUME NEW a \in Int, NEW b \in Int, a <= b + 1, NEW k \in Nat, k <= b - a + 1
    PROVE  SubSeq(run(a, b), 1, k) = run(a, a + k - 1)
<1> DEFINE r == run(a, b)
<1>1. r \in Seq(Int) /\ Len(r) = b - a + 1 /\ \A i \in 1..(b - a + 1) : r[i] = a + i - 1
  <2>1. b - a + 1 \in Nat /\ r = [i \in 1..(b - a + 1) |-> a + i - 1]
    BY DEF run
  <2> QED
    BY <2>1
<1> HIDE DEF r
<1>2. SubSeq(r, 1, k) = [i \in 1..k |-> r[i]]
  BY <1>1
<1>3. SubSeq(r, 1, k) = [i \in 1..k |-> a + i - 1]
  BY <1>1, <1>2
<1>4. run(a, a + k - 1) = [i \in 1..k |-> a + i - 1]
  BY DEF run
<1> QED
  BY <1>3, <1>4 DEF r

(* A set of events without a gap runs from some event to some other.       *)
LEMMA Gapless ==
    ASSUME NEW L \in Nat, NEW P \in SUBSET (1..L),
           \A x, y \in P : x..y \subseteq P
    PROVE  \E a \in 1..(L + 1), b \in 0..L : a <= b + 1 /\ P = a..b
<1>1. CASE P = {}
  <2>1. 1 \in 1..(L + 1) /\ 0 \in 0..L /\ 1 <= 0 + 1 /\ 1..0 = {}
    OBVIOUS
  <2> QED
    BY <1>1, <2>1
<1>2. CASE P # {}
  <2>1. PICK a \in P : \A y \in P : a <= y
    <3>1. P \subseteq Nat
      OBVIOUS
    <3> QED
      BY <1>2, <3>1, NatSetHasLeast
  <2> DEFINE B == {x \in 0..L : \A y \in P : y <= x}
  <2>2. PICK b \in B : \A x \in B : b <= x
    <3>1. L \in B /\ B \subseteq Nat
      OBVIOUS
    <3> HIDE DEF B
    <3> QED
      BY <3>1, NatSetHasLeast
  <2>3. b \in P
    <3>1. SUFFICES ASSUME b \notin P PROVE FALSE
      OBVIOUS
    <3>2. a <= b /\ a >= 1 /\ b \in 0..L /\ a # b
      BY <2>1, <2>2, <3>1
    <3>3. b - 1 \in B
      <4>1. \A y \in P : y <= b /\ y # b /\ y \in Int
        BY <2>2, <3>1
      <4>2. \A y \in P : y <= b - 1
        BY <3>2, <4>1
      <4> QED
        BY <3>2, <4>2
    <3> QED
      BY <2>2, <3>2, <3>3
  <2>4. P = a..b
    <3>1. a..b \subseteq P
      BY <2>1, <2>3
    <3>2. \A y \in P : y \in a..b
      <4>1. \A y \in P : a <= y /\ y <= b /\ y \in Int
        BY <2>1, <2>2
      <4>2. a \in Int /\ b \in Int
        OBVIOUS
      <4> HIDE DEF B
      <4> QED
        BY <4>1, <4>2
    <3> HIDE DEF B
    <3> QED
      BY <3>1, <3>2
  <2>5. a \in 1..(L + 1) /\ b \in 0..L /\ a <= b + 1
    BY <2>1, <2>2, <2>3
  <2> QED
    BY <2>4, <2>5
<1> QED
  BY <1>1, <1>2

(* What the server shows from a ledger on is a run.                        *)
LEMMA PublishedRuns ==
    ASSUME ChainInv, TypeOK, NEW first \in Nat
    PROVE  \E a \in 1..(Len(chain) + 1), b \in 0..Len(chain) :
              /\ a <= b + 1
              /\ {n \in Published : chain[n].ledger >= first} = a..b
              /\ published_from(first) = run(a, b)
<1> DEFINE L == Len(chain)
           P == {n \in Published : chain[n].ledger >= first}
<1>1. L \in Nat /\ DOMAIN chain = 1..L /\ now \in Nat
      /\ \A n \in 1..L : chain[n].ledger \in Nat
  BY ListFacts DEF ChainInv, TypeOK, Time
<1>2. P \in SUBSET (1..L)
  BY <1>1 DEF Published
<1>3. \A x, y \in P : x..y \subseteq P
  <2>1. SUFFICES ASSUME NEW x \in P, NEW y \in P, NEW z \in x..y PROVE z \in P
    OBVIOUS
  <2>2. x \in 1..L /\ y \in 1..L /\ z \in 1..L
    BY <1>1, <1>2
  <2>3. chain[x].ledger <= chain[z].ledger /\ chain[z].ledger <= chain[y].ledger
    BY <2>2 DEF ChainInv
  <2>4. first <= chain[x].ledger /\ chain[y].ledger < now
    BY DEF Published
  <2>5. first <= chain[z].ledger /\ chain[z].ledger < now
    BY <1>1, <2>2, <2>3, <2>4
  <2> QED
    BY <1>1, <2>2, <2>5 DEF Published
<1> HIDE DEF P
<1>4. PICK a \in 1..(L + 1), b \in 0..L : a <= b + 1 /\ P = a..b
  <2>1. L \in Nat /\ P \in SUBSET (1..L) /\ \A x, y \in P : x..y \subseteq P
    BY <1>1, <1>2, <1>3
  <2>2. \A l \in Nat : \A Q \in SUBSET (1..l) :
           (\A x, y \in Q : x..y \subseteq Q)
              => \E a \in 1..(l + 1), b \in 0..l : a <= b + 1 /\ Q = a..b
    BY Gapless, Zenon
  <2> HIDE DEF L
  <2> QED
    BY <2>1, <2>2, Zenon
<1>5. published_from(first) = run(a, b)
  <2>1. published_from(first) = in_order(P)
    BY Zenon DEF published_from, P
  <2> QED
    BY <1>1, <1>4, <2>1, RunsInOrder
<1> QED
  BY <1>4, <1>5 DEF P
-----------------------------------------------------------------------------
(* The log.                                                                *)

(* The first c events are logged and m more, all published, are in the     *)
(* batch that is being applied: the cursor is the position of the c-th.    *)
Progress(c, m) ==
    /\ c \in 0..Len(chain) /\ m \in Nat /\ c + m <= Len(chain)
    /\ c + m > 0 => chain[c + m].ledger < now
    /\ cursor = mark(c)
    /\ raw = {position(n) : n \in 1..c}
    /\ messages = {position(n) : n \in {k \in 1..c : chain[k].topic = "Message:Posted"}}
    /\ batch = run(c + 1, c + m)

LogInv == \E c, m \in Nat : Progress(c, m)

IndexInv == ChainInv /\ LogInv

(* A step of the contract or of the records leaves the progress alone.     *)
LEMMA ProgressStays ==
    ASSUME TypeOK, ChainInv, NEW c, NEW m, Progress(c, m), Grows,
           now' = now \/ (now' = now + 1 /\ chain' = chain),
           UNCHANGED indexer_vars
    PROVE  Progress(c, m)'
<1>1. /\ Len(chain) \in Nat /\ Len(chain') \in Nat /\ now \in Nat
      /\ Len(chain) <= Len(chain')
      /\ \A n \in 1..Len(chain) : chain[n].ledger \in Nat
  BY ListFacts DEF ChainInv, TypeOK, Time, Grows
<1>2. c \in 0..Len(chain) /\ m \in Nat /\ c + m <= Len(chain)
  BY DEF Progress
<1>3. \A n \in 1..Len(chain) : chain'[n] = chain[n] /\ position(n)' = position(n)
  BY <1>1, PositionsStay DEF Grows
<1>4. c + m > 0 => chain'[c + m].ledger < now'
  <2>1. SUFFICES ASSUME c + m > 0 PROVE chain'[c + m].ledger < now'
    OBVIOUS
  <2>2. c + m \in 1..Len(chain)
    BY <1>1, <1>2, <2>1
  <2>3. chain'[c + m] = chain[c + m] /\ chain[c + m].ledger < now
    BY <1>3, <2>1, <2>2 DEF Progress
  <2> QED
    BY <1>1, <2>2, <2>3
<1>5. mark(c)' = mark(c)
  <2>1. c # 0 => c \in 1..Len(chain)
    BY <1>1, <1>2
  <2> QED
    BY <1>3, <2>1 DEF mark, Origin
<1>6. 1..c \subseteq 1..Len(chain)
  BY <1>1, <1>2
<1>7. {position(n)' : n \in 1..c} = {position(n) : n \in 1..c}
  BY <1>3, <1>6
<1>8. {k \in 1..c : chain'[k].topic = "Message:Posted"}
         = {k \in 1..c : chain[k].topic = "Message:Posted"}
  BY <1>3, <1>6
<1>9. {position(n)' : n \in {k \in 1..c : chain'[k].topic = "Message:Posted"}}
         = {position(n) : n \in {k \in 1..c : chain[k].topic = "Message:Posted"}}
  BY <1>3, <1>6, <1>8
<1>10. /\ cursor' = cursor /\ raw' = raw /\ messages' = messages /\ batch' = batch
  BY DEF indexer_vars, tables
<1>11. run(c + 1, c + m)' = run(c + 1, c + m)
  BY DEF run
<1>12. c \in 0..Len(chain') /\ m \in Nat /\ c + m <= Len(chain')
  BY <1>1, <1>2
<1> QED
  BY <1>4, <1>5, <1>7, <1>9, <1>10, <1>11, <1>12, Zenon DEF Progress

(* A batch that is read after the cursor goes on where the cursor stands.  *)
LEMMA BatchIsNext ==
    ASSUME TypeOK, ChainInv, NEW c, Progress(c, 0),
           NEW e \in Nat, e <= Len(chain), e > 0 => chain[e].ledger < now,
           NEW E, E = {n \in 1..e : n > c},
           batch' = in_order(E), batch' # <<>>,
           UNCHANGED <<vars, record_vars, tables>>
    PROVE  \E m \in Nat : Progress(c, m)'
<1>1. Len(chain) \in Nat /\ c \in 0..Len(chain)
  BY ListFacts DEF ChainInv, Progress
<1>2. c < e
  <2>1. SUFFICES ASSUME ~(c < e) PROVE FALSE
    OBVIOUS
  <2>2. E = 1..0
    BY <1>1, <2>1
  <2>3. in_order(1..0) = run(1, 0)
    BY <1>1, RunsInOrder
  <2>4. run(1, 0) = <<>>
    BY RunFacts
  <2> QED
    BY <2>2, <2>3, <2>4
<1>3. E = (c + 1)..e
  BY <1>1, <1>2
<1>4. in_order((c + 1)..e) = run(c + 1, e)
  BY <1>1, <1>2, RunsInOrder
<1> DEFINE m == e - c
<1>5. m \in Nat /\ c + m = e /\ e > 0
  BY <1>1, <1>2
<1>6. /\ chain' = chain /\ now' = now /\ cursor' = cursor /\ raw' = raw
      /\ messages' = messages
  BY DEF vars, record_vars, tables
<1>7. mark(c)' = mark(c) /\ \A n : position(n)' = position(n)
  BY <1>6 DEF mark, Origin, position
<1>8. batch' = run(c + 1, c + m)
  BY <1>3, <1>4, <1>5
<1> HIDE DEF m
<1>9. c \in 0..Len(chain') /\ m \in Nat /\ c + m <= Len(chain')
      /\ (c + m > 0 => chain'[c + m].ledger < now')
  BY <1>1, <1>5, <1>6
<1>10. run(c + 1, c + m)' = run(c + 1, c + m)
  BY DEF run
<1>11. Progress(c, m)'
  BY <1>6, <1>7, <1>8, <1>9, <1>10 DEF Progress
<1> QED
  BY <1>5, <1>11

LEMMA RestIsNone ==
    ASSUME NEW c, NEW m, Progress(c, m), TypeOK, ChainInv
    PROVE  /\ c \in Nat /\ m \in Nat
           /\ batch = <<>> <=> m = 0
<1>1. Len(chain) \in Nat
  BY ListFacts DEF ChainInv
<1>2. c \in Nat /\ m \in Nat /\ batch = run(c + 1, c + m)
  BY <1>1 DEF Progress
<1>3. run(c + 1, c + m) = <<>> <=> c + m < c + 1
  <2>1. c + 1 \in Int /\ c + m \in Int /\ c + 1 <= (c + m) + 1
    BY <1>2
  <2> QED
    BY <2>1, RunFacts
<1> QED
  BY <1>2, <1>3

LEMMA PollStep ==
    ASSUME TypeOK, ChainInv, NEW c, NEW m, Progress(c, m), poll
    PROVE  \E k \in Nat : Progress(c, k)'
<1>1. c \in Nat /\ m = 0 /\ Progress(c, 0)
  BY RestIsNone DEF poll
<1>2. /\ Len(chain) \in Nat /\ DOMAIN chain = 1..Len(chain)
      /\ c \in 0..Len(chain) /\ now \in Nat
      /\ \A n \in 1..Len(chain) : chain[n].ledger \in Nat \ {0}
  BY ListFacts DEF ChainInv, Progress, TypeOK, Time
<1>3. cursor = mark(c) /\ (c > 0 => chain[c].ledger < now)
  BY <1>1, <1>2 DEF Progress
<1>4. cursor.ledger \in Nat /\ (c = 0 => cursor.ledger = 0)
      /\ (c # 0 => cursor.ledger = chain[c].ledger)
  <2>1. CASE c = 0
    BY <1>3, <2>1 DEF mark, Origin
  <2>2. CASE c # 0
    <3>1. c \in 1..Len(chain) /\ cursor = position(c)
      BY <1>2, <1>3, <2>2 DEF mark
    <3> QED
      BY <2>2, <3>1, PositionTypes
  <2> QED
    BY <2>1, <2>2
<1> DEFINE P == {n \in Published : chain[n].ledger >= cursor.ledger}
<1>5. PICK a \in 1..(Len(chain) + 1), b \in 0..Len(chain) :
         a <= b + 1 /\ P = a..b /\ published_from(cursor.ledger) = run(a, b)
  BY <1>4, PublishedRuns
<1>6. a <= c + 1 \/ a > b
  <2>1. CASE c = 0
    <3>1. SUFFICES ASSUME a <= b PROVE a = 1
      BY <1>2, <1>5, <2>1
    <3>2. b \in P /\ b \in 1..Len(chain)
      BY <1>5, <3>1
    <3>3. 1 \in 1..Len(chain) /\ chain[1].ledger <= chain[b].ledger
      BY <1>2, <3>2 DEF ChainInv
    <3>4. chain[b].ledger < now
      BY <3>2 DEF Published
    <3>5. 1 \in P
      BY <1>2, <1>4, <2>1, <3>2, <3>3, <3>4 DEF Published
    <3> QED
      BY <1>5, <3>5
  <2>2. CASE c # 0
    <3>1. c \in P
      BY <1>2, <1>3, <1>4, <2>2 DEF Published
    <3> QED
      BY <1>2, <1>5, <3>1
  <2> QED
    BY <2>1, <2>2
<1> HIDE DEF P
<1> DEFINE size == smaller(EVENTS_PAGE_SIZE, b - a + 1)
           last == a + size - 1
<1>7. size \in Nat /\ size <= b - a + 1
  BY <1>5, PageAssumption DEF smaller
<1>8. first_page = run(a, last) /\ Range(first_page) = a..last
  <2>1. Len(run(a, b)) = b - a + 1
    BY <1>5, RunFacts
  <2>2. first_page = SubSeq(run(a, b), 1, size)
    BY <1>5, <2>1, Zenon DEF first_page
  <2> HIDE DEF size
  <2>3. first_page = run(a, last)
    BY <1>5, <1>7, <2>2, RunsAreCut
  <2>4. a \in Int /\ last \in Int /\ a <= last + 1
    BY <1>5, <1>7
  <2> HIDE DEF last
  <2>5. Range(run(a, last)) = a..last
    BY <2>4, RunFacts
  <2> QED
    BY <2>3, <2>5
<1> DEFINE E == {n \in Range(first_page) : after_cursor(n)}
<1>9. last \in Nat /\ last <= b /\ (a > b => last = a - 1)
  BY <1>5, <1>7
<1> HIDE DEF size, last
<1>10. a <= c + 1
  <2>1. SUFFICES ASSUME ~(a <= c + 1) PROVE FALSE
    OBVIOUS
  <2>2. a > b
    BY <1>6, <2>1
  <2>3. E = 1..0
    BY <1>5, <1>8, <1>9, <2>2
  <2>4. in_order(1..0) = run(1, 0)
    <3>1. 1 \in 1..(Len(chain) + 1) /\ 0 \in 0..Len(chain) /\ 1 <= 0 + 1
      BY <1>2
    <3> QED
      BY <1>2, <3>1, RunsInOrder
  <2>5. run(1, 0) = <<>>
    BY RunFacts
  <2>6. batch' = in_order(E) /\ batch' # <<>>
    BY Zenon DEF poll
  <2> HIDE DEF E
  <2> QED
    BY <2>3, <2>4, <2>5, <2>6
<1>11. last > 0 => chain[last].ledger < now
  <2>1. SUFFICES ASSUME last > 0 PROVE chain[last].ledger < now
    OBVIOUS
  <2>2. CASE last >= a
    <3>1. last \in P
      BY <1>5, <1>9, <2>2
    <3> QED
      BY <3>1 DEF P, Published
  <2>3. CASE last < a
    <3>1. last \in 1..Len(chain) /\ c \in 1..Len(chain) /\ last <= c
      BY <1>2, <1>5, <1>9, <1>10, <2>1, <2>3
    <3>2. chain[last].ledger <= chain[c].ledger /\ chain[c].ledger < now
      BY <1>2, <1>3, <3>1 DEF ChainInv
    <3> QED
      BY <1>2, <3>1, <3>2
  <2> QED
    BY <1>5, <1>9, <2>2, <2>3
<1>12. E = {n \in 1..last : n > c}
  <2>1. \A n \in a..last : n \in 1..Len(chain)
    BY <1>5, <1>9
  <2>2. \A n \in a..last : after_cursor(n) <=> n > c
    BY <1>2, <1>3, <2>1, ConsumedIsBehind
  <2>3. E = {n \in a..last : n > c}
    BY <1>8, <2>2
  <2>4. \A n \in 1..last : n > c => n \in a..last
    BY <1>2, <1>5, <1>9, <1>10
  <2>5. a..last \subseteq 1..last
    BY <1>5, <1>9
  <2> HIDE DEF E
  <2> QED
    BY <2>3, <2>4, <2>5
<1>13. batch' = in_order(E) /\ batch' # <<>> /\ UNCHANGED <<vars, record_vars, tables>>
  BY Zenon DEF poll
<1>14. last <= Len(chain)
  BY <1>2, <1>5, <1>9
<1> HIDE DEF E
<1> QED
  BY <1>1, <1>9, <1>11, <1>12, <1>13, <1>14, BatchIsNext

LEMMA ReplayStep ==
    ASSUME TypeOK, ChainInv, NEW c, NEW m, Progress(c, m),
           NEW length \in DOMAIN chain, replay(length)
    PROVE  \E k \in Nat : Progress(c, k)'
<1>1. c \in Nat /\ m = 0 /\ Progress(c, 0)
  BY RestIsNone DEF replay
<1>2. /\ Len(chain) \in Nat /\ DOMAIN chain = 1..Len(chain)
      /\ length \in 1..Len(chain) /\ chain[length].ledger < now
  BY ListFacts DEF ChainInv, replay, Published
<1>3. c \in 0..Len(chain) /\ cursor = mark(c)
  BY <1>1 DEF Progress
<1> DEFINE E == {n \in 1..length : after_cursor(n)}
<1>4. E = {n \in 1..length : n > c}
  <2>1. \A n \in 1..length : n \in 1..Len(chain)
    BY <1>2
  <2>2. \A n \in 1..length : after_cursor(n) <=> n > c
    BY <1>3, <2>1, ConsumedIsBehind
  <2> QED
    BY <2>2
<1>5. batch' = in_order(E) /\ batch' # <<>> /\ UNCHANGED <<vars, record_vars, tables>>
  BY Zenon DEF replay
<1>6. length \in Nat /\ length <= Len(chain) /\ (length > 0 => chain[length].ledger < now)
  BY <1>2
<1> HIDE DEF E
<1> QED
  BY <1>1, <1>4, <1>5, <1>6, BatchIsNext

(* The transaction of one event logs the next one and moves the cursor on. *)
LEMMA IngestStep ==
    ASSUME TypeOK, ChainInv, NEW c, NEW m, Progress(c, m), ingest_event
    PROVE  /\ Progress(c + 1, m - 1)'
           /\ c + 1 \in 1..Len(chain) /\ m - 1 \in Nat
           /\ cursor' = position(c + 1)
           /\ raw \subseteq raw'
<1>1. c \in Nat /\ m \in Nat /\ m # 0
  BY RestIsNone DEF ingest_event
<1>2. /\ Len(chain) \in Nat /\ c + m <= Len(chain)
      /\ chain[c + m].ledger < now
      /\ raw = {position(n) : n \in 1..c}
      /\ messages = {position(n) :
                        n \in {k \in 1..c : chain[k].topic = "Message:Posted"}}
      /\ batch = run(c + 1, c + m)
  BY <1>1, ListFacts DEF ChainInv, Progress
<1>3. Head(batch) = c + 1 /\ Tail(batch) = run(c + 2, c + m)
  <2>1. c + 1 \in Int /\ c + m \in Int /\ c + 1 <= (c + m) + 1 /\ c + m >= c + 1
    BY <1>1
  <2>2. (c + 1) + 1 = c + 2
    BY <1>1
  <2>3. Head(run(c + 1, c + m)) = c + 1 /\ Tail(run(c + 1, c + m)) = run((c + 1) + 1, c + m)
    BY <2>1, RunFacts, Zenon
  <2> QED
    BY <1>2, <2>2, <2>3
<1>4. /\ raw' = raw \cup {position(c + 1)}
      /\ cursor' = position(c + 1)
      /\ batch' = run(c + 2, c + m)
      /\ messages' = IF chain[c + 1].topic = "Message:Posted"
                     THEN messages \cup {position(c + 1)} ELSE messages
      /\ chain' = chain /\ now' = now
  <2>1. /\ raw' = raw \cup {position(Head(batch))}
        /\ cursor' = position(Head(batch))
        /\ batch' = Tail(batch)
        /\ messages' = IF chain[Head(batch)].topic = "Message:Posted"
                       THEN messages \cup {position(Head(batch))} ELSE messages
    BY Zenon DEF ingest_event, processEvent, writeCursor
  <2>2. chain' = chain /\ now' = now
    BY DEF ingest_event, vars, record_vars
  <2> QED
    BY <1>3, <2>1, <2>2
<1>5. \A n : position(n)' = position(n)
  BY <1>4 DEF position
<1>6. raw' = {position(n) : n \in 1..(c + 1)}
  <2>1. 1..(c + 1) = (1..c) \cup {c + 1}
    BY <1>1
  <2> QED
    BY <1>2, <1>4, <2>1
<1>7. messages' = {position(n) :
                     n \in {k \in 1..(c + 1) : chain[k].topic = "Message:Posted"}}
  <2> DEFINE M(b) == {k \in 1..b : chain[k].topic = "Message:Posted"}
  <2>1. M(c + 1) = IF chain[c + 1].topic = "Message:Posted" THEN M(c) \cup {c + 1} ELSE M(c)
    BY <1>1
  <2> HIDE DEF M
  <2>2. messages = {position(n) : n \in M(c)}
    BY <1>2 DEF M
  <2>3. messages' = {position(n) : n \in M(c + 1)}
    BY <1>4, <2>1, <2>2
  <2> QED
    BY <2>3 DEF M
<1>8. (c + 1) + (m - 1) = c + m /\ (c + 1) + 1 = c + 2 /\ c + 1 # 0
      /\ c + 1 \in 1..Len(chain) /\ c + 1 \in 0..Len(chain) /\ m - 1 \in Nat
  BY <1>1, <1>2
<1>9. mark(c + 1)' = cursor'
  BY <1>4, <1>5, <1>8 DEF mark
<1>10. run((c + 1) + 1, (c + 1) + (m - 1))' = batch'
  BY <1>4, <1>8 DEF run
<1>11. Progress(c + 1, m - 1)'
  <2>1. /\ c + 1 \in 0..Len(chain') /\ m - 1 \in Nat
        /\ (c + 1) + (m - 1) <= Len(chain')
        /\ (c + 1) + (m - 1) > 0 => chain'[(c + 1) + (m - 1)].ledger < now'
    BY <1>2, <1>4, <1>8
  <2>2. raw' = {position(n)' : n \in 1..(c + 1)}
    BY <1>5, <1>6
  <2>3. messages' = {position(n)' :
                       n \in {k \in 1..(c + 1) : chain'[k].topic = "Message:Posted"}}
    BY <1>4, <1>5, <1>7
  <2> QED
    BY <1>9, <1>10, <2>1, <2>2, <2>3 DEF Progress
<1> QED
  BY <1>4, <1>8, <1>11

LEMMA GiveUpStep ==
    ASSUME TypeOK, ChainInv, NEW c, NEW m, Progress(c, m), give_up
    PROVE  Progress(c, 0)'
<1>1. c \in Nat /\ m \in Nat
  BY RestIsNone
<1>2. Len(chain) \in Nat /\ now \in Nat /\ c + m <= Len(chain)
      /\ \A n \in 1..Len(chain) : chain[n].ledger \in Nat
  BY ListFacts DEF ChainInv, TypeOK, Time, Progress
<1>3. /\ chain' = chain /\ now' = now /\ cursor' = cursor /\ raw' = raw
      /\ messages' = messages /\ batch' = <<>>
  BY DEF give_up, vars, record_vars, tables
<1>4. mark(c)' = mark(c) /\ \A n : position(n)' = position(n)
  BY <1>3 DEF mark, Origin, position
<1>5. run(c + 1, c + 0) = <<>>
  <2>1. c + 1 \in Int /\ c + 0 \in Int /\ c + 1 <= (c + 0) + 1 /\ c + 0 < c + 1
    BY <1>1
  <2> QED
    BY <2>1, RunFacts
<1>6. c + 0 > 0 => chain[c + 0].ledger < now
  <2>1. SUFFICES ASSUME c > 0 PROVE chain[c].ledger < now
    BY <1>1
  <2>2. c \in 1..Len(chain) /\ c + m \in 1..Len(chain) /\ c <= c + m /\ c + m > 0
    BY <1>1, <1>2, <2>1
  <2>3. chain[c].ledger <= chain[c + m].ledger
    BY <2>2 DEF ChainInv
  <2>4. chain[c + m].ledger < now
    BY <2>2 DEF Progress
  <2> QED
    BY <1>2, <2>2, <2>3, <2>4
<1>7. run(c + 1, c + 0)' = <<>>
  BY <1>5 DEF run
<1>8. c \in 0..Len(chain') /\ 0 \in Nat /\ c + 0 <= Len(chain')
      /\ (c + 0 > 0 => chain'[c + 0].ledger < now')
  BY <1>1, <1>2, <1>3, <1>6
<1> QED
  BY <1>3, <1>4, <1>7, <1>8 DEF Progress

LEMMA LogStep ==
    ASSUME TypeOK, IndexInv, [IndexerNext]_all_vars
    PROVE  IndexInv'
<1>1. ChainInv /\ ChainInv'
  BY ChainStep DEF IndexInv
<1>2. PICK c \in Nat, m \in Nat : Progress(c, m)
  BY DEF IndexInv, LogInv
<1>3. \E d, k \in Nat : Progress(d, k)'
  <2>1. CASE UNCHANGED indexer_vars
    BY <1>1, <1>2, <2>1, IndexerSteps, ProgressStays DEF ChainInv
  <2>2. CASE poll
    BY <1>1, <1>2, <2>2, PollStep
  <2>3. ASSUME NEW length \in DOMAIN chain, replay(length)
        PROVE  \E d, k \in Nat : Progress(d, k)'
    BY <1>1, <1>2, <2>3, ReplayStep
  <2>4. CASE ingest_event
    <3>1. Progress(c + 1, m - 1)' /\ c + 1 \in Nat /\ m - 1 \in Nat
      BY <1>1, <1>2, <2>4, IngestStep
    <3> QED
      BY <3>1
  <2>5. CASE give_up
    <3>1. Progress(c, 0)' /\ 0 \in Nat
      BY <1>1, <1>2, <2>5, GiveUpStep
    <3> QED
      BY <3>1
  <2>6. UNCHANGED all_vars => UNCHANGED indexer_vars
    BY DEF all_vars
  <2> QED
    BY <2>1, <2>2, <2>3, <2>4, <2>5, <2>6, Zenon DEF IndexerNext
<1> QED
  BY <1>1, <1>3 DEF IndexInv, LogInv

(* The indexer changes nothing of the contract: what is proved of every    *)
(* behaviour of the contract is so beside the indexer too.                 *)
THEOREM IndexerOnlyFollows == IndexerSpec => Spec /\ []IndexInv
<1>1. IndexerInit => Init /\ TypeOK /\ IndexInv
  <2>1. SUFFICES ASSUME IndexerInit PROVE Init /\ TypeOK /\ IndexInv
    OBVIOUS
  <2>2. Init /\ TypeOK
    BY <2>1, InitTyped DEF IndexerInit, RecordsInit
  <2>3. chain = <<>> /\ now = 1
    BY <2>1, <2>2 DEF IndexerInit, RecordsInit, Init
  <2>4. Len(chain) = 0 /\ 1..0 = {}
    BY <2>3
  <2>5. ChainInv
    BY <2>3, <2>4, NoItems DEF ChainInv
  <2>6. run(1, 0) = <<>>
    BY RunFacts
  <2>7. Progress(0, 0)
    <3>1. {k \in 1..0 : chain[k].topic = "Message:Posted"} = {}
      BY <2>4
    <3>2. /\ {position(n) : n \in 1..0} = {}
          /\ {position(n) : n \in {k \in 1..0 : chain[k].topic = "Message:Posted"}} = {}
      BY <2>4, <3>1
    <3>3. /\ cursor = Origin /\ raw = {} /\ messages = {} /\ batch = <<>>
      BY <2>1 DEF IndexerInit
    <3>4. mark(0) = Origin
      BY DEF mark
    <3>5. 0 + 1 = 1 /\ 0 + 0 = 0
      OBVIOUS
    <3> QED
      BY <2>4, <2>6, <3>2, <3>3, <3>4, <3>5 DEF Progress
  <2> QED
    BY <2>2, <2>5, <2>7 DEF IndexInv, LogInv
<1>2. TypeOK /\ IndexInv /\ [IndexerNext]_all_vars => [Next]_vars
  BY IndexerSteps DEF IndexInv, ChainInv
<1>3. TypeOK /\ [Next]_vars => TypeOK'
  BY TypeStep
<1>4. TypeOK /\ IndexInv /\ [IndexerNext]_all_vars => IndexInv'
  BY LogStep
<1> QED
  BY <1>1, <1>2, <1>3, <1>4, PTL DEF IndexerSpec, Spec

(* LogIsGapless: the raw log and the messages table hold what the cursor   *)
(* has passed, all of it and nothing else, wherever a page ended, a batch  *)
(* was lost or a replay began.                                             *)
THEOREM LogHasNoGap == IndexerSpec => []LogIsGapless
<1>1. TypeOK /\ IndexInv => LogIsGapless
  <2>1. SUFFICES ASSUME TypeOK, IndexInv PROVE LogIsGapless
    OBVIOUS
  <2>2. ChainInv
    BY <2>1 DEF IndexInv
  <2>3. PICK c \in Nat, m \in Nat : Progress(c, m)
    BY <2>1 DEF IndexInv, LogInv
  <2>4. /\ Len(chain) \in Nat /\ DOMAIN chain = 1..Len(chain)
        /\ c \in 0..Len(chain) /\ c + m <= Len(chain) /\ now \in Nat
        /\ \A n \in 1..Len(chain) : chain[n].ledger \in Nat
    BY <2>1, <2>2, <2>3, ListFacts DEF ChainInv, Progress, TypeOK, Time
  <2>5. \A n \in 1..c : chain[n].ledger < now
    <3>1. SUFFICES ASSUME NEW n \in 1..c PROVE chain[n].ledger < now
      OBVIOUS
    <3>2. n \in 1..Len(chain) /\ c + m \in 1..Len(chain) /\ n <= c + m /\ c + m > 0
      BY <2>4
    <3>3. chain[n].ledger <= chain[c + m].ledger /\ chain[c + m].ledger < now
      BY <2>2, <2>3, <3>2 DEF ChainInv, Progress
    <3> QED
      BY <2>4, <3>2, <3>3
  <2>6. \A n \in 1..Len(chain) : consumed(n) <=> n <= c
    <3>1. cursor = mark(c)
      BY <2>3 DEF Progress
    <3> QED
      BY <2>1, <2>2, <2>4, <3>1, ConsumedIsBehind
  <2>7. {k \in Published : consumed(k)} = 1..c
    BY <2>4, <2>5, <2>6 DEF Published
  <2>8. {k \in Published : consumed(k) /\ chain[k].topic = "Message:Posted"}
           = {k \in 1..c : chain[k].topic = "Message:Posted"}
    BY <2>7
  <2> QED
    BY <2>3, <2>7, <2>8, Zenon DEF LogIsGapless, Progress
<1> QED
  BY <1>1, IndexerOnlyFollows, TypeCorrect, PTL

(* CursorOnlyAdvances: no restart and no replay sets the cursor back, and  *)
(* nothing is removed from the log.                                        *)
THEOREM CursorIsMonotone == IndexerSpec => CursorOnlyAdvances
<1>1. TypeOK /\ IndexInv /\ [IndexerNext]_all_vars
         => [/\ cursor' = cursor \/ cursorAfter(cursor', cursor)
             /\ raw \subseteq raw']_all_vars
  <2>1. SUFFICES ASSUME TypeOK, IndexInv, [IndexerNext]_all_vars
                 PROVE  /\ cursor' = cursor \/ cursorAfter(cursor', cursor)
                        /\ raw \subseteq raw'
    OBVIOUS
  <2>2. CASE ingest_event
    <3>1. ChainInv
      BY <2>1 DEF IndexInv
    <3>2. PICK c \in Nat, m \in Nat : Progress(c, m)
      BY <2>1 DEF IndexInv, LogInv
    <3>3. /\ cursor' = position(c + 1) /\ c + 1 \in 1..Len(chain)
          /\ raw \subseteq raw'
      BY <2>1, <2>2, <3>1, <3>2, IngestStep
    <3>4. cursor = mark(c) /\ c \in 0..Len(chain) /\ c + 1 > c
      BY <3>2 DEF Progress
    <3>5. cursorAfter(position(c + 1), mark(c))
      BY <2>1, <3>1, <3>3, <3>4, MarksAscend
    <3> QED
      BY <3>3, <3>4, <3>5
  <2>3. ~ingest_event => UNCHANGED tables
    BY <2>1 DEF IndexerNext, poll, replay, give_up, all_vars, indexer_vars
  <2>4. CASE UNCHANGED tables
    BY <2>4 DEF tables
  <2> QED
    BY <2>2, <2>3, <2>4
<1> QED
  BY <1>1, IndexerOnlyFollows, TypeCorrect, PTL DEF IndexerSpec, CursorOnlyAdvances
=============================================================================
