---------------------------- MODULE EscrowRecords ----------------------------
(***************************************************************************)
(* What the escrow operations leave on record beside the escrow itself:    *)
(* the ids an address sells and buys, in fixed-size pages (storage.rs);    *)
(* the thread of messages (post_message); and the events the rest of the   *)
(* world learns of an escrow from (events.rs).  Every operation of         *)
(* EscrowContract on an escrow, and the pause, is one transaction here     *)
(* with all three.                                                         *)
(*                                                                         *)
(* Indexes and threads come in two layouts.  The older one is a single     *)
(* vector; the first write after an upgrade moves it into the newer one,   *)
(* and every reader has to understand both.                                *)
(***************************************************************************)
EXTENDS EscrowContract, SequencesExt

CONSTANTS
    ESCROW_INDEX_PAGE_SIZE,
    MAX_MESSAGES_PER_ESCROW,
    InheritedSales,      \* VendorEscrowIndex vectors the upgrade found, by seller
    InheritedPurchases,  \* BuyerEscrowIndex vectors, by buyer
    InheritedThreads,    \* Messages vectors of escrows closed before it, by id
    OldParties,          \* buyer and payees of those escrows
    MaxPages,            \* bound: pages an index may need
    EVENT_SCHEMA_VERSION, \* of the first contract deployed
    Histories,           \* bound: sequences of event topics looked at
    MaxSchemaVersion     \* bound: the last one an upgrade brings

ASSUME PagingAssumption ==
    /\ ESCROW_INDEX_PAGE_SIZE \in Nat \ {0}
    /\ {MAX_MESSAGES_PER_ESCROW, MaxPages, EVENT_SCHEMA_VERSION,
        MaxSchemaVersion} \subseteq Nat
    /\ Histories \subseteq Seq(STRING)

(* The lists the upgrade found: ids older than any it hands out, sales as  *)
(* they were created, no purchase twice; and pages for all there may be.   *)
ASSUME InheritedAssumption ==
    \A a \in Address :
        LET sales == InheritedSales[a]
            purchases == InheritedPurchases[a]
            room == (MaxPages + 1) * ESCROW_INDEX_PAGE_SIZE
        IN  /\ sales \in Seq(Int) /\ purchases \in Seq(Int)
            /\ \A id \in Range(sales) \cup Range(purchases) : id <= 0
            /\ \A i, j \in DOMAIN sales : i < j => sales[i] <= sales[j]
            /\ IsInjective(purchases)
            /\ Len(sales) + 2 * MaxEscrows <= room
            /\ Len(purchases) + MaxEscrows <= room

(* A message is its sender.                                                *)
ASSUME ThreadsAssumption ==
    \A id \in DOMAIN InheritedThreads : InheritedThreads[id] \in Seq(Address)

VARIABLES
    vendor_index,     \* DataKey::VendorEscrow* by address
    buyer_index,      \* DataKey::BuyerEscrow* by address
    thread,           \* DataKey::Message* by escrow id, the old ids included
    chain,            \* the events published so far, oldest first
    schema_version    \* the schema of the deployed contract's events

book_vars == <<vendor_index, buyer_index, thread>>
record_vars == <<book_vars, chain, schema_version>>

OldIds == DOMAIN InheritedThreads
-----------------------------------------------------------------------------
(* The paged index.  An absent page or vector is the empty sequence.       *)

no_pages == [page \in 0..MaxPages |-> <<>>]

page_count(total) ==
    (total + ESCROW_INDEX_PAGE_SIZE - 1) \div ESCROW_INDEX_PAGE_SIZE

smaller(a, b) == IF a < b THEN a ELSE b

(* clear_pages and write_pages: the pages of the old count are dropped.    *)
write_index(ix, ids) ==
    LET slice(page) ==
            SubSeq(ids, page * ESCROW_INDEX_PAGE_SIZE + 1,
                   smaller((page + 1) * ESCROW_INDEX_PAGE_SIZE, Len(ids)))
    IN  [ix EXCEPT
            !.count = Len(ids),
            !.pages = [page \in 0..MaxPages |->
                CASE page < page_count(Len(ids)) -> slice(page)
                  [] /\ page >= page_count(Len(ids))
                     /\ page < page_count(ix.count) -> <<>>
                  [] OTHER -> ix.pages[page]]]

(* Mutant of migrate_legacy: the old vector is dropped, not moved.         *)
forget_legacy(ix) == [ix EXCEPT !.legacy = <<>>]

migrate_legacy(ix) ==
    IF ix.count # 0 \/ ix.legacy = <<>> THEN ix
    ELSE [write_index(ix, ix.legacy) EXCEPT !.legacy = <<>>]

append_index(ix, id) ==
    LET m == migrate_legacy(ix)
    IN  [m EXCEPT !.pages[m.count \div ESCROW_INDEX_PAGE_SIZE] = Append(@, id),
                  !.count = @ + 1]

read_index(ix) ==
    IF ix.count = 0 THEN ix.legacy
    ELSE FlattenSeq([n \in 1..page_count(ix.count) |-> ix.pages[n - 1]])

(* The window start..start+limit of an index, from the pages it overlaps.  *)
read_index_page(ix, start, limit) ==
    LET total == IF ix.count = 0 THEN Len(ix.legacy) ELSE ix.count
        end == smaller(start + limit, total)
        at(i) ==
            LET ids == IF ix.count = 0 THEN ix.legacy
                       ELSE ix.pages[i \div ESCROW_INDEX_PAGE_SIZE]
                k == IF ix.count = 0 THEN i + 1
                     ELSE (i % ESCROW_INDEX_PAGE_SIZE) + 1
            IN  IF k \in DOMAIN ids THEN <<ids[k]>> ELSE <<>>
    IN  FlattenSeq([n \in 1..(end - start) |-> at(start + n - 1)])

list_sale(seller, id) ==
    vendor_index' = [vendor_index EXCEPT ![seller] = append_index(@, id)]

(* create_basket_escrow rewrites the whole index with the new id and then  *)
(* appends the id once more.                                               *)
list_basket_sale(seller, id) ==
    vendor_index' = [vendor_index EXCEPT
        ![seller] = append_index(write_index(@, Append(read_index(@), id)), id)]

list_purchase(buyer, id) ==
    buyer_index' = [buyer_index EXCEPT ![buyer] = append_index(@, id)]
-----------------------------------------------------------------------------
(* The thread of an escrow.  A message is its sender here.                 *)

(* Mutant of migrate_thread: a thread is appended to where it is.          *)
keep_layout(t) == t

migrate_thread(t) ==
    IF t.count # 0 \/ t.legacy = <<>> THEN t
    ELSE [count |-> Len(t.legacy), slots |-> t.legacy, legacy |-> <<>>]

read_messages(t) ==
    IF t.count = 0 THEN t.legacy ELSE SubSeq(t.slots, 1, t.count)
-----------------------------------------------------------------------------
(* Events.  What the properties tell apart of a payload is the escrow, the *)
(* state it says the escrow is in, and the party it names.                 *)

event(topic, id) == [topic |-> topic, id |-> id, state |-> None, party |-> None]
event_to(topic, id, state) == [event(topic, id) EXCEPT !.state = state]
event_of(topic, id, party) == [event(topic, id) EXCEPT !.party = party]

(* The events of one transaction, all in the ledger that includes it.      *)
append_events(es) ==
    /\ chain' = chain \o [i \in DOMAIN es |->
                    [ledger |-> now, version |-> schema_version,
                     topic |-> es[i].topic, id |-> es[i].id,
                     state |-> es[i].state, party |-> es[i].party]]
    /\ \E h \in Histories : IsPrefix([i \in DOMAIN chain' |-> chain'[i].topic], h)

emit(es) == append_events(es) /\ UNCHANGED schema_version

expiry_cleared(id) == <<event("PendingExpiry:Cleared", id)>>

(* clear_delivery_proposal publishes only when it removes something.       *)
proposal_dropped(id) ==
    IF proposal[id] = None THEN <<>> ELSE <<event("Delivery:Cancelled", id)>>

publish(es) == emit(es) /\ UNCHANGED book_vars

(* An operation whose only event tells the state it left the escrow in.    *)
moved(topic, id, state) == publish(<<event_to(topic, id, state)>>)
-----------------------------------------------------------------------------
(* The trade.                                                              *)

record_creation(t) ==
    /\ \/ create_escrow(t)
       \/ create_escrow_with_expiration(t)
       \/ create_escrow_multi(t)
       \/ create_escrow_with_fallback(t)
    /\ list_sale(primary_payee(t), next_id)
    /\ emit(<<[event_to("Escrow:Created", next_id, "Pending")
                  EXCEPT !.party = t.resolvers.members[1]]>>)
    /\ UNCHANGED <<buyer_index, thread>>

(* The only creator that does not publish Escrow:Created.                  *)
record_basket_creation(t) ==
    /\ create_basket_escrow(t)
    /\ list_basket_sale(primary_payee(t), next_id)
    /\ emit(<<event("Basket:Created", next_id)>>)
    /\ UNCHANGED <<buyer_index, thread>>

record_funding(buyer, id) ==
    /\ fund_escrow(buyer, id) \/ fund_basket_escrow(buyer, id)
    /\ list_purchase(buyer, id)
    /\ emit(expiry_cleared(id)
            \o <<[event_to("Escrow:Funded", id, "Funded") EXCEPT !.party = buyer]>>)
    /\ UNCHANGED <<vendor_index, thread>>

record_cancellation(id) ==
    \/ \E caller \in Address :
          /\ cancel_escrow(caller, id)
          /\ publish(expiry_cleared(id)
                \o <<event_to("Escrow:Canceled", id, escrow'[id].state)>>)
    \/ /\ mutual_cancel(id)
       /\ publish(proposal_dropped(id)
                \o <<event_to("Escrow:Canceled", id, "Canceled")>>)

record_auto_cancellation(id) ==
    /\ auto_cancel_pending(id)
    /\ publish(expiry_cleared(id) \o <<event("Escrow:AutoCncl", id)>>)

record_shipping(caller, id) ==
    \/ mark_shipped(caller, id) /\ moved("Escrow:Shipped", id, "Shipped")
    \/ /\ record_delivery(caller, id)
       /\ publish(<<event("Escrow:Delivered", id)>>)

record_proposal(caller, id) ==
    \/ /\ propose_record_delivery(caller, id)
       /\ publish(<<event("Delivery:Proposed", id)>>)
    \/ /\ \/ cancel_delivery_proposal(caller, id)
          \/ reject_delivery_proposal(caller, id)
       /\ publish(<<event("Delivery:Cancelled", id)>>)

record_completion(id) ==
    /\ \/ \E caller \in Address, waive \in BOOLEAN :
             confirm_delivery(caller, id, waive)
       \/ co_signed_release(id)
    /\ publish(proposal_dropped(id)
             \o <<event_to("Escrow:Completed", id, "Completed")>>)

record_auto_release(id) ==
    /\ auto_release(id)
    /\ publish(proposal_dropped(id)
             \o <<event_to("Escrow:Released", id, "Completed")>>)

record_refund(caller, id) ==
    \/ /\ request_refund(caller, id)
       /\ moved("Refund:Requested", id, "RefundRequested")
    \/ approve_refund(caller, id) /\ moved("Refund:Approved", id, "Refunded")

record_reclaim(caller, id) ==
    /\ reclaim_expired(caller, id)
    /\ publish(expiry_cleared(id) \o proposal_dropped(id)
             \o <<event_to("Escrow:Expired", id, "Expired")>>)

record_rotation(caller, id, new_resolver) ==
    /\ rotate_resolver(caller, id, new_resolver)
    /\ publish(<<event_of("Resolver:Rotated", id, new_resolver)>>)
-----------------------------------------------------------------------------
(* Disputes and rescue.                                                    *)

record_dispute(caller, id) ==
    /\ raise_dispute(caller, id)
    /\ publish(proposal_dropped(id)
            \o <<event_to("Dispute:Raised", id, "Disputed")>>)

decision_pending(id) ==
    IF escrow'[id].state = "PendingFinalization"
    THEN <<event("Dispute:Pending", id)>> ELSE <<>>

record_vote(caller, id, r) ==
    /\ resolve_or_vote(caller, id, r)
    /\ publish(<<event_of("resolver_vote_recorded", id, caller)>>
            \o decision_pending(id))

record_forced_decision(id) ==
    /\ \/ resolve_deadlocked_dispute(id)
       \/ \E caller \in Address : claim_dispute_timeout(caller, id)
    /\ publish(decision_pending(id))

record_finalization(id) ==
    /\ finalize_dispute(id)
    /\ moved("Dispute:Resolved", id, escrow'[id].state)

record_appeal(caller, id) ==
    appeal_dispute(caller, id) /\ publish(<<event("Dispute:Appealed", id)>>)

record_override(caller, id) ==
    /\ cancel_pending_finalization(caller, id)
    /\ moved("Escrow:Canceled", id, "Refunded")

record_drain(id) ==
    /\ emergency_drain(id)
    /\ publish(proposal_dropped(id) \o <<event("Emergency:Drain", id)>>)

record_recovery(caller, id) ==
    /\ recovery_withdraw(caller, id)
    /\ publish(proposal_dropped(id) \o <<event("Recovery:Withdraw", id)>>)
-----------------------------------------------------------------------------
(* Messages are kept for closed escrows too: only the parties, the switch  *)
(* and the cap are looked at.                                              *)
parties(id) ==
    IF id \in OldIds THEN OldParties
    ELSE payee_addresses(escrow[id]) \cup ({escrow[id].buyer} \ {None})

post_message(sender, id) ==
    LET t == migrate_thread(thread[id])
    IN  /\ ensure_action_not_paused("post_message")
        /\ sender \in parties(id)
        /\ t.count < MAX_MESSAGES_PER_ESCROW
        /\ thread' = [thread EXCEPT
              ![id] = [t EXCEPT !.slots = Append(@, sender), !.count = @ + 1]]
        /\ emit(<<event_of("Message:Posted", id, sender)>>)
        /\ UNCHANGED <<vars, vendor_index, buyer_index>>

(* execute_pause_contract and execute_unpause_contract, after the timelock:*)
(* they publish also when the switch is already where they set it.         *)
record_pause(flag) ==
    /\ set_paused(flag)
    /\ publish(<<event("Timelock:Executed", None),
                 event(IF flag THEN "Contract:Paused" ELSE "Contract:Unpaused", None)>>)

(* add_allowed_token and remove_allowed_token, and their executions after  *)
(* the timelock.  Adding a token that is on the list publishes nothing of  *)
(* its own.  Which tokens are allowed matters to no escrow modelled here.  *)
record_token_allowlist ==
    /\ \/ publish(<<event("Token:Allowlist", None)>>)
       \/ publish(<<event("Timelock:Executed", None), event("Token:Allowlist", None)>>)
       \/ publish(<<event("Timelock:Executed", None)>>)
    /\ UNCHANGED vars

(* upgrade: what the new code publishes has a schema of its own.           *)
record_upgrade ==
    /\ schema_version < MaxSchemaVersion
    /\ append_events(<<event("contract_upgraded", None)>>)
    /\ schema_version' = schema_version + 1
    /\ UNCHANGED <<vars, book_vars>>

record_tick == Tick /\ UNCHANGED record_vars
-----------------------------------------------------------------------------
RecordsInit ==
    /\ Init
    /\ vendor_index = [a \in Address |->
          [legacy |-> InheritedSales[a], pages |-> no_pages, count |-> 0]]
    /\ buyer_index = [a \in Address |->
          [legacy |-> InheritedPurchases[a], pages |-> no_pages, count |-> 0]]
    /\ thread = [id \in Ids \cup OldIds |->
          [legacy |-> IF id \in OldIds THEN InheritedThreads[id] ELSE <<>>,
           slots |-> <<>>, count |-> 0]]
    /\ chain = <<>>
    /\ schema_version = EVENT_SCHEMA_VERSION

Transaction ==
    \/ \E t \in Terms : record_creation(t) \/ record_basket_creation(t)
    \/ \E id \in Ids :
          \/ record_cancellation(id) \/ record_auto_cancellation(id)
          \/ record_completion(id) \/ record_auto_release(id)
          \/ record_forced_decision(id) \/ record_finalization(id)
          \/ record_drain(id)
          \/ \E caller \in Address :
                \/ record_funding(caller, id)
                \/ record_shipping(caller, id) \/ record_proposal(caller, id)
                \/ record_refund(caller, id) \/ record_reclaim(caller, id)
                \/ record_appeal(caller, id) \/ record_override(caller, id)
                \/ record_recovery(caller, id)
                \/ \E new_resolver \in Address :
                      record_rotation(caller, id, new_resolver)
                \/ record_dispute(caller, id)
                \/ \E r \in Resolution : record_vote(caller, id, r)
    \/ \E id \in Ids \cup OldIds, sender \in Address : post_message(sender, id)
    \/ \E flag \in BOOLEAN : record_pause(flag)
    \/ record_token_allowlist
    \/ record_upgrade

RecordsNext == record_tick \/ Transaction
-----------------------------------------------------------------------------
(* The index of an address lists every escrow it sells, or has funded,     *)
(* after those of before the upgrade, and no other: sales as they were     *)
(* created (a basket escrow twice), purchases once each.  A window of the  *)
(* paged reader is that window of the list, wherever the page borders and  *)
(* the move out of the old vector fall.                                    *)
IndexesAreComplete ==
    LET lists(ix, inherited, ids) ==
            LET all == read_index(ix)
            IN  /\ IsPrefix(inherited, all)
                /\ Range(all) = Range(inherited) \cup ids
                /\ \A start \in 0..Len(all), limit \in 0..Len(all) :
                      read_index_page(ix, start, limit)
                          = SubSeq(all, start + 1, smaller(start + limit, Len(all)))
        created == 1..(next_id - 1)
    IN  \A a \in Address :
            LET sales == read_index(vendor_index[a])
            IN  /\ lists(vendor_index[a], InheritedSales[a],
                         {id \in created : primary_payee(escrow[id]) = a})
                /\ lists(buyer_index[a], InheritedPurchases[a],
                         {id \in created : escrow[id].buyer = a
                                               /\ escrow[id].funded_at > 0})
                /\ \A i, j \in DOMAIN sales : i < j => sales[i] <= sales[j]
                /\ IsInjective(read_index(buyer_index[a]))

(* Messages are immutable: a thread reads as it did, with the one message  *)
(* more that an event announces, also through the move out of the old      *)
(* vector and at the cap.                                                  *)
ThreadsOnlyGrow ==
    [][\A id \in Ids \cup OldIds :
          LET posted == /\ chain' # chain
                        /\ Last(chain').topic = "Message:Posted"
                        /\ Last(chain').id = id
              before == read_messages(thread[id])
          IN  read_messages(thread'[id])
                  = IF posted THEN Append(before, Last(chain').party)
                    ELSE before]_<<vars, record_vars>>
=============================================================================
