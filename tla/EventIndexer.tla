---------------------------- MODULE EventIndexer ----------------------------
(***************************************************************************)
(* The indexer (src/indexer/) follows the contract's events into Postgres: *)
(* it polls a page of events from the ledger of its cursor on, drops those *)
(* the cursor has passed, and applies the others one by one, each in a     *)
(* transaction that also logs the event and moves the cursor.  It may be   *)
(* stopped between any two steps, a transaction may fail, and a recorded   *)
(* prefix of the log may be replayed.                                      *)
(*                                                                         *)
(* The position of an event is its ledger and its number within it: the    *)
(* transaction index and the event index of the code as one.  The RPC      *)
(* server shows the events of closed ledgers.                              *)
(***************************************************************************)
EXTENDS EscrowRecords

CONSTANTS
    SUPPORTED_SCHEMA_VERSION,
    EVENTS_PAGE_SIZE

ASSUME PageAssumption == EVENTS_PAGE_SIZE \in Nat \ {0}

VARIABLES
    cursor,      \* table indexer_cursor
    raw,         \* table events: the positions logged
    escrows,     \* table escrows: a row by id, or None
    disputes,    \* table disputes: a status by escrow id, or None
    messages,    \* table messages: the positions of Message:Posted
    paused_key,  \* contract_config 'paused': its value and updated_ledger
    batch        \* what the running ingestBatch has left, as chain indexes

(* A state as the column escrows.state holds it.  scValToNative decodes a  *)
(* payload's enum to an array, and the driver stores an array in its own   *)
(* notation, {"Funded"}; two handlers write String() of that array, two a  *)
(* literal, and these are the bare name.                                   *)
as_array(s) == [form |-> "array", name |-> s]
as_name(s) == [form |-> "name", name |-> s]
StoredState == [form : {"array", "name"}, name : EscrowStates]

(* A row of the table escrows, as far as the contract's events fill it.    *)
Row == [state : StoredState, buyer : OptionAddress, resolver : Address]

(* NULL is no row and no status.                                           *)
ASSUME RowAssumption == None \notin Row /\ None \notin {"Active", "Resolved"}

tables == <<cursor, raw, escrows, disputes, messages, paused_key>>
indexer_vars == <<tables, batch>>
all_vars == <<vars, record_vars, indexer_vars>>
-----------------------------------------------------------------------------
Origin == [ledger |-> 0, index |-> 0]

(* event_index is counted from the first event of the ledger, which every  *)
(* page that reaches the ledger starts from or contains.                   *)
position(n) ==
    [ledger |-> chain[n].ledger,
     index |-> Cardinality({k \in 1..(n - 1) : chain[k].ledger = chain[n].ledger})]

(* Mutant of cursorAfter: the ledgers alone are compared.                  *)
ledger_after(a, b) == a.ledger > b.ledger

cursorAfter(a, b) ==
    \/ a.ledger > b.ledger
    \/ a.ledger = b.ledger /\ a.index > b.index

(* The events of a set, in the order of the chain.                         *)
in_order(events) ==
    LET list[n \in 0..Len(chain)] ==
            IF n = 0 THEN <<>>
            ELSE IF n \in events THEN Append(list[n - 1], n) ELSE list[n - 1]
    IN  list[Len(chain)]

(* What the RPC server shows, in its order.                                *)
Published == {n \in DOMAIN chain : chain[n].ledger < now}
published_from(first) == in_order({n \in Published : chain[n].ledger >= first})

(* Mutant of after_cursor: the page is applied as it comes.                *)
whole_page(n) == TRUE

after_cursor(n) == cursorAfter(position(n), cursor)

(* Mutant of first_page: the ledger of the cursor is taken for done.       *)
first_page_after_ledger ==
    LET from == published_from(cursor.ledger + 1)
    IN  SubSeq(from, 1, smaller(EVENTS_PAGE_SIZE, Len(from)))

(* getEvents: at most a page, from the first event of the cursor's ledger. *)
first_page ==
    LET from == published_from(cursor.ledger)
    IN  SubSeq(from, 1, smaller(EVENTS_PAGE_SIZE, Len(from)))

(* One turn of runLive: readCursor and fetchEvents.                        *)
poll ==
    /\ batch = <<>>
    /\ batch' = in_order({n \in Range(first_page) : after_cursor(n)})
    /\ batch' # <<>>
    /\ UNCHANGED <<vars, record_vars, tables>>

(* replay of a log recorded up to some event: planReplay resumes after the *)
(* cursor and takes all the rest, without a page limit.                    *)
replay(length) ==
    /\ batch = <<>>
    /\ length \in Published
    /\ batch' = in_order({n \in 1..length : after_cursor(n)})
    /\ batch' # <<>>
    /\ UNCHANGED <<vars, record_vars, tables>>
-----------------------------------------------------------------------------
(* processEvent.                                                           *)

(* Events that write a state of their own into the row, or a fixed one.    *)
StateTopics ==
    {"Escrow:Funded", "Escrow:Shipped", "Escrow:Completed", "Escrow:Canceled",
     "Escrow:Released", "Dispute:Raised", "Dispute:Resolved",
     "Refund:Requested", "Refund:Approved"}

(* new_state of the payload, by the two handlers of a refund and by the    *)
(* others.                                                                 *)
told_state(e) ==
    IF e.topic \in {"Refund:Requested", "Refund:Approved"}
    THEN as_name(e.state) ELSE as_array(e.state)

(* Mutant of updated: every state is read from the payload, also of the    *)
(* two events that carry none.                                             *)
updated_if_stated(row, e) ==
    CASE row = None -> None
      [] row # None /\ e.topic = "Escrow:Funded" ->
            [row EXCEPT !.state = told_state(e), !.buyer = e.party]
      [] row # None /\ e.topic = "Resolver:Rotated" -> [row EXCEPT !.resolver = e.party]
      [] row # None /\ e.topic \in {"Dispute:Pending", "Dispute:Appealed"}
                                   \cup (StateTopics \ {"Escrow:Funded"}) ->
            [row EXCEPT !.state = told_state(e)]
      [] OTHER -> row

(* The UPDATE statements: a row that is not there is not made.             *)
updated(row, e) ==
    IF row = None THEN None
    ELSE LET moved_row ==
                 CASE e.topic \in StateTopics -> [row EXCEPT !.state = told_state(e)]
                   [] e.topic = "Dispute:Pending" ->
                        [row EXCEPT !.state = as_name("PendingFinalization")]
                   [] e.topic = "Dispute:Appealed" ->
                        [row EXCEPT !.state = as_name("Disputed")]
                   [] OTHER -> row
         IN  CASE e.topic = "Escrow:Funded" -> [moved_row EXCEPT !.buyer = e.party]
               [] e.topic = "Resolver:Rotated" ->
                    [moved_row EXCEPT !.resolver = e.party]
               [] OTHER -> moved_row

applied_row(row, e) ==
    IF e.topic = "Escrow:Created"
    THEN IF row = None
         THEN [state |-> told_state(e), buyer |-> None, resolver |-> e.party]
         ELSE row
    ELSE updated(row, e)

applied_dispute(status, e) ==
    CASE e.topic = "Dispute:Raised" -> "Active"
      [] e.topic = "Dispute:Resolved" /\ status # None -> "Resolved"
      [] OTHER -> status

(* setConfig with its updated_ledger guard.                                *)
applied_pause(key, e) ==
    IF e.topic \in {"Contract:Paused", "Contract:Unpaused"} /\ key.ledger <= e.ledger
    THEN [paused |-> e.topic = "Contract:Paused", ledger |-> e.ledger]
    ELSE key

(* A payload of a later schema is refused, and one of Token:Allowlist for  *)
(* the token it does not carry, which is the key of token_allowlist.       *)
never_applied(e) ==
    \/ e.version > SUPPORTED_SCHEMA_VERSION
    \/ e.topic = "Token:Allowlist"

(* So is a dispute whose escrow has no row, by the foreign key of disputes. *)
throws(e) ==
    \/ never_applied(e)
    \/ e.topic = "Dispute:Raised" /\ escrows[e.id] = None

processEvent(n) ==
    LET e == chain[n]
    IN  /\ ~throws(e)
        /\ escrows' = [id \in Ids |->
              IF id = e.id THEN applied_row(escrows[id], e) ELSE escrows[id]]
        /\ disputes' = [id \in Ids |->
              IF id = e.id THEN applied_dispute(disputes[id], e) ELSE disputes[id]]
        /\ messages' = IF e.topic = "Message:Posted"
                       THEN messages \cup {position(n)} ELSE messages
        /\ paused_key' = applied_pause(paused_key, e)

(* An upsert: it does not look at the cursor it replaces.                  *)
writeCursor(n) == cursor' = position(n)

(* The transaction of one event.                                           *)
ingest_event ==
    /\ batch # <<>>
    /\ processEvent(Head(batch))
    /\ raw' = raw \cup {position(Head(batch))}
    /\ writeCursor(Head(batch))
    /\ batch' = Tail(batch)
    /\ UNCHANGED <<vars, record_vars>>

(* The transaction rolled back, the process was stopped or restarted: the  *)
(* rest of the batch is gone and the next poll begins at the cursor.       *)
give_up ==
    /\ batch # <<>>
    /\ batch' = <<>>
    /\ UNCHANGED <<vars, record_vars, tables>>
-----------------------------------------------------------------------------
IndexerInit ==
    /\ RecordsInit
    /\ cursor = Origin
    /\ raw = {}
    /\ escrows = [id \in Ids |-> None]
    /\ disputes = [id \in Ids |-> None]
    /\ messages = {}
    /\ paused_key = [paused |-> FALSE, ledger |-> 0]
    /\ batch = <<>>

IndexerNext ==
    \/ RecordsNext /\ UNCHANGED indexer_vars
    \/ poll
    \/ \E length \in DOMAIN chain : replay(length)
    \/ ingest_event
    \/ give_up

(* runLive polls every POLL_INTERVAL_MS for ever, and an event is applied  *)
(* in the end if it is tried again and again: outages end.                 *)
IndexerSpec ==
    /\ IndexerInit /\ [][IndexerNext]_all_vars
    /\ WF_all_vars(poll)
    /\ SF_all_vars(ingest_event)
-----------------------------------------------------------------------------
consumed(n) ==
    \/ chain[n].ledger < cursor.ledger
    \/ chain[n].ledger = cursor.ledger /\ position(n).index <= cursor.index

(* The raw log holds the published events up to the cursor, all of them    *)
(* and no other, and the messages table those of them that are messages,   *)
(* wherever a page ended, a batch was lost or a replay was started.        *)
LogIsGapless ==
    /\ raw = {position(n) : n \in {k \in Published : consumed(k)}}
    /\ messages = {position(n) : n \in
          {k \in Published : consumed(k) /\ chain[k].topic = "Message:Posted"}}

(* Topics with which an escrow is closed and that processEvent has no      *)
(* handler for.                                                            *)
UnhandledExits == {"Escrow:Expired", "Escrow:AutoCncl", "Emergency:Drain",
                   "Recovery:Withdraw"}

(* When every event is consumed a row names the state, the buyer and the   *)
(* resolver of its escrow and the dispute its status, however the events   *)
(* were cut into pages; all but the state of an escrow closed by one of    *)
(* the UnhandledExits, and the dispute that an exit other than             *)
(* finalize_dispute closed.  The name of the state is the claim: whether   *)
(* it is stored as an array depends on the handler that wrote it.  Basket  *)
(* escrows, of one token or of more, have no row.                          *)
RowsMirrorEscrows ==
    (\A n \in DOMAIN chain : consumed(n)) =>
        /\ paused_key.paused = config.paused
        /\ \A id \in Ids :
            LET e == escrow[id]
                row == escrows[id]
                exits == {n \in DOMAIN chain :
                             chain[n].id = id /\ chain[n].topic \in UnhandledExits}
            IN  IF e.state = "Absent" \/ e.basket_tokens > 0 THEN row = None
                ELSE /\ row.state.name = e.state \/ exits # {}
                     /\ e.funded_at > 0 => row.buyer = e.buyer
                     /\ row.resolver = e.resolvers.members[1]
                     /\ \/ dispute[id].status = "Absent" /\ disputes[id] = None
                        \/ disputes[id] = dispute[id].status
                        \/ e.state = "Refunded" /\ disputes[id] = "Active"

(* The cursor only advances, also over a restart or a replay, and no       *)
(* logged event is lost.                                                   *)
CursorOnlyAdvances ==
    [][/\ cursor' = cursor \/ cursorAfter(cursor', cursor)
       /\ raw \subseteq raw']_all_vars

(* Nothing stands between the indexer and an event: no event before it is  *)
(* refused for ever, and no ledger from the first to its own fills a page. *)
reachable(n) ==
    /\ n \in Published
    /\ \A k \in 1..n :
          /\ ~never_applied(chain[k])
          /\ chain[k].topic = "Dispute:Raised" => escrow[chain[k].id].basket_tokens = 0
          /\ Cardinality({j \in Published : chain[j].ledger = chain[k].ledger})
                < EVENTS_PAGE_SIZE

(* Time and again every event that can be reached is consumed: nothing is  *)
(* skipped or waits for ever, whatever is lost on the way.                 *)
EventsAreIndexed ==
    []<>(\A n \in DOMAIN chain : reachable(n) => consumed(n))

(* What the indexer's documents promise without any condition: no event is *)
(* skipped, every event becomes queryable.  This commit's contract         *)
(* publishes schema version 4 and its indexer refuses all above 1.         *)
EveryEventIsIndexed ==
    []<>(\A n \in Published : consumed(n))
=============================================================================
