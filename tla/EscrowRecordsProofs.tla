------------------------- MODULE EscrowRecordsProofs -------------------------
(***************************************************************************)
(* The records of the contract over an upgrade that changes their layout,  *)
(* for every value of the constants: messages stay as they are             *)
(* (ThreadsOnlyGrow), and the index of an address lists what it sells and  *)
(* has funded, page by page (IndexesAreComplete).  And the records beside  *)
(* it: the indexer's rows mirror the escrows (RowsMirrorEscrows).          *)
(***************************************************************************)
EXTENDS EventIndexerProofs

-----------------------------------------------------------------------------
(* The threads of messages.                                                *)

Thread == [legacy : Seq(Address), slots : Seq(Address), count : Nat]

(* A thread is in one layout at a time: the old vector is empty once the   *)
(* new one counts a message, and the count is that of the slots written.   *)
InOneLayout(t) ==
    /\ t.count = Len(t.slots)
    /\ t.count # 0 => t.legacy = <<>>

ThreadsInv ==
    /\ thread \in [Ids \cup OldIds -> Thread]
    /\ \A id \in Ids \cup OldIds : InOneLayout(thread[id])

LEMMA Reads ==
    ASSUME NEW t \in Thread, InOneLayout(t)
    PROVE  read_messages(t) = IF t.slots = <<>> THEN t.legacy ELSE t.slots
<1>1. t.slots \in Seq(Address) /\ t.count = Len(t.slots)
  BY DEF Thread, InOneLayout
<1> DEFINE s == t.slots
           n == t.count
<1>2. s \in Seq(Address) /\ n = Len(s)
  BY <1>1
<1>3. read_messages(t) = IF n = 0 THEN t.legacy ELSE SubSeq(s, 1, n)
  BY DEF read_messages
<1> HIDE DEF s, n
<1>4. SubSeq(s, 1, n) = s /\ (n = 0 <=> s = <<>>)
  BY <1>2
<1> QED
  BY <1>3, <1>4 DEF s

(* The move to the new layout reads the same.                              *)
LEMMA MigrationReads ==
    ASSUME NEW t \in Thread, InOneLayout(t)
    PROVE  /\ migrate_thread(t) \in Thread
           /\ InOneLayout(migrate_thread(t))
           /\ migrate_thread(t).slots = read_messages(t)
           /\ migrate_thread(t).legacy = <<>>
<1>1. /\ t.slots \in Seq(Address) /\ t.legacy \in Seq(Address)
      /\ t.count \in Nat /\ t.count = Len(t.slots)
      /\ t.count # 0 => t.legacy = <<>>
  BY DEF Thread, InOneLayout
<1>2. t.count # 0 <=> t.slots # <<>>
  BY <1>1
<1>3. CASE t.count # 0 \/ t.legacy = <<>>
  <2>1. migrate_thread(t) = t
    BY <1>3 DEF migrate_thread
  <2>2. read_messages(t) = IF t.slots = <<>> THEN t.legacy ELSE t.slots
    BY Reads
  <2> QED
    BY <1>1, <1>2, <1>3, <2>1, <2>2
<1>4. CASE ~(t.count # 0 \/ t.legacy = <<>>)
  <2> DEFINE m == [count |-> Len(t.legacy), slots |-> t.legacy, legacy |-> <<>>]
  <2>1. migrate_thread(t) = m
    BY <1>4 DEF migrate_thread
  <2>2. read_messages(t) = t.legacy
    BY <1>4 DEF read_messages
  <2>3. m.count = Len(t.legacy) /\ m.slots = t.legacy /\ m.legacy = <<>>
    OBVIOUS
  <2>4. m \in Thread
    <3>1. <<>> \in Seq(Address) /\ Len(t.legacy) \in Nat
      BY <1>1
    <3> QED
      BY <1>1, <3>1 DEF Thread
  <2> HIDE DEF m
  <2> QED
    BY <2>1, <2>2, <2>3, <2>4 DEF InOneLayout
<1> QED
  BY <1>3, <1>4

(* A transaction without a message is not taken for one with a message.    *)
LEMMA QuietGrowth ==
    ASSUME IsList(chain), NEW es, Quiet(es), append_events(es)
    PROVE  chain' = chain \/ Last(chain').topic # "Message:Posted"
<1>1. /\ Len(es) \in Nat /\ DOMAIN es = 1..Len(es) /\ Len(chain) \in Nat
      /\ IsList(es) /\ \A i \in 1..Len(es) : es[i].topic # "Message:Posted"
  BY ListFacts DEF Quiet
<1>2. /\ IsList(chain') /\ Len(chain') = Len(chain) + Len(es)
      /\ \A n \in 1..Len(chain) : chain'[n] = chain[n]
      /\ \A i \in 1..Len(es) : chain'[Len(chain) + i].topic = es[i].topic
  BY <1>1, EventsJoin
<1>3. CASE Len(es) = 0
  <2>1. PICK V : chain \in Seq(V)
    BY DEF IsList
  <2>2. PICK W : chain' \in Seq(W)
    BY <1>2, Zenon DEF IsList
  <2> DEFINE U == V \cup W
  <2>3. chain \in Seq(U) /\ chain' \in Seq(U)
    BY <2>1, <2>2
  <2>4. Len(chain') = Len(chain) /\ \A n \in 1..Len(chain') : chain'[n] = chain[n]
    BY <1>1, <1>2, <1>3
  <2> HIDE DEF U
  <2> QED
    BY <2>3, <2>4, SeqEqual
<1>4. CASE Len(es) # 0
  <2>1. Len(es) \in 1..Len(es)
    BY <1>1, <1>4
  <2> QED
    BY <1>1, <1>2, <2>1 DEF Last
<1> QED
  BY <1>3, <1>4

(* What ThreadsOnlyGrow says of one step.                                  *)
Grown(id) ==
    LET posted == /\ chain' # chain
                  /\ Last(chain').topic = "Message:Posted"
                  /\ Last(chain').id = id
        before == read_messages(thread[id])
    IN  read_messages(thread'[id])
            = IF posted THEN Append(before, Last(chain').party) ELSE before

LEMMA PostStep ==
    ASSUME IsList(chain), ThreadsInv, NEW sender \in Address,
           NEW id \in Ids \cup OldIds, post_message(sender, id)
    PROVE  ThreadsInv' /\ \A other \in Ids \cup OldIds : Grown(other)
<1> DEFINE t == migrate_thread(thread[id])
           s == t.slots
           u == [t EXCEPT !.slots = Append(@, sender), !.count = @ + 1]
           before == read_messages(thread[id])
<1>1. thread[id] \in Thread /\ InOneLayout(thread[id])
  BY DEF ThreadsInv
<1>2. t \in Thread /\ InOneLayout(t) /\ s = before /\ t.legacy = <<>>
  BY <1>1, MigrationReads
<1>3. thread' = [thread EXCEPT ![id] = u]
  BY Zenon DEF post_message
<1>4. append_events(<<event_of("Message:Posted", id, sender)>>)
  BY Zenon DEF post_message, emit
<1> HIDE DEF t
<1>5. /\ s \in Seq(Address) /\ t.count \in Nat /\ t.count = Len(s)
      /\ t = [legacy |-> <<>>, slots |-> s, count |-> t.count]
  BY <1>2 DEF Thread, InOneLayout
<1>6. u = [legacy |-> <<>>, slots |-> Append(s, sender), count |-> t.count + 1]
  <2> DEFINE k == t.count
             q == [legacy |-> <<>>, slots |-> s, count |-> k]
  <2>1. t = q
    BY <1>5
  <2>2. u = [q EXCEPT !.slots = Append(@, sender), !.count = @ + 1]
    BY <2>1
  <2> HIDE DEF u, s, k
  <2>3. u = [legacy |-> <<>>, slots |-> Append(s, sender), count |-> k + 1]
    BY <2>2
  <2> QED
    BY <2>3 DEF k
<1> HIDE DEF u
<1>7. /\ u.slots = Append(s, sender) /\ u.count = t.count + 1 /\ u.legacy = <<>>
      /\ Append(s, sender) \in Seq(Address) /\ Len(Append(s, sender)) = Len(s) + 1
      /\ <<>> \in Seq(Address)
  BY <1>5, <1>6
<1>8. u \in Thread /\ InOneLayout(u)
  <2>1. t.count + 1 \in Nat
    BY <1>5
  <2>2. u \in Thread
    BY <1>6, <1>7, <2>1 DEF Thread
  <2> QED
    BY <1>5, <1>7, <2>2 DEF InOneLayout
<1>9. read_messages(u) = Append(before, sender)
  <2>1. Append(s, sender) # <<>>
    <3>1. Len(s) \in Nat /\ Len(Append(s, sender)) = Len(s) + 1 /\ Len(<<>>) = 0
      BY <1>5, <1>7
    <3> HIDE DEF s
    <3> QED
      BY <3>1
  <2> QED
    BY <1>2, <1>7, <1>8, <2>1, Reads
<1>10. ThreadsInv'
  BY <1>3, <1>8 DEF ThreadsInv
<1>11. /\ chain' # chain
       /\ Last(chain').topic = "Message:Posted"
       /\ Last(chain').id = id /\ Last(chain').party = sender
  <2> DEFINE e == event_of("Message:Posted", id, sender)
             es == <<e>>
  <2>1. e.topic = "Message:Posted" /\ e.id = id /\ e.party = sender
    BY DEF event_of, event
  <2> HIDE DEF e
  <2>2. Len(es) = 1 /\ es[1] = e /\ IsList(es) /\ 1 \in 1..Len(es)
    BY Singles
  <2> HIDE DEF es
  <2>3. append_events(es)
    BY <1>4 DEF es, e
  <2>4. /\ Len(chain') = Len(chain) + 1
        /\ chain'[Len(chain) + 1].topic = e.topic
        /\ chain'[Len(chain) + 1].id = e.id
        /\ chain'[Len(chain) + 1].party = e.party
    BY <2>2, <2>3, EventsJoin
  <2>5. Len(chain) \in Nat
    BY ListFacts
  <2>6. chain' # chain
    BY <2>4, <2>5
  <2> QED
    BY <2>1, <2>4, <2>6 DEF Last
<1>12. ASSUME NEW other \in Ids \cup OldIds PROVE Grown(other)
  <2>1. CASE other = id
    <3>1. thread'[id] = u
      BY <1>3 DEF ThreadsInv
    <3> QED
      BY <1>9, <1>11, <2>1, <3>1, Zenon DEF Grown
  <2>2. CASE other # id
    <3>1. thread'[other] = thread[other]
      BY <1>3, <2>2 DEF ThreadsInv
    <3> QED
      BY <1>11, <2>2, <3>1, Zenon DEF Grown
  <2> QED
    BY <2>1, <2>2
<1> QED
  BY <1>10, <1>12

LEMMA ThreadsStep ==
    ASSUME TypeOK, IsList(chain), ThreadsInv, [IndexerNext]_all_vars
    PROVE  /\ ThreadsInv'
           /\ \/ UNCHANGED <<vars, record_vars>>
              \/ \A id \in Ids \cup OldIds : Grown(id)
<1>1. CASE UNCHANGED <<vars, record_vars>>
  <2>1. thread' = thread
    BY <1>1 DEF record_vars, book_vars
  <2> QED
    BY <1>1, <2>1 DEF ThreadsInv
<1>2. ASSUME thread' = thread, chain' = chain \/ Last(chain').topic # "Message:Posted"
      PROVE  ThreadsInv' /\ \A id \in Ids \cup OldIds : Grown(id)
  <2>1. ThreadsInv'
    BY <1>2 DEF ThreadsInv
  <2> QED
    BY <1>2, <2>1, Zenon DEF Grown
<1>3. CASE record_tick
  <2>1. thread' = thread /\ chain' = chain
    BY <1>3 DEF record_tick, record_vars, book_vars
  <2> QED
    BY <1>2, <2>1
<1>4. CASE Transaction
  <2>1. CASE Publishes
    BY <1>2, <2>1, QuietGrowth, Zenon DEF Publishes
  <2>2. ASSUME NEW id \in Ids \cup OldIds, NEW sender \in Address,
               post_message(sender, id)
        PROVE  ThreadsInv' /\ \A other \in Ids \cup OldIds : Grown(other)
    BY <2>2, PostStep
  <2> QED
    BY <1>4, <2>1, <2>2, TransactionPublishes, Zenon
<1>5. RecordsNext \/ UNCHANGED <<vars, record_vars>>
  BY DEF IndexerNext, poll, replay, ingest_event, give_up, all_vars
<1> QED
  BY <1>1, <1>3, <1>4, <1>5 DEF RecordsNext

LEMMA ThreadsInit ==
    ASSUME IndexerInit
    PROVE  ThreadsInv
<1> DEFINE inherited(id) == IF id \in OldIds THEN InheritedThreads[id] ELSE <<>>
           first(id) == [legacy |-> inherited(id), slots |-> <<>>, count |-> 0]
<1>1. thread = [id \in Ids \cup OldIds |-> first(id)]
  BY DEF IndexerInit, RecordsInit
<1>2. ASSUME NEW id \in Ids \cup OldIds PROVE first(id) \in Thread /\ InOneLayout(first(id))
  <2>1. <<>> \in Seq(Address) /\ Len(<<>>) = 0
    OBVIOUS
  <2>2. inherited(id) \in Seq(Address)
    BY <2>1, ThreadsAssumption DEF OldIds
  <2> HIDE DEF inherited
  <2>3. first(id) \in Thread
    BY <2>1, <2>2 DEF Thread
  <2>4. first(id).slots = <<>> /\ first(id).count = 0
    OBVIOUS
  <2> HIDE DEF first
  <2> QED
    BY <2>1, <2>3, <2>4 DEF InOneLayout
<1> HIDE DEF first
<1> QED
  BY <1>1, <1>2 DEF ThreadsInv

(* ThreadsOnlyGrow: post_message is the only operation that changes what a *)
(* thread reads, by one message at its end, whichever layout the thread    *)
(* was found in.                                                           *)
THEOREM ThreadsAreAppendOnly == IndexerSpec => ThreadsOnlyGrow
<1>1. IndexerInit => ThreadsInv
  BY ThreadsInit
<1>2. TypeOK /\ IndexInv /\ ThreadsInv /\ [IndexerNext]_all_vars => ThreadsInv'
  BY ThreadsStep DEF IndexInv, ChainInv
<1>3. TypeOK /\ IndexInv /\ ThreadsInv /\ [IndexerNext]_all_vars
         => [\A id \in Ids \cup OldIds :
                LET posted == /\ chain' # chain
                              /\ Last(chain').topic = "Message:Posted"
                              /\ Last(chain').id = id
                    before == read_messages(thread[id])
                IN  read_messages(thread'[id])
                        = IF posted THEN Append(before, Last(chain').party)
                          ELSE before]_<<vars, record_vars>>
  BY ThreadsStep, Zenon DEF IndexInv, ChainInv, Grown
<1> QED
  BY <1>1, <1>2, <1>3, IndexerOnlyFollows, TypeCorrect, PTL
     DEF IndexerSpec, ThreadsOnlyGrow

-----------------------------------------------------------------------------
(* Paged indexes.                                                          *)

(* What a page holds.                                                      *)
S == ESCROW_INDEX_PAGE_SIZE

LEMMA PageSize == S \in Nat \ {0} /\ MaxPages \in Nat
BY PagingAssumption DEF S

LEMMA Division ==
    ASSUME NEW n \in Nat
    PROVE  /\ n \div S \in Nat /\ n % S \in Nat /\ (n % S) < S
           /\ n = (n \div S) * S + (n % S)
BY PageSize

LEMMA Multiples ==
    ASSUME NEW p \in Nat, NEW q \in Nat
    PROVE  /\ p * S \in Nat /\ (p + 1) * S = p * S + S
           /\ p < q => p * S + S <= q * S
           /\ p <= q => p * S <= q * S
BY PageSize

(* An item is on the page before the first page that begins after it.      *)
LEMMA PageCount ==
    ASSUME NEW n \in Nat
    PROVE  /\ page_count(n) \in Nat
           /\ \A p \in Nat : p < page_count(n) <=> p * S < n
<1> DEFINE N == page_count(n)
           r == (n + S - 1) % S
<1>1. S \in Nat /\ S >= 1 /\ n + S - 1 \in Nat
  BY PageSize
<1>2. N \in Nat /\ r \in Nat /\ r < S /\ n + S - 1 = N * S + r
  BY <1>1, Division DEF page_count, S
<1> HIDE DEF N, r
<1>3. ASSUME NEW p \in Nat PROVE p < N <=> p * S < n
  <2>1. /\ p * S \in Nat /\ N * S \in Nat
        /\ p < N => p * S + S <= N * S
        /\ N <= p => N * S <= p * S
    BY <1>2, <1>3, Multiples
  <2> DEFINE x == p * S
             y == N * S
  <2>2. /\ x \in Nat /\ y \in Nat
        /\ p < N => x + S <= y
        /\ N <= p => y <= x
        /\ n + S - 1 = y + r
    BY <1>2, <2>1
  <2> HIDE DEF x, y
  <2>3. p < N <=> x < n
    BY <1>1, <1>2, <2>2
  <2> QED
    BY <2>3 DEF x
<1> QED
  BY <1>2, <1>3 DEF N

LEMMA Pieces ==
    ASSUME NEW V, NEW L \in Seq(V), NEW a \in Nat, NEW b \in Nat, b <= Len(L)
    PROVE  /\ SubSeq(L, a + 1, b) \in Seq(V)
           /\ Len(SubSeq(L, a + 1, b)) = IF a <= b THEN b - a ELSE 0
           /\ \A i \in 1..(b - a) : SubSeq(L, a + 1, b)[i] = L[a + i]
           /\ a >= b => SubSeq(L, a + 1, b) = <<>>
<1> DEFINE s == SubSeq(L, a + 1, b)
<1>1. s = [i \in 1..(b - a) |-> L[a + i]]
  <2>1. s = [i \in 1..(b - (a + 1) + 1) |-> L[(a + 1) + i - 1]]
    OBVIOUS
  <2>2. b - (a + 1) + 1 = b - a /\ \A i \in 1..(b - a) : (a + 1) + i - 1 = a + i
    OBVIOUS
  <2> HIDE DEF s
  <2> QED
    BY <2>1, <2>2
<1>2. \A i \in 1..(b - a) : a + i \in 1..Len(L) /\ L[a + i] \in V
  OBVIOUS
<1> HIDE DEF s
<1>3. s \in Seq(V) /\ Len(s) = IF a <= b THEN b - a ELSE 0
  <2>1. CASE a <= b
    <3>1. b - a \in Nat
      BY <2>1
    <3> QED
      BY <1>1, <1>2, <2>1, <3>1
  <2>2. CASE ~(a <= b)
    <3>1. 1..(b - a) = 1..0
      BY <2>2
    <3>2. s = <<>>
      BY <1>1, <3>1
    <3> QED
      BY <2>2, <3>2
  <2> QED
    BY <2>1, <2>2
<1>4. a >= b => s = <<>>
  BY <1>3
<1> QED
  BY <1>1, <1>3, <1>4 DEF s

LEMMA PiecesJoin ==
    ASSUME NEW V, NEW L \in Seq(V), NEW a \in Nat, NEW b \in Nat, NEW c \in Nat,
           a <= b, b <= c, c <= Len(L)
    PROVE  SubSeq(L, a + 1, b) \o SubSeq(L, b + 1, c) = SubSeq(L, a + 1, c)
<1>1. a + 1 \in 1..(Len(L) + 1) /\ b \in ((a + 1) - 1)..Len(L) /\ c \in b..Len(L)
  OBVIOUS
<1> QED
  BY <1>1, ConcatAdjacentSubSeq

(* A list that is cut into pieces is the pieces in a row.                  *)
LEMMA Flattened ==
    ASSUME NEW V, NEW L \in Seq(V), NEW N \in Nat, NEW cut \in [0..N -> 0..Len(L)],
           \A i \in 1..N : cut[i - 1] <= cut[i],
           NEW seqs, Len(seqs) = N, N = 0 => seqs = <<>>,
           \A i \in 1..N : seqs[i] = SubSeq(L, cut[i - 1] + 1, cut[i])
    PROVE  FlattenSeq(seqs) = SubSeq(L, cut[0] + 1, cut[N])
<1> DEFINE piece(i) == SubSeq(L, cut[0] + 1, cut[i])
           g == [i \in 1..N |-> piece(i)]
           flat == CHOOSE f : f = [i \in 1..N |->
                       IF i = 1 THEN seqs[i] ELSE f[i - 1] \o seqs[i]]
<1>1. Len(L) \in Nat /\ \A i \in 0..N : cut[i] \in Nat /\ cut[i] <= Len(L)
  OBVIOUS
<1> HIDE DEF flat
<1>4. \A a, b, c \in Nat : a <= b /\ b <= c /\ c <= Len(L) =>
         SubSeq(L, a + 1, b) \o SubSeq(L, b + 1, c) = SubSeq(L, a + 1, c)
  BY PiecesJoin
<1>2. CASE N = 0
  <2>1. FlattenSeq(seqs) = seqs
    BY <1>2 DEF FlattenSeq
  <2>2. SubSeq(L, cut[0] + 1, cut[0]) = <<>>
    BY <1>1, <1>2, Pieces
  <2> QED
    BY <1>2, <2>1, <2>2
<1>3. CASE N # 0
  <2>1. FlattenSeq(seqs) = flat[N]
    BY <1>3, Zenon DEF FlattenSeq, flat
  <2>2. ASSUME NEW k \in Nat PROVE k <= N => cut[0] <= cut[k]
    <3> DEFINE T == {n \in Nat : n <= N => cut[0] <= cut[n]}
    <3>1. 0 \in T
      BY <1>1
    <3>2. ASSUME NEW n \in Nat, n \in T PROVE n + 1 \in T
      <4>1. SUFFICES ASSUME n + 1 <= N PROVE cut[0] <= cut[n + 1]
        OBVIOUS
      <4>2. n + 1 \in 1..N /\ (n + 1) - 1 = n /\ n \in 0..N /\ n + 1 \in 0..N /\ 0 \in 0..N
        BY <4>1
      <4>3. cut[0] <= cut[n]
        BY <3>2, <4>2
      <4>4. cut[(n + 1) - 1] <= cut[n + 1]
        BY <4>2
      <4> QED
        BY <1>1, <4>2, <4>3, <4>4
    <3> HIDE DEF T
    <3>3. k \in T
      BY <3>1, <3>2, NatSetInduction, Zenon
    <3> QED
      BY <3>3 DEF T
  <2>3. ASSUME NEW i \in 1..N
        PROVE  piece(i) = IF i = 1 THEN seqs[i] ELSE piece(i - 1) \o seqs[i]
    <3>1. seqs[i] = SubSeq(L, cut[i - 1] + 1, cut[i])
      OBVIOUS
    <3>2. CASE i = 1
      <4>1. i - 1 = 0
        BY <3>2
      <4> QED
        BY <3>1, <3>2, <4>1
    <3>3. CASE i # 1
      <4> DEFINE j == i - 1
      <4>1. i \in 0..N /\ j \in 0..N /\ 0 \in 0..N /\ j \in Nat /\ j <= N /\ i \in Nat
        BY <3>3
      <4>2. cut[j] <= cut[i] /\ cut[0] <= cut[j]
        BY <2>2, <4>1
      <4>3. /\ cut[0] \in Nat /\ cut[j] \in Nat /\ cut[i] \in Nat
            /\ cut[i] <= Len(L)
        BY <1>1, <4>1
      <4>4. SubSeq(L, cut[0] + 1, cut[j]) \o SubSeq(L, cut[j] + 1, cut[i])
               = SubSeq(L, cut[0] + 1, cut[i])
        BY <1>4, <4>2, <4>3, Zenon
      <4> QED
        BY <3>1, <3>3, <4>4
    <3> QED
      BY <3>2, <3>3
  <2> HIDE DEF piece
  <2>4. \A i \in 1..N : i # 1 => i - 1 \in 1..N
    OBVIOUS
  <2>5. g = [i \in 1..N |-> IF i = 1 THEN seqs[i] ELSE g[i - 1] \o seqs[i]]
    BY <2>3, <2>4, Zenon
  <2> HIDE DEF g
  <2>6. flat = [i \in 1..N |-> IF i = 1 THEN seqs[i] ELSE flat[i - 1] \o seqs[i]]
    BY <2>5, Zenon DEF flat
  <2>7. \A i \in 1..N : flat[i] = IF i = 1 THEN seqs[i] ELSE flat[i - 1] \o seqs[i]
    BY <2>6, Zenon
  <2>8. ASSUME NEW k \in Nat PROVE k + 1 <= N => flat[k + 1] = piece(k + 1)
    <3> DEFINE T == {n \in Nat : n + 1 <= N => flat[n + 1] = piece(n + 1)}
    <3>1. 0 \in T
      <4>1. 1 \in 1..N /\ 0 + 1 = 1
        BY <1>3
      <4>2. flat[1] = seqs[1] /\ piece(1) = seqs[1]
        BY <2>3, <2>7, <4>1, Zenon
      <4> QED
        BY <4>1, <4>2
    <3>2. ASSUME NEW n \in Nat, n \in T PROVE n + 1 \in T
      <4>1. SUFFICES ASSUME (n + 1) + 1 <= N PROVE flat[(n + 1) + 1] = piece((n + 1) + 1)
        OBVIOUS
      <4> DEFINE i == (n + 1) + 1
      <4>2. i \in 1..N /\ i # 1 /\ i - 1 = n + 1 /\ n + 1 <= N
        BY <4>1
      <4>3. flat[n + 1] = piece(n + 1)
        BY <3>2, <4>2
      <4> HIDE DEF i
      <4>4. flat[i] = flat[i - 1] \o seqs[i] /\ piece(i) = piece(i - 1) \o seqs[i]
        BY <2>3, <2>7, <4>2, Zenon
      <4>5. flat[i] = piece(i)
        BY <4>2, <4>3, <4>4, Zenon
      <4> QED
        BY <4>5 DEF i
    <3> HIDE DEF T
    <3>3. k \in T
      BY <3>1, <3>2, NatSetInduction, Zenon
    <3> QED
      BY <3>3 DEF T
  <2>9. PICK m \in Nat : N = m + 1
    <3>1. N - 1 \in Nat /\ N = (N - 1) + 1
      BY <1>3
    <3> QED
      BY <3>1
  <2>10. flat[N] = piece(N)
    <3>1. m + 1 <= N
      BY <2>9
    <3>2. flat[m + 1] = piece(m + 1)
      BY <2>8, <3>1, Zenon
    <3> QED
      BY <2>9, <3>2, Zenon
  <2> QED
    BY <2>1, <2>10 DEF piece
<1> QED
  BY <1>2, <1>3

-----------------------------------------------------------------------------
(* Pages.                                                                  *)

(* What a page of a list is.                                               *)
page_of(L, p) == SubSeq(L, p * S + 1, smaller((p + 1) * S, Len(L)))

LEMMA PageOf ==
    ASSUME NEW V, NEW L \in Seq(V), NEW p \in Nat
    PROVE  /\ page_of(L, p) \in Seq(V)
           /\ p * S >= Len(L) => page_of(L, p) = <<>>
           /\ p * S < Len(L) => Len(page_of(L, p)) = smaller((p + 1) * S, Len(L)) - p * S
           /\ \A i \in 1..(smaller((p + 1) * S, Len(L)) - p * S) :
                 page_of(L, p)[i] = L[p * S + i]
<1> DEFINE a == p * S
           b == smaller((p + 1) * S, Len(L))
<1>1. a \in Nat /\ (p + 1) * S = a + S /\ S \in Nat /\ S >= 1 /\ Len(L) \in Nat
  BY Multiples, PageSize
<1>2. /\ b \in Nat /\ b <= Len(L)
      /\ a >= Len(L) => a >= b
      /\ a < Len(L) => a <= b
  <2> HIDE DEF a
  <2> QED
    BY <1>1 DEF smaller
<1> HIDE DEF a, b
<1>3. /\ SubSeq(L, a + 1, b) \in Seq(V)
      /\ Len(SubSeq(L, a + 1, b)) = IF a <= b THEN b - a ELSE 0
      /\ \A i \in 1..(b - a) : SubSeq(L, a + 1, b)[i] = L[a + i]
      /\ a >= b => SubSeq(L, a + 1, b) = <<>>
  BY <1>1, <1>2, Pieces
<1> QED
  BY <1>2, <1>3, Zenon DEF page_of, a, b

(* An index in one of the two layouts and the list it stands for.          *)
Index == [legacy : Seq(Int), pages : [0..MaxPages -> Seq(Int)], count : Nat]

Represents(ix, L) ==
    /\ ix \in Index /\ L \in Seq(Int)
    /\ \/ /\ ix.count = 0 /\ ix.legacy = L
          /\ \A p \in 0..MaxPages : ix.pages[p] = <<>>
       \/ /\ ix.count = Len(L) /\ ix.count > 0
          /\ \A p \in 0..MaxPages : ix.pages[p] = page_of(L, p)

(* The pages from page_count on hold nothing.                              *)
LEMMA PagesEnd ==
    ASSUME NEW ix, NEW L, Represents(ix, L), NEW p \in 0..MaxPages,
           p >= page_count(ix.count)
    PROVE  ix.pages[p] = <<>>
<1>1. L \in Seq(Int) /\ Len(L) \in Nat /\ p \in Nat
  BY PageSize DEF Represents
<1>2. CASE ix.count = Len(L) /\ ix.pages[p] = page_of(L, p)
  <2>1. p * S \in Nat /\ page_count(Len(L)) \in Nat
    BY <1>1, Multiples, PageCount
  <2>2. p * S >= Len(L)
    <3>1. ~(p * S < Len(L))
      <4>1. ~(p < page_count(Len(L)))
        BY <1>1, <1>2, <2>1
      <4> QED
        BY <1>1, <4>1, PageCount, Zenon
    <3> QED
      BY <1>1, <2>1, <3>1
  <2> QED
    BY <1>1, <1>2, <2>2, PageOf
<1> QED
  BY <1>2, Zenon DEF Represents

(* write_index makes an index represent the list it is given.              *)
LEMMA Written ==
    ASSUME NEW ix \in Index, NEW L \in Seq(Int), L # <<>>,
           \A p \in 0..MaxPages : p >= page_count(ix.count) => ix.pages[p] = <<>>
    PROVE  /\ Represents(write_index(ix, L), L)
           /\ write_index(ix, L).count = Len(L)
<1> DEFINE n == Len(L)
           written == [p \in 0..MaxPages |->
                CASE p < page_count(n) -> page_of(L, p)
                  [] p >= page_count(n) /\ p < page_count(ix.count) -> <<>>
                  [] OTHER -> ix.pages[p]]
<1>1. n \in Nat /\ n > 0 /\ ix.count \in Nat
  BY DEF Index
<1>2. write_index(ix, L) = [ix EXCEPT !.count = n, !.pages = written]
  BY DEF write_index, page_of, S
<1>3. ASSUME NEW p \in 0..MaxPages PROVE written[p] = page_of(L, p)
  <2> DEFINE u == page_count(n)
             v == page_count(ix.count)
  <2>1. p \in Nat /\ u \in Nat /\ v \in Nat /\ p * S \in Nat
    <3>1. \A x \in Nat : page_count(x) \in Nat
      BY PageCount
    <3>2. p \in Nat
      BY PageSize
    <3>3. p * S \in Nat
      BY <3>2, Multiples
    <3> QED
      BY <1>1, <3>1, <3>2, <3>3, Zenon
  <2>2. p >= page_count(n) => page_of(L, p) = <<>>
    <3>1. ASSUME p >= page_count(n) PROVE p * S >= n
      <4>1. ~(p < page_count(n))
        BY <2>1, <3>1
      <4>2. ~(p * S < n)
        BY <1>1, <2>1, <4>1, PageCount, Zenon
      <4> QED
        BY <1>1, <2>1, <4>2
    <3> QED
      BY <2>1, <3>1, PageOf
  <2>3. p >= page_count(ix.count) => ix.pages[p] = <<>>
    OBVIOUS
  <2>4. written[p] = CASE p < u -> page_of(L, p)
                       [] p >= u /\ p < v -> <<>>
                       [] OTHER -> ix.pages[p]
    OBVIOUS
  <2> HIDE DEF u, v, written
  <2>5. CASE p < u
    BY <2>1, <2>4, <2>5
  <2>6. CASE p >= u /\ p < v
    BY <2>1, <2>2, <2>4, <2>6 DEF u
  <2>7. CASE p >= u /\ p >= v
    BY <2>1, <2>2, <2>3, <2>4, <2>7 DEF u, v
  <2> QED
    BY <2>1, <2>5, <2>6, <2>7
<1> HIDE DEF written
<1>4. \A p \in 0..MaxPages : page_of(L, p) \in Seq(Int)
  BY PageOf, PageSize
<1>5. written \in [0..MaxPages -> Seq(Int)]
  <2>1. written = [p \in 0..MaxPages |-> written[p]]
    BY DEF written
  <2> QED
    BY <1>3, <1>4, <2>1, Zenon
<1> HIDE DEF n
<1>6. /\ write_index(ix, L) \in Index
      /\ write_index(ix, L).count = n /\ write_index(ix, L).pages = written
  BY <1>1, <1>2, <1>5 DEF Index
<1> QED
  BY <1>1, <1>3, <1>6 DEF Represents, n

(* migrate_legacy moves the list and changes nothing of it.                *)
LEMMA Migrated ==
    ASSUME NEW ix, NEW L, Represents(ix, L)
    PROVE  /\ Represents(migrate_legacy(ix), L)
           /\ migrate_legacy(ix).count = Len(L)
<1> DEFINE w == write_index(ix, L)
           m == [w EXCEPT !.legacy = <<>>]
<1>1. ix \in Index /\ L \in Seq(Int) /\ Len(L) \in Nat /\ ix.count \in Nat
  BY DEF Represents, Index
<1>2. CASE ix.count # 0
  <2>1. migrate_legacy(ix) = ix
    BY <1>2 DEF migrate_legacy
  <2>2. ix.count = Len(L)
    BY <1>1, <1>2 DEF Represents
  <2> QED
    BY <2>1, <2>2
<1>3. CASE ix.count = 0 /\ L = <<>>
  <2>1. ix.legacy = <<>>
    BY <1>1, <1>3 DEF Represents
  <2>2. migrate_legacy(ix) = ix
    BY <2>1 DEF migrate_legacy
  <2> QED
    BY <1>3, <2>2
<1>4. CASE ix.count = 0 /\ L # <<>>
  <2>1. ix.legacy = L
    BY <1>1, <1>4 DEF Represents
  <2>2. migrate_legacy(ix) = m
    BY <1>4, <2>1 DEF migrate_legacy
  <2>3. \A p \in 0..MaxPages : p >= page_count(ix.count) => ix.pages[p] = <<>>
    BY PagesEnd
  <2>4. Represents(w, L) /\ w.count = Len(L)
    BY <1>1, <1>4, <2>3, Written
  <2> HIDE DEF w
  <2>5. w \in Index /\ w.count = Len(L) /\ w.count > 0
        /\ \A p \in 0..MaxPages : w.pages[p] = page_of(L, p)
    BY <1>1, <1>4, <2>4 DEF Represents
  <2>6. m \in Index /\ m.count = w.count /\ m.pages = w.pages
    <3>1. <<>> \in Seq(Int) /\ w \in Index
      BY <2>5
    <3> QED
      BY <3>1 DEF Index
  <2> HIDE DEF m
  <2>7. Represents(m, L) /\ m.count = Len(L)
    BY <1>1, <2>5, <2>6 DEF Represents
  <2> QED
    BY <2>2, <2>7
<1> QED
  BY <1>2, <1>3, <1>4

-----------------------------------------------------------------------------
(* Appending.                                                              *)

(* A longer list has the same pieces, but for the last.                    *)
LEMMA AppendPieces ==
    ASSUME NEW V, NEW L \in Seq(V), NEW x \in V, NEW a \in Nat, NEW b \in Nat, b <= Len(L)
    PROVE  /\ SubSeq(Append(L, x), a + 1, b) = SubSeq(L, a + 1, b)
           /\ a <= Len(L) =>
                 SubSeq(Append(L, x), a + 1, Len(L) + 1)
                     = Append(SubSeq(L, a + 1, Len(L)), x)
<1> DEFINE M == Append(L, x)
           n == Len(L)
<1>1. /\ M \in Seq(V) /\ Len(M) = n + 1 /\ n \in Nat
      /\ \A i \in 1..n : M[i] = L[i]
      /\ M[n + 1] = x
  OBVIOUS
<1> HIDE DEF M
<1>2. \A c, d \in Nat : d <= n =>
         /\ SubSeq(L, c + 1, d) \in Seq(V)
         /\ Len(SubSeq(L, c + 1, d)) = IF c <= d THEN d - c ELSE 0
         /\ \A i \in 1..(d - c) : SubSeq(L, c + 1, d)[i] = L[c + i]
  BY Pieces
<1>3. \A c, d \in Nat : d <= Len(M) =>
         /\ SubSeq(M, c + 1, d) \in Seq(V)
         /\ Len(SubSeq(M, c + 1, d)) = IF c <= d THEN d - c ELSE 0
         /\ \A i \in 1..(d - c) : SubSeq(M, c + 1, d)[i] = M[c + i]
  BY <1>1, Pieces
<1> HIDE DEF n
<1>4. SubSeq(M, a + 1, b) = SubSeq(L, a + 1, b)
  <2> DEFINE s == SubSeq(M, a + 1, b)
             t == SubSeq(L, a + 1, b)
  <2>1. b <= n /\ b <= Len(M)
    BY <1>1 DEF n
  <2>2. /\ s \in Seq(V) /\ Len(s) = (IF a <= b THEN b - a ELSE 0)
        /\ \A i \in 1..(b - a) : s[i] = M[a + i]
        /\ t \in Seq(V) /\ Len(t) = (IF a <= b THEN b - a ELSE 0)
        /\ \A i \in 1..(b - a) : t[i] = L[a + i]
    BY <1>2, <1>3, <2>1, Zenon
  <2> HIDE DEF s, t
  <2>3. \A i \in 1..Len(s) : s[i] = t[i]
    <3>1. TAKE i \in 1..Len(s)
    <3>2. i \in 1..(b - a) /\ a + i \in 1..n
      BY <2>1, <2>2, <3>1, <1>1
    <3> QED
      BY <1>1, <2>2, <3>2
  <2>4. s = t
    BY <2>2, <2>3, SeqEqual
  <2> QED
    BY <2>4 DEF s, t
<1>5. ASSUME a <= n
      PROVE  SubSeq(M, a + 1, n + 1) = Append(SubSeq(L, a + 1, n), x)
  <2> DEFINE s == SubSeq(M, a + 1, n + 1)
             t == SubSeq(L, a + 1, n)
  <2>1. n \in Nat /\ n + 1 \in Nat /\ n + 1 <= Len(M) /\ n <= n /\ a <= n + 1
    BY <1>1, <1>5
  <2>2. /\ s \in Seq(V) /\ Len(s) = (IF a <= n + 1 THEN (n + 1) - a ELSE 0)
        /\ \A i \in 1..((n + 1) - a) : s[i] = M[a + i]
        /\ t \in Seq(V) /\ Len(t) = (IF a <= n THEN n - a ELSE 0)
        /\ \A i \in 1..(n - a) : t[i] = L[a + i]
    BY <1>2, <1>3, <2>1, Zenon
  <2>3. Len(s) = (n - a) + 1 /\ Len(t) = n - a
    BY <1>5, <2>1, <2>2
  <2> HIDE DEF s, t
  <2>4. /\ Append(t, x) \in Seq(V) /\ Len(Append(t, x)) = (n - a) + 1
        /\ \A i \in 1..(n - a) : Append(t, x)[i] = t[i]
        /\ Append(t, x)[(n - a) + 1] = x
    BY <2>2, <2>3
  <2>5. \A i \in 1..Len(s) : s[i] = Append(t, x)[i]
    <3>1. TAKE i \in 1..Len(s)
    <3>2. CASE i = (n - a) + 1
      <4>1. i \in 1..((n + 1) - a) /\ a + i = n + 1
        BY <1>1, <1>5, <2>1, <3>2
      <4> QED
        BY <1>1, <2>2, <2>4, <3>2, <4>1
    <3>3. CASE i # (n - a) + 1
      <4>1. i \in 1..(n - a) /\ i \in 1..((n + 1) - a) /\ a + i \in 1..n
        BY <1>5, <2>1, <2>3, <3>1, <3>3
      <4> QED
        BY <1>1, <2>2, <2>4, <4>1
    <3> QED
      BY <3>2, <3>3
  <2>6. s = Append(t, x)
    BY <2>2, <2>3, <2>4, <2>5, SeqEqual
  <2> QED
    BY <2>6 DEF s, t
<1> QED
  BY <1>4, <1>5 DEF M, n

LEMMA Paged ==
    ASSUME NEW ix, NEW L, Represents(ix, L), ix.count = Len(L)
    PROVE  \A p \in 0..MaxPages : ix.pages[p] = page_of(L, p)
<1>1. L \in Seq(Int) /\ Len(L) \in Nat
  BY DEF Represents
<1>2. TAKE p \in 0..MaxPages
<1>3. CASE Len(L) = 0
  <2>1. p \in Nat /\ p * S >= Len(L)
    <3>1. p \in Nat
      BY PageSize
    <3>2. p * S \in Nat
      BY <3>1, Multiples
    <3> QED
      BY <1>3, <3>1, <3>2
  <2>2. page_of(L, p) = <<>>
    BY <1>1, <2>1, PageOf
  <2> QED
    BY <1>1, <1>3, <2>2 DEF Represents
<1>4. CASE Len(L) # 0
  BY <1>1, <1>4 DEF Represents
<1> QED
  BY <1>3, <1>4

(* The page of the next item, and the pages before and after it.           *)
LEMMA NextPage ==
    ASSUME NEW L \in Seq(Int), NEW id \in Int, NEW p \in Nat
    PROVE  LET q == Len(L) \div S
           IN  page_of(Append(L, id), p)
                   = IF p = q THEN Append(page_of(L, p), id) ELSE page_of(L, p)
<1> DEFINE n == Len(L)
           q == n \div S
           M == Append(L, id)
           a == p * S
           c == q * S
           r == n % S
<1>1. /\ S \in Nat /\ S >= 1 /\ n \in Nat /\ q \in Nat /\ r \in Nat /\ r < S
      /\ n = c + r /\ a \in Nat /\ c \in Nat
      /\ p < q => a + S <= c
      /\ q < p => c + S <= a
      /\ (p + 1) * S = a + S
  <2>1. n \in Nat /\ S \in Nat /\ S >= 1
    BY PageSize
  <2>2. q \in Nat /\ r \in Nat /\ r < S /\ n = c + r
    BY <2>1, Division
  <2>3. /\ \A k \in Nat : k * S \in Nat /\ (k + 1) * S = k * S + S
        /\ \A k, l \in Nat : k < l => k * S + S <= l * S
    BY Multiples
  <2> HIDE DEF n, q, r
  <2> QED
    BY <2>1, <2>2, <2>3, Zenon
<1>2. M \in Seq(Int) /\ Len(M) = n + 1
  OBVIOUS
<1>3. /\ \A d \in Nat : d <= n => SubSeq(M, a + 1, d) = SubSeq(L, a + 1, d)
      /\ a <= n => SubSeq(M, a + 1, n + 1) = Append(SubSeq(L, a + 1, n), id)
  <2>1. \A k, d \in Nat : d <= n => SubSeq(M, k + 1, d) = SubSeq(L, k + 1, d)
    BY AppendPieces
  <2>2. \A k \in Nat : k <= n =>
           SubSeq(M, k + 1, n + 1) = Append(SubSeq(L, k + 1, n), id)
    <3>1. n \in Nat /\ n <= n
      OBVIOUS
    <3> QED
      BY <3>1, AppendPieces
  <2> HIDE DEF a, M, n
  <2> QED
    BY <1>1, <2>1, <2>2
<1>5. /\ page_of(L, p) = SubSeq(L, a + 1, smaller(a + S, n))
      /\ page_of(M, p) = SubSeq(M, a + 1, smaller(a + S, n + 1))
  BY <1>1, <1>2 DEF page_of
<1>6. /\ a >= n => page_of(L, p) = <<>>
      /\ a >= n + 1 => page_of(M, p) = <<>>
  BY <1>2, PageOf
<1> HIDE DEF n, M, a, c, r
<1>7. CASE p < q
  <2>1. a + S \in Nat /\ a + S <= n /\ smaller(a + S, n) = a + S /\ smaller(a + S, n + 1) = a + S
    BY <1>1, <1>7 DEF smaller
  <2>2. page_of(M, p) = page_of(L, p)
    BY <1>3, <1>5, <2>1
  <2> QED
    BY <1>1, <1>7, <2>2 DEF M, n
<1>8. CASE p = q
  <2>1. a = c
    BY <1>8 DEF a, c
  <2>2. a <= n /\ smaller(a + S, n) = n /\ smaller(a + S, n + 1) = n + 1
    BY <1>1, <2>1 DEF smaller
  <2>3. page_of(M, p) = Append(page_of(L, p), id)
    BY <1>3, <1>5, <2>2
  <2> QED
    BY <1>8, <2>3 DEF M, n
<1>9. CASE q < p
  <2>1. a >= n /\ a >= n + 1
    BY <1>1, <1>9
  <2>2. page_of(M, p) = page_of(L, p)
    BY <1>6, <2>1
  <2> QED
    BY <1>1, <1>9, <2>2 DEF M, n
<1> QED
  BY <1>1, <1>7, <1>8, <1>9

(* append_index appends to the list the index represents.                  *)
LEMMA Appended ==
    ASSUME NEW ix, NEW L, Represents(ix, L), NEW id \in Int,
           Len(L) < (MaxPages + 1) * S
    PROVE  Represents(append_index(ix, id), Append(L, id))
<1> DEFINE m == migrate_legacy(ix)
           n == Len(L)
           q == n \div S
           new == [m EXCEPT !.pages[q] = Append(@, id), !.count = @ + 1]
<1>1. L \in Seq(Int) /\ n \in Nat /\ MaxPages \in Nat
  BY PageSize DEF Represents
<1>2. Represents(m, L) /\ m.count = n
  BY Migrated
<1>3. append_index(ix, id) = new
  BY <1>2 DEF append_index, S
<1>4. q \in 0..MaxPages
  <2>1. q \in Nat /\ q * S <= n /\ q * S \in Nat
    <3>1. q \in Nat /\ n % S \in Nat /\ n = q * S + (n % S)
      BY <1>1, Division
    <3>2. q * S \in Nat
      BY <3>1, Multiples
    <3> DEFINE x == q * S
               y == n % S
    <3> HIDE DEF x, y
    <3>3. x \in Nat /\ y \in Nat /\ n = x + y
      BY <3>1, <3>2 DEF x, y
    <3>4. x <= n
      BY <3>3
    <3> QED
      BY <3>1, <3>2, <3>4 DEF x
  <2>2. ASSUME MaxPages + 1 <= q PROVE FALSE
    <3>1. (MaxPages + 1) * S <= q * S /\ (MaxPages + 1) * S \in Nat
      BY <1>1, <2>1, <2>2, Multiples
    <3> DEFINE x == q * S
               y == (MaxPages + 1) * S
    <3> HIDE DEF x, y
    <3>2. y <= x /\ y \in Nat /\ x \in Nat /\ x <= n /\ n < y
      BY <2>1, <3>1 DEF x, y
    <3> QED
      BY <1>1, <3>2
  <2> HIDE DEF q
  <2> QED
    BY <1>1, <2>1, <2>2
<1>5. \A p \in 0..MaxPages : m.pages[p] = page_of(L, p)
  BY <1>2, Paged
<1>6. m \in Index
  BY <1>2 DEF Represents
<1>7. \A p \in 0..MaxPages :
         page_of(Append(L, id), p)
             = IF p = q THEN Append(page_of(L, p), id) ELSE page_of(L, p)
  BY <1>1, NextPage
<1> DEFINE pgs == [m.pages EXCEPT ![q] = Append(@, id)]
<1>8. new = [m EXCEPT !.pages = pgs, !.count = n + 1]
  BY <1>2
<1> HIDE DEF m, q, new
<1>9. pgs \in [0..MaxPages -> Seq(Int)]
      /\ \A p \in 0..MaxPages : pgs[p] = page_of(Append(L, id), p)
  <2>1. m.pages \in [0..MaxPages -> Seq(Int)]
    BY <1>6 DEF Index
  <2>2. Append(m.pages[q], id) \in Seq(Int)
    <3>1. m.pages[q] \in Seq(Int)
      BY <1>4, <2>1, Zenon
    <3>2. \A s \in Seq(Int) : Append(s, id) \in Seq(Int)
      OBVIOUS
    <3> QED
      BY <3>1, <3>2, Zenon
  <2>3. pgs \in [0..MaxPages -> Seq(Int)]
    BY <2>1, <2>2
  <2>4. \A p \in 0..MaxPages :
           pgs[p] = IF p = q THEN Append(m.pages[p], id) ELSE m.pages[p]
    BY <2>1
  <2> QED
    BY <1>5, <1>7, <2>3, <2>4, Zenon
<1> HIDE DEF pgs
<1>10. new \in Index /\ new.count = n + 1 /\ new.pages = pgs
  <2>1. n + 1 \in Nat
    BY <1>1
  <2> HIDE DEF n
  <2> QED
    BY <1>6, <1>8, <1>9, <2>1 DEF Index
<1>12. Append(L, id) \in Seq(Int) /\ Len(Append(L, id)) = n + 1
  BY <1>1
<1> HIDE DEF n
<1> QED
  BY <1>1, <1>3, <1>9, <1>10, <1>12 DEF Represents

-----------------------------------------------------------------------------
(* Reading.                                                                *)

(* read_index returns the list an index represents, in either layout.      *)
LEMMA IndexIsRead ==
    ASSUME NEW ix, NEW L, Represents(ix, L), Len(L) <= (MaxPages + 1) * S
    PROVE  read_index(ix) = L
<1> DEFINE n == Len(L)
           N == page_count(n)
           cap == (MaxPages + 1) * S
           seqs == [i \in 1..N |-> ix.pages[i - 1]]
           cut == [i \in 0..N |-> smaller(i * S, n)]
<1>1. /\ L \in Seq(Int) /\ n \in Nat /\ ix.count \in Nat
      /\ MaxPages \in Nat /\ S \in Nat /\ S >= 1
  BY PageSize DEF Represents, Index
<1>2. CASE ix.count = 0
  BY <1>2 DEF Represents, read_index
<1>3. CASE ix.count # 0
  <2>1. ix.count = n /\ n > 0 /\ \A p \in 0..MaxPages : ix.pages[p] = page_of(L, p)
    BY <1>1, <1>3 DEF Represents
  <2>2. read_index(ix) = FlattenSeq(seqs)
    BY <1>3, <2>1 DEF read_index
  <2>3. N \in Nat /\ \A p \in Nat : p < N <=> p * S < n
    BY <1>1, PageCount
  <2>4. /\ \A p \in Nat : p * S \in Nat /\ (p + 1) * S = p * S + S
        /\ \A p, q \in Nat : p <= q => p * S <= q * S
    BY Multiples
  <2>5. cap \in Nat /\ n <= cap
    BY <1>1, <2>4
  <2>6. ASSUME NEW i \in 1..N
        PROVE  LET p == i - 1 IN
               /\ p \in Nat /\ p \in 0..N /\ p \in 0..MaxPages
               /\ p * S \in Nat /\ p * S < n
               /\ i \in Nat /\ i = p + 1 /\ i * S = p * S + S
    <3> DEFINE p == i - 1
    <3>1. p \in Nat /\ p \in 0..N /\ p < N /\ i \in Nat /\ i = p + 1
      BY <2>3, <2>6
    <3> HIDE DEF p, N
    <3>2. p * S \in Nat /\ p * S < n /\ i * S = p * S + S
      BY <2>3, <2>4, <3>1
    <3>3. p <= MaxPages
      <4>1. ASSUME MaxPages + 1 <= p PROVE FALSE
        <5>1. MaxPages + 1 \in Nat
          BY <1>1
        <5>2. cap <= p * S
          BY <2>4, <3>1, <4>1, <5>1, Zenon
        <5> DEFINE x == p * S
        <5> HIDE DEF x, n, cap
        <5>3. cap <= x /\ x < n /\ n <= cap /\ x \in Nat /\ n \in Nat /\ cap \in Nat
          BY <1>1, <2>5, <3>2, <5>2 DEF x
        <5> QED
          BY <5>3
      <4> QED
        BY <1>1, <3>1, <4>1
    <3> QED
      BY <1>1, <3>1, <3>2, <3>3 DEF p
  <2>7. cut \in [0..N -> 0..n] /\ cut[0] = 0 /\ cut[N] = n
    <3>1. ASSUME NEW i \in 0..N PROVE smaller(i * S, n) \in 0..n
      <4>1. i \in Nat /\ i * S \in Nat
        BY <2>3, <2>4, <3>1
      <4> DEFINE x == i * S
      <4> HIDE DEF x, n
      <4>2. x \in Nat
        BY <4>1 DEF x
      <4>3. smaller(x, n) \in 0..n
        BY <1>1, <4>2 DEF smaller
      <4> QED
        BY <4>3 DEF x
    <3>2. cut[0] = smaller(0 * S, n) /\ cut[N] = smaller(N * S, n)
      BY <2>3
    <3>3. 0 * S = 0
      BY <1>1
    <3>4. N * S \in Nat /\ ~(N * S < n)
      <4> HIDE DEF N, n
      <4>1. ~(N < N)
        BY <2>3
      <4> QED
        BY <2>3, <2>4, <4>1, Zenon
    <3>5. smaller(0, n) = 0 /\ smaller(N * S, n) = n
      BY <1>1, <2>1, <3>4 DEF smaller
    <3>6. cut \in [0..N -> 0..n]
      <4> HIDE DEF N, n
      <4> QED
        BY <3>1
    <3> HIDE DEF cut
    <3> QED
      BY <3>2, <3>3, <3>5, <3>6
  <2>8. ASSUME NEW i \in 1..N
        PROVE  /\ cut[i - 1] <= cut[i]
               /\ seqs[i] = SubSeq(L, cut[i - 1] + 1, cut[i])
    <3> DEFINE p == i - 1
               x == p * S
    <3>1. /\ p \in Nat /\ p \in 0..N /\ p \in 0..MaxPages /\ x \in Nat /\ x < n
          /\ i * S = x + S /\ i = p + 1 /\ i \in 0..N
      BY <2>3, <2>6
    <3>2. cut[p] = smaller(x, n) /\ cut[i] = smaller(x + S, n)
      BY <3>1
    <3>3. seqs[i] = SubSeq(L, x + 1, smaller(x + S, n))
      <4>1. (p + 1) * S = x + S
        BY <3>1
      <4> HIDE DEF p, x
      <4>2. seqs[i] = page_of(L, p)
        BY <2>1, <3>1 DEF p
      <4>3. page_of(L, p) = SubSeq(L, x + 1, smaller(x + S, n))
        BY <4>1 DEF page_of, x
      <4> QED
        BY <4>2, <4>3
    <3>4. smaller(x, n) = x /\ x <= smaller(x + S, n)
      <4> HIDE DEF x, n
      <4> QED
        BY <1>1, <3>1 DEF smaller
    <3> HIDE DEF x, n, cut, seqs
    <3> QED
      BY <3>2, <3>3, <3>4
  <2>9. Len(seqs) = N /\ (N = 0 => seqs = <<>>)
    <3> HIDE DEF N
    <3> QED
      BY <2>3
  <2>10. SubSeq(L, 0 + 1, n) = L
    BY <1>1
  <2> HIDE DEF seqs, cut, N
  <2>12. \A c, q :
         /\ c \in [0..N -> 0..Len(L)] /\ Len(q) = N /\ (N = 0 => q = <<>>)
         /\ \A i \in 1..N : c[i - 1] <= c[i] /\ q[i] = SubSeq(L, c[i - 1] + 1, c[i])
         => FlattenSeq(q) = SubSeq(L, c[0] + 1, c[N])
    BY <1>1, <2>3, Flattened
  <2>11. FlattenSeq(seqs) = SubSeq(L, cut[0] + 1, cut[N])
    BY <2>7, <2>8, <2>9, <2>12, Zenon
  <2> QED
    BY <2>2, <2>7, <2>10, <2>11
<1> QED
  BY <1>2, <1>3

(* The item at position i of a list, as its page has it.                   *)
LEMMA ItemOnPage ==
    ASSUME NEW L \in Seq(Int), NEW i \in Nat, i < Len(L)
    PROVE  /\ (i % S) + 1 \in DOMAIN page_of(L, i \div S)
           /\ page_of(L, i \div S)[(i % S) + 1] = L[i + 1]
<1> DEFINE n == Len(L)
           q == i \div S
           r == i % S
           x == q * S
           b == smaller((q + 1) * S, n)
<1>1. /\ n \in Nat /\ q \in Nat /\ r \in Nat /\ r < S /\ i = x + r
      /\ S \in Nat
  BY Division, PageSize
<1>2. x \in Nat /\ (q + 1) * S = x + S
  <2> HIDE DEF q
  <2> QED
    BY <1>1, Multiples
<1>3. /\ page_of(L, q) \in Seq(Int)
      /\ x < n => Len(page_of(L, q)) = b - x
      /\ \A k \in 1..(b - x) : page_of(L, q)[k] = L[x + k]
  BY <1>1, PageOf
<1>4. b = smaller(x + S, n)
  BY <1>2
<1> HIDE DEF q, r, x, b, n
<1>5. b \in Nat /\ x < n /\ r + 1 \in 1..(b - x) /\ x + (r + 1) = i + 1
  <2>1. i < n
    BY DEF n
  <2> QED
    BY <1>1, <1>2, <1>4, <2>1 DEF smaller
<1>6. Len(page_of(L, q)) = b - x /\ r + 1 \in DOMAIN page_of(L, q)
  BY <1>3, <1>5
<1>7. page_of(L, q)[r + 1] = L[i + 1]
  BY <1>3, <1>5
<1> QED
  BY <1>6, <1>7 DEF q, r

(* read_index_page returns the window of the list, in either layout and    *)
(* over any page border.                                                   *)
LEMMA WindowIsRead ==
    ASSUME NEW ix, NEW L, Represents(ix, L), Len(L) <= (MaxPages + 1) * S,
           NEW start \in 0..Len(L), NEW limit \in Nat
    PROVE  read_index_page(ix, start, limit)
               = SubSeq(L, start + 1, smaller(start + limit, Len(L)))
<1> DEFINE n == Len(L)
           end == smaller(start + limit, n)
           at(i) == LET ids == IF ix.count = 0 THEN ix.legacy ELSE ix.pages[i \div S]
                        k == IF ix.count = 0 THEN i + 1 ELSE (i % S) + 1
                    IN  IF k \in DOMAIN ids THEN <<ids[k]>> ELSE <<>>
           N == end - start
           seqs == [k \in 1..N |-> at(start + k - 1)]
           cut == [k \in 0..N |-> start + k]
<1>1. /\ L \in Seq(Int) /\ n \in Nat /\ ix.count \in Nat
      /\ MaxPages \in Nat /\ S \in Nat /\ S >= 1
  BY PageSize DEF Represents, Index
<1>2. (IF ix.count = 0 THEN Len(ix.legacy) ELSE ix.count) = n
  BY <1>1 DEF Represents
<1>3. read_index_page(ix, start, limit) = FlattenSeq(seqs)
  BY <1>2, Zenon DEF read_index_page, S
<1>4. /\ start \in Nat /\ start <= n /\ end \in Nat /\ start <= end /\ end <= n
      /\ N \in Nat
  BY <1>1 DEF smaller
<1>5. ASSUME NEW i \in Nat, i < n PROVE at(i) = <<L[i + 1]>>
  <2>1. CASE ix.count = 0
    <3>1. ix.legacy = L
      BY <1>1, <2>1 DEF Represents
    <3>2. i + 1 \in DOMAIN L
      BY <1>1, <1>5
    <3> QED
      BY <2>1, <3>1, <3>2
  <2>2. CASE ix.count # 0
    <3>1. \A p \in 0..MaxPages : ix.pages[p] = page_of(L, p)
      BY <1>1, <2>2 DEF Represents
    <3>2. i \div S \in 0..MaxPages
      <4> DEFINE q == i \div S
                 x == q * S
                 r == i % S
                 cap == (MaxPages + 1) * S
      <4>1. q \in Nat /\ r \in Nat /\ i = x + r
        BY Division
      <4>2. x \in Nat /\ cap \in Nat /\ (MaxPages + 1 <= q => cap <= x)
        <5> HIDE DEF q
        <5> QED
          BY <1>1, <4>1, Multiples
      <4> HIDE DEF q, x, r, cap
      <4>3. n <= cap
        BY DEF cap
      <4>4. ~(MaxPages + 1 <= q)
        BY <1>1, <1>5, <4>1, <4>2, <4>3
      <4>5. q \in 0..MaxPages
        BY <1>1, <4>1, <4>4
      <4> QED
        BY <4>5 DEF q
    <3>3. ix.pages[i \div S] = page_of(L, i \div S)
      BY <3>1, <3>2, Zenon
    <3>4. /\ (i % S) + 1 \in DOMAIN page_of(L, i \div S)
          /\ page_of(L, i \div S)[(i % S) + 1] = L[i + 1]
      BY <1>1, <1>5, ItemOnPage
    <3> QED
      BY <2>2, <3>3, <3>4, Zenon
  <2> QED
    BY <2>1, <2>2
<1> HIDE DEF at, end
<1>6. ASSUME NEW k \in 1..N
      PROVE  /\ cut[k - 1] <= cut[k]
             /\ seqs[k] = SubSeq(L, cut[k - 1] + 1, cut[k])
  <2> DEFINE i == start + k - 1
  <2>1. /\ k - 1 \in 0..N /\ k \in 0..N /\ i \in Nat /\ i < n /\ i + 1 = start + k
        /\ start + (k - 1) = i
    BY <1>4, <1>6
  <2>2. cut[k - 1] = i /\ cut[k] = i + 1 /\ seqs[k] = at(i)
    BY <2>1
  <2>3. SubSeq(L, i + 1, i + 1) = <<L[i + 1]>>
    <3> HIDE DEF i, n
    <3>1. i + 1 <= Len(L) /\ i + 1 \in Nat /\ (i + 1) - i = 1
      BY <1>1, <2>1 DEF n
    <3>2. /\ SubSeq(L, i + 1, i + 1) \in Seq(Int)
          /\ Len(SubSeq(L, i + 1, i + 1)) = IF i <= i + 1 THEN (i + 1) - i ELSE 0
          /\ \A j \in 1..((i + 1) - i) : SubSeq(L, i + 1, i + 1)[j] = L[i + j]
      BY <1>1, <2>1, <3>1, Pieces
    <3> DEFINE s == SubSeq(L, i + 1, i + 1)
    <3> HIDE DEF s
    <3>5. /\ s \in Seq(Int) /\ Len(s) = IF i <= i + 1 THEN (i + 1) - i ELSE 0
          /\ \A j \in 1..((i + 1) - i) : s[j] = L[i + j]
      BY <3>2 DEF s
    <3>6. i <= i + 1 /\ 1 \in 1..((i + 1) - i)
      BY <2>1, <3>1
    <3>3. s \in Seq(Int) /\ Len(s) = 1 /\ s[1] = L[i + 1]
      BY <3>1, <3>5, <3>6
    <3>4. s = <<s[1]>>
      BY <3>3
    <3> QED
      BY <3>3, <3>4 DEF s
  <2> HIDE DEF i
  <2>4. seqs[k] = <<L[i + 1]>>
    BY <1>5, <2>1, <2>2, Zenon
  <2> HIDE DEF cut, seqs
  <2> QED
    BY <2>1, <2>2, <2>3, <2>4
<1> HIDE DEF N
<1>7. cut \in [0..N -> 0..n] /\ cut[0] = start /\ cut[N] = end
  BY <1>4 DEF N
<1>8. Len(seqs) = N /\ (N = 0 => seqs = <<>>)
  BY <1>4
<1> HIDE DEF cut, seqs
<1>10. \A c, q :
         /\ c \in [0..N -> 0..Len(L)] /\ Len(q) = N /\ (N = 0 => q = <<>>)
         /\ \A i \in 1..N : c[i - 1] <= c[i] /\ q[i] = SubSeq(L, c[i - 1] + 1, c[i])
         => FlattenSeq(q) = SubSeq(L, c[0] + 1, c[N])
  BY <1>1, <1>4, Flattened
<1>9. FlattenSeq(seqs) = SubSeq(L, cut[0] + 1, cut[N])
  BY <1>6, <1>7, <1>8, <1>10, Zenon
<1> QED
  BY <1>3, <1>7, <1>9 DEF end

-----------------------------------------------------------------------------
(* What the operations do to it: who sells an escrow, who has bought it.   *)

(* The escrow is sold and bought by whom it was.                           *)
Unlisted(id) ==
    LET e == escrow[id]
        f == escrow'[id]
    IN  /\ f.payees = e.payees /\ f.buyer = e.buyer /\ f.funded_at = e.funded_at
        /\ f.state \in {"Absent", "Pending"} => e.state \in {"Absent", "Pending"}

(* No escrow is created, and none gets a buyer.                            *)
ListsStay == next_id' = next_id /\ \A id \in Ids : Unlisted(id)

LEMMA UnlistedWrite ==
    ASSUME TypeOK, NEW id \in Ids, NEW f, save_escrow(id, f),
           f.payees = escrow[id].payees, f.buyer = escrow[id].buyer,
           f.funded_at = escrow[id].funded_at,
           \/ f.state = escrow[id].state
           \/ f.state \notin {"Absent", "Pending"},
           next_id' = next_id
    PROVE  ListsStay
<1>1. /\ escrow'[id] = f
      /\ \A other \in Ids \ {id} : escrow'[other] = escrow[other]
  BY Entries
<1> QED
  BY <1>1 DEF ListsStay, Unlisted

LEMMA StateWrite ==
    ASSUME TypeOK, NEW id \in Ids, NEW s, move_to(id, s),
           s \notin {"Absent", "Pending"}, next_id' = next_id
    PROVE  ListsStay
<1> DEFINE f == [escrow[id] EXCEPT !.state = s]
<1>1. escrow[id] \in EscrowRecord
  BY Entries
<1>2. /\ f.state = s /\ f.payees = escrow[id].payees /\ f.buyer = escrow[id].buyer
      /\ f.funded_at = escrow[id].funded_at
  BY <1>1 DEF EscrowRecord
<1>3. save_escrow(id, f)
  BY DEF move_to
<1> HIDE DEF f
<1> QED
  BY <1>2, <1>3, UnlistedWrite

LEMMA NothingWritten ==
    ASSUME escrow' = escrow, next_id' = next_id
    PROVE  ListsStay
BY DEF ListsStay, Unlisted

LEMMA DecisionUnlisted ==
    ASSUME TypeOK, NEW id \in Ids, NEW caller, NEW r, NEW v, NEW charge_fees,
           execute_resolution_transition(id, caller, r, v, charge_fees)
    PROVE  ListsStay
<1> DEFINE e == escrow[id]
           less(rest) == [e EXCEPT !.state = "PendingFinalization", !.amount = rest]
<1>1. next_id' = next_id
  BY Zenon DEF execute_resolution_transition, creation_vars
<1>2. \/ move_to(id, "PendingFinalization")
      \/ \E rest : save_escrow(id, less(rest))
  BY Zenon DEF execute_resolution_transition
<1>3. ASSUME NEW rest, save_escrow(id, less(rest)) PROVE ListsStay
  <2>1. e \in EscrowRecord
    BY Entries
  <2>2. /\ less(rest).state = "PendingFinalization" /\ less(rest).payees = e.payees
        /\ less(rest).buyer = e.buyer /\ less(rest).funded_at = e.funded_at
    BY <2>1 DEF EscrowRecord
  <2> HIDE DEF less
  <2> QED
    BY <1>1, <1>3, <2>2, UnlistedWrite
<1> HIDE DEF less
<1> QED
  BY <1>1, <1>2, <1>3, StateWrite

(* Creation and funding apart, no operation of the trade lists an escrow.  *)
LEMMA TradeUnlisted ==
    ASSUME TypeOK, NEW id \in Ids, NEW caller \in Address,
           \/ auto_cancel_pending(id)
           \/ mutual_cancel(id)
           \/ co_signed_release(id)
           \/ auto_release(id)
           \/ cancel_escrow(caller, id)
           \/ mark_shipped(caller, id)
           \/ propose_record_delivery(caller, id)
           \/ cancel_delivery_proposal(caller, id)
           \/ reject_delivery_proposal(caller, id)
           \/ record_delivery(caller, id)
           \/ \E waive \in BOOLEAN : confirm_delivery(caller, id, waive)
           \/ request_refund(caller, id)
           \/ approve_refund(caller, id)
           \/ reclaim_expired(caller, id)
           \/ \E new_resolver \in Address : rotate_resolver(caller, id, new_resolver)
    PROVE  ListsStay
<1> DEFINE e == escrow[id]
<1>1. e \in EscrowRecord
  BY Entries
<1>2. CASE \/ auto_cancel_pending(id)
           \/ mutual_cancel(id)
           \/ co_signed_release(id)
           \/ auto_release(id)
           \/ cancel_escrow(caller, id)
           \/ \E waive \in BOOLEAN : confirm_delivery(caller, id, waive)
           \/ request_refund(caller, id)
           \/ approve_refund(caller, id)
           \/ reclaim_expired(caller, id)
  <2>1. /\ next_id' = next_id
        /\ \E s \in {"Canceled", "Completed", "Refunded", "RefundRequested", "Expired"} :
              move_to(id, s)
    BY <1>2, Zenon DEF auto_cancel_pending, mutual_cancel, co_signed_release,
         auto_release, settle_escrow_to_payees, cancel_escrow, confirm_delivery,
         request_refund, approve_refund, reclaim_expired, creation_vars
  <2> QED
    BY <2>1, StateWrite
<1>3. CASE \/ propose_record_delivery(caller, id)
           \/ cancel_delivery_proposal(caller, id)
           \/ reject_delivery_proposal(caller, id)
  <2>1. escrow' = escrow /\ next_id' = next_id
    BY <1>3 DEF propose_record_delivery, cancel_delivery_proposal,
         reject_delivery_proposal, drop_delivery_proposal, creation_vars
  <2> QED
    BY <2>1, NothingWritten
<1>4. CASE mark_shipped(caller, id) \/ record_delivery(caller, id)
  <2> DEFINE shipped == [e EXCEPT !.state = "Shipped", !.shipped_at = now]
             delivered == [e EXCEPT !.delivered_at = now]
  <2>1. /\ next_id' = next_id
        /\ save_escrow(id, shipped) \/ save_escrow(id, delivered)
    BY <1>4 DEF mark_shipped, record_delivery, creation_vars
  <2>2. /\ shipped.payees = e.payees /\ shipped.buyer = e.buyer
        /\ shipped.funded_at = e.funded_at /\ shipped.state = "Shipped"
        /\ delivered.payees = e.payees /\ delivered.buyer = e.buyer
        /\ delivered.funded_at = e.funded_at /\ delivered.state = e.state
    BY <1>1 DEF EscrowRecord
  <2> HIDE DEF shipped, delivered
  <2> QED
    BY <2>1, <2>2, UnlistedWrite
<1>5. CASE \E new_resolver \in Address : rotate_resolver(caller, id, new_resolver)
  <2>1. PICK new \in Address : rotate_resolver(caller, id, new)
    BY <1>5
  <2> DEFINE f == [e EXCEPT !.resolvers.members = <<new>>]
  <2>2. next_id' = next_id /\ save_escrow(id, f)
    BY <2>1 DEF rotate_resolver, creation_vars
  <2>3. /\ f.payees = e.payees /\ f.buyer = e.buyer
        /\ f.funded_at = e.funded_at /\ f.state = e.state
    BY <1>1 DEF EscrowRecord
  <2> HIDE DEF f
  <2> QED
    BY <2>2, <2>3, UnlistedWrite
<1> QED
  BY <1>2, <1>3, <1>4, <1>5

LEMMA DisputeUnlisted ==
    ASSUME TypeOK, Dispute \/ Rescue
    PROVE  ListsStay
<1>1. ASSUME NEW id \in Ids, NEW caller \in Address,
             \/ raise_dispute(caller, id)
             \/ appeal_dispute(caller, id)
             \/ finalize_dispute(id)
             \/ cancel_pending_finalization(caller, id)
             \/ emergency_drain(id)
             \/ recovery_withdraw(caller, id)
      PROVE  ListsStay
  <2>1. /\ next_id' = next_id
        /\ \E s \in {"Disputed", "Completed", "Refunded"} : move_to(id, s)
    BY <1>1, Zenon DEF raise_dispute, appeal_dispute, finalize_dispute,
         cancel_pending_finalization, emergency_drain, recovery_withdraw,
         refund_from, creation_vars
  <2> QED
    BY <2>1, StateWrite
<1>2. ASSUME NEW id \in Ids, NEW caller \in Address,
             \/ resolve_deadlocked_dispute(id)
             \/ claim_dispute_timeout(caller, id)
             \/ \E r \in Resolution : resolve_or_vote(caller, id, r)
      PROVE  ListsStay
  <2>1. \/ escrow' = escrow /\ next_id' = next_id
        \/ \E who, r, v, charge_fees :
              execute_resolution_transition(id, who, r, v, charge_fees)
    BY <1>2, Zenon DEF resolve_deadlocked_dispute, claim_dispute_timeout,
         resolve_or_vote, creation_vars
  <2> QED
    BY <2>1, NothingWritten, DecisionUnlisted, Zenon
<1> QED
  BY <1>1, <1>2, RolesAssumption, Zenon DEF Dispute, Rescue

-----------------------------------------------------------------------------
(* What a transaction lists.                                               *)

Listed(t) ==
    /\ NewEscrow(t)
    /\ \/ list_sale(primary_payee(t), next_id)
       \/ list_basket_sale(primary_payee(t), next_id)
    /\ buyer_index' = buyer_index

Bought(buyer, id) ==
    fund(buyer, id) /\ list_purchase(buyer, id) /\ vendor_index' = vendor_index

IndexesStay ==
    ListsStay /\ vendor_index' = vendor_index /\ buyer_index' = buyer_index

LEMMA PublishedOnly ==
    /\ \A es : publish(es) => vendor_index' = vendor_index /\ buyer_index' = buyer_index
    /\ \A topic, id, s : moved(topic, id, s) =>
          vendor_index' = vendor_index /\ buyer_index' = buyer_index
BY DEF publish, moved, book_vars

LEMMA TransactionLists ==
    ASSUME TypeOK, Transaction
    PROVE  \/ \E t \in Terms : Listed(t)
           \/ \E id \in Ids, buyer \in Address : Bought(buyer, id)
           \/ IndexesStay
<1> DEFINE AsListed == vendor_index' = vendor_index /\ buyer_index' = buyer_index
<1>1. ASSUME NEW t \in Terms, record_creation(t) \/ record_basket_creation(t)
      PROVE  Listed(t)
  <2>1. /\ \/ create_escrow(t)
           \/ create_escrow_with_expiration(t)
           \/ create_escrow_multi(t)
           \/ create_escrow_with_fallback(t)
           \/ create_basket_escrow(t)
        /\ \/ list_sale(primary_payee(t), next_id)
           \/ list_basket_sale(primary_payee(t), next_id)
        /\ buyer_index' = buyer_index
    BY <1>1, Zenon DEF record_creation, record_basket_creation
  <2>2. NewEscrow(t)
    BY <2>1, Zenon
       DEF create_escrow, create_escrow_with_expiration, create_escrow_multi,
         create_escrow_with_fallback, create_basket_escrow,
         create_escrow_internal, create_with_resolver_set
  <2> QED
    BY <2>1, <2>2 DEF Listed
<1>2. ASSUME NEW id \in Ids, NEW caller \in Address, record_funding(caller, id)
      PROVE  Bought(caller, id)
  BY <1>2, Zenon DEF record_funding, fund_escrow, fund_basket_escrow, Bought
<1>3. ASSUME NEW id \in Ids, NEW caller \in Address,
             \/ record_cancellation(id) \/ record_auto_cancellation(id)
             \/ record_completion(id) \/ record_auto_release(id)
             \/ record_shipping(caller, id) \/ record_proposal(caller, id)
             \/ record_refund(caller, id) \/ record_reclaim(caller, id)
             \/ \E new_resolver \in Address : record_rotation(caller, id, new_resolver)
      PROVE  IndexesStay
  <2>1. AsListed
    BY <1>3, PublishedOnly, Zenon
       DEF record_cancellation, record_auto_cancellation, record_completion,
           record_auto_release, record_shipping, record_proposal, record_refund,
           record_reclaim, record_rotation
  <2>2. \E who \in Address :
           \/ auto_cancel_pending(id)
           \/ mutual_cancel(id)
           \/ co_signed_release(id)
           \/ auto_release(id)
           \/ cancel_escrow(who, id)
           \/ mark_shipped(who, id)
           \/ propose_record_delivery(who, id)
           \/ cancel_delivery_proposal(who, id)
           \/ reject_delivery_proposal(who, id)
           \/ record_delivery(who, id)
           \/ \E waive \in BOOLEAN : confirm_delivery(who, id, waive)
           \/ request_refund(who, id)
           \/ approve_refund(who, id)
           \/ reclaim_expired(who, id)
           \/ \E new_resolver \in Address : rotate_resolver(who, id, new_resolver)
    BY <1>3, Zenon
       DEF record_cancellation, record_auto_cancellation, record_completion,
           record_auto_release, record_shipping, record_proposal, record_refund,
           record_reclaim, record_rotation
  <2>3. ListsStay
    BY <2>2, TradeUnlisted, Zenon
  <2> QED
    BY <2>1, <2>3 DEF IndexesStay
<1>4. ASSUME NEW id \in Ids, NEW caller \in Address,
             \/ record_forced_decision(id) \/ record_finalization(id)
             \/ record_drain(id)
             \/ record_appeal(caller, id) \/ record_override(caller, id)
             \/ record_recovery(caller, id)
             \/ record_dispute(caller, id)
             \/ \E r \in Resolution : record_vote(caller, id, r)
      PROVE  IndexesStay
  <2>1. AsListed
    BY <1>4, PublishedOnly, Zenon
       DEF record_forced_decision, record_finalization, record_drain,
           record_appeal, record_override, record_recovery, record_dispute,
           record_vote
  <2>2. Dispute \/ Rescue
    BY <1>4, Zenon
       DEF record_forced_decision, record_finalization, record_drain,
           record_appeal, record_override, record_recovery, record_dispute,
           record_vote, Dispute, Rescue
  <2> QED
    BY <2>1, <2>2, DisputeUnlisted DEF IndexesStay
<1>5. ASSUME NEW flag \in BOOLEAN, record_pause(flag) PROVE IndexesStay
  <2>1. AsListed
    BY <1>5, PublishedOnly, Zenon DEF record_pause
  <2>2. escrow' = escrow /\ next_id' = next_id
    BY <1>5, Zenon DEF record_pause, set_paused, configure
  <2> QED
    BY <2>1, <2>2, NothingWritten DEF IndexesStay
<1>5a. ASSUME record_token_allowlist PROVE IndexesStay
  <2>1. AsListed
    BY <1>5a, PublishedOnly, Zenon DEF record_token_allowlist
  <2>2. escrow' = escrow /\ next_id' = next_id
    BY <1>5a, Zenon DEF record_token_allowlist, vars
  <2> QED
    BY <2>1, <2>2, NothingWritten DEF IndexesStay
<1>6. ASSUME NEW id, NEW sender, post_message(sender, id) PROVE IndexesStay
  <2>1. AsListed /\ escrow' = escrow /\ next_id' = next_id
    BY <1>6, Zenon DEF post_message, vars
  <2> QED
    BY <2>1, NothingWritten DEF IndexesStay
<1>7. ASSUME record_upgrade PROVE IndexesStay
  <2>1. AsListed /\ escrow' = escrow /\ next_id' = next_id
    BY <1>7 DEF record_upgrade, vars, book_vars
  <2> QED
    BY <2>1, NothingWritten DEF IndexesStay
<1> HIDE DEF AsListed
<1>8. Admin \in Address
  BY RolesAssumption
<1> QED
  BY <1>1, <1>2, <1>3, <1>4, <1>5, <1>5a, <1>6, <1>7, <1>8, Zenon DEF Transaction

(* Beside the contract's transactions nothing is listed.                   *)
LEMMA StepLists ==
    ASSUME TypeOK, [IndexerNext]_all_vars
    PROVE  /\ \/ \E t \in Terms : Listed(t)
              \/ \E id \in Ids, buyer \in Address : Bought(buyer, id)
              \/ IndexesStay
           /\ now' = now \/ (now' = now + 1 /\ now < MaxTime)
<1>1. ASSUME Transaction
      PROVE  now' = now
  <2>1. \/ Publishes
        \/ \E id \in Ids \cup OldIds, sender \in Address : post_message(sender, id)
    BY <1>1, TransactionPublishes
  <2> QED
    BY <2>1, Zenon DEF Publishes, post_message, vars
<1>2. ASSUME record_tick
      PROVE  IndexesStay /\ now' = now + 1 /\ now < MaxTime
  <2>1. /\ escrow' = escrow /\ next_id' = next_id /\ now' = now + 1 /\ now < MaxTime
        /\ vendor_index' = vendor_index /\ buyer_index' = buyer_index
    BY <1>2 DEF record_tick, Tick, record_vars, book_vars
  <2> QED
    BY <2>1, NothingWritten DEF IndexesStay
<1>3. ASSUME UNCHANGED <<vars, record_vars>>
      PROVE  IndexesStay /\ now' = now
  <2>1. /\ escrow' = escrow /\ next_id' = next_id /\ now' = now
        /\ vendor_index' = vendor_index /\ buyer_index' = buyer_index
    BY <1>3 DEF vars, record_vars, book_vars
  <2> QED
    BY <2>1, NothingWritten DEF IndexesStay
<1>4. \/ RecordsNext
      \/ UNCHANGED <<vars, record_vars>>
  BY Zenon DEF IndexerNext, poll, replay, ingest_event, give_up, all_vars
<1> QED
  BY <1>1, <1>2, <1>3, <1>4, TransactionLists, Zenon DEF RecordsNext

-----------------------------------------------------------------------------
(* Lists.                                                                  *)

InOrder(L) == \A i, j \in DOMAIN L : i < j => L[i] <= L[j]

(* One id more at the end of a list.                                       *)
LEMMA OneMore ==
    ASSUME NEW L \in Seq(Int), NEW x \in Int
    PROVE  LET M == Append(L, x)
           IN  /\ M \in Seq(Int) /\ Len(M) = Len(L) + 1 /\ Len(L) \in Nat
               /\ Range(M) = Range(L) \cup {x}
               /\ \A P \in Seq(Int) : IsPrefix(P, L) => IsPrefix(P, M)
               /\ InOrder(L) /\ (\A y \in Range(L) : y <= x) => InOrder(M)
               /\ IsInjective(L) /\ x \notin Range(L) => IsInjective(M)
<1> DEFINE M == Append(L, x)
           n == Len(L)
<1>1. /\ M \in Seq(Int) /\ Len(M) = n + 1 /\ n \in Nat
      /\ DOMAIN L = 1..n /\ DOMAIN M = 1..(n + 1)
      /\ \A i \in 1..n : M[i] = L[i]
      /\ M[n + 1] = x
      /\ \A i \in 1..n : L[i] \in Int
  OBVIOUS
<1>2. ASSUME NEW P \in Seq(Int), IsPrefix(P, L) PROVE IsPrefix(P, M)
  <2>1. Len(P) \in Nat /\ Len(P) <= n /\ SubSeq(P, 1, Len(P)) = SubSeq(L, 1, Len(P))
    BY <1>2 DEF IsPrefix
  <2>2. SubSeq(M, 0 + 1, Len(P)) = SubSeq(L, 0 + 1, Len(P))
    BY <2>1, AppendPieces
  <2>3. 0 + 1 = 1
    OBVIOUS
  <2>4. Len(P) <= Len(M)
    BY <1>1, <2>1
  <2> HIDE DEF M
  <2> QED
    BY <2>1, <2>2, <2>3, <2>4 DEF IsPrefix
<1> HIDE DEF M, n
<1>3. Range(M) = Range(L) \cup {x}
  <2>1. 1..(n + 1) = (1..n) \cup {n + 1}
    BY <1>1
  <2> QED
    BY <1>1, <2>1 DEF Range
<1>4. ASSUME InOrder(L), \A y \in Range(L) : y <= x PROVE InOrder(M)
  <2>1. \A i \in 1..n : L[i] <= x
    BY <1>1, <1>4 DEF Range
  <2>2. \A i, j \in 1..n : i < j => L[i] <= L[j]
    BY <1>1, <1>4 DEF InOrder
  <2>3. SUFFICES ASSUME NEW i \in 1..(n + 1), NEW j \in 1..(n + 1), i < j
                 PROVE  M[i] <= M[j]
    BY <1>1 DEF InOrder
  <2>4. i \in 1..n /\ (j \in 1..n \/ j = n + 1)
    BY <1>1, <2>3
  <2> QED
    BY <1>1, <2>1, <2>2, <2>3, <2>4
<1>5. ASSUME IsInjective(L), x \notin Range(L) PROVE IsInjective(M)
  <2>1. \A i \in 1..n : L[i] # x
    BY <1>1, <1>5 DEF Range
  <2>2. \A i, j \in 1..n : L[i] = L[j] => i = j
    BY <1>1, <1>5 DEF IsInjective
  <2>3. SUFFICES ASSUME NEW i \in 1..(n + 1), NEW j \in 1..(n + 1), M[i] = M[j]
                 PROVE  i = j
    BY <1>1 DEF IsInjective
  <2>4. i \in 1..n \/ i = n + 1
    BY <1>1
  <2>5. j \in 1..n \/ j = n + 1
    BY <1>1
  <2> QED
    BY <1>1, <2>1, <2>2, <2>3, <2>4, <2>5
<1> QED
  BY <1>1, <1>2, <1>3, <1>4, <1>5, Zenon DEF M, n

-----------------------------------------------------------------------------
(* What the indexes hold.                                                  *)

SoldBy(a) == {id \in 1..(next_id - 1) : primary_payee(escrow[id]) = a}
BoughtBy(a) ==
    {id \in 1..(next_id - 1) : escrow[id].buyer = a /\ escrow[id].funded_at > 0}

SalesList(a, L) ==
    /\ Represents(vendor_index[a], L)
    /\ IsPrefix(InheritedSales[a], L)
    /\ Range(L) = Range(InheritedSales[a]) \cup SoldBy(a)
    /\ InOrder(L)
    /\ Len(L) <= Len(InheritedSales[a]) + 2 * (next_id - 1)

PurchaseList(a, L) ==
    /\ Represents(buyer_index[a], L)
    /\ IsPrefix(InheritedPurchases[a], L)
    /\ Range(L) = Range(InheritedPurchases[a]) \cup BoughtBy(a)
    /\ IsInjective(L)
    /\ Len(L) <= Len(InheritedPurchases[a]) + Cardinality(BoughtBy(a))

(* The date of the funding says whether there was one.                     *)
DatedInv ==
    /\ now \in 1..MaxTime
    /\ \A id \in Ids :
          escrow[id].state \in {"Absent", "Pending"} => escrow[id].funded_at = 0

IndexesInv ==
    /\ vendor_index \in [Address -> Index] /\ buyer_index \in [Address -> Index]
    /\ DatedInv
    /\ \A a \in Address : (\E L : SalesList(a, L)) /\ (\E L : PurchaseList(a, L))

LEMMA Inherited ==
    ASSUME NEW a \in Address
    PROVE  LET sales == InheritedSales[a]
               purchases == InheritedPurchases[a]
           IN  /\ sales \in Seq(Int) /\ purchases \in Seq(Int)
               /\ \A id \in Range(sales) \cup Range(purchases) : id <= 0
               /\ InOrder(sales)
               /\ IsInjective(purchases)
               /\ Len(sales) + 2 * MaxEscrows <= (MaxPages + 1) * S
               /\ Len(purchases) + MaxEscrows <= (MaxPages + 1) * S
BY InheritedAssumption, Zenon DEF InOrder, S

(* As many as there are escrows, at most.                                  *)
LEMMA BoughtBound ==
    ASSUME TypeOK, NEW a
    PROVE  /\ IsFiniteSet(BoughtBy(a)) /\ BoughtBy(a) \subseteq Ids
           /\ Cardinality(BoughtBy(a)) \in 0..MaxEscrows
           /\ \A id \in Ids \ BoughtBy(a) : Cardinality(BoughtBy(a)) < MaxEscrows
<1>1. MaxEscrows \in Nat /\ next_id \in 1..(MaxEscrows + 1)
  BY BoundsAssumption DEF TypeOK
<1>2. BoughtBy(a) \subseteq Ids
  BY <1>1 DEF BoughtBy, Ids
<1>3. IsFiniteSet(Ids) /\ Cardinality(Ids) = MaxEscrows
  BY <1>1, FS_Interval DEF Ids
<1>4. /\ IsFiniteSet(BoughtBy(a)) /\ Cardinality(BoughtBy(a)) <= MaxEscrows
      /\ Cardinality(BoughtBy(a)) \in Nat
      /\ Cardinality(BoughtBy(a)) = MaxEscrows => BoughtBy(a) = Ids
  BY <1>2, <1>3, FS_Subset, FS_CardinalityType
<1> QED
  BY <1>1, <1>2, <1>4

-----------------------------------------------------------------------------
(* New entries.                                                            *)

(* A sale more in the list of a seller.                                    *)
LEMMA SaleAppended ==
    ASSUME NEW ix, NEW L, Represents(ix, L), NEW id \in Int,
           InOrder(L), \A y \in Range(L) : y <= id,
           Len(L) < (MaxPages + 1) * S
    PROVE  LET M == Append(L, id)
           IN  /\ Represents(append_index(ix, id), M)
               /\ append_index(ix, id) \in Index
               /\ Range(M) = Range(L) \cup {id} /\ InOrder(M)
               /\ \A y \in Range(M) : y <= id
               /\ Len(M) = Len(L) + 1 /\ Len(L) \in Nat
               /\ \A P \in Seq(Int) : IsPrefix(P, L) => IsPrefix(P, M)
<1>1. L \in Seq(Int)
  BY DEF Represents
<1>2. Represents(append_index(ix, id), Append(L, id))
  BY Appended
<1>3. append_index(ix, id) \in Index
  BY <1>2 DEF Represents
<1>4. /\ Range(Append(L, id)) = Range(L) \cup {id} /\ InOrder(Append(L, id))
      /\ Len(Append(L, id)) = Len(L) + 1 /\ Len(L) \in Nat
      /\ \A P \in Seq(Int) : IsPrefix(P, L) => IsPrefix(P, Append(L, id))
  BY <1>1, OneMore
<1>5. \A y \in Range(Append(L, id)) : y <= id
  BY <1>4
<1> QED
  BY <1>2, <1>3, <1>4, <1>5, Zenon

(* The basket's creator writes the whole list with the id, then the id     *)
(* again.                                                                  *)
LEMMA BasketAppended ==
    ASSUME NEW ix, NEW L, Represents(ix, L), NEW id \in Int,
           InOrder(L), \A y \in Range(L) : y <= id,
           Len(L) + 1 < (MaxPages + 1) * S
    PROVE  LET new == append_index(write_index(ix, Append(read_index(ix), id)), id)
           IN  \E M : /\ Represents(new, M) /\ new \in Index
                      /\ Range(M) = Range(L) \cup {id} /\ InOrder(M)
                      /\ Len(M) = Len(L) + 2
                      /\ \A P \in Seq(Int) : IsPrefix(P, L) => IsPrefix(P, M)
<1> DEFINE K == Append(L, id)
           w == write_index(ix, K)
           M == Append(K, id)
<1>1. L \in Seq(Int) /\ Len(L) \in Nat /\ ix \in Index
  BY DEF Represents
<1>2. (MaxPages + 1) * S \in Nat
  BY PageSize
<1>3. read_index(ix) = L
  BY <1>1, <1>2, IndexIsRead
<1>4. /\ K \in Seq(Int) /\ K # <<>> /\ Len(K) = Len(L) + 1
      /\ Range(K) = Range(L) \cup {id} /\ InOrder(K)
      /\ \A P \in Seq(Int) : IsPrefix(P, L) => IsPrefix(P, K)
  <2>1. /\ K \in Seq(Int) /\ Len(K) = Len(L) + 1
        /\ Range(K) = Range(L) \cup {id} /\ InOrder(K)
        /\ \A P \in Seq(Int) : IsPrefix(P, L) => IsPrefix(P, K)
    BY <1>1, OneMore
  <2>2. K # <<>>
    BY <1>1
  <2> QED
    BY <2>1, <2>2
<1>5. \A p \in 0..MaxPages : p >= page_count(ix.count) => ix.pages[p] = <<>>
  BY PagesEnd
<1> HIDE DEF K
<1>6. Represents(w, K)
  BY <1>1, <1>4, <1>5, Written
<1> HIDE DEF w
<1>7. (\A y \in Range(K) : y <= id) /\ Len(K) < (MaxPages + 1) * S
  BY <1>1, <1>2, <1>4
<1>8. /\ Represents(append_index(w, id), M)
      /\ append_index(w, id) \in Index
      /\ Range(M) = Range(K) \cup {id} /\ InOrder(M)
      /\ Len(M) = Len(K) + 1
      /\ \A P \in Seq(Int) : IsPrefix(P, K) => IsPrefix(P, M)
  BY <1>4, <1>6, <1>7, SaleAppended
<1>9. append_index(write_index(ix, Append(read_index(ix), id)), id) = append_index(w, id)
  BY <1>3 DEF w, K
<1> HIDE DEF M
<1>10. Range(M) = Range(L) \cup {id} /\ Len(M) = Len(L) + 2
  BY <1>1, <1>4, <1>8
<1>11. \A P \in Seq(Int) : IsPrefix(P, L) => IsPrefix(P, M)
  BY <1>4, <1>8
<1> QED
  BY <1>8, <1>9, <1>10, <1>11, Zenon

-----------------------------------------------------------------------------
(* What leaves the lists alone.                                            *)

(* A list stays true when its index and what it lists are as they were.    *)
LEMMA SalesKept ==
    ASSUME NEW a, NEW L, SalesList(a, L), vendor_index'[a] = vendor_index[a],
           SoldBy(a)' = SoldBy(a), next_id \in Nat, next_id' \in Nat, next_id <= next_id',
           InheritedSales[a] \in Seq(Int)
    PROVE  SalesList(a, L)'
<1>1. Len(L) \in Nat /\ Len(InheritedSales[a]) \in Nat
  BY DEF SalesList, Represents
<1>2. \A l, m, p, q \in Nat :
         l <= m + 2 * (p - 1) /\ p <= q => l <= m + 2 * (q - 1)
  BY SMT
<1>3. Len(L) <= Len(InheritedSales[a]) + 2 * (next_id - 1)
  BY DEF SalesList
<1>4. Len(L) <= Len(InheritedSales[a]) + 2 * (next_id' - 1)
  BY <1>1, <1>2, <1>3, Zenon
<1> QED
  BY <1>4 DEF SalesList

LEMMA PurchasesKept ==
    ASSUME NEW a, NEW L, PurchaseList(a, L), buyer_index'[a] = buyer_index[a],
           BoughtBy(a)' = BoughtBy(a)
    PROVE  PurchaseList(a, L)'
BY DEF PurchaseList

LEMMA ListsKept ==
    ASSUME TypeOK, ListsStay, NEW a
    PROVE  SoldBy(a)' = SoldBy(a) /\ BoughtBy(a)' = BoughtBy(a)
<1>1. next_id' = next_id /\ \A id \in 1..(next_id - 1) : id \in Ids
  BY BoundsAssumption DEF ListsStay, TypeOK, Ids
<1>2. \A id \in 1..(next_id - 1) :
         /\ primary_payee(escrow'[id]) = primary_payee(escrow[id])
         /\ escrow'[id].buyer = escrow[id].buyer
         /\ escrow'[id].funded_at = escrow[id].funded_at
  BY <1>1 DEF ListsStay, Unlisted, primary_payee
<1> QED
  BY <1>1, <1>2 DEF SoldBy, BoughtBy

LEMMA QuietIndexes ==
    ASSUME TypeOK, IndexesInv, IndexesStay, now' \in 1..MaxTime
    PROVE  IndexesInv'
<1>1. next_id' = next_id /\ next_id \in Nat
  BY DEF IndexesStay, ListsStay, TypeOK
<1>2. ASSUME NEW a \in Address
      PROVE  (\E L : SalesList(a, L)') /\ (\E L : PurchaseList(a, L)')
  <2>1. PICK L : SalesList(a, L)
    BY DEF IndexesInv
  <2>2. PICK M : PurchaseList(a, M)
    BY DEF IndexesInv
  <2>3. SoldBy(a)' = SoldBy(a) /\ BoughtBy(a)' = BoughtBy(a)
    BY ListsKept DEF IndexesStay
  <2>4. SalesList(a, L)'
    BY <1>1, <2>1, <2>3, Inherited, SalesKept DEF IndexesStay
  <2>5. PurchaseList(a, M)'
    BY <2>2, <2>3, PurchasesKept DEF IndexesStay
  <2> QED
    BY <2>4, <2>5
<1>3. DatedInv'
  BY DEF IndexesInv, DatedInv, IndexesStay, ListsStay, Unlisted
<1>4. vendor_index' \in [Address -> Index] /\ buyer_index' \in [Address -> Index]
  BY DEF IndexesInv, IndexesStay
<1> QED
  BY <1>2, <1>3, <1>4 DEF IndexesInv

-----------------------------------------------------------------------------
(* A creation and a funding.                                               *)

(* The seller's list gets the new id, and no other list changes.           *)
LEMMA NewSale ==
    ASSUME TypeOK, BooksInv, IndexesInv, NEW t \in Terms, Listed(t)
    PROVE  IndexesInv'
<1> DEFINE seller == primary_payee(t)
           n == next_id
           room == (MaxPages + 1) * S
<1>1. /\ n \in Ids /\ n \in Nat /\ n >= 1 /\ n <= MaxEscrows /\ MaxEscrows \in Nat
      /\ next_id' = n + 1 /\ now' = now
      /\ \A id \in 1..(n - 1) : id \in Ids \ {n}
  BY BoundsAssumption DEF Listed, NewEscrow, Ids
<1>2. /\ escrow'[n].state = "Pending" /\ escrow'[n].payees = t.payees
      /\ escrow'[n].funded_at = 0
      /\ \A id \in Ids \ {n} : escrow'[id] = escrow[id]
  BY <1>1, Entries, OtherEntries DEF Listed, NewEscrow
<1>3. seller \in Address
  <2>1. t.payees \in Seq(Payee) /\ t.payees # <<>>
    BY TermsTypes, TermsAssumption
  <2>2. t.payees[1] \in Payee
    BY <2>1
  <2> QED
    BY <2>2 DEF primary_payee, Payee
<1>4. primary_payee(escrow'[n]) = seller
  BY <1>2 DEF primary_payee
<1>5. 1..(next_id' - 1) = (1..(n - 1)) \cup {n}
  BY <1>1
<1>6. ASSUME NEW a \in Address
      PROVE  /\ SoldBy(a)' = IF a = seller THEN SoldBy(a) \cup {n} ELSE SoldBy(a)
             /\ BoughtBy(a)' = BoughtBy(a)
  <2>1. \A id \in 1..(n - 1) : escrow'[id] = escrow[id]
    BY <1>1, <1>2
  <2>2. ~(escrow'[n].funded_at > 0)
    BY <1>2
  <2> HIDE DEF seller
  <2>3. SoldBy(a)' = {id \in 1..(next_id' - 1) : primary_payee(escrow'[id]) = a}
    BY DEF SoldBy
  <2>4. BoughtBy(a)' = {id \in 1..(next_id' - 1) :
                           escrow'[id].buyer = a /\ escrow'[id].funded_at > 0}
    BY DEF BoughtBy
  <2>5. SoldBy(a)' = IF a = seller THEN SoldBy(a) \cup {n} ELSE SoldBy(a)
    BY <1>4, <1>5, <2>1, <2>3, Zenon DEF SoldBy
  <2>6. BoughtBy(a)' = BoughtBy(a)
    BY <1>5, <2>1, <2>2, <2>4, Zenon DEF BoughtBy
  <2> QED
    BY <2>5, <2>6
<1>7. \A a \in Address \ {seller} : vendor_index'[a] = vendor_index[a]
  BY DEF IndexesInv, Listed, list_sale, list_basket_sale
<1>8. ASSUME NEW a \in Address, a # seller PROVE \E L : SalesList(a, L)'
  <2>1. PICK L : SalesList(a, L)
    BY DEF IndexesInv
  <2> HIDE DEF seller
  <2>2. /\ next_id \in Nat /\ next_id' \in Nat /\ next_id <= next_id'
        /\ InheritedSales[a] \in Seq(Int)
    <3>1. next_id \in Nat /\ next_id' \in Nat /\ next_id <= next_id'
      BY <1>1
    <3> QED
      BY <3>1, Inherited, Zenon
  <2>3. vendor_index'[a] = vendor_index[a] /\ SoldBy(a)' = SoldBy(a)
    BY <1>6, <1>7, <1>8
  <2>4. SalesList(a, L)'
    BY <2>1, <2>2, <2>3, SalesKept
  <2> QED
    BY <2>4
<1>9. ASSUME NEW a \in Address PROVE \E L : PurchaseList(a, L)'
  <2>1. PICK L : PurchaseList(a, L)
    BY DEF IndexesInv
  <2>2. PurchaseList(a, L)'
    BY <1>6, <2>1, PurchasesKept DEF Listed
  <2> QED
    BY <2>2
<1>10. \E L : SalesList(seller, L)'
  <2> DEFINE ix == vendor_index[seller]
             inh == InheritedSales[seller]
             twice == append_index(write_index(ix, Append(read_index(ix), n)), n)
  <2>1. PICK L : SalesList(seller, L)
    BY <1>3 DEF IndexesInv
  <2>2. /\ inh \in Seq(Int) /\ Len(inh) \in Nat /\ Len(L) \in Nat /\ room \in Nat
        /\ Len(inh) + 2 * MaxEscrows <= room
        /\ \A id \in Range(inh) : id <= 0
    BY <1>3, <2>1, Inherited, PageSize DEF SalesList, Represents
  <2>3. /\ Represents(ix, L) /\ IsPrefix(inh, L) /\ InOrder(L)
        /\ Range(L) = Range(inh) \cup SoldBy(seller)
        /\ Len(L) <= Len(inh) + 2 * (n - 1)
    BY <2>1 DEF SalesList
  <2>4. \A y \in Range(L) : y <= n
    <3>1. /\ \A y \in SoldBy(seller) : y \in 1..(n - 1)
          /\ \A y \in Range(inh) : y \in Int
      BY <2>2 DEF SoldBy, Range
    <3>2. \A y \in SoldBy(seller) : y <= n
      BY <1>1, <3>1
    <3>3. \A y \in Range(inh) : y <= n
      BY <1>1, <2>2, <3>1
    <3> QED
      BY <2>3, <3>2, <3>3, Zenon
  <2>5. Len(L) + 1 < room /\ Len(L) < room
    <3>1. \A l, i, r, m, k \in Nat :
             l <= i + 2 * (k - 1) /\ i + 2 * m <= r /\ k <= m /\ k >= 1
                => l + 1 < r /\ l < r
      BY SMT
    <3> QED
      BY <1>1, <2>2, <2>3, <3>1, Zenon
  <2>6. n \in Int
    BY <1>1
  <2> HIDE DEF room, ix, n, seller, inh
  <2>7. \/ vendor_index'[seller] = append_index(ix, n)
        \/ vendor_index'[seller] = twice
    BY <1>3 DEF IndexesInv, Listed, list_sale, list_basket_sale, ix, n, seller
  <2>8. ASSUME NEW M, Represents(vendor_index'[seller], M),
               Range(M) = Range(L) \cup {n}, InOrder(M),
               Len(M) = Len(L) + 1 \/ Len(M) = Len(L) + 2,
               \A P \in Seq(Int) : IsPrefix(P, L) => IsPrefix(P, M)
        PROVE  SalesList(seller, M)'
    <3>1. IsPrefix(inh, M)
      BY <2>2, <2>3, <2>8
    <3>2. Range(M) = Range(inh) \cup SoldBy(seller)'
      BY <1>3, <1>6, <2>3, <2>8
    <3>3. Len(M) <= Len(inh) + 2 * (next_id' - 1)
      <4>1. Len(M) <= Len(inh) + 2 * ((n + 1) - 1)
        BY <1>1, <2>2, <2>3, <2>8
      <4> QED
        BY <1>1, <4>1, Zenon
    <3>4. seller' = seller
      BY DEF seller
    <3> QED
      BY <2>8, <3>1, <3>2, <3>3 DEF SalesList, inh
  <2>9. CASE vendor_index'[seller] = append_index(ix, n)
    <3>1. Len(L) < (MaxPages + 1) * S
      BY <2>5 DEF room
    <3>2. LET M == Append(L, n)
          IN  /\ Represents(append_index(ix, n), M)
              /\ Range(M) = Range(L) \cup {n} /\ InOrder(M)
              /\ Len(M) = Len(L) + 1
              /\ \A P \in Seq(Int) : IsPrefix(P, L) => IsPrefix(P, M)
      BY <2>3, <2>4, <2>6, <3>1, SaleAppended, Zenon
    <3> QED
      BY <2>8, <2>9, <3>2, Zenon
  <2>10. CASE vendor_index'[seller] = twice
    <3>1. Len(L) + 1 < (MaxPages + 1) * S
      BY <2>5 DEF room
    <3>2. \E M : /\ Represents(twice, M)
                 /\ Range(M) = Range(L) \cup {n} /\ InOrder(M)
                 /\ Len(M) = Len(L) + 2
                 /\ \A P \in Seq(Int) : IsPrefix(P, L) => IsPrefix(P, M)
      BY <2>3, <2>4, <2>6, <3>1, BasketAppended, Zenon
    <3> QED
      BY <2>8, <2>10, <3>2, Zenon
  <2> QED
    BY <2>7, <2>9, <2>10
<1>11. DatedInv'
  BY <1>1, <1>2 DEF IndexesInv, DatedInv
<1>12. vendor_index' \in [Address -> Index] /\ buyer_index' \in [Address -> Index]
  <2>1. PICK M : SalesList(seller, M)'
    BY <1>10
  <2>2. vendor_index'[seller] \in Index
    BY <2>1 DEF SalesList, Represents
  <2>3. \E x : vendor_index' = [vendor_index EXCEPT ![seller] = x]
    BY Zenon DEF Listed, list_sale, list_basket_sale
  <2> HIDE DEF seller
  <2> QED
    BY <1>3, <2>2, <2>3 DEF IndexesInv, Listed
<1> HIDE DEF seller
<1> QED
  BY <1>8, <1>9, <1>10, <1>11, <1>12 DEF IndexesInv

(* The buyer's list gets the id funded, and no other list changes.         *)
LEMMA NewPurchase ==
    ASSUME MaxTime < TIMESTAMP_MOD,
           TypeOK, BooksInv, IndexesInv, NEW id \in Ids, NEW buyer \in Address,
           Bought(buyer, id)
    PROVE  IndexesInv'
<1> DEFINE e == escrow[id]
           f == [e EXCEPT !.state = "Funded", !.buyer = buyer,
                    !.funded_at = pack_timestamp(now),
                    !.dispute_deadline = pack_timestamp(now + DISPUTE_WINDOW)]
<1>1. /\ e.state = "Pending" /\ escrow'[id] = f
      /\ \A other \in Ids \ {id} : escrow'[other] = escrow[other]
      /\ next_id' = next_id /\ now' = now
  BY Entries DEF Bought, fund, creation_vars
<1>2. pack_timestamp(now) = now /\ now > 0
  BY WindowsAssumption, BoundsAssumption DEF pack_timestamp, IndexesInv, DatedInv
<1>3. /\ f.state = "Funded" /\ f.buyer = buyer /\ f.payees = e.payees
      /\ f.funded_at = now
  BY <1>2, Entries DEF EscrowRecord
<1>4. e.funded_at = 0
  BY <1>1 DEF IndexesInv, DatedInv
<1>5. /\ next_id \in 1..(MaxEscrows + 1) /\ MaxEscrows \in Nat
      /\ id \in 1..(next_id - 1)
      /\ \A other \in 1..(next_id - 1) : other \in Ids
  <2>1. next_id \in 1..(MaxEscrows + 1) /\ MaxEscrows \in Nat
    BY BoundsAssumption DEF TypeOK
  <2>2. ~(id >= next_id)
    BY <1>1 DEF BooksInv, FreshIds
  <2> QED
    BY <2>1, <2>2 DEF Ids
<1> HIDE DEF e, f
<1>6. \A other \in 1..(next_id - 1) :
         primary_payee(escrow'[other]) = primary_payee(escrow[other])
  BY <1>1, <1>3, <1>5 DEF primary_payee, e
<1>7. ASSUME NEW a
      PROVE  /\ SoldBy(a)' = SoldBy(a)
             /\ BoughtBy(a)' = IF a = buyer THEN BoughtBy(a) \cup {id} ELSE BoughtBy(a)
             /\ id \notin BoughtBy(a)
  <2>1. SoldBy(a)' = SoldBy(a)
    BY <1>1, <1>6 DEF SoldBy
  <2>2. ~(e.funded_at > 0)
    BY <1>4
  <2>3. f.funded_at > 0
    BY <1>2, <1>3
  <2>4. BoughtBy(a)' = {other \in 1..(next_id - 1) :
                   escrow'[other].buyer = a /\ escrow'[other].funded_at > 0}
    BY <1>1 DEF BoughtBy
  <2>5. \A other \in (1..(next_id - 1)) \ {id} : escrow'[other] = escrow[other]
    BY <1>1, <1>5
  <2>6. BoughtBy(a)' = IF a = buyer THEN BoughtBy(a) \cup {id} ELSE BoughtBy(a)
    BY <1>1, <1>3, <1>5, <2>2, <2>3, <2>4, <2>5, Zenon DEF BoughtBy, e
  <2>7. id \notin BoughtBy(a)
    BY <2>2 DEF BoughtBy, e
  <2> QED
    BY <2>1, <2>6, <2>7
<1>8. ASSUME NEW a \in Address PROVE \E L : SalesList(a, L)'
  <2>1. PICK L : SalesList(a, L)
    BY DEF IndexesInv
  <2>2. /\ next_id \in Nat /\ next_id' \in Nat /\ next_id <= next_id'
        /\ InheritedSales[a] \in Seq(Int)
    <3>1. next_id \in Nat /\ next_id' \in Nat /\ next_id <= next_id'
      BY <1>1, <1>5
    <3> QED
      BY <3>1, Inherited, Zenon
  <2>3. vendor_index'[a] = vendor_index[a] /\ SoldBy(a)' = SoldBy(a)
    BY <1>7 DEF Bought
  <2>4. SalesList(a, L)'
    BY <2>1, <2>2, <2>3, SalesKept
  <2> QED
    BY <2>4
<1>9. ASSUME NEW a \in Address, a # buyer PROVE \E L : PurchaseList(a, L)'
  <2>1. PICK L : PurchaseList(a, L)
    BY DEF IndexesInv
  <2>2. buyer_index'[a] = buyer_index[a]
    BY <1>9 DEF IndexesInv, Bought, list_purchase
  <2>3. PurchaseList(a, L)'
    BY <1>7, <1>9, <2>1, <2>2, PurchasesKept
  <2> QED
    BY <2>3
<1>10. \E L : PurchaseList(buyer, L)'
  <2> DEFINE ix == buyer_index[buyer]
             inh == InheritedPurchases[buyer]
             B == BoughtBy(buyer)
             room == (MaxPages + 1) * S
  <2>1. PICK L : PurchaseList(buyer, L)
    BY DEF IndexesInv
  <2>2. /\ inh \in Seq(Int) /\ Len(inh) \in Nat /\ L \in Seq(Int) /\ Len(L) \in Nat
        /\ Len(inh) + MaxEscrows <= room /\ room \in Nat
        /\ \A x \in Range(inh) : x <= 0
    BY <2>1, Inherited, PageSize DEF PurchaseList, Represents
  <2>3. /\ Represents(ix, L) /\ IsPrefix(inh, L) /\ IsInjective(L)
        /\ Range(L) = Range(inh) \cup B
        /\ Len(L) <= Len(inh) + Cardinality(B)
    BY <2>1 DEF PurchaseList
  <2>4. /\ id \notin B /\ BoughtBy(buyer)' = B \cup {id}
        /\ IsFiniteSet(B) /\ Cardinality(B) \in Nat /\ Cardinality(B) < MaxEscrows
    BY <1>7, BoughtBound
  <2>5. Cardinality(B \cup {id}) = Cardinality(B) + 1
    BY <2>4, FS_AddElement
  <2>6. id \notin Range(L) /\ id \in Int
    BY <2>2, <2>3, <2>4 DEF Ids
  <2> HIDE DEF room, ix, inh, B
  <2>7. Len(L) < room
    BY <1>5, <2>2, <2>3, <2>4
  <2>8. /\ Represents(append_index(ix, id), Append(L, id))
        /\ IsPrefix(inh, Append(L, id)) /\ IsInjective(Append(L, id))
        /\ Range(Append(L, id)) = Range(L) \cup {id}
        /\ Len(Append(L, id)) = Len(L) + 1
    BY <2>2, <2>3, <2>6, <2>7, Appended, OneMore DEF room
  <2> DEFINE M == Append(L, id)
  <2> HIDE DEF M
  <2>9. buyer_index'[buyer] = append_index(ix, id)
    BY DEF IndexesInv, Bought, list_purchase, ix
  <2>10. Len(M) <= Len(inh) + Cardinality(BoughtBy(buyer)')
    <3>1. Len(M) = Len(L) + 1
      BY <2>8 DEF M
    <3>2. Len(M) <= Len(inh) + Cardinality(B \cup {id})
      BY <2>2, <2>3, <2>4, <2>5, <3>1
    <3> QED
      BY <2>4, <3>2, Zenon
  <2>11. Range(M) = Range(inh) \cup BoughtBy(buyer)'
    <3>1. Range(M) = Range(L) \cup {id}
      BY <2>8 DEF M
    <3> QED
      BY <2>3, <2>4, <3>1
  <2>12. PurchaseList(buyer, M)'
    BY <2>8, <2>9, <2>10, <2>11 DEF PurchaseList, M, inh
  <2> QED
    BY <2>12
<1>11. DatedInv'
  BY <1>1, <1>3 DEF IndexesInv, DatedInv
<1>12. vendor_index' \in [Address -> Index] /\ buyer_index' \in [Address -> Index]
  <2>1. PICK M : PurchaseList(buyer, M)'
    BY <1>10
  <2>2. buyer_index'[buyer] \in Index
    BY <2>1 DEF PurchaseList, Represents
  <2>3. \E x : buyer_index' = [buyer_index EXCEPT ![buyer] = x]
    BY Zenon DEF Bought, list_purchase
  <2> QED
    BY <2>2, <2>3 DEF IndexesInv, Bought
<1> QED
  BY <1>8, <1>9, <1>10, <1>11, <1>12 DEF IndexesInv

-----------------------------------------------------------------------------
(* The lists and their readers.                                            *)

LEMMA IndexesStep ==
    ASSUME MaxTime < TIMESTAMP_MOD,
           TypeOK, BooksInv, IndexesInv, [IndexerNext]_all_vars
    PROVE  IndexesInv'
<1>1. CASE \E t \in Terms : Listed(t)
  BY <1>1, NewSale
<1>2. CASE \E id \in Ids, buyer \in Address : Bought(buyer, id)
  BY <1>2, NewPurchase
<1>3. CASE IndexesStay
  <2>1. now' \in 1..MaxTime
    <3>1. now' = now \/ (now' = now + 1 /\ now < MaxTime)
      BY StepLists
    <3> QED
      BY <3>1, BoundsAssumption DEF IndexesInv, DatedInv
  <2> QED
    BY <1>3, <2>1, QuietIndexes
<1> QED
  BY <1>1, <1>2, <1>3, StepLists

LEMMA IndexesInit ==
    ASSUME 1 <= MaxTime, IndexerInit
    PROVE  IndexesInv
<1> DEFINE first(l) == [legacy |-> l, pages |-> no_pages, count |-> 0]
<1>1. /\ Init
      /\ vendor_index = [a \in Address |-> first(InheritedSales[a])]
      /\ buyer_index = [a \in Address |-> first(InheritedPurchases[a])]
  BY DEF IndexerInit, RecordsInit
<1>2. ASSUME NEW l \in Seq(Int) PROVE first(l) \in Index /\ Represents(first(l), l)
  <2>1. no_pages \in [0..MaxPages -> Seq(Int)] /\ \A p \in 0..MaxPages : no_pages[p] = <<>>
    BY DEF no_pages
  <2> HIDE DEF no_pages
  <2> QED
    BY <2>1 DEF Index, Represents
<1>3. \A l \in Seq(Int) : IsPrefix(l, l)
  BY DEF IsPrefix
<1>4. \A a : SoldBy(a) = {} /\ BoughtBy(a) = {}
  <2>1. 1..(next_id - 1) = {}
    BY <1>1 DEF Init
  <2> QED
    BY <2>1 DEF SoldBy, BoughtBy
<1> HIDE DEF first
<1>5. ASSUME NEW a \in Address
      PROVE  SalesList(a, InheritedSales[a]) /\ PurchaseList(a, InheritedPurchases[a])
  <2> DEFINE sales == InheritedSales[a]
             purchases == InheritedPurchases[a]
  <2>1. /\ sales \in Seq(Int) /\ purchases \in Seq(Int)
        /\ InOrder(sales) /\ IsInjective(purchases)
    BY Inherited, Zenon
  <2>2. vendor_index[a] = first(sales) /\ buyer_index[a] = first(purchases)
    BY <1>1
  <2>3. Represents(vendor_index[a], sales) /\ Represents(buyer_index[a], purchases)
    BY <1>2, <2>1, <2>2
  <2>4. Cardinality(BoughtBy(a)) = 0 /\ next_id = 1
    BY <1>1, <1>4, FS_EmptySet DEF Init
  <2>5. Len(sales) \in Nat /\ Len(purchases) \in Nat
    BY <2>1
  <2>6. /\ Len(sales) <= Len(sales) + 2 * (next_id - 1)
        /\ Len(purchases) <= Len(purchases) + Cardinality(BoughtBy(a))
    BY <2>4, <2>5
  <2> HIDE DEF sales, purchases
  <2>7. SalesList(a, sales)
    BY <1>3, <1>4, <2>1, <2>3, <2>6 DEF SalesList, sales
  <2>8. PurchaseList(a, purchases)
    BY <1>3, <1>4, <2>1, <2>3, <2>6 DEF PurchaseList, purchases
  <2> QED
    BY <2>7, <2>8 DEF sales, purchases
<1>6. DatedInv
  BY <1>1, BoundsAssumption DEF Init, NoEscrow, DatedInv
<1>7. vendor_index \in [Address -> Index] /\ buyer_index \in [Address -> Index]
  BY <1>1, <1>2, Inherited, Zenon
<1> QED
  BY <1>5, <1>6, <1>7, Zenon DEF IndexesInv

(* The lists that stay below the pages' room are read, whole or by window. *)
LEMMA ListIsRead ==
    ASSUME NEW ix, NEW L, Represents(ix, L), Len(L) <= (MaxPages + 1) * S
    PROVE  /\ read_index(ix) = L
           /\ \A start \in 0..Len(L), limit \in 0..Len(L) :
                 read_index_page(ix, start, limit)
                     = SubSeq(L, start + 1, smaller(start + limit, Len(L)))
<1>1. read_index(ix) = L
  BY IndexIsRead
<1>2. ASSUME NEW start \in 0..Len(L), NEW limit \in 0..Len(L)
      PROVE  read_index_page(ix, start, limit)
                 = SubSeq(L, start + 1, smaller(start + limit, Len(L)))
  <2>1. limit \in Nat
    OBVIOUS
  <2> QED
    BY <2>1, WindowIsRead
<1> QED
  BY <1>1, <1>2

LEMMA ListsFit ==
    ASSUME TypeOK, IndexesInv, NEW a \in Address
    PROVE  /\ \A L : SalesList(a, L) => Len(L) <= (MaxPages + 1) * S
           /\ \A L : PurchaseList(a, L) => Len(L) <= (MaxPages + 1) * S
<1> DEFINE room == (MaxPages + 1) * S
           sales == InheritedSales[a]
           purchases == InheritedPurchases[a]
<1>1. /\ sales \in Seq(Int) /\ purchases \in Seq(Int)
      /\ Len(sales) + 2 * MaxEscrows <= room /\ Len(purchases) + MaxEscrows <= room
  BY Inherited, Zenon
<1>2. /\ Len(sales) \in Nat /\ Len(purchases) \in Nat /\ room \in Nat
  BY <1>1, PageSize
<1>3. MaxEscrows \in Nat /\ next_id \in 1..(MaxEscrows + 1)
  BY BoundsAssumption DEF TypeOK
<1>4. Cardinality(BoughtBy(a)) \in 0..MaxEscrows
  BY BoughtBound
<1> DEFINE c == Cardinality(BoughtBy(a))
           s == Len(sales)
           p == Len(purchases)
<1>5. ASSUME NEW L, SalesList(a, L) PROVE Len(L) <= room
  <2>1. Len(L) \in Nat /\ Len(L) <= s + 2 * (next_id - 1)
    BY <1>5 DEF SalesList, Represents
  <2> HIDE DEF s, room
  <2>2. s \in Nat /\ room \in Nat /\ s + 2 * MaxEscrows <= room
    BY <1>1, <1>2 DEF s
  <2> QED
    BY <1>3, <2>1, <2>2
<1>6. ASSUME NEW L, PurchaseList(a, L) PROVE Len(L) <= room
  <2>1. Len(L) \in Nat /\ Len(L) <= p + c
    BY <1>6 DEF PurchaseList, Represents
  <2> HIDE DEF p, c, room
  <2>2. p \in Nat /\ room \in Nat /\ p + MaxEscrows <= room /\ c \in 0..MaxEscrows
    BY <1>1, <1>2, <1>4 DEF p, c
  <2> QED
    BY <1>3, <2>1, <2>2
<1> QED
  BY <1>5, <1>6

LEMMA IndexesComplete ==
    ASSUME TypeOK, IndexesInv
    PROVE  IndexesAreComplete
<1>1. ASSUME NEW a \in Address
      PROVE  LET sales == read_index(vendor_index[a])
                 bought == read_index(buyer_index[a])
             IN  /\ IsPrefix(InheritedSales[a], sales)
                 /\ Range(sales) = Range(InheritedSales[a]) \cup SoldBy(a)
                 /\ \A start \in 0..Len(sales), limit \in 0..Len(sales) :
                       read_index_page(vendor_index[a], start, limit)
                           = SubSeq(sales, start + 1, smaller(start + limit, Len(sales)))
                 /\ IsPrefix(InheritedPurchases[a], bought)
                 /\ Range(bought) = Range(InheritedPurchases[a]) \cup BoughtBy(a)
                 /\ \A start \in 0..Len(bought), limit \in 0..Len(bought) :
                       read_index_page(buyer_index[a], start, limit)
                           = SubSeq(bought, start + 1, smaller(start + limit, Len(bought)))
                 /\ \A i, j \in DOMAIN sales : i < j => sales[i] <= sales[j]
                 /\ IsInjective(bought)
  <2>1. PICK L : SalesList(a, L)
    BY DEF IndexesInv
  <2>2. PICK M : PurchaseList(a, M)
    BY DEF IndexesInv
  <2>3. Len(L) <= (MaxPages + 1) * S /\ Len(M) <= (MaxPages + 1) * S
    BY <2>1, <2>2, ListsFit
  <2>4. Represents(vendor_index[a], L) /\ Represents(buyer_index[a], M)
    BY <2>1, <2>2 DEF SalesList, PurchaseList
  <2>5. /\ read_index(vendor_index[a]) = L
        /\ \A start \in 0..Len(L), limit \in 0..Len(L) :
              read_index_page(vendor_index[a], start, limit)
                  = SubSeq(L, start + 1, smaller(start + limit, Len(L)))
    BY <2>3, <2>4, ListIsRead
  <2>6. /\ read_index(buyer_index[a]) = M
        /\ \A start \in 0..Len(M), limit \in 0..Len(M) :
              read_index_page(buyer_index[a], start, limit)
                  = SubSeq(M, start + 1, smaller(start + limit, Len(M)))
    BY <2>3, <2>4, ListIsRead
  <2> QED
    BY <2>1, <2>2, <2>5, <2>6, Zenon DEF SalesList, PurchaseList, InOrder
<1> QED
  BY <1>1, Zenon DEF IndexesAreComplete, SoldBy, BoughtBy

(* IndexesAreComplete: the index of a seller lists what it was to be paid  *)
(* for in the order of creation, that of a buyer what it has funded, once  *)
(* each, after the ids of before the upgrade; read_index and               *)
(* read_index_page return it, wherever pages end and in whichever layout   *)
(* the index is (storage.rs), as long as the clock fits the 32 bits of a   *)
(* packed timestamp, which is how a funding is told from none.             *)
THEOREM IndexesAlwaysComplete ==
    ASSUME 1 <= MaxTime, MaxTime < TIMESTAMP_MOD
    PROVE  IndexerSpec => []IndexesAreComplete
<1>1. IndexerInit => IndexesInv
  BY IndexesInit
<1>2. TypeOK /\ BooksInv /\ IndexesInv /\ [IndexerNext]_all_vars => IndexesInv'
  BY IndexesStep
<1>3. TypeOK /\ IndexesInv => IndexesAreComplete
  BY IndexesComplete
<1> QED
  BY <1>1, <1>2, <1>3, IndexerOnlyFollows, TypeCorrect, BooksHold, PTL DEF IndexerSpec

-----------------------------------------------------------------------------
(* What the rows are told.                                                 *)

(* The topics that change a row, a status or the copy of the switch.       *)
ToldTopics ==
    StateTopics \cup {"Escrow:Created", "Dispute:Pending", "Dispute:Appealed",
                      "Resolver:Rotated", "Contract:Paused", "Contract:Unpaused"}

(* The rows, the statuses and the switch as the tables hold them.          *)
Tables ==
    [escrows : [Ids -> Row \cup {None}],
     disputes : [Ids -> {"Active", "Resolved", None}],
     paused_key : [paused : BOOLEAN, ledger : Nat]]

Stored == [escrows |-> escrows, disputes |-> disputes, paused_key |-> paused_key]

NoRows ==
    [escrows |-> [id \in Ids |-> None], disputes |-> [id \in Ids |-> None],
     paused_key |-> [paused |-> FALSE, ledger |-> 0]]

(* The tables after one event more: processEvent as a function.            *)
Told(t, e) ==
    [escrows |-> [id \in Ids |->
        IF id = e.id THEN applied_row(t.escrows[id], e) ELSE t.escrows[id]],
     disputes |-> [id \in Ids |->
        IF id = e.id THEN applied_dispute(t.disputes[id], e) ELSE t.disputes[id]],
     paused_key |-> applied_pause(t.paused_key, e)]

(* An event of another topic leaves row, status and switch as they are.    *)
LEMMA UntoldRow ==
    ASSUME NEW row, NEW status, NEW key, NEW e, e.topic \notin ToldTopics
    PROVE  /\ applied_row(row, e) = row
           /\ applied_dispute(status, e) = status
           /\ applied_pause(key, e) = key
<1>1. applied_row(row, e) = row
  BY DEF ToldTopics, StateTopics, applied_row, updated
<1>2. applied_dispute(status, e) = status
  BY DEF ToldTopics, StateTopics, applied_dispute
<1>3. applied_pause(key, e) = key
  BY DEF ToldTopics, applied_pause
<1> QED
  BY <1>1, <1>2, <1>3

(* An event under another topic is logged and changes nothing.             *)
LEMMA Untold ==
    ASSUME NEW t \in Tables, NEW e, e.topic \notin ToldTopics
    PROVE  Told(t, e) = t
<1>1. \A id \in Ids : /\ applied_row(t.escrows[id], e) = t.escrows[id]
                      /\ applied_dispute(t.disputes[id], e) = t.disputes[id]
  BY UntoldRow, Zenon
<1>2. applied_pause(t.paused_key, e) = t.paused_key
  BY UntoldRow, Zenon
<1>3. Told(t, e) = [escrows |-> [id \in Ids |-> t.escrows[id]],
                    disputes |-> [id \in Ids |-> t.disputes[id]],
                    paused_key |-> t.paused_key]
  BY <1>1, <1>2, Zenon DEF Told
<1> QED
  BY <1>3 DEF Tables

(* A stored state has the name it was given, whatever its form.            *)
LEMMA NamesStored ==
    \A s \in EscrowStates :
       /\ as_array(s) \in StoredState /\ as_array(s).name = s
       /\ as_name(s) \in StoredState /\ as_name(s).name = s
BY DEF as_array, as_name, StoredState

LEMMA ToldName ==
    \A e : e.state \in EscrowStates =>
              told_state(e) \in StoredState /\ told_state(e).name = e.state
BY NamesStored, Zenon DEF told_state

(* What the others do.                                                     *)
LEMMA ToldRows ==
    ASSUME NEW e, NEW row \in Row \cup {None}
    PROVE  /\ e.topic \in StateTopics \ {"Escrow:Funded"} =>
                 applied_row(row, e) =
                     IF row = None THEN None ELSE [row EXCEPT !.state = told_state(e)]
           /\ e.topic = "Escrow:Funded" =>
                 applied_row(row, e) =
                     IF row = None THEN None
                     ELSE [row EXCEPT !.state = told_state(e), !.buyer = e.party]
           /\ e.topic = "Resolver:Rotated" =>
                 applied_row(row, e) =
                     IF row = None THEN None ELSE [row EXCEPT !.resolver = e.party]
           /\ e.topic = "Dispute:Pending" =>
                 applied_row(row, e) =
                     IF row = None THEN None
                     ELSE [row EXCEPT !.state = as_name("PendingFinalization")]
           /\ e.topic = "Dispute:Appealed" =>
                 applied_row(row, e) =
                     IF row = None THEN None
                     ELSE [row EXCEPT !.state = as_name("Disputed")]
<1>1. CASE row = None
  BY <1>1 DEF StateTopics, applied_row, updated
<1>2. CASE row # None
  <2>1. CASE e.topic \in StateTopics \ {"Escrow:Funded"}
    BY <1>2, <2>1 DEF StateTopics, applied_row, updated
  <2>2. CASE e.topic = "Escrow:Funded"
    BY <1>2, <2>2 DEF StateTopics, Row, applied_row, updated
  <2>3. CASE e.topic = "Resolver:Rotated"
    BY <1>2, <2>3 DEF StateTopics, applied_row, updated
  <2>4. CASE e.topic = "Dispute:Pending"
    BY <1>2, <2>4 DEF StateTopics, applied_row, updated
  <2>5. CASE e.topic = "Dispute:Appealed"
    BY <1>2, <2>5 DEF StateTopics, applied_row, updated
  <2> QED
    BY <2>1, <2>2, <2>3, <2>4, <2>5, Zenon DEF StateTopics
<1> QED
  BY <1>1, <1>2

(* Every event leaves whole tables, if it names a state and a party.       *)
LEMMA ToldType ==
    ASSUME NEW t \in Tables, NEW e, e.ledger \in Nat,
           \A id \in Ids : e.id = id =>
               /\ applied_row(t.escrows[id], e) \in Row \cup {None}
               /\ applied_dispute(t.disputes[id], e) \in {"Active", "Resolved", None}
    PROVE  Told(t, e) \in Tables
<1>1. applied_pause(t.paused_key, e) \in [paused : BOOLEAN, ledger : Nat]
  BY DEF Tables, applied_pause
<1>2. [id \in Ids |-> IF id = e.id THEN applied_row(t.escrows[id], e) ELSE t.escrows[id]]
         \in [Ids -> Row \cup {None}]
  BY DEF Tables
<1>3. [id \in Ids |->
          IF id = e.id THEN applied_dispute(t.disputes[id], e) ELSE t.disputes[id]]
         \in [Ids -> {"Active", "Resolved", None}]
  BY DEF Tables
<1> QED
  BY <1>1, <1>2, <1>3 DEF Told, Tables

-----------------------------------------------------------------------------
(* Tables that mirror the contract.                                        *)

(* RowsMirrorEscrows of one row, and of one status.  A dispute is open     *)
(* while its escrow is disputed.                                           *)
RowShown(row, e, gone) ==
    IF e.state = "Absent" \/ e.basket_tokens > 0 THEN row = None
    ELSE /\ row \in Row
         /\ row.state.name = e.state \/ gone
         /\ e.funded_at > 0 => row.buyer = e.buyer
         /\ row.resolver = e.resolvers.members[1]

StatusShown(status, d, e) ==
    /\ e.state \in DisputedStates => d.status = "Active"
    /\ e.state = "Absent" \/ e.basket_tokens = 0 =>
          \/ d.status = "Absent" /\ status = None
          \/ status = d.status
          \/ e.state = "Refunded" /\ status = "Active"

LeftSilently(id) ==
    \E n \in 1..Len(chain) : chain[n].id = id /\ chain[n].topic \in UnhandledExits

Faithful(t) ==
    /\ t \in Tables
    /\ t.paused_key.paused = config.paused /\ t.paused_key.ledger <= now
    /\ \A id \in Ids :
          /\ RowShown(t.escrows[id], escrow[id], LeftSilently(id))
          /\ StatusShown(t.disputes[id], dispute[id], escrow[id])

(* A list of events of which at most the last changes the tables.          *)
Untelling(es) == Without(es, ToldTopics)

(* What a transaction logs before its last event tells the tables nothing. *)
LEMMA UntellingLists ==
    \A id, party :
       /\ Untelling(<<>>)
       /\ Untelling(expiry_cleared(id))
       /\ Untelling(proposal_dropped(id))
       /\ Untelling(expiry_cleared(id) \o proposal_dropped(id))
       /\ Untelling(<<event_of("resolver_vote_recorded", id, party)>>)
       /\ Untelling(<<event("Timelock:Executed", None)>>)
<1>1. ASSUME NEW x, x.topic \notin ToldTopics PROVE Untelling(<<x>>)
  BY <1>1, Singles DEF Untelling, Without
<1>2. TAKE id, party
<1>3. Untelling(<<>>)
  BY NoItems DEF Untelling, Without
<1>4. /\ event("PendingExpiry:Cleared", id).topic \notin ToldTopics
      /\ event("Delivery:Cancelled", id).topic \notin ToldTopics
      /\ event_of("resolver_vote_recorded", id, party).topic \notin ToldTopics
      /\ event("Timelock:Executed", None).topic \notin ToldTopics
  BY DEF event, event_of, ToldTopics, StateTopics
<1>5. Untelling(expiry_cleared(id)) /\ Untelling(proposal_dropped(id))
  BY <1>1, <1>3, <1>4, Zenon DEF expiry_cleared, proposal_dropped
<1>6. Untelling(expiry_cleared(id) \o proposal_dropped(id))
  BY <1>5, WithoutJoins, Zenon DEF Untelling
<1> QED
  BY <1>1, <1>3, <1>4, <1>5, <1>6

(* A transaction whose last event is x.                                    *)
Announces(x) == \E es : Untelling(es) /\ append_events(es \o <<x>>)

LEMMA LoneEvent == \A x : append_events(<<x>>) => Announces(x)
<1>1. TAKE x
<1>2. <<>> \o <<x>> = <<x>>
  <2>1. ASSUME NEW s, s = <<>> PROVE s \o <<x>> = <<x>>
    BY <2>1
  <2> QED
    BY <2>1, Zenon
<1> QED
  BY <1>2, UntellingLists, Zenon DEF Announces

(* The announced event is the last of the chain, stamped with this ledger. *)
LEMMA LastEvent ==
    ASSUME IsList(chain), NEW x, Announces(x)
    PROVE  LET n == Len(chain')
           IN  /\ n \in Nat /\ n > Len(chain)
               /\ chain'[n].ledger = now /\ chain'[n].topic = x.topic
               /\ chain'[n].id = x.id /\ chain'[n].state = x.state
               /\ chain'[n].party = x.party
               /\ \A k \in 1..n : k > Len(chain) /\ k < n => chain'[k].topic \notin ToldTopics
               /\ \A k \in 1..Len(chain) : chain'[k] = chain[k]
<1>1. PICK es : Untelling(es) /\ append_events(es \o <<x>>)
  BY DEF Announces
<1> DEFINE all == es \o <<x>>
<1>2. PICK V : es \in Seq(V) /\ \A i \in DOMAIN es : es[i].topic \notin ToldTopics
  BY <1>1 DEF Untelling, Without, IsList
<1>3. es \in Seq(V \cup {x}) /\ <<x>> \in Seq(V \cup {x})
  BY <1>2
<1>4. /\ all \in Seq(V \cup {x}) /\ Len(all) = Len(es) + 1 /\ Len(es) \in Nat
      /\ all[Len(es) + 1] = x
      /\ \A i \in 1..Len(es) : all[i] = es[i] /\ i \in DOMAIN es
  BY <1>3
<1> HIDE DEF all
<1>5. IsList(all) /\ append_events(all) /\ Len(chain) \in Nat
  BY <1>1, <1>4, ListFacts DEF IsList, all
<1>6. /\ Len(chain') = Len(chain) + Len(all)
      /\ \A k \in 1..Len(chain) : chain'[k] = chain[k]
      /\ \A i \in 1..Len(all) :
            /\ chain'[Len(chain) + i].ledger = now
            /\ chain'[Len(chain) + i].topic = all[i].topic
            /\ chain'[Len(chain) + i].id = all[i].id
            /\ chain'[Len(chain) + i].state = all[i].state
            /\ chain'[Len(chain) + i].party = all[i].party
  BY <1>5, EventsJoin, Zenon
<1>7. /\ Len(all) \in 1..Len(all) /\ Len(chain') = Len(chain) + Len(all)
      /\ all[Len(all)] = x /\ Len(chain') \in Nat /\ Len(chain') > Len(chain)
  BY <1>4, <1>5, <1>6
<1>8. ASSUME NEW k \in 1..Len(chain'), k > Len(chain), k < Len(chain')
      PROVE  chain'[k].topic \notin ToldTopics
  <2>1. /\ k - Len(chain) \in 1..Len(es) /\ k - Len(chain) \in 1..Len(all)
        /\ Len(chain) + (k - Len(chain)) = k
    BY <1>4, <1>5, <1>6, <1>8
  <2>2. chain'[k].topic = all[k - Len(chain)].topic
    BY <1>6, <2>1
  <2> QED
    BY <1>2, <1>4, <2>1, <2>2
<1>9. LET n == Len(chain')
      IN  /\ chain'[n].ledger = now /\ chain'[n].topic = x.topic
          /\ chain'[n].id = x.id /\ chain'[n].state = x.state
          /\ chain'[n].party = x.party
  BY <1>6, <1>7, Zenon
<1> QED
  BY <1>6, <1>7, <1>8, <1>9

-----------------------------------------------------------------------------
(* What the last event tells.                                              *)

(* At most the last event of the transaction changes the tables, and they  *)
(* mirror the contract again when they are told it.                        *)
Tells(t) ==
    /\ Len(chain') \in Nat /\ Len(chain') > Len(chain)
    /\ \A n \in 1..Len(chain') :
          n > Len(chain) /\ n < Len(chain') => chain'[n].topic \notin ToldTopics
    /\ \E u : u = Told(t, chain'[Len(chain')]) /\ Faithful(u)'

(* Nothing but what is kept of one escrow changes.                         *)
OthersKept(id) ==
    /\ now' = now /\ config' = config
    /\ \A other \in Ids \ {id} :
          escrow'[other] = escrow[other] /\ dispute'[other] = dispute[other]

(* What is told of the escrow is what it is.                               *)
ToldRight(t, id, x) ==
    LET row == applied_row(t.escrows[id], x)
        status == applied_dispute(t.disputes[id], x)
    IN  /\ row \in Row \cup {None} /\ status \in {"Active", "Resolved", None}
        /\ RowShown(row, escrow'[id], LeftSilently(id) \/ x.topic \in UnhandledExits)
        /\ StatusShown(status, dispute'[id], escrow'[id])

(* A transaction that touches one escrow and ends with an event that is    *)
(* right about it leaves the tables a mirror once that event is applied.   *)
LEMMA OneTold ==
    ASSUME TypeOK, IsList(chain), NEW t, Faithful(t), NEW id \in Ids,
           NEW x, Announces(x), x.id = id,
           x.topic \notin {"Contract:Paused", "Contract:Unpaused"},
           OthersKept(id), ToldRight(t, id, x)
    PROVE  Tells(t)
<1>0. PICK e : e = chain'[Len(chain')]
  OBVIOUS
<1>u. PICK u : u = Told(t, e)
  OBVIOUS
<1>1. /\ Len(chain') \in Nat /\ Len(chain') > Len(chain)
      /\ e.ledger = now /\ e.topic = x.topic /\ e.id = x.id /\ e.state = x.state
      /\ e.party = x.party
      /\ \A k \in 1..Len(chain') :
            k > Len(chain) /\ k < Len(chain') => chain'[k].topic \notin ToldTopics
      /\ \A k \in 1..Len(chain) : chain'[k] = chain[k]
  BY <1>0, LastEvent
<1>2. Len(chain) \in Nat /\ now \in Nat /\ t \in Tables
  BY ListFacts DEF TypeOK, Time, Faithful
<1>3. \A other : LeftSilently(other) => LeftSilently(other)'
  BY <1>1, <1>2 DEF LeftSilently
<1>4. x.topic \in UnhandledExits => LeftSilently(id)'
  <2>1. Len(chain') \in 1..Len(chain')
    BY <1>1, <1>2
  <2> QED
    BY <1>0, <1>1, <2>1, Zenon DEF LeftSilently
<1>5. /\ \A row : applied_row(row, e) = applied_row(row, x)
      /\ \A status : applied_dispute(status, e) = applied_dispute(status, x)
      /\ applied_pause(t.paused_key, e) = t.paused_key
  <2>1. ASSUME NEW row PROVE applied_row(row, e) = applied_row(row, x)
    <3>1. e.topic = x.topic /\ e.state = x.state /\ e.party = x.party
      BY <1>1
    <3>2. told_state(e) = told_state(x)
      BY <3>1, Zenon DEF told_state
    <3> QED
      BY <3>1, <3>2, SMT DEF applied_row, updated
  <2>2. \A status : applied_dispute(status, e) = applied_dispute(status, x)
    BY <1>1, Zenon DEF applied_dispute
  <2>3. applied_pause(t.paused_key, e) = t.paused_key
    BY <1>1 DEF applied_pause
  <2> QED
    BY <2>1, <2>2, <2>3
<1>6. u \in Tables
  BY <1>u, <1>1, <1>2, <1>5, ToldType DEF ToldRight
<1>7. /\ u.paused_key = t.paused_key
      /\ u.escrows[id] = applied_row(t.escrows[id], x)
      /\ u.disputes[id] = applied_dispute(t.disputes[id], x)
      /\ \A other \in Ids \ {id} : u.escrows[other] = t.escrows[other]
                                   /\ u.disputes[other] = t.disputes[other]
  BY <1>u, <1>1, <1>5 DEF Told
<1>8. ASSUME NEW i \in Ids
      PROVE  /\ RowShown(u.escrows[i], escrow'[i], LeftSilently(i)')
             /\ StatusShown(u.disputes[i], dispute'[i], escrow'[i])
  <2>1. CASE i = id
    BY <1>3, <1>4, <1>7, <2>1 DEF ToldRight, RowShown
  <2>2. CASE i # id
    <3>1. /\ RowShown(t.escrows[i], escrow[i], LeftSilently(i))
          /\ StatusShown(t.disputes[i], dispute[i], escrow[i])
      BY DEF Faithful
    <3>2. /\ u.escrows[i] = t.escrows[i] /\ u.disputes[i] = t.disputes[i]
          /\ escrow'[i] = escrow[i] /\ dispute'[i] = dispute[i]
      BY <1>7, <2>2 DEF OthersKept
    <3> QED
      BY <1>3, <3>1, <3>2 DEF RowShown
  <2> QED
    BY <2>1, <2>2
<1>9. u.paused_key.paused = config'.paused /\ u.paused_key.ledger <= now'
  BY <1>7 DEF Faithful, OthersKept
<1>10. Faithful(u)'
  <2>1. (u \in Tables)' /\ (u.paused_key.paused = config.paused)'
        /\ (u.paused_key.ledger <= now)'
    BY <1>6, <1>9
  <2>2. \A i \in Ids :
           /\ RowShown(u.escrows[i], escrow[i], LeftSilently(i))'
           /\ StatusShown(u.disputes[i], dispute[i], escrow[i])'
    BY <1>8
  <2> QED
    BY <2>1, <2>2, Zenon DEF Faithful
<1>11. u = Told(t, chain'[Len(chain')])
  BY <1>0, <1>u
<1>12. \E w : w = Told(t, chain'[Len(chain')]) /\ Faithful(w)'
  BY <1>10, <1>11, Zenon
<1> QED
  BY <1>1, <1>12 DEF Tells

(* The escrow keeps what a row shows of it but for the state.              *)
SameRow(e, f) ==
    /\ f.basket_tokens = e.basket_tokens /\ f.funded_at = e.funded_at
    /\ f.buyer = e.buyer /\ f.resolvers = e.resolvers
    /\ e.state \notin TerminalStates \cup {"Absent"} /\ f.state # "Absent"

TellsState(x, s) ==
    \/ x.topic \in StateTopics \ {"Escrow:Funded"} /\ x.state = s
    \/ x.topic = "Dispute:Pending" /\ s = "PendingFinalization"
    \/ x.topic = "Dispute:Appealed" /\ s = "Disputed"

TellsStatus(x, e, d, f, c) ==
    \/ /\ x.topic \notin {"Dispute:Raised", "Dispute:Resolved"}
       /\ c.status = d.status
       /\ f.state \in DisputedStates => e.state \in DisputedStates
    \/ x.topic = "Dispute:Raised" /\ c.status = "Active"
    \/ /\ x.topic = "Dispute:Resolved" /\ c.status = "Resolved"
       /\ e.state \in DisputedStates /\ f.state \notin DisputedStates
    \/ /\ x.topic = "Escrow:Canceled"
       /\ e.state \in DisputedStates /\ f.state = "Refunded"

(* An event that tells a dispute's change leaves its status right.         *)
LEMMA StatusRight ==
    ASSUME NEW status \in {"Active", "Resolved", None}, NEW d, NEW e, NEW c, NEW f,
           NEW x, StatusShown(status, d, e), SameRow(e, f), TellsStatus(x, e, d, f, c)
    PROVE  LET new == applied_dispute(status, x)
           IN  new \in {"Active", "Resolved", None} /\ StatusShown(new, c, f)
<1> DEFINE new == applied_dispute(status, x)
<1>1. /\ x.topic = "Dispute:Raised" => new = "Active"
      /\ x.topic = "Dispute:Resolved" => new = IF status # None THEN "Resolved" ELSE status
      /\ x.topic \notin {"Dispute:Raised", "Dispute:Resolved"} => new = status
  BY DEF applied_dispute
<1> HIDE DEF new
<1>2. new \in {"Active", "Resolved", None}
  BY <1>1
<1>3. e.state # "Refunded" /\ e.state # "Absent" /\ f.state # "Absent"
  BY DEF SameRow, TerminalStates
<1>4. e.basket_tokens = 0 /\ e.state \in DisputedStates => status = "Active"
  BY <1>3 DEF StatusShown, DisputedStates
<1>5. StatusShown(new, c, f)
  BY <1>1, <1>3, <1>4, RowAssumption DEF StatusShown, SameRow, TellsStatus, DisputedStates
<1> QED
  BY <1>2, <1>5 DEF new

(* A change of state that is told.                                         *)
LEMMA StateTold ==
    ASSUME TypeOK, TypeOK', IsList(chain), NEW t, Faithful(t), NEW id \in Ids,
           NEW x, Announces(x), x.id = id, OthersKept(id),
           SameRow(escrow[id], escrow'[id]),
           TellsState(x, escrow'[id].state),
           TellsStatus(x, escrow[id], dispute[id], escrow'[id], dispute'[id])
    PROVE  Tells(t)
<1> DEFINE e == escrow[id]
           f == escrow'[id]
           row == t.escrows[id]
           new == applied_row(row, x)
<1>1. /\ row \in Row \cup {None} /\ t.disputes[id] \in {"Active", "Resolved", None}
      /\ RowShown(row, e, LeftSilently(id))
      /\ StatusShown(t.disputes[id], dispute[id], e)
  BY DEF Faithful, Tables
<1>2. f \in EscrowRecord /\ f.state \in EscrowStates
  BY DEF TypeOK, EscrowRecord
<1>3. SameRow(e, f)
  OBVIOUS
<1> HIDE DEF e, f, row
<1>4. PICK s : /\ s \in StoredState /\ s.name = f.state
               /\ new = IF row = None THEN None ELSE [row EXCEPT !.state = s]
  <2>1. /\ x.topic \in StateTopics \ {"Escrow:Funded"} =>
              new = IF row = None THEN None ELSE [row EXCEPT !.state = told_state(x)]
        /\ x.topic = "Dispute:Pending" =>
              new = IF row = None THEN None
                    ELSE [row EXCEPT !.state = as_name("PendingFinalization")]
        /\ x.topic = "Dispute:Appealed" =>
              new = IF row = None THEN None
                    ELSE [row EXCEPT !.state = as_name("Disputed")]
    BY <1>1, ToldRows
  <2>2. TellsState(x, f.state)
    BY DEF f
  <2>3. x.state = f.state =>
           told_state(x) \in StoredState /\ told_state(x).name = f.state
    BY <1>2, ToldName
  <2>4. as_name(f.state) \in StoredState /\ as_name(f.state).name = f.state
    BY <1>2, NamesStored
  <2> HIDE DEF new
  <2> QED
    BY <2>1, <2>2, <2>3, <2>4, Zenon DEF TellsState
<1>5. /\ row \in Row => [row EXCEPT !.state = s] \in Row
      /\ row \in Row => /\ [row EXCEPT !.state = s].state = s
                        /\ [row EXCEPT !.state = s].buyer = row.buyer
                        /\ [row EXCEPT !.state = s].resolver = row.resolver
  BY <1>4 DEF Row
<1> HIDE DEF new
<1>6. new \in Row \cup {None} /\ RowShown(new, f, LeftSilently(id))
  BY <1>1, <1>3, <1>4, <1>5, RowAssumption DEF RowShown, SameRow
<1>7. RowShown(new, f, LeftSilently(id) \/ x.topic \in UnhandledExits)
  BY <1>6 DEF RowShown
<1>8. LET status == applied_dispute(t.disputes[id], x)
      IN  /\ status \in {"Active", "Resolved", None}
          /\ StatusShown(status, dispute'[id], f)
  BY <1>1, <1>3, StatusRight DEF e, f
<1>9. ToldRight(t, id, x)
  BY <1>6, <1>7, <1>8 DEF ToldRight, new, row, f
<1>10. x.topic \notin {"Contract:Paused", "Contract:Unpaused"}
  BY DEF TellsState, StateTopics
<1> QED
  BY <1>9, <1>10, OneTold

(* A change that is not told: a date, or an exit without a handler.        *)
LEMMA StateUntold ==
    ASSUME TypeOK, IsList(chain), NEW t, Faithful(t), NEW id \in Ids,
           NEW x, Announces(x), x.id = id, x.topic \notin ToldTopics, OthersKept(id),
           \/ escrow'[id] = escrow[id]
           \/ /\ SameRow(escrow[id], escrow'[id])
              /\ escrow'[id].state = escrow[id].state \/ x.topic \in UnhandledExits
              /\ escrow'[id].state \in DisputedStates => escrow[id].state \in DisputedStates,
           dispute'[id].status = dispute[id].status
    PROVE  Tells(t)
<1> DEFINE e == escrow[id]
           f == escrow'[id]
           row == t.escrows[id]
           status == t.disputes[id]
<1>1. /\ row \in Row \cup {None} /\ status \in {"Active", "Resolved", None}
      /\ RowShown(row, e, LeftSilently(id))
      /\ StatusShown(status, dispute[id], e)
  BY DEF Faithful, Tables
<1>2. applied_row(row, x) = row /\ applied_dispute(status, x) = status
  BY UntoldRow
<1>3. RowShown(row, f, LeftSilently(id) \/ x.topic \in UnhandledExits)
  BY <1>1 DEF RowShown, SameRow
<1>4. StatusShown(status, dispute'[id], f)
  BY <1>1 DEF StatusShown, SameRow, TerminalStates
<1>5. ToldRight(t, id, x)
  BY <1>1, <1>2, <1>3, <1>4 DEF ToldRight
<1>6. x.topic \notin {"Contract:Paused", "Contract:Unpaused"}
  BY DEF ToldTopics
<1> QED
  BY <1>5, <1>6, OneTold

-----------------------------------------------------------------------------
(* Every transaction tells what it did.                                    *)

LEMMA EventParts ==
    \A topic, id, s, p :
       /\ event(topic, id).topic = topic /\ event(topic, id).id = id
       /\ event_to(topic, id, s).topic = topic /\ event_to(topic, id, s).id = id
       /\ event_to(topic, id, s).state = s
       /\ event_of(topic, id, p).topic = topic /\ event_of(topic, id, p).id = id
       /\ event_of(topic, id, p).party = p
       /\ [event_to(topic, id, s) EXCEPT !.party = p].topic = topic
       /\ [event_to(topic, id, s) EXCEPT !.party = p].id = id
       /\ [event_to(topic, id, s) EXCEPT !.party = p].state = s
       /\ [event_to(topic, id, s) EXCEPT !.party = p].party = p
BY DEF event, event_to, event_of

(* Whatever is published, the last event is announced.                     *)
LEMMA Ends ==
    /\ \A es, x : Untelling(es) /\ publish(es \o <<x>>) => Announces(x)
    /\ \A es, x : Untelling(es) /\ emit(es \o <<x>>) => Announces(x)
    /\ \A x : publish(<<x>>) => Announces(x)
    /\ \A x : emit(<<x>>) => Announces(x)
BY LoneEvent, Zenon DEF publish, emit, Announces

(* Besides the state nothing changes that a row shows.                     *)
ShownKept(e, f) ==
    /\ f.basket_tokens = e.basket_tokens /\ f.funded_at = e.funded_at
    /\ f.buyer = e.buyer /\ f.resolvers = e.resolvers

(* The writes that change an escrow's state keep what else its row shows.  *)
LEMMA StateKeepsRow ==
    ASSUME TypeOK, NEW id \in Ids
    PROVE  /\ \A s : move_to(id, s) =>
                 escrow'[id].state = s /\ ShownKept(escrow[id], escrow'[id])
           /\ \A s, x : save_escrow(id, [escrow[id] EXCEPT !.state = s, !.shipped_at = x]) =>
                 escrow'[id].state = s /\ ShownKept(escrow[id], escrow'[id])
           /\ \A s, x, y :
                 save_escrow(id, [escrow[id] EXCEPT !.state = s, !.amount = @ - x - y]) =>
                    escrow'[id].state = s /\ ShownKept(escrow[id], escrow'[id])
           /\ \A x : save_escrow(id, [escrow[id] EXCEPT !.delivered_at = x]) =>
                 /\ escrow'[id].state = escrow[id].state
                 /\ ShownKept(escrow[id], escrow'[id])
<1> DEFINE e == escrow[id]
<1>1. e \in EscrowRecord /\ escrow \in [Ids -> EscrowRecord]
  BY DEF TypeOK
<1>2. \A f : save_escrow(id, f) => escrow'[id] = f
  BY <1>1 DEF save_escrow
<1>3. \A s : LET f == [e EXCEPT !.state = s] IN f.state = s /\ ShownKept(e, f)
  BY <1>1 DEF EscrowRecord, ShownKept
<1>4. \A s, x : LET f == [e EXCEPT !.state = s, !.shipped_at = x]
                IN  f.state = s /\ ShownKept(e, f)
  BY <1>1 DEF EscrowRecord, ShownKept
<1>5. \A s, x, y : LET f == [e EXCEPT !.state = s, !.amount = @ - x - y]
                   IN  f.state = s /\ ShownKept(e, f)
  BY <1>1 DEF EscrowRecord, ShownKept
<1>6. \A x : LET f == [e EXCEPT !.delivered_at = x]
             IN  f.state = e.state /\ ShownKept(e, f)
  BY <1>1 DEF EscrowRecord, ShownKept
<1>7. ASSUME NEW s, move_to(id, s)
      PROVE  escrow'[id].state = s /\ ShownKept(e, escrow'[id])
  <2> DEFINE f == [e EXCEPT !.state = s]
  <2>1. escrow'[id] = f
    BY <1>2, <1>7 DEF move_to
  <2>2. f.state = s /\ ShownKept(e, f)
    BY <1>3
  <2> QED
    BY <2>1, <2>2, Zenon
<1>8. ASSUME NEW s, NEW x, save_escrow(id, [e EXCEPT !.state = s, !.shipped_at = x])
      PROVE  escrow'[id].state = s /\ ShownKept(e, escrow'[id])
  <2> DEFINE f == [e EXCEPT !.state = s, !.shipped_at = x]
  <2>1. escrow'[id] = f
    BY <1>2, <1>8
  <2>2. f.state = s /\ ShownKept(e, f)
    BY <1>4
  <2> QED
    BY <2>1, <2>2, Zenon
<1>9. ASSUME NEW s, NEW x, NEW y,
             save_escrow(id, [e EXCEPT !.state = s, !.amount = @ - x - y])
      PROVE  escrow'[id].state = s /\ ShownKept(e, escrow'[id])
  <2> DEFINE f == [e EXCEPT !.state = s, !.amount = @ - x - y]
  <2>1. escrow'[id] = f
    BY <1>2, <1>9
  <2>2. f.state = s /\ ShownKept(e, f)
    BY <1>5
  <2> QED
    BY <2>1, <2>2, Zenon
<1>10. ASSUME NEW x, save_escrow(id, [e EXCEPT !.delivered_at = x])
       PROVE  escrow'[id].state = e.state /\ ShownKept(e, escrow'[id])
  <2> DEFINE f == [e EXCEPT !.delivered_at = x]
  <2>1. escrow'[id] = f
    BY <1>2, <1>10
  <2>2. f.state = e.state /\ ShownKept(e, f)
    BY <1>6
  <2> QED
    BY <2>1, <2>2, Zenon
<1> QED
  BY <1>7, <1>8, <1>9, <1>10

(* Only one escrow and its dispute are written.                            *)
Alone(id) ==
    /\ \E f : save_escrow(id, f)
    /\ dispute' = dispute \/ \E d : save_dispute(id, d)
    /\ UNCHANGED <<now, config>>

(* Writing one escrow and its dispute keeps all others.                    *)
LEMMA AloneKeeps ==
    ASSUME TypeOK, NEW id \in Ids, Alone(id)
    PROVE  OthersKept(id)
<1>1. \A other \in Ids \ {id} : escrow'[other] = escrow[other]
  BY OtherEntries, Zenon DEF Alone
<1>2. \A other \in Ids \ {id} : dispute'[other] = dispute[other]
  BY OtherEntries, Zenon DEF Alone
<1> QED
  BY <1>1, <1>2 DEF Alone, OthersKept

(* A change of state, told by its event, is mirrored.                      *)
LEMMA MoveTold ==
    ASSUME TypeOK, TypeOK', IsList(chain), NEW t, Faithful(t), NEW id \in Ids,
           NEW x, Announces(x), x.id = id, Alone(id),
           ShownKept(escrow[id], escrow'[id]),
           escrow[id].state \notin TerminalStates \cup {"Absent"},
           escrow'[id].state # "Absent",
           TellsState(x, escrow'[id].state),
           TellsStatus(x, escrow[id], dispute[id], escrow'[id], dispute'[id])
    PROVE  Tells(t)
<1>1. SameRow(escrow[id], escrow'[id])
  BY DEF SameRow, ShownKept
<1> QED
  BY <1>1, AloneKeeps, StateTold

(* A settlement, a shipment or a request: the dispute is as it was.        *)
LEMMA PlainMoveTold ==
    ASSUME TypeOK, TypeOK', IsList(chain), NEW t, Faithful(t), NEW id \in Ids,
           NEW topic \in StateTopics \ {"Escrow:Funded", "Dispute:Raised", "Dispute:Resolved"},
           NEW s \in EscrowStates \ ({"Absent"} \cup DisputedStates),
           Announces(event_to(topic, id, s)),
           \E f : save_escrow(id, f), UNCHANGED <<now, config, dispute>>,
           escrow'[id].state = s, ShownKept(escrow[id], escrow'[id]),
           escrow[id].state \notin TerminalStates \cup {"Absent"}
    PROVE  Tells(t)
<1> DEFINE x == event_to(topic, id, s)
<1>1. x.topic = topic /\ x.id = id /\ x.state = s
  BY EventParts
<1>2. Announces(x)
  OBVIOUS
<1> HIDE DEF x
<1>3. Alone(id)
  BY Zenon DEF Alone
<1>4. TellsState(x, escrow'[id].state)
  BY <1>1 DEF TellsState
<1>5. TellsStatus(x, escrow[id], dispute[id], escrow'[id], dispute'[id])
  BY <1>1 DEF TellsStatus
<1> QED
  BY <1>1, <1>2, <1>3, <1>4, <1>5, MoveTold

(* The operations of the trade, one lemma each: the last event they log    *)
(* tells the row what they did.                                            *)
LEMMA CancellationTells ==
    ASSUME TypeOK, TypeOK', IsList(chain), NEW t, Faithful(t), NEW id \in Ids,
           record_cancellation(id)
    PROVE  Tells(t)
<1>1. ASSUME NEW caller \in Address, cancel_escrow(caller, id),
             publish(expiry_cleared(id)
                \o <<event_to("Escrow:Canceled", id, escrow'[id].state)>>)
      PROVE  Tells(t)
  <2>1. \/ escrow[id].state = "Pending" /\ move_to(id, "Canceled")
        \/ escrow[id].state = "Funded" /\ move_to(id, "Refunded")
    BY <1>1 DEF cancel_escrow
  <2>2. UNCHANGED <<now, config, dispute>>
    BY <1>1 DEF cancel_escrow, creation_vars, dispute_vars
  <2>3. PICK s \in {"Canceled", "Refunded"} : move_to(id, s)
    BY <2>1
  <2>4. escrow'[id].state = s /\ ShownKept(escrow[id], escrow'[id])
    BY <2>3, StateKeepsRow
  <2>5. Announces(event_to("Escrow:Canceled", id, s))
    BY <1>1, <2>4, Ends, UntellingLists, Zenon
  <2>6. escrow[id].state \notin TerminalStates \cup {"Absent"}
    BY <2>1 DEF TerminalStates
  <2>7. /\ s \in EscrowStates \ ({"Absent"} \cup DisputedStates)
        /\ "Escrow:Canceled" \in
              StateTopics \ {"Escrow:Funded", "Dispute:Raised", "Dispute:Resolved"}
    BY DEF EscrowStates, DisputedStates, StateTopics
  <2>8. \E f : save_escrow(id, f)
    BY <2>3, Zenon DEF move_to
  <2> QED
    BY <2>2, <2>4, <2>5, <2>6, <2>7, <2>8, PlainMoveTold
<1>2. ASSUME mutual_cancel(id),
             publish(proposal_dropped(id)
                \o <<event_to("Escrow:Canceled", id, "Canceled")>>)
      PROVE  Tells(t)
  <2>1. /\ escrow[id].state \in {"Funded", "Shipped"} /\ move_to(id, "Canceled")
        /\ UNCHANGED <<now, config, dispute>>
    BY <1>2 DEF mutual_cancel, creation_vars, dispute_vars
  <2>2. escrow'[id].state = "Canceled" /\ ShownKept(escrow[id], escrow'[id])
    BY <2>1, StateKeepsRow
  <2>3. Announces(event_to("Escrow:Canceled", id, "Canceled"))
    BY <1>2, Ends, UntellingLists, Zenon
  <2>4. escrow[id].state \notin TerminalStates \cup {"Absent"}
    BY <2>1 DEF TerminalStates
  <2>5. /\ "Canceled" \in EscrowStates \ ({"Absent"} \cup DisputedStates)
        /\ "Escrow:Canceled" \in
              StateTopics \ {"Escrow:Funded", "Dispute:Raised", "Dispute:Resolved"}
    BY DEF EscrowStates, DisputedStates, StateTopics
  <2>6. \E f : save_escrow(id, f)
    BY <2>1, Zenon DEF move_to
  <2> QED
    BY <2>1, <2>2, <2>3, <2>4, <2>5, <2>6, PlainMoveTold
<1> QED
  BY <1>1, <1>2, Zenon DEF record_cancellation
LEMMA ShippingTells ==
    ASSUME TypeOK, TypeOK', IsList(chain), NEW t, Faithful(t), NEW id \in Ids,
           NEW caller \in Address, record_shipping(caller, id)
    PROVE  Tells(t)
<1>1. ASSUME mark_shipped(caller, id), moved("Escrow:Shipped", id, "Shipped")
      PROVE  Tells(t)
  <2>1. /\ escrow[id].state \in {"Funded", "RefundRequested"}
        /\ save_escrow(id, [escrow[id] EXCEPT !.state = "Shipped", !.shipped_at = now])
        /\ UNCHANGED <<now, config, dispute>>
    BY <1>1 DEF mark_shipped, creation_vars, dispute_vars
  <2>2. escrow'[id].state = "Shipped" /\ ShownKept(escrow[id], escrow'[id])
    BY <2>1, StateKeepsRow
  <2>3. Announces(event_to("Escrow:Shipped", id, "Shipped"))
    BY <1>1, Ends, Zenon DEF moved
  <2>4. escrow[id].state \notin TerminalStates \cup {"Absent"}
    BY <2>1 DEF TerminalStates
  <2>5. /\ "Shipped" \in EscrowStates \ ({"Absent"} \cup DisputedStates)
        /\ "Escrow:Shipped" \in
              StateTopics \ {"Escrow:Funded", "Dispute:Raised", "Dispute:Resolved"}
    BY DEF EscrowStates, DisputedStates, StateTopics
  <2>6. \E f : save_escrow(id, f)
    BY <2>1, Zenon
  <2> QED
    BY <2>1, <2>2, <2>3, <2>4, <2>5, <2>6, PlainMoveTold
<1>2. ASSUME record_delivery(caller, id), publish(<<event("Escrow:Delivered", id)>>)
      PROVE  Tells(t)
  <2> DEFINE x == event("Escrow:Delivered", id)
  <2>1. /\ escrow[id].state = "Shipped"
        /\ save_escrow(id, [escrow[id] EXCEPT !.delivered_at = now])
        /\ UNCHANGED <<now, config, dispute>>
    BY <1>2 DEF record_delivery, creation_vars, dispute_vars
  <2>2. escrow'[id].state = "Shipped" /\ ShownKept(escrow[id], escrow'[id])
    BY <2>1, StateKeepsRow
  <2>3. Announces(x)
    BY <1>2, Ends, Zenon
  <2>4. x.id = id /\ x.topic \notin ToldTopics
    BY EventParts DEF ToldTopics, StateTopics
  <2> HIDE DEF x
  <2>5. Alone(id)
    BY <2>1, Zenon DEF Alone
  <2>6. SameRow(escrow[id], escrow'[id])
    BY <2>1, <2>2 DEF SameRow, ShownKept, TerminalStates
  <2>7. escrow'[id].state \in DisputedStates => escrow[id].state \in DisputedStates
    BY <2>1, <2>2
  <2>8. dispute'[id].status = dispute[id].status /\ escrow'[id].state = escrow[id].state
    BY <2>1, <2>2
  <2> QED
    BY <2>3, <2>4, <2>5, <2>6, <2>7, <2>8, AloneKeeps, StateUntold
<1> QED
  BY <1>1, <1>2, Zenon DEF record_shipping

LEMMA SettlementTells ==
    ASSUME TypeOK, TypeOK', IsList(chain), NEW t, Faithful(t), NEW id \in Ids,
           record_completion(id) \/ record_auto_release(id)
    PROVE  Tells(t)
<1>1. ASSUME NEW topic \in {"Escrow:Completed", "Escrow:Released"},
             publish(proposal_dropped(id) \o <<event_to(topic, id, "Completed")>>),
             escrow[id].state \in {"Funded", "Shipped"}, move_to(id, "Completed"),
             UNCHANGED <<now, config, dispute>>
      PROVE  Tells(t)
  <2>1. escrow'[id].state = "Completed" /\ ShownKept(escrow[id], escrow'[id])
    BY <1>1, StateKeepsRow
  <2>2. Announces(event_to(topic, id, "Completed"))
    BY <1>1, Ends, UntellingLists, Zenon
  <2>3. escrow[id].state \notin TerminalStates \cup {"Absent"}
    BY <1>1 DEF TerminalStates
  <2>4. /\ "Completed" \in EscrowStates \ ({"Absent"} \cup DisputedStates)
        /\ topic \in StateTopics \ {"Escrow:Funded", "Dispute:Raised", "Dispute:Resolved"}
    BY DEF EscrowStates, DisputedStates, StateTopics
  <2>5. \E f : save_escrow(id, f)
    BY <1>1, Zenon DEF move_to
  <2> QED
    BY <1>1, <2>1, <2>2, <2>3, <2>4, <2>5, PlainMoveTold
<1>2. ASSUME NEW caller \in Address, NEW waive \in BOOLEAN,
             confirm_delivery(caller, id, waive)
      PROVE  /\ escrow[id].state \in {"Funded", "Shipped"} /\ move_to(id, "Completed")
             /\ UNCHANGED <<now, config, dispute>>
  BY <1>2 DEF confirm_delivery, settle_escrow_to_payees, creation_vars, dispute_vars
<1>3. ASSUME co_signed_release(id)
      PROVE  /\ escrow[id].state \in {"Funded", "Shipped"} /\ move_to(id, "Completed")
             /\ UNCHANGED <<now, config, dispute>>
  BY <1>3 DEF co_signed_release, creation_vars, dispute_vars
<1>4. ASSUME auto_release(id)
      PROVE  /\ escrow[id].state \in {"Funded", "Shipped"} /\ move_to(id, "Completed")
             /\ UNCHANGED <<now, config, dispute>>
  BY <1>4 DEF auto_release, ensure_auto_release_eligible, settle_escrow_to_payees,
              creation_vars, dispute_vars
<1>5. CASE record_completion(id)
  <2>1. publish(proposal_dropped(id) \o <<event_to("Escrow:Completed", id, "Completed")>>)
    BY <1>5, Zenon DEF record_completion
  <2> QED
    BY <1>1, <1>2, <1>3, <1>5, <2>1 DEF record_completion
<1>6. CASE record_auto_release(id)
  <2>1. publish(proposal_dropped(id) \o <<event_to("Escrow:Released", id, "Completed")>>)
    BY <1>6, Zenon DEF record_auto_release
  <2> QED
    BY <1>1, <1>4, <1>6, <2>1 DEF record_auto_release
<1> QED
  BY <1>5, <1>6

LEMMA RefundTells ==
    ASSUME TypeOK, TypeOK', IsList(chain), NEW t, Faithful(t), NEW id \in Ids,
           NEW caller \in Address, record_refund(caller, id)
    PROVE  Tells(t)
<1>1. ASSUME NEW topic \in {"Refund:Requested", "Refund:Approved"},
             NEW s \in {"RefundRequested", "Refunded"}, moved(topic, id, s),
             escrow[id].state \in {"Funded", "RefundRequested"}, move_to(id, s),
             UNCHANGED <<now, config, dispute>>
      PROVE  Tells(t)
  <2>1. escrow'[id].state = s /\ ShownKept(escrow[id], escrow'[id])
    BY <1>1, StateKeepsRow
  <2>2. Announces(event_to(topic, id, s))
    BY <1>1, Ends, Zenon DEF moved
  <2>3. escrow[id].state \notin TerminalStates \cup {"Absent"}
    BY <1>1 DEF TerminalStates
  <2>4. /\ s \in EscrowStates \ ({"Absent"} \cup DisputedStates)
        /\ topic \in StateTopics \ {"Escrow:Funded", "Dispute:Raised", "Dispute:Resolved"}
    BY DEF EscrowStates, DisputedStates, StateTopics
  <2>5. \E f : save_escrow(id, f)
    BY <1>1, Zenon DEF move_to
  <2> QED
    BY <1>1, <2>1, <2>2, <2>3, <2>4, <2>5, PlainMoveTold
<1>2. CASE request_refund(caller, id) /\ moved("Refund:Requested", id, "RefundRequested")
  <2>1. /\ escrow[id].state = "Funded" /\ move_to(id, "RefundRequested")
        /\ UNCHANGED <<now, config, dispute>>
    BY <1>2 DEF request_refund, creation_vars, dispute_vars
  <2> QED
    BY <1>1, <1>2, <2>1
<1>3. CASE approve_refund(caller, id) /\ moved("Refund:Approved", id, "Refunded")
  <2>1. /\ escrow[id].state = "RefundRequested" /\ move_to(id, "Refunded")
        /\ UNCHANGED <<now, config, dispute>>
    BY <1>3 DEF approve_refund, creation_vars, dispute_vars
  <2> QED
    BY <1>1, <1>3, <2>1
<1> QED
  BY <1>2, <1>3, Zenon DEF record_refund

(* The exits without a handler: the state is not told, and the dispute     *)
(* stays as it was.                                                        *)
LEMMA SilentExitTells ==
    ASSUME TypeOK, IsList(chain), NEW t, Faithful(t), NEW id \in Ids,
           NEW topic \in UnhandledExits, Announces(event(topic, id)),
           NEW s \in TerminalStates, move_to(id, s),
           escrow[id].state \notin TerminalStates \cup {"Absent"},
           UNCHANGED <<now, config, dispute>>
    PROVE  Tells(t)
<1> DEFINE x == event(topic, id)
<1>1. x.id = id /\ x.topic = topic
  BY EventParts
<1>2. Announces(x)
  OBVIOUS
<1> HIDE DEF x
<1>3. x.topic \notin ToldTopics /\ x.topic \in UnhandledExits
  BY <1>1 DEF UnhandledExits, ToldTopics, StateTopics
<1>4. escrow'[id].state = s /\ ShownKept(escrow[id], escrow'[id])
  BY StateKeepsRow
<1>5. Alone(id)
  BY Zenon DEF Alone, move_to
<1>6. SameRow(escrow[id], escrow'[id])
  BY <1>4 DEF SameRow, ShownKept, TerminalStates
<1>7. escrow'[id].state \notin DisputedStates
  BY <1>4 DEF TerminalStates, DisputedStates
<1> QED
  BY <1>1, <1>2, <1>3, <1>5, <1>6, <1>7, AloneKeeps, StateUntold

(* The exits without a handler in the indexer: the row may fall behind,    *)
(* and RowShown allows for it.                                             *)
LEMMA ExitTells ==
    ASSUME TypeOK, IsList(chain), NEW t, Faithful(t), NEW id \in Ids,
           NEW caller \in Address,
           \/ record_auto_cancellation(id)
           \/ record_reclaim(caller, id)
           \/ record_drain(id)
           \/ record_recovery(caller, id)
    PROVE  Tells(t)
<1>1. CASE record_auto_cancellation(id)
  <2>1. /\ auto_cancel_pending(id)
        /\ Announces(event("Escrow:AutoCncl", id))
    BY <1>1, Ends, UntellingLists, Zenon DEF record_auto_cancellation
  <2>2. /\ escrow[id].state = "Pending" /\ move_to(id, "Canceled")
        /\ UNCHANGED <<now, config, dispute>>
    BY <2>1 DEF auto_cancel_pending, creation_vars, dispute_vars
  <2>3. /\ escrow[id].state \notin TerminalStates \cup {"Absent"}
        /\ "Canceled" \in TerminalStates /\ "Escrow:AutoCncl" \in UnhandledExits
    BY <2>2 DEF TerminalStates, UnhandledExits
  <2> QED
    BY <2>1, <2>2, <2>3, SilentExitTells
<1>2. CASE record_reclaim(caller, id)
  <2> DEFINE x == event_to("Escrow:Expired", id, "Expired")
  <2>1. /\ reclaim_expired(caller, id)
        /\ Announces(x)
    BY <1>2, Ends, UntellingLists, Zenon DEF record_reclaim
  <2>2. /\ escrow[id].state \in {"Funded", "Shipped"} /\ move_to(id, "Expired")
        /\ UNCHANGED <<now, config, dispute>>
    BY <2>1 DEF reclaim_expired, creation_vars, dispute_vars
  <2>3. escrow'[id].state = "Expired" /\ ShownKept(escrow[id], escrow'[id])
    BY <2>2, StateKeepsRow
  <2>4. x.id = id /\ x.topic \notin ToldTopics /\ x.topic \in UnhandledExits
    BY EventParts DEF UnhandledExits, ToldTopics, StateTopics
  <2> HIDE DEF x
  <2>5. Alone(id)
    BY <2>2, Zenon DEF Alone, move_to
  <2>6. SameRow(escrow[id], escrow'[id])
    BY <2>2, <2>3 DEF SameRow, ShownKept, TerminalStates
  <2>7. escrow'[id].state \notin DisputedStates /\ dispute'[id].status = dispute[id].status
    BY <2>2, <2>3 DEF DisputedStates
  <2> QED
    BY <2>1, <2>4, <2>5, <2>6, <2>7, AloneKeeps, StateUntold
<1>3. CASE record_drain(id)
  <2>1. emergency_drain(id) /\ Announces(event("Emergency:Drain", id))
    BY <1>3, Ends, UntellingLists, Zenon DEF record_drain
  <2>2. /\ escrow[id].state \in HoldingStates /\ move_to(id, "Refunded")
        /\ UNCHANGED <<now, config, dispute>>
    BY <2>1 DEF emergency_drain, refund_from, creation_vars, dispute_vars
  <2>3. /\ escrow[id].state \notin TerminalStates \cup {"Absent"}
        /\ "Refunded" \in TerminalStates /\ "Emergency:Drain" \in UnhandledExits
    BY <2>2 DEF TerminalStates, UnhandledExits, HoldingStates
  <2> QED
    BY <2>1, <2>2, <2>3, SilentExitTells
<1>4. CASE record_recovery(caller, id)
  <2>1. recovery_withdraw(caller, id) /\ Announces(event("Recovery:Withdraw", id))
    BY <1>4, Ends, UntellingLists, Zenon DEF record_recovery
  <2>2. /\ escrow[id].state \in HoldingStates /\ move_to(id, "Refunded")
        /\ UNCHANGED <<now, config, dispute>>
    BY <2>1 DEF recovery_withdraw, refund_from, creation_vars, dispute_vars
  <2>3. /\ escrow[id].state \notin TerminalStates \cup {"Absent"}
        /\ "Refunded" \in TerminalStates /\ "Recovery:Withdraw" \in UnhandledExits
    BY <2>2 DEF TerminalStates, UnhandledExits, HoldingStates
  <2> QED
    BY <2>1, <2>2, <2>3, SilentExitTells
<1> QED
  BY <1>1, <1>2, <1>3, <1>4

(* A log that grows.                                                       *)
ChainGrows ==
    /\ Len(chain') \in Nat /\ Len(chain') >= Len(chain)
    /\ \A k \in 1..Len(chain) : chain'[k] = chain[k]

(* What the rows mirror stays mirrored while the clock runs and nothing is *)
(* written.                                                                *)
LEMMA FaithfulStays ==
    ASSUME TypeOK, IsList(chain), ChainGrows, NEW t, Faithful(t),
           UNCHANGED <<config, escrow, dispute>>, now' \in Nat, now <= now'
    PROVE  Faithful(t)'
<1>1. Len(chain) \in Nat
  BY ListFacts
<1>2. \A id : LeftSilently(id) => LeftSilently(id)'
  BY <1>1 DEF ChainGrows, LeftSilently
<1>3. \A id \in Ids :
         /\ RowShown(t.escrows[id], escrow[id], LeftSilently(id))'
         /\ StatusShown(t.disputes[id], dispute[id], escrow[id])'
  <2>1. TAKE id \in Ids
  <2>2. /\ RowShown(t.escrows[id], escrow[id], LeftSilently(id))
        /\ StatusShown(t.disputes[id], dispute[id], escrow[id])
    BY DEF Faithful
  <2>3. (escrow[id])' = escrow[id] /\ (dispute[id])' = dispute[id]
    OBVIOUS
  <2> QED
    BY <1>2, <2>2, <2>3 DEF RowShown, StatusShown
<1>4. (t \in Tables /\ t.paused_key.paused = config.paused /\ t.paused_key.ledger <= now)'
  BY DEF Faithful, Tables, TypeOK, Time
<1> QED
  BY <1>3, <1>4, Zenon DEF Faithful

(* What changes nothing a row shows.                                       *)
LEMMA NoteTells ==
    ASSUME TypeOK, IsList(chain), NEW t, Faithful(t),
           NEW x, Announces(x), x.topic \notin ToldTopics,
           UNCHANGED <<now, config, escrow, dispute>>
    PROVE  Tells(t)
<1>1. /\ Len(chain') \in Nat /\ Len(chain') > Len(chain) /\ Len(chain) \in Nat
      /\ chain'[Len(chain')].topic = x.topic
      /\ \A k \in 1..Len(chain') :
            k > Len(chain) /\ k < Len(chain') => chain'[k].topic \notin ToldTopics
      /\ \A k \in 1..Len(chain) : chain'[k] = chain[k]
  BY LastEvent, ListFacts
<1>2. t = Told(t, chain'[Len(chain')])
  BY <1>1, Untold DEF Faithful
<1>3. ChainGrows
  BY <1>1 DEF ChainGrows
<1>4. now' \in Nat /\ now <= now'
  BY DEF TypeOK, Time
<1>5. Faithful(t)'
  BY <1>3, <1>4, FaithfulStays
<1> QED
  BY <1>1, <1>2, <1>5, Zenon DEF Tells

(* Delivery proposals change no row.                                       *)
LEMMA ProposalTells ==
    ASSUME TypeOK, IsList(chain), NEW t, Faithful(t), NEW id \in Ids,
           NEW caller \in Address, record_proposal(caller, id)
    PROVE  Tells(t)
<1>1. UNCHANGED <<now, config, escrow, dispute>>
  BY DEF record_proposal, propose_record_delivery, cancel_delivery_proposal,
         reject_delivery_proposal, drop_delivery_proposal, creation_vars, dispute_vars
<1>2. PICK topic \in {"Delivery:Proposed", "Delivery:Cancelled"} :
         publish(<<event(topic, id)>>)
  BY Zenon DEF record_proposal
<1> DEFINE x == event(topic, id)
<1>3. Announces(x) /\ x.id = id /\ x.topic = topic
  BY <1>2, Ends, EventParts, Zenon
<1> HIDE DEF x
<1>4. x.topic \notin ToldTopics
  BY <1>3 DEF ToldTopics, StateTopics
<1> QED
  BY <1>1, <1>3, <1>4, NoteTells

LEMMA DisputeSaved ==
    ASSUME TypeOK, NEW id \in Ids
    PROVE  /\ dispute[id] \in DisputeRecord
           /\ \A d : save_dispute(id, d) => dispute'[id] = d
BY DEF TypeOK, save_dispute

LEMMA DisputeTells ==
    ASSUME TypeOK, TypeOK', IsList(chain), NEW t, Faithful(t), NEW id \in Ids,
           NEW caller \in Address, record_dispute(caller, id)
    PROVE  Tells(t)
<1> DEFINE x == event_to("Dispute:Raised", id, "Disputed")
           d == [NoDispute EXCEPT !.status = "Active", !.disputed_at = now]
<1>1. raise_dispute(caller, id) /\ Announces(x)
  BY Ends, UntellingLists, Zenon DEF record_dispute
<1>2. /\ escrow[id].state \in {"Funded", "Shipped"} /\ move_to(id, "Disputed")
      /\ UNCHANGED <<now, config>> /\ save_dispute(id, d)
  BY <1>1 DEF raise_dispute, creation_vars
<1>3. escrow'[id].state = "Disputed" /\ ShownKept(escrow[id], escrow'[id])
  BY <1>2, StateKeepsRow
<1>4. x.id = id /\ x.topic = "Dispute:Raised" /\ x.state = "Disputed"
  BY EventParts
<1>5. dispute'[id].status = "Active"
  <2>1. d.status = "Active"
    BY DEF NoDispute
  <2> HIDE DEF d
  <2> QED
    BY <1>2, <2>1, DisputeSaved
<1>6. Alone(id)
  BY <1>2, Zenon DEF Alone, move_to
<1> HIDE DEF x, d
<1>7. TellsState(x, escrow'[id].state)
  BY <1>3, <1>4 DEF TellsState, StateTopics
<1>8. TellsStatus(x, escrow[id], dispute[id], escrow'[id], dispute'[id])
  BY <1>4, <1>5 DEF TellsStatus
<1>9. escrow[id].state \notin TerminalStates \cup {"Absent"} /\ escrow'[id].state # "Absent"
  BY <1>2, <1>3 DEF TerminalStates
<1> QED
  BY <1>1, <1>3, <1>4, <1>6, <1>7, <1>8, <1>9, MoveTold

(* A decision: the dispute stays open and the escrow waits.                *)
LEMMA TransitionKeepsRow ==
    ASSUME TypeOK, NEW id \in Ids, NEW caller, NEW r, NEW v, NEW charge_fees,
           execute_resolution_transition(id, caller, r, v, charge_fees)
    PROVE  /\ escrow'[id].state = "PendingFinalization"
           /\ ShownKept(escrow[id], escrow'[id])
           /\ dispute'[id].status = dispute[id].status
           /\ Alone(id)
<1> DEFINE e == escrow[id]
           d == dispute[id]
           a == calculate_fee(e.amount, config.arbitration_fee_bps)
           f == calculate_fee(e.amount, e.resolver_fee_bps)
           decided == [d EXCEPT !.resolution = resolution_code(r),
                                !.resolved_by = caller, !.resolved_at = now,
                                !.fees_charged = TRUE]
<1>1. UNCHANGED <<now, config>>
  BY DEF execute_resolution_transition, creation_vars
<1>2. \/ /\ save_escrow(id, [e EXCEPT !.state = "PendingFinalization",
                                     !.amount = @ - a - f])
         /\ save_dispute(id, [decided EXCEPT !.arbitration_fee = a, !.resolver_fee = f])
      \/ /\ move_to(id, "PendingFinalization")
         /\ \/ save_dispute(id, decided)
            \/ save_dispute(id, [decided EXCEPT !.arbitration_fee = 0, !.resolver_fee = 0])
  BY Zenon DEF execute_resolution_transition
<1>3. \A y, z : [decided EXCEPT !.arbitration_fee = y, !.resolver_fee = z].status = d.status
  BY DisputeSaved DEF DisputeRecord
<1>4. decided.status = d.status
  BY DisputeSaved DEF DisputeRecord
<1> HIDE DEF decided, a, f
<1>5. dispute'[id].status = d.status
  <2>1. ASSUME NEW new, new.status = d.status, save_dispute(id, new)
        PROVE  dispute'[id].status = d.status
    BY <2>1, DisputeSaved
  <2>2. [decided EXCEPT !.arbitration_fee = a, !.resolver_fee = f].status = d.status
    BY <1>3
  <2>3. [decided EXCEPT !.arbitration_fee = 0, !.resolver_fee = 0].status = d.status
    BY <1>3
  <2> QED
    BY <1>2, <1>4, <2>1, <2>2, <2>3, Zenon
<1>6. escrow'[id].state = "PendingFinalization" /\ ShownKept(e, escrow'[id])
  BY <1>2, StateKeepsRow, Zenon
<1>7. Alone(id)
  BY <1>1, <1>2, Zenon DEF Alone, move_to
<1> QED
  BY <1>5, <1>6, <1>7

(* A decision is told by Dispute:Pending, whoever took it.                 *)
LEMMA DecisionTells ==
    ASSUME TypeOK, TypeOK', IsList(chain), NEW t, Faithful(t), NEW id \in Ids,
           NEW es, Untelling(es), publish(es \o decision_pending(id)),
           escrow[id].state = "Disputed",
           NEW caller, NEW r, NEW v, NEW charge_fees,
           execute_resolution_transition(id, caller, r, v, charge_fees)
    PROVE  Tells(t)
<1> DEFINE x == event("Dispute:Pending", id)
<1>1. /\ escrow'[id].state = "PendingFinalization"
      /\ ShownKept(escrow[id], escrow'[id])
      /\ dispute'[id].status = dispute[id].status
      /\ Alone(id)
  BY TransitionKeepsRow, Zenon
<1>2. decision_pending(id) = <<x>>
  BY <1>1 DEF decision_pending
<1>3. x.id = id /\ x.topic = "Dispute:Pending"
  BY EventParts
<1> HIDE DEF x
<1>4. Announces(x)
  BY <1>2, Ends, Zenon
<1>5. TellsState(x, escrow'[id].state)
  BY <1>1, <1>3 DEF TellsState
<1>6. TellsStatus(x, escrow[id], dispute[id], escrow'[id], dispute'[id])
  BY <1>1, <1>3 DEF TellsStatus, DisputedStates
<1>7. escrow[id].state \notin TerminalStates \cup {"Absent"} /\ escrow'[id].state # "Absent"
  BY <1>1 DEF TerminalStates
<1> QED
  BY <1>1, <1>3, <1>4, <1>5, <1>6, <1>7, MoveTold

LEMMA VoteTells ==
    ASSUME TypeOK, TypeOK', IsList(chain), NEW t, Faithful(t), NEW id \in Ids,
           NEW caller \in Address, NEW r \in Resolution, record_vote(caller, id, r)
    PROVE  Tells(t)
<1> DEFINE x == event_of("resolver_vote_recorded", id, caller)
<1>1. /\ resolve_or_vote(caller, id, r) /\ publish(<<x>> \o decision_pending(id))
      /\ escrow[id].state = "Disputed"
  BY Zenon DEF record_vote, resolve_or_vote
<1>2. Untelling(<<x>>)
  BY UntellingLists, Zenon
<1>3. ASSUME NEW c, NEW s, NEW v, execute_resolution_transition(id, c, s, v, TRUE)
      PROVE  Tells(t)
  <2> HIDE DEF x
  <2> QED
    BY <1>1, <1>2, <1>3, DecisionTells
<1>4. CASE UNCHANGED <<creation_vars, escrow, dispute>>
  <2>1. decision_pending(id) = <<>>
    BY <1>1, <1>4 DEF decision_pending
  <2>2. <<x>> \o <<>> = <<x>>
    <3> HIDE DEF x
    <3>1. ASSUME NEW s, s = <<>> PROVE <<x>> \o s = <<x>>
      BY <3>1
    <3> QED
      BY <3>1, Zenon
  <2>3. Announces(x)
    BY <1>1, <2>1, <2>2, Ends, Zenon
  <2>4. x.id = id /\ x.topic \notin ToldTopics
    BY EventParts DEF ToldTopics, StateTopics
  <2> HIDE DEF x
  <2>5. UNCHANGED <<now, config, escrow, dispute>>
    BY <1>4 DEF creation_vars
  <2> QED
    BY <2>3, <2>4, <2>5, NoteTells
<1>5. \/ UNCHANGED <<creation_vars, escrow, dispute>>
      \/ \E s, v : execute_resolution_transition(id, caller, s, v, TRUE)
  BY <1>1, Zenon DEF resolve_or_vote
<1> QED
  BY <1>3, <1>4, <1>5

LEMMA ForcedDecisionTells ==
    ASSUME TypeOK, TypeOK', IsList(chain), NEW t, Faithful(t), NEW id \in Ids,
           record_forced_decision(id)
    PROVE  Tells(t)
<1>1. /\ escrow[id].state = "Disputed"
      /\ \E caller, r, v, charge_fees :
            execute_resolution_transition(id, caller, r, v, charge_fees)
  BY Zenon DEF record_forced_decision, resolve_deadlocked_dispute, claim_dispute_timeout
<1>2. Untelling(<<>>) /\ <<>> \o decision_pending(id) = decision_pending(id)
  <2>1. \A y : <<>> \o <<y>> = <<y>>
    <3>1. ASSUME NEW y, NEW s, s = <<>> PROVE s \o <<y>> = <<y>>
      BY <3>1
    <3> QED
      BY <3>1, Zenon
  <2>2. <<>> \o <<>> = <<>>
    OBVIOUS
  <2> QED
    BY <2>1, <2>2, UntellingLists, Zenon DEF decision_pending
<1>3. publish(<<>> \o decision_pending(id))
  BY <1>2, Zenon DEF record_forced_decision
<1> DEFINE none == <<>>
<1>4. Untelling(none) /\ publish(none \o decision_pending(id))
  BY <1>2, <1>3
<1> HIDE DEF none
<1> QED
  BY <1>1, <1>4, DecisionTells

LEMMA FinalizationTells ==
    ASSUME TypeOK, TypeOK', IsList(chain), NEW t, Faithful(t), NEW id \in Ids,
           record_finalization(id)
    PROVE  Tells(t)
<1>1. /\ escrow[id].state = "PendingFinalization"
      /\ \E s \in {"Completed", "Refunded"} : move_to(id, s)
      /\ save_dispute(id, [dispute[id] EXCEPT !.status = "Resolved"])
      /\ UNCHANGED <<now, config>>
  BY DEF record_finalization, finalize_dispute, creation_vars
<1>2. PICK s \in {"Completed", "Refunded"} : move_to(id, s)
  BY <1>1
<1> DEFINE x == event_to("Dispute:Resolved", id, s)
<1>3. escrow'[id].state = s /\ ShownKept(escrow[id], escrow'[id])
  BY <1>2, StateKeepsRow
<1>4. Announces(x)
  BY <1>3, Ends, Zenon DEF record_finalization, moved
<1>5. x.id = id /\ x.topic = "Dispute:Resolved" /\ x.state = s
  BY EventParts
<1> HIDE DEF x
<1>6. dispute'[id].status = "Resolved"
  <2>1. [dispute[id] EXCEPT !.status = "Resolved"].status = "Resolved"
    BY DisputeSaved DEF DisputeRecord
  <2> QED
    BY <1>1, <2>1, DisputeSaved, Zenon
<1>7. Alone(id)
  BY <1>1, <1>2, Zenon DEF Alone, move_to
<1>8. TellsState(x, escrow'[id].state)
  BY <1>3, <1>5 DEF TellsState, StateTopics
<1>9. TellsStatus(x, escrow[id], dispute[id], escrow'[id], dispute'[id])
  BY <1>1, <1>3, <1>5, <1>6 DEF TellsStatus, DisputedStates
<1>10. escrow[id].state \notin TerminalStates \cup {"Absent"} /\ escrow'[id].state # "Absent"
  BY <1>1, <1>3 DEF TerminalStates
<1> QED
  BY <1>3, <1>4, <1>5, <1>7, <1>8, <1>9, <1>10, MoveTold

LEMMA AppealTells ==
    ASSUME TypeOK, TypeOK', IsList(chain), NEW t, Faithful(t), NEW id \in Ids,
           NEW caller \in Address, record_appeal(caller, id)
    PROVE  Tells(t)
<1> DEFINE x == event("Dispute:Appealed", id)
           d == [dispute[id] EXCEPT !.status = "Active", !.resolution = 0,
                                    !.resolved_by = None, !.resolved_at = 0,
                                    !.appeal_count = @ + 1]
<1>1. appeal_dispute(caller, id) /\ Announces(x)
  BY Ends, Zenon DEF record_appeal
<1>2. /\ escrow[id].state = "PendingFinalization" /\ move_to(id, "Disputed")
      /\ UNCHANGED <<now, config>> /\ save_dispute(id, d)
  BY <1>1 DEF appeal_dispute, creation_vars
<1>3. escrow'[id].state = "Disputed" /\ ShownKept(escrow[id], escrow'[id])
  BY <1>2, StateKeepsRow
<1>4. x.id = id /\ x.topic = "Dispute:Appealed"
  BY EventParts
<1>5. dispute'[id].status = "Active"
  <2>1. d.status = "Active"
    BY DisputeSaved DEF DisputeRecord
  <2> HIDE DEF d
  <2> QED
    BY <1>2, <2>1, DisputeSaved
<1>6. Alone(id)
  BY <1>2, Zenon DEF Alone, move_to
<1>7. dispute[id].status = "Active"
  BY <1>2 DEF Faithful, StatusShown, DisputedStates
<1> HIDE DEF x, d
<1>8. TellsState(x, escrow'[id].state)
  BY <1>3, <1>4 DEF TellsState
<1>9. TellsStatus(x, escrow[id], dispute[id], escrow'[id], dispute'[id])
  BY <1>2, <1>4, <1>5, <1>7 DEF TellsStatus, DisputedStates
<1>10. escrow[id].state \notin TerminalStates \cup {"Absent"} /\ escrow'[id].state # "Absent"
  BY <1>2, <1>3 DEF TerminalStates
<1> QED
  BY <1>1, <1>3, <1>4, <1>6, <1>8, <1>9, <1>10, MoveTold

LEMMA OverrideTells ==
    ASSUME TypeOK, TypeOK', IsList(chain), NEW t, Faithful(t), NEW id \in Ids,
           NEW caller \in Address, record_override(caller, id)
    PROVE  Tells(t)
<1> DEFINE x == event_to("Escrow:Canceled", id, "Refunded")
<1>1. cancel_pending_finalization(caller, id) /\ Announces(x)
  BY Ends, Zenon DEF record_override, moved
<1>2. /\ escrow[id].state = "PendingFinalization" /\ move_to(id, "Refunded")
      /\ UNCHANGED <<now, config>> /\ \E d : save_dispute(id, d)
  BY <1>1 DEF cancel_pending_finalization, creation_vars
<1>3. escrow'[id].state = "Refunded" /\ ShownKept(escrow[id], escrow'[id])
  BY <1>2, StateKeepsRow
<1>4. x.id = id /\ x.topic = "Escrow:Canceled" /\ x.state = "Refunded"
  BY EventParts
<1>5. Alone(id)
  BY <1>2, Zenon DEF Alone, move_to
<1> HIDE DEF x
<1>6. TellsState(x, escrow'[id].state)
  BY <1>3, <1>4 DEF TellsState, StateTopics
<1>7. TellsStatus(x, escrow[id], dispute[id], escrow'[id], dispute'[id])
  BY <1>2, <1>3, <1>4 DEF TellsStatus, DisputedStates
<1>8. escrow[id].state \notin TerminalStates \cup {"Absent"} /\ escrow'[id].state # "Absent"
  BY <1>2, <1>3 DEF TerminalStates
<1> QED
  BY <1>1, <1>3, <1>4, <1>5, <1>6, <1>7, <1>8, MoveTold

LEMMA EscrowSaved ==
    ASSUME TypeOK, NEW id \in Ids
    PROVE  /\ escrow[id] \in EscrowRecord
           /\ \A f : save_escrow(id, f) => escrow'[id] = f
BY DEF TypeOK, save_escrow

LEMMA FundingTells ==
    ASSUME TypeOK, IsList(chain), NEW t, Faithful(t), NEW id \in Ids,
           NEW buyer \in Address, record_funding(buyer, id)
    PROVE  Tells(t)
<1> DEFINE x == [event_to("Escrow:Funded", id, "Funded") EXCEPT !.party = buyer]
           e == escrow[id]
           row == t.escrows[id]
           status == t.disputes[id]
           f == [e EXCEPT !.state = "Funded", !.buyer = buyer,
                    !.funded_at = pack_timestamp(now),
                    !.dispute_deadline = pack_timestamp(now + DISPUTE_WINDOW)]
<1>1. fund(buyer, id) /\ Announces(x)
  <2>1. fund(buyer, id)
    BY Zenon DEF record_funding, fund_escrow, fund_basket_escrow
  <2> QED
    BY <2>1, Ends, UntellingLists, Zenon DEF record_funding
<1>2. /\ e.state = "Pending" /\ save_escrow(id, f)
      /\ UNCHANGED <<now, config, dispute>>
  BY <1>1 DEF fund, creation_vars, dispute_vars
<1>3. /\ x.topic = "Escrow:Funded" /\ x.id = id /\ x.state = "Funded" /\ x.party = buyer
  BY EventParts
<1>4. /\ f.state = "Funded" /\ f.buyer = buyer
      /\ f.basket_tokens = e.basket_tokens /\ f.resolvers = e.resolvers
  BY EscrowSaved DEF EscrowRecord
<1>5. escrow'[id] = f
  BY <1>2, EscrowSaved
<1> HIDE DEF x, f
<1>6. /\ row \in Row \cup {None} /\ status \in {"Active", "Resolved", None}
      /\ RowShown(row, e, LeftSilently(id))
      /\ StatusShown(status, dispute[id], e)
  BY DEF Faithful, Tables
<1> DEFINE new == applied_row(row, x)
<1>7. PICK s : /\ s \in StoredState /\ s.name = "Funded"
               /\ new = IF row = None THEN None
                        ELSE [row EXCEPT !.state = s, !.buyer = buyer]
  <2>1. new = IF row = None THEN None
              ELSE [row EXCEPT !.state = told_state(x), !.buyer = x.party]
    BY <1>3, <1>6, ToldRows
  <2>2. told_state(x) \in StoredState /\ told_state(x).name = "Funded"
    BY <1>3, ToldName DEF EscrowStates
  <2> HIDE DEF new, row
  <2> QED
    BY <1>3, <2>1, <2>2
<1>8. applied_dispute(status, x) = status
  BY <1>3 DEF applied_dispute
<1> HIDE DEF new, row, status
<1>9. row \in Row =>
         LET r == [row EXCEPT !.state = s, !.buyer = buyer]
         IN  /\ r \in Row /\ r.state = s /\ r.buyer = buyer
             /\ r.resolver = row.resolver
  BY <1>7 DEF Row, OptionAddress
<1>10. /\ new \in Row \cup {None}
       /\ RowShown(new, f, LeftSilently(id) \/ x.topic \in UnhandledExits)
  BY <1>2, <1>4, <1>6, <1>7, <1>9, RowAssumption DEF RowShown
<1>11. StatusShown(status, dispute'[id], f)
  BY <1>2, <1>4, <1>6 DEF StatusShown, DisputedStates
<1>12. ToldRight(t, id, x)
  BY <1>5, <1>6, <1>8, <1>10, <1>11 DEF ToldRight, new, row, status
<1>13. OthersKept(id)
  <2>1. Alone(id)
    BY <1>2, Zenon DEF Alone
  <2> QED
    BY <2>1, AloneKeeps
<1> QED
  BY <1>1, <1>3, <1>12, <1>13, OneTold

LEMMA RotationTells ==
    ASSUME TypeOK, IsList(chain), NEW t, Faithful(t), NEW id \in Ids,
           NEW caller \in Address, NEW new_resolver \in Address,
           record_rotation(caller, id, new_resolver)
    PROVE  Tells(t)
<1> DEFINE x == event_of("Resolver:Rotated", id, new_resolver)
           e == escrow[id]
           row == t.escrows[id]
           status == t.disputes[id]
           f == [e EXCEPT !.resolvers.members = <<new_resolver>>]
<1>1. rotate_resolver(caller, id, new_resolver) /\ Announces(x)
  BY Ends, Zenon DEF record_rotation
<1>2. /\ e.state \notin TerminalStates \cup {"Absent"} /\ save_escrow(id, f)
      /\ UNCHANGED <<now, config, dispute>>
  BY <1>1 DEF rotate_resolver, creation_vars, dispute_vars
<1>3. x.topic = "Resolver:Rotated" /\ x.id = id /\ x.party = new_resolver
  BY EventParts
<1>4. /\ f.state = e.state /\ f.buyer = e.buyer /\ f.basket_tokens = e.basket_tokens
      /\ f.funded_at = e.funded_at /\ f.resolvers.members[1] = new_resolver
  <2>1. e \in EscrowRecord /\ e.resolvers \in ResolverSet
    BY EscrowSaved DEF EscrowRecord
  <2>2. f.resolvers.members = <<new_resolver>>
    BY <2>1 DEF EscrowRecord, ResolverSet
  <2>3. f.state = e.state /\ f.buyer = e.buyer /\ f.basket_tokens = e.basket_tokens
        /\ f.funded_at = e.funded_at
    BY <2>1 DEF EscrowRecord
  <2>4. \A m : m = <<new_resolver>> => m[1] = new_resolver
    OBVIOUS
  <2> QED
    BY <2>2, <2>3, <2>4, Zenon
<1>5. escrow'[id] = f
  BY <1>2, EscrowSaved
<1> HIDE DEF x, f
<1>6. /\ row \in Row \cup {None} /\ status \in {"Active", "Resolved", None}
      /\ RowShown(row, e, LeftSilently(id))
      /\ StatusShown(status, dispute[id], e)
  BY DEF Faithful, Tables
<1> DEFINE new == applied_row(row, x)
<1>7. new = IF row = None THEN None ELSE [row EXCEPT !.resolver = new_resolver]
  BY <1>3, <1>6, ToldRows
<1>8. applied_dispute(status, x) = status
  BY <1>3 DEF applied_dispute
<1> HIDE DEF new, row, status
<1>9. row \in Row =>
         LET r == [row EXCEPT !.resolver = new_resolver]
         IN  /\ r \in Row /\ r.state = row.state /\ r.buyer = row.buyer
             /\ r.resolver = new_resolver
  BY DEF Row
<1>10. /\ new \in Row \cup {None}
       /\ RowShown(new, f, LeftSilently(id) \/ x.topic \in UnhandledExits)
  BY <1>2, <1>4, <1>6, <1>7, <1>9, RowAssumption DEF RowShown
<1>11. StatusShown(status, dispute'[id], f)
  BY <1>2, <1>4, <1>6 DEF StatusShown
<1>12. ToldRight(t, id, x)
  BY <1>5, <1>6, <1>8, <1>10, <1>11 DEF ToldRight, new, row, status
<1>13. OthersKept(id)
  <2>1. Alone(id)
    BY <1>2, Zenon DEF Alone
  <2> QED
    BY <2>1, AloneKeeps
<1> QED
  BY <1>1, <1>3, <1>12, <1>13, OneTold

(* What a creator leaves under the id it hands out.                        *)
LEMMA Created ==
    ASSUME TypeOK, BooksInv, NEW t, Faithful(t), NEW terms \in Terms, NewEscrow(terms)
    PROVE  /\ next_id \in Ids /\ OthersKept(next_id)
           /\ LET f == escrow'[next_id]
              IN  /\ f.state = "Pending" /\ f.basket_tokens = basket_size(terms)
                  /\ f.funded_at = 0 /\ f.resolvers = terms.resolvers
           /\ dispute'[next_id] = dispute[next_id]
           /\ escrow[next_id].state = "Absent" /\ t.escrows[next_id] = None
<1> DEFINE f == [state |-> "Pending", payees |-> terms.payees, buyer |-> terms.buyer,
                 resolvers |-> terms.resolvers, amount |-> terms.amount,
                 basket |-> basket_value(terms.basket),
                 basket_tokens |-> basket_size(terms), fee_bps |-> terms.fee_bps,
                 resolver_fee_bps |-> terms.resolver_fee_bps,
                 shipping_window |-> terms.shipping_window, funded_at |-> 0,
                 dispute_deadline |-> 0, shipped_at |-> 0, delivered_at |-> None,
                 expires_at |-> terms.expires_at, grace_period |-> terms.grace_period]
<1>1. /\ next_id \in Ids /\ save_escrow(next_id, f)
      /\ UNCHANGED <<now, config, dispute>>
  BY DEF NewEscrow
<1>2. /\ f.state = "Pending" /\ f.basket_tokens = basket_size(terms)
      /\ f.funded_at = 0 /\ f.resolvers = terms.resolvers
  OBVIOUS
<1> HIDE DEF f
<1>3. escrow'[next_id] = f
  BY <1>1, EscrowSaved
<1>4. OthersKept(next_id)
  <2>1. Alone(next_id)
    BY <1>1, Zenon DEF Alone
  <2> QED
    BY <1>1, <2>1, AloneKeeps
<1>5. escrow[next_id].state = "Absent"
  BY <1>1 DEF BooksInv, FreshIds, Ids
<1>6. t.escrows[next_id] = None
  BY <1>1, <1>5 DEF Faithful, RowShown
<1> QED
  BY <1>1, <1>2, <1>3, <1>4, <1>5, <1>6, Zenon

(* The resolver an event of a creation names is the first of a validated   *)
(* set.                                                                    *)
LEMMA FirstResolver ==
    ASSUME NEW terms \in Terms, Acceptable(terms)
    PROVE  terms.resolvers.members[1] \in Address
<1> DEFINE r == terms.resolvers
<1>1. r.members \in Seq(Address) /\ r.kind \in {"Single", "Multi", "Fallback"}
  BY TermsTypes DEF ResolverSet
<1>2. /\ r.kind = "Single" => Len(r.members) = 1
      /\ r.kind = "Fallback" => Len(r.members) = 2
      /\ r.kind = "Multi" => r.threshold \in 1..Len(r.members)
  BY TermsAssumption DEF Acceptable, validate_single_resolver, validate_resolvers
<1> DEFINE m == r.members
<1>3. m \in Seq(Address) /\ Len(m) >= 1
  BY <1>1, <1>2
<1> HIDE DEF m
<1> QED
  BY <1>3 DEF m

(* A creation finds no row under its id and makes one.                     *)
LEMMA CreationTells ==
    ASSUME TypeOK, BooksInv, IsList(chain), NEW t, Faithful(t),
           NEW terms \in Terms, record_creation(terms)
    PROVE  Tells(t)
<1> DEFINE id == next_id
           who == terms.resolvers.members[1]
           x == [event_to("Escrow:Created", id, "Pending") EXCEPT !.party = who]
           f == escrow'[id]
           status == t.disputes[id]
<1>1. Announces(x)
  BY Ends, Zenon DEF record_creation
<1>2. NewEscrow(terms) /\ basket_size(terms) = 0
  BY DEF record_creation, create_escrow, create_escrow_with_expiration,
         create_escrow_multi, create_escrow_with_fallback, create_escrow_internal,
         create_with_resolver_set, basket_size
<1>3. Acceptable(terms)
  BY DEF record_creation, create_escrow, create_escrow_with_expiration,
         create_escrow_multi, create_escrow_with_fallback, create_escrow_internal,
         create_with_resolver_set, validate_price, Acceptable
<1>4. who \in Address
  BY <1>3, FirstResolver
<1>5. /\ id \in Ids /\ OthersKept(id)
      /\ f.state = "Pending" /\ f.basket_tokens = 0 /\ f.funded_at = 0
      /\ f.resolvers.members[1] = who
      /\ dispute'[id] = dispute[id]
      /\ escrow[id].state = "Absent" /\ t.escrows[id] = None
  BY <1>2, Created
<1>6. /\ x.topic = "Escrow:Created" /\ x.id = id /\ x.state = "Pending" /\ x.party = who
  BY EventParts
<1> HIDE DEF x, f, who
<1>7. PICK s : /\ s \in StoredState /\ s.name = "Pending"
               /\ applied_row(None, x) = [state |-> s, buyer |-> None, resolver |-> who]
  <2>1. told_state(x) \in StoredState /\ told_state(x).name = "Pending"
    BY <1>6, ToldName DEF EscrowStates
  <2> QED
    BY <1>6, <2>1 DEF applied_row
<1>8. LET row == [state |-> s, buyer |-> None, resolver |-> who]
      IN  row \in Row /\ row.state = s
  BY <1>4, <1>7 DEF Row, OptionAddress
<1>9. RowShown(applied_row(None, x), f, LeftSilently(id) \/ x.topic \in UnhandledExits)
  BY <1>5, <1>7, <1>8 DEF RowShown
<1>10. applied_dispute(status, x) = status /\ status \in {"Active", "Resolved", None}
  BY <1>5, <1>6 DEF applied_dispute, Faithful, Tables
<1>11. StatusShown(status, dispute[id], escrow[id])
  BY <1>5 DEF Faithful
<1>12. StatusShown(status, dispute'[id], f)
  BY <1>5, <1>11 DEF StatusShown, DisputedStates
<1>13. ToldRight(t, id, x)
  BY <1>5, <1>7, <1>8, <1>9, <1>10, <1>12 DEF ToldRight, f
<1> QED
  BY <1>1, <1>5, <1>6, <1>13, OneTold

LEMMA BasketCreationTells ==
    ASSUME TypeOK, BooksInv, IsList(chain), NEW t, Faithful(t),
           NEW terms \in Terms, record_basket_creation(terms)
    PROVE  Tells(t)
<1> DEFINE id == next_id
           x == event("Basket:Created", id)
           f == escrow'[id]
           status == t.disputes[id]
<1>1. Announces(x)
  BY Ends, Zenon DEF record_basket_creation
<1>2. NewEscrow(terms) /\ basket_size(terms) > 0
  <2>1. create_basket_escrow(terms)
    BY Zenon DEF record_basket_creation
  <2>2. NewEscrow(terms) /\ basket_size(terms) \in 1..MAX_BASKET_SIZE
    BY <2>1, Zenon DEF create_basket_escrow, validate_basket
  <2> QED
    BY <2>2 DEF MAX_BASKET_SIZE
<1>3. /\ id \in Ids /\ OthersKept(id) /\ f.state = "Pending" /\ f.basket_tokens > 0
      /\ t.escrows[id] = None
  BY <1>2, Created
<1>4. x.topic = "Basket:Created" /\ x.id = id
  BY EventParts
<1>5. x.topic \notin ToldTopics
  BY <1>4 DEF ToldTopics, StateTopics
<1> HIDE DEF x, f
<1>6. applied_row(None, x) = None /\ applied_dispute(status, x) = status
  BY <1>5, UntoldRow
<1>7. RowShown(None, f, LeftSilently(id) \/ x.topic \in UnhandledExits)
  BY <1>3 DEF RowShown
<1>8. StatusShown(status, dispute'[id], f) /\ status \in {"Active", "Resolved", None}
  BY <1>3 DEF StatusShown, DisputedStates, Faithful, Tables
<1>9. ToldRight(t, id, x)
  BY <1>3, <1>6, <1>7, <1>8 DEF ToldRight, f
<1> QED
  BY <1>1, <1>3, <1>4, <1>9, OneTold

LEMMA PairJoins == \A a, b : <<a, b>> = <<a>> \o <<b>>
<1>1. TAKE a, b
<1> DEFINE V == {a, b}
           p == <<a, b>>
           q == <<a>> \o <<b>>
<1>2. p \in Seq(V) /\ Len(p) = 2 /\ p[1] = a /\ p[2] = b
  OBVIOUS
<1>3. <<a>> \in Seq(V) /\ <<b>> \in Seq(V)
  OBVIOUS
<1>4. q \in Seq(V) /\ Len(q) = 2 /\ q[1] = a /\ q[2] = b
  BY <1>3
<1> HIDE DEF V, p, q
<1>5. \A i \in 1..Len(p) : p[i] = q[i]
  BY <1>2, <1>4
<1>6. p = q
  BY <1>2, <1>4, <1>5, SeqEqual
<1> QED
  BY <1>6 DEF p, q

LEMMA PauseTells ==
    ASSUME TypeOK, IsList(chain), NEW t, Faithful(t), NEW flag \in BOOLEAN,
           record_pause(flag)
    PROVE  Tells(t)
<1> DEFINE topic == IF flag THEN "Contract:Paused" ELSE "Contract:Unpaused"
           x == event(topic, None)
           head == event("Timelock:Executed", None)
<1>2. Untelling(<<head>>)
  BY UntellingLists, Zenon
<1>3. Announces(x)
  <2>1. publish(<<head, x>>)
    BY Zenon DEF record_pause
  <2> HIDE DEF head, x
  <2> QED
    BY <1>2, <2>1, PairJoins, Ends, Zenon
<1>4. x.topic = topic
  BY EventParts
<1> HIDE DEF x
<1>5. PICK e : e = chain'[Len(chain')]
  OBVIOUS
<1>6. /\ Len(chain') \in Nat /\ Len(chain') > Len(chain) /\ Len(chain) \in Nat
      /\ e.topic = topic /\ e.ledger = now
      /\ \A k \in 1..Len(chain') :
            k > Len(chain) /\ k < Len(chain') => chain'[k].topic \notin ToldTopics
      /\ \A k \in 1..Len(chain) : chain'[k] = chain[k]
  BY <1>3, <1>4, <1>5, LastEvent, ListFacts
<1>7. /\ UNCHANGED <<now, escrow, dispute>>
      /\ config' = [config EXCEPT !.paused = flag] /\ config \in Config
  BY DEF record_pause, set_paused, configure, TypeOK
<1>8. config'.paused = flag
  BY <1>7 DEF Config
<1>9. PICK u : u = Told(t, e)
  OBVIOUS
<1>10. t \in Tables /\ t.paused_key.ledger <= now /\ now \in Nat
  BY DEF Faithful, TypeOK, Time
<1>11. applied_pause(t.paused_key, e) = [paused |-> flag, ledger |-> now]
  BY <1>6, <1>10 DEF applied_pause
<1>12. /\ \A row : applied_row(row, e) = row
       /\ \A status : applied_dispute(status, e) = status
  BY <1>6 DEF applied_row, updated, applied_dispute, StateTopics
<1>13. /\ u = [escrows |-> t.escrows, disputes |-> t.disputes,
               paused_key |-> [paused |-> flag, ledger |-> now]]
  <2>1. u = [escrows |-> [id \in Ids |-> t.escrows[id]],
             disputes |-> [id \in Ids |-> t.disputes[id]],
             paused_key |-> [paused |-> flag, ledger |-> now]]
    BY <1>9, <1>11, <1>12, Zenon DEF Told
  <2> QED
    BY <1>10, <2>1 DEF Tables
<1>14. /\ u \in Tables /\ u.escrows = t.escrows /\ u.disputes = t.disputes
       /\ u.paused_key.paused = flag /\ u.paused_key.ledger = now
  BY <1>10, <1>13 DEF Tables
<1>15. \A id : LeftSilently(id) => LeftSilently(id)'
  BY <1>6 DEF LeftSilently
<1>16. \A id \in Ids :
          /\ RowShown(u.escrows[id], escrow[id], LeftSilently(id))'
          /\ StatusShown(u.disputes[id], dispute[id], escrow[id])'
  <2>1. TAKE id \in Ids
  <2>2. /\ RowShown(t.escrows[id], escrow[id], LeftSilently(id))
        /\ StatusShown(t.disputes[id], dispute[id], escrow[id])
    BY DEF Faithful
  <2>3. (escrow[id])' = escrow[id] /\ (dispute[id])' = dispute[id]
    BY <1>7
  <2> QED
    BY <1>14, <1>15, <2>2, <2>3 DEF RowShown, StatusShown
<1>17. (u \in Tables /\ u.paused_key.paused = config.paused /\ u.paused_key.ledger <= now)'
  BY <1>7, <1>8, <1>10, <1>14
<1>18. Faithful(u)'
  BY <1>16, <1>17, Zenon DEF Faithful
<1>19. \E w : w = Told(t, chain'[Len(chain')]) /\ Faithful(w)'
  BY <1>5, <1>9, <1>18, Zenon
<1> QED
  BY <1>6, <1>19 DEF Tells

(* Messages, the token list and the upgrade tell the tables nothing.       *)
LEMMA OtherTells ==
    ASSUME TypeOK, IsList(chain), NEW t, Faithful(t),
           \/ \E id \in Ids \cup OldIds, sender \in Address : post_message(sender, id)
           \/ record_token_allowlist
           \/ record_upgrade
    PROVE  Tells(t)
<1>1. UNCHANGED <<now, config, escrow, dispute>>
  BY DEF post_message, record_token_allowlist, record_upgrade, vars
<1>2. CASE record_upgrade
  <2> DEFINE x == event("contract_upgraded", None)
  <2>1. Announces(x)
    BY <1>2, LoneEvent, Zenon DEF record_upgrade
  <2>2. x.topic \notin ToldTopics
    BY EventParts DEF ToldTopics, StateTopics
  <2> HIDE DEF x
  <2> QED
    BY <1>1, <2>1, <2>2, NoteTells
<1>2a. CASE record_token_allowlist
  <2> DEFINE head == event("Timelock:Executed", None)
             x == event("Token:Allowlist", None)
  <2>1. x.topic \notin ToldTopics /\ head.topic \notin ToldTopics
    BY EventParts DEF ToldTopics, StateTopics
  <2>2. Untelling(<<head>>)
    BY UntellingLists, Zenon
  <2>3. publish(<<x>>) \/ publish(<<head, x>>) \/ publish(<<head>>)
    BY <1>2a, Zenon DEF record_token_allowlist
  <2> HIDE DEF head, x
  <2>4. Announces(x) \/ Announces(head)
    BY <2>2, <2>3, PairJoins, Ends, Zenon
  <2> QED
    BY <1>1, <2>1, <2>4, NoteTells
<1>3. ASSUME NEW id \in Ids \cup OldIds, NEW sender \in Address, post_message(sender, id)
      PROVE  Tells(t)
  <2> DEFINE x == event_of("Message:Posted", id, sender)
  <2>1. Announces(x)
    BY <1>3, Ends, Zenon DEF post_message
  <2>2. x.topic \notin ToldTopics
    BY EventParts DEF ToldTopics, StateTopics
  <2> HIDE DEF x
  <2> QED
    BY <1>1, <2>1, <2>2, NoteTells
<1> QED
  BY <1>2, <1>2a, <1>3

(* Every transaction of the contract tells what it did.                    *)
LEMMA TransactionTells ==
    ASSUME TypeOK, TypeOK', BooksInv, IsList(chain), NEW t, Faithful(t), Transaction
    PROVE  Tells(t)
<1>1. ASSUME NEW terms \in Terms, record_creation(terms) \/ record_basket_creation(terms)
      PROVE  Tells(t)
  BY <1>1, CreationTells, BasketCreationTells
<1>2. ASSUME NEW id \in Ids,
             \/ record_cancellation(id) \/ record_auto_cancellation(id)
             \/ record_completion(id) \/ record_auto_release(id)
             \/ record_forced_decision(id) \/ record_finalization(id)
             \/ record_drain(id)
      PROVE  Tells(t)
  <2>1. Admin \in Address
    BY RolesAssumption
  <2> QED
    BY <1>2, <2>1, CancellationTells, ExitTells, SettlementTells, ForcedDecisionTells,
       FinalizationTells
<1>3. ASSUME NEW id \in Ids, NEW caller \in Address,
             \/ record_funding(caller, id)
             \/ record_shipping(caller, id) \/ record_proposal(caller, id)
             \/ record_refund(caller, id) \/ record_reclaim(caller, id)
             \/ record_appeal(caller, id) \/ record_override(caller, id)
             \/ record_recovery(caller, id)
             \/ \E new_resolver \in Address : record_rotation(caller, id, new_resolver)
             \/ record_dispute(caller, id)
             \/ \E r \in Resolution : record_vote(caller, id, r)
      PROVE  Tells(t)
  BY <1>3, FundingTells, ShippingTells, ProposalTells, RefundTells, ExitTells,
     AppealTells, OverrideTells, RotationTells, DisputeTells, VoteTells
<1>4. ASSUME NEW flag \in BOOLEAN, record_pause(flag) PROVE Tells(t)
  BY <1>4, PauseTells
<1> QED
  BY <1>1, <1>2, <1>3, <1>4, OtherTells, Zenon DEF Transaction

-----------------------------------------------------------------------------
(* The tables as the indexer has them.                                     *)

(* g[n] is what the tables hold when the first n events are applied.       *)
IsHistory(g) == \A n \in 1..Len(chain) : g[n] = Told(g[n - 1], chain[n])

(* Applied to the last event the tables mirror the contract, and the       *)
(* indexer is somewhere on the way there.                                  *)
RowsInv ==
    \E g, t :
       /\ IsHistory(g) /\ t = g[Len(chain)] /\ Faithful(t)
       /\ \E c, m \in Nat : Progress(c, m) /\ Stored = g[c]

(* A transaction extends the history by the tables its events leave.       *)
LEMMA HistoryGrows ==
    ASSUME IsList(chain), ChainGrows, NEW g, IsHistory(g),
           NEW t, t = g[Len(chain)], t \in Tables, Tells(t)
    PROVE  \E h, u : /\ IsHistory(h)' /\ u = h[Len(chain')] /\ Faithful(u)'
                     /\ \A n \in 0..Len(chain) : h[n] = g[n]
<1>1. PICK l : l = Len(chain)
  OBVIOUS
<1>2. PICK k : k = Len(chain')
  OBVIOUS
<1>3. PICK u : u = Told(t, chain'[k]) /\ Faithful(u)'
  BY <1>2, Zenon DEF Tells
<1>4. l \in Nat /\ k \in Nat /\ l < k
  BY <1>1, <1>2, ListFacts DEF Tells
<1>5. PICK h : h = [n \in 0..k |-> IF n <= l THEN g[n] ELSE IF n < k THEN t ELSE u]
  OBVIOUS
<1>6. /\ \A n \in 0..l : h[n] = g[n]
      /\ \A n \in l..(k - 1) : h[n] = t
      /\ h[k] = u
  BY <1>1, <1>4, <1>5
<1>7. ASSUME NEW n \in 1..k PROVE h[n] = Told(h[n - 1], chain'[n])
  <2>1. CASE n <= l
    <3>1. n \in 0..l /\ n - 1 \in 0..l /\ n \in 1..l
      BY <1>4, <2>1
    <3>2. g[n] = Told(g[n - 1], chain[n]) /\ chain'[n] = chain[n]
      BY <1>1, <3>1 DEF IsHistory, ChainGrows
    <3> QED
      BY <1>6, <3>1, <3>2
  <2>2. CASE l < n /\ n < k
    <3>1. n \in l..(k - 1) /\ n - 1 \in l..(k - 1)
      BY <1>4, <2>2
    <3>2. chain'[n].topic \notin ToldTopics
      BY <1>1, <1>2, <2>2 DEF Tells
    <3>3. Told(t, chain'[n]) = t
      BY <3>2, Untold
    <3> QED
      BY <1>6, <3>1, <3>3
  <2>3. CASE n = k
    <3>1. n - 1 \in l..(k - 1)
      BY <1>4, <2>3
    <3> QED
      BY <1>3, <1>6, <2>3, <3>1
  <2> QED
    BY <1>4, <2>1, <2>2, <2>3
<1>8. IsHistory(h)'
  <2>1. \A n \in 1..Len(chain') : h[n] = Told(h[n - 1], chain'[n])
    BY <1>2, <1>7
  <2>2. (\A n \in 1..Len(chain) : h[n] = Told(h[n - 1], chain[n]))'
    BY <2>1 DEF Told
  <2> QED
    BY <2>2, Zenon DEF IsHistory
<1>9. u = h[Len(chain')] /\ Faithful(u)'
  BY <1>2, <1>3, <1>6
<1>10. \A n \in 0..Len(chain) : h[n] = g[n]
  BY <1>1, <1>6
<1> QED
  BY <1>8, <1>9, <1>10, Zenon

(* The contract moves on and the indexer stands still.                     *)
LEMMA ContractKeepsRows ==
    ASSUME TypeOK, TypeOK', BooksInv, ChainInv, RowsInv, RecordsNext,
           UNCHANGED indexer_vars
    PROVE  RowsInv'
<1>0. PICK g, t :
         /\ IsHistory(g) /\ t = g[Len(chain)] /\ Faithful(t)
         /\ \E c, m \in Nat : Progress(c, m) /\ Stored = g[c]
  BY Zenon DEF RowsInv
<1>1. PICK c \in Nat, m \in Nat : Progress(c, m) /\ Stored = g[c]
  BY <1>0
<1>2. /\ IsList(chain) /\ Grows /\ Len(chain) \in Nat
      /\ now' = now \/ (now' = now + 1 /\ chain' = chain)
  BY RecordsGrow, ListFacts DEF ChainInv
<1>3. Progress(c, m)'
  BY <1>0, <1>1, <1>2, ProgressStays
<1>4. c \in 0..Len(chain) /\ Stored' = Stored
  BY <1>0, <1>1 DEF Progress, Stored, indexer_vars, tables
<1>5. ChainGrows /\ t \in Tables
  BY <1>0, <1>1, <1>2 DEF Grows, ChainGrows, Faithful
<1>6. CASE record_tick
  <2>1. /\ chain' = chain /\ UNCHANGED <<config, escrow, dispute>>
        /\ now' \in Nat /\ now <= now'
    BY <1>6 DEF record_tick, Tick, record_vars, TypeOK, Time
  <2>2. Faithful(t)'
    BY <1>0, <1>1, <1>2, <1>5, <2>1, FaithfulStays
  <2>3. (IsHistory(g) /\ t = g[Len(chain)])'
    BY <1>0, <1>1, <2>1 DEF IsHistory
  <2> QED
    BY <1>0, <1>1, <1>3, <1>4, <2>2, <2>3 DEF RowsInv
<1>7. CASE Transaction
  <2>1. Tells(t)
    BY <1>0, <1>1, <1>2, <1>7, TransactionTells
  <2>2. PICK h, u : /\ IsHistory(h)' /\ u = h[Len(chain')] /\ Faithful(u)'
                    /\ \A n \in 0..Len(chain) : h[n] = g[n]
    BY <1>0, <1>1, <1>2, <1>5, <2>1, HistoryGrows
  <2>3. Stored' = h[c]
    BY <1>0, <1>1, <1>4, <2>2
  <2> QED
    BY <1>0, <1>1, <1>3, <2>2, <2>3 DEF RowsInv
<1> QED
  BY <1>6, <1>7 DEF RecordsNext

(* The tables after the next event, and no change by any other step of the *)
(* indexer.                                                                *)
LEMMA IngestTells ==
    ASSUME TypeOK, ChainInv, NEW c, NEW m, Progress(c, m), ingest_event
    PROVE  Stored' = Told(Stored, chain[c + 1])
<1>1. Head(batch) = c + 1
  <2>1. c \in Nat /\ m \in Nat /\ batch = run(c + 1, c + m) /\ batch # <<>>
    BY RestIsNone DEF Progress, ingest_event
  <2>2. c + 1 <= (c + m) + 1 /\ c + 1 \in Int /\ c + m \in Int
    BY <2>1
  <2>3. ~(c + m < c + 1)
    BY <2>1, <2>2, RunFacts
  <2>4. c + m >= c + 1
    BY <2>2, <2>3
  <2> QED
    BY <2>1, <2>2, <2>4, RunFacts
<1> DEFINE e == chain[c + 1]
<1>2. /\ escrows' = [id \in Ids |->
            IF id = e.id THEN applied_row(escrows[id], e) ELSE escrows[id]]
      /\ disputes' = [id \in Ids |->
            IF id = e.id THEN applied_dispute(disputes[id], e) ELSE disputes[id]]
      /\ paused_key' = applied_pause(paused_key, e)
  BY <1>1, Zenon DEF ingest_event, processEvent
<1> HIDE DEF e
<1>3. /\ Stored.escrows = escrows /\ Stored.disputes = disputes
      /\ Stored.paused_key = paused_key
  BY DEF Stored
<1>4. Told(Stored, e) = [escrows |-> escrows', disputes |-> disputes',
                         paused_key |-> paused_key']
  BY <1>2, <1>3, Zenon DEF Told
<1> QED
  BY <1>4 DEF Stored, e

(* An event applied moves the tables one further along the history; polls, *)
(* restarts and replays leave them where they are.                         *)
LEMMA IndexerKeepsRows ==
    ASSUME TypeOK, ChainInv, RowsInv,
           \/ poll
           \/ \E length \in DOMAIN chain : replay(length)
           \/ ingest_event
           \/ give_up
           \/ UNCHANGED all_vars
    PROVE  RowsInv'
<1>0. PICK g, t :
         /\ IsHistory(g) /\ t = g[Len(chain)] /\ Faithful(t)
         /\ \E c, m \in Nat : Progress(c, m) /\ Stored = g[c]
  BY Zenon DEF RowsInv
<1>1. PICK c \in Nat, m \in Nat : Progress(c, m) /\ Stored = g[c]
  BY <1>0
<1>2. UNCHANGED <<vars, record_vars>>
  BY DEF poll, replay, ingest_event, give_up, all_vars
<1>3. /\ chain' = chain /\ UNCHANGED <<config, escrow, dispute>> /\ now' = now
      /\ IsList(chain) /\ Len(chain) \in Nat /\ now \in Nat
  BY <1>2, ListFacts DEF vars, record_vars, ChainInv, TypeOK, Time
<1>4. ChainGrows /\ now' \in Nat /\ now <= now'
  BY <1>3 DEF ChainGrows
<1>5. Faithful(t)'
  BY <1>0, <1>1, <1>3, <1>4, FaithfulStays
<1>6. (IsHistory(g) /\ t = g[Len(chain)])'
  BY <1>0, <1>1, <1>3 DEF IsHistory
<1>7. ASSUME NEW d \in Nat, NEW k \in Nat, Progress(d, k)', Stored' = g[d]
      PROVE  RowsInv'
  BY <1>5, <1>6, <1>7 DEF RowsInv
<1>8. ASSUME ~ingest_event
      PROVE  RowsInv'
  <2>0. UNCHANGED tables
    BY <1>8 DEF poll, replay, give_up, all_vars, indexer_vars
  <2>1. Stored' = g[c]
    BY <1>0, <1>1, <2>0 DEF Stored, tables
  <2>2. CASE poll
    BY <1>0, <1>1, <1>7, <2>1, <2>2, PollStep
  <2>3. CASE \E length \in DOMAIN chain : replay(length)
    BY <1>0, <1>1, <1>7, <2>1, <2>3, ReplayStep
  <2>4. CASE give_up
    <3>1. Progress(c, 0)' /\ 0 \in Nat
      BY <1>0, <1>1, <2>4, GiveUpStep
    <3> QED
      BY <1>7, <2>1, <3>1
  <2>5. CASE UNCHANGED all_vars
    <3>1. Grows
      BY <1>3 DEF Grows
    <3>2. UNCHANGED indexer_vars
      BY <2>5 DEF all_vars
    <3>3. Progress(c, m)'
      BY <1>0, <1>1, <1>3, <3>1, <3>2, ProgressStays
    <3> QED
      BY <1>7, <2>1, <3>3
  <2> QED
    BY <1>8, <2>2, <2>3, <2>4, <2>5
<1>9. CASE ingest_event
  <2>1. Progress(c + 1, m - 1)' /\ c + 1 \in 1..Len(chain) /\ m - 1 \in Nat
    BY <1>0, <1>1, <1>9, IngestStep
  <2>2. g[c + 1] = Told(g[c], chain[c + 1])
    <3>1. (c + 1) - 1 = c
      OBVIOUS
    <3> QED
      BY <1>0, <1>1, <2>1, <3>1 DEF IsHistory
  <2>3. Stored' = g[c + 1]
    BY <1>0, <1>1, <1>9, <2>2, IngestTells
  <2> QED
    BY <1>7, <2>1, <2>3
<1> QED
  BY <1>8, <1>9

(* RowsInv is inductive.                                                   *)
LEMMA RowsStep ==
    ASSUME TypeOK, TypeOK', BooksInv, ChainInv, RowsInv, [IndexerNext]_all_vars
    PROVE  RowsInv'
<1>1. CASE RecordsNext /\ UNCHANGED indexer_vars
  BY <1>1, ContractKeepsRows
<1>2. CASE ~(RecordsNext /\ UNCHANGED indexer_vars)
  BY <1>2, IndexerKeepsRows DEF IndexerNext
<1> QED
  BY <1>1, <1>2

(* No row and a contract that runs: the copy of the switch starts unset.   *)
LEMMA RowsInit ==
    ASSUME IndexerInit, ~InitialConfig.paused
    PROVE  RowsInv
<1>1. Init /\ TypeOK
  BY InitTyped DEF IndexerInit, RecordsInit
<1>2. chain = <<>> /\ Len(chain) = 0
  BY DEF IndexerInit, RecordsInit
<1>3. Progress(0, 0)
  <2>1. run(1, 0) = <<>>
    BY RunFacts
  <2>2. 1..0 = {} /\ {k \in 1..0 : chain[k].topic = "Message:Posted"} = {}
    OBVIOUS
  <2>3. /\ {position(n) : n \in 1..0} = {}
        /\ {position(n) : n \in {k \in 1..0 : chain[k].topic = "Message:Posted"}} = {}
    BY <2>2
  <2>4. cursor = Origin /\ raw = {} /\ messages = {} /\ batch = <<>>
    BY DEF IndexerInit
  <2>5. mark(0) = Origin /\ 0 + 1 = 1 /\ 0 + 0 = 0
    BY DEF mark
  <2> QED
    BY <1>2, <2>1, <2>3, <2>4, <2>5 DEF Progress
<1>4. Stored = NoRows
  BY DEF IndexerInit, Stored, NoRows
<1>5. Faithful(NoRows)
  <2>1. NoRows \in Tables
    BY DEF NoRows, Tables
  <2>2. /\ \A id \in Ids : NoRows.escrows[id] = None /\ NoRows.disputes[id] = None
        /\ NoRows.paused_key.paused = FALSE /\ NoRows.paused_key.ledger = 0
    BY DEF NoRows
  <2>3. now = 1 /\ config = InitialConfig
    BY <1>1 DEF Init
  <2>4. \A id \in Ids : escrow[id].state = "Absent" /\ dispute[id].status = "Absent"
    BY <1>1 DEF Init, NoEscrow, NoDispute
  <2>5. InitialConfig.paused = FALSE
    BY ConfigAssumption DEF Config
  <2> HIDE DEF NoRows
  <2>6. ASSUME NEW id \in Ids
        PROVE  /\ RowShown(NoRows.escrows[id], escrow[id], LeftSilently(id))
               /\ StatusShown(NoRows.disputes[id], dispute[id], escrow[id])
    BY <2>2, <2>4 DEF RowShown, StatusShown, DisputedStates
  <2>7. NoRows.paused_key.paused = config.paused
    BY <2>2, <2>3, <2>5, Zenon
  <2>8. NoRows.paused_key.ledger <= now
    BY <2>2, <2>3
  <2> QED
    BY <2>1, <2>6, <2>7, <2>8, Zenon DEF Faithful
<1>6. PICK g : g = [n \in {0} |-> NoRows]
  OBVIOUS
<1>7. g[0] = NoRows /\ IsHistory(g)
  BY <1>2, <1>6 DEF IsHistory
<1> HIDE DEF NoRows
<1> QED
  BY <1>2, <1>3, <1>4, <1>5, <1>7 DEF RowsInv

(* An indexer that has consumed every event has the tables at the end of   *)
(* the history.                                                            *)
LEMMA RowsAreShown ==
    ASSUME TypeOK, ChainInv, RowsInv, \A n \in DOMAIN chain : consumed(n)
    PROVE  Faithful(Stored)
<1>1. PICK g, t :
         /\ IsHistory(g) /\ t = g[Len(chain)] /\ Faithful(t)
         /\ \E c, m \in Nat : Progress(c, m) /\ Stored = g[c]
  BY Zenon DEF RowsInv
<1>2. PICK c \in Nat, m \in Nat : Progress(c, m) /\ Stored = g[c]
  BY <1>1
<1>3. PICK l : l = Len(chain)
  OBVIOUS
<1>4. l \in Nat /\ DOMAIN chain = 1..l /\ c \in 0..l /\ cursor = mark(c)
  BY <1>2, <1>3, ListFacts DEF ChainInv, Progress
<1>5. l # 0 => l <= c
  <2>1. SUFFICES ASSUME l # 0 PROVE l <= c
    OBVIOUS
  <2>2. l \in 1..Len(chain) /\ l \in DOMAIN chain
    BY <1>3, <1>4, <2>1
  <2> QED
    BY <1>3, <1>4, <2>2, ConsumedIsBehind
<1>6. c = l
  BY <1>4, <1>5
<1> QED
  BY <1>1, <1>2, <1>3, <1>6

(* The history's end mirrors the contract, which is the property.          *)
LEMMA RowsMirror ==
    ASSUME TypeOK, ChainInv, RowsInv
    PROVE  RowsMirrorEscrows
<1>1. SUFFICES ASSUME \A n \in DOMAIN chain : consumed(n)
               PROVE  /\ paused_key.paused = config.paused
                      /\ \A id \in Ids :
                          LET e == escrow[id]
                              row == escrows[id]
                              exits == {n \in DOMAIN chain :
                                           /\ chain[n].id = id
                                           /\ chain[n].topic \in UnhandledExits}
                          IN  IF e.state = "Absent" \/ e.basket_tokens > 0 THEN row = None
                              ELSE /\ row.state.name = e.state \/ exits # {}
                                   /\ e.funded_at > 0 => row.buyer = e.buyer
                                   /\ row.resolver = e.resolvers.members[1]
                                   /\ \/ dispute[id].status = "Absent" /\ disputes[id] = None
                                      \/ disputes[id] = dispute[id].status
                                      \/ e.state = "Refunded" /\ disputes[id] = "Active"
  BY Zenon DEF RowsMirrorEscrows
<1>2. Faithful(Stored)
  BY <1>1, RowsAreShown
<1>3. /\ Stored.escrows = escrows /\ Stored.disputes = disputes
      /\ Stored.paused_key = paused_key
  BY DEF Stored
<1>4. paused_key.paused = config.paused
  BY <1>2, <1>3 DEF Faithful
<1>5. DOMAIN chain = 1..Len(chain)
  BY ListFacts DEF ChainInv
<1>6. ASSUME NEW id \in Ids
      PROVE  LET e == escrow[id]
                 row == escrows[id]
                 exits == {n \in DOMAIN chain :
                              chain[n].id = id /\ chain[n].topic \in UnhandledExits}
             IN  IF e.state = "Absent" \/ e.basket_tokens > 0 THEN row = None
                 ELSE /\ row.state.name = e.state \/ exits # {}
                      /\ e.funded_at > 0 => row.buyer = e.buyer
                      /\ row.resolver = e.resolvers.members[1]
                      /\ \/ dispute[id].status = "Absent" /\ disputes[id] = None
                         \/ disputes[id] = dispute[id].status
                         \/ e.state = "Refunded" /\ disputes[id] = "Active"
  <2>1. /\ RowShown(escrows[id], escrow[id], LeftSilently(id))
        /\ StatusShown(disputes[id], dispute[id], escrow[id])
    BY <1>2, <1>3 DEF Faithful
  <2>2. LeftSilently(id) =>
           {n \in DOMAIN chain : chain[n].id = id /\ chain[n].topic \in UnhandledExits} # {}
    BY <1>5 DEF LeftSilently
  <2>3. escrow[id].basket_tokens \in Nat
    BY EscrowParts DEF EscrowRecord
  <2>4. ~(escrow[id].basket_tokens > 0) => escrow[id].basket_tokens = 0
    BY <2>3
  <2> QED
    BY <2>1, <2>2, <2>4 DEF RowShown, StatusShown
<1> QED
  BY <1>4, <1>6

(* RowsMirrorEscrows: when the indexer has applied what the contract has   *)
(* published, a row names the state, the buyer and the resolver of its     *)
(* escrow, a dispute its status and contract_config the switch, but for    *)
(* the exits that processEvent has no handler for; wherever a batch was    *)
(* lost, repeated or cut.  A contract starts unpaused                      *)
(* (default_global_config).                                                *)
THEOREM RowsAlwaysMirror ==
    ASSUME ~InitialConfig.paused
    PROVE  IndexerSpec => []RowsMirrorEscrows
<1>1. IndexerInit => RowsInv
  BY RowsInit
<1>2. TypeOK /\ TypeOK' /\ BooksInv /\ IndexInv /\ RowsInv /\ [IndexerNext]_all_vars
         => RowsInv'
  BY RowsStep DEF IndexInv
<1>3. TypeOK /\ IndexInv /\ RowsInv => RowsMirrorEscrows
  BY RowsMirror DEF IndexInv
<1> QED
  BY <1>1, <1>2, <1>3, IndexerOnlyFollows, TypeCorrect, BooksHold, PTL DEF IndexerSpec
=============================================================================
