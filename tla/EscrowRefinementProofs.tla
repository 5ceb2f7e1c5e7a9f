------------------------ MODULE EscrowRefinementProofs ------------------------
(***************************************************************************)
(* The contract implements the conditional payment (ImplementsPayment),    *)
(* for every value of the constants: each move of an escrow is a step of   *)
(* its payment or none, and leaves the payments of the others alone.       *)
(***************************************************************************)
EXTENDS EscrowRefinement, EscrowMoveProofs

-----------------------------------------------------------------------------
(* Payments.                                                               *)

Phases == {"Unfunded", "Held", "Contested", "Decided", "Released", "Returned"}

PaymentRecord ==
    [phase : Phases, verdict : Resolution \cup {None}, settled : BOOLEAN,
     deposit : Int, to_buyer : Int, to_payees : Int, fees : Int]

LEMMA SamePayment ==
    ASSUME NEW p \in PaymentRecord, NEW q \in PaymentRecord,
           p.phase = q.phase, p.verdict = q.verdict, p.settled = q.settled,
           p.deposit = q.deposit, p.to_buyer = q.to_buyer,
           p.to_payees = q.to_payees, p.fees = q.fees
    PROVE  p = q
BY DEF PaymentRecord

LEMMA PhaseOfState ==
    ASSUME NEW s \in EscrowStates
    PROVE  phase(s) \in Phases
BY DEF phase, EscrowStates, Phases

(* The payment p of an escrow with the entries e, d and l.  The amount on  *)
(* record is what the payment holds, and nobody is paid before the end.    *)
PaymentFor(p, e, d, l) ==
    /\ p \in PaymentRecord
    /\ p.phase = phase(e.state)
    /\ p.verdict = IF e.state = "PendingFinalization"
                   THEN get_resolution(d.resolution) ELSE None
    /\ p.settled = d.fees_charged
    /\ p.deposit = l.deposited
    /\ p.to_buyer = l.to_buyer
    /\ p.to_payees = l.to_payees
    /\ p.fees = l.to_collector + l.to_resolver + l.to_treasury
    /\ Payment!held(p) = IF e.state \in HoldingStates THEN e.amount ELSE 0
    /\ e.state \notin TerminalStates => p.to_buyer = 0 /\ p.to_payees = 0

LEMMA PaymentParts ==
    ASSUME NEW e \in EscrowRecord, NEW d \in DisputeRecord, NEW l \in Ledger,
           SoundBooks(e, d, l), NEW p,
           p = [phase |-> phase(e.state),
                verdict |-> IF e.state = "PendingFinalization"
                            THEN get_resolution(d.resolution) ELSE None,
                settled |-> d.fees_charged, deposit |-> l.deposited,
                to_buyer |-> l.to_buyer, to_payees |-> l.to_payees,
                fees |-> l.to_collector + l.to_resolver + l.to_treasury]
    PROVE  PaymentFor(p, e, d, l)
<1> DEFINE verdict == IF e.state = "PendingFinalization"
                      THEN get_resolution(d.resolution) ELSE None
           fees == l.to_collector + l.to_resolver + l.to_treasury
<1>1. /\ p.phase = phase(e.state) /\ p.verdict = verdict
      /\ p.settled = d.fees_charged /\ p.deposit = l.deposited
      /\ p.to_buyer = l.to_buyer /\ p.to_payees = l.to_payees /\ p.fees = fees
  OBVIOUS
<1>2. /\ l.deposited \in Int /\ l.to_buyer \in Int /\ l.to_payees \in Int
      /\ l.to_collector \in Int /\ l.to_resolver \in Int /\ l.to_treasury \in Int
  BY LedgerParts
<1>3. p \in PaymentRecord
  <2>1. phase(e.state) \in Phases
    BY PhaseOfState DEF EscrowRecord
  <2>2. verdict \in Resolution \cup {None}
    BY DEF get_resolution, Resolution
  <2>3. d.fees_charged \in BOOLEAN
    BY DEF DisputeRecord
  <2>4. fees \in Int
    BY <1>2, SMT
  <2> HIDE DEF verdict, fees
  <2>5. p = [phase |-> phase(e.state), verdict |-> verdict,
             settled |-> d.fees_charged, deposit |-> l.deposited,
             to_buyer |-> l.to_buyer, to_payees |-> l.to_payees, fees |-> fees]
    BY DEF verdict, fees
  <2> QED
    BY <1>2, <2>1, <2>2, <2>3, <2>4, <2>5 DEF PaymentRecord
<1>4. Payment!held(p) = IF e.state \in HoldingStates THEN e.amount ELSE 0
  <2>1. l.deposited - l.to_buyer - l.to_payees - l.to_collector
              - l.to_resolver - l.to_treasury
                = IF e.state \in HoldingStates THEN e.amount ELSE 0
    BY DEF SoundBooks, Balanced
  <2>2. Payment!held(p) = p.deposit - p.to_buyer - p.to_payees - p.fees
    BY DEF Payment!held
  <2>3. l.deposited - l.to_buyer - l.to_payees - l.to_collector
              - l.to_resolver - l.to_treasury
           = l.deposited - l.to_buyer - l.to_payees
               - (l.to_collector + l.to_resolver + l.to_treasury)
    BY <1>2, SMT
  <2> QED
    BY <1>1, <2>1, <2>2, <2>3
<1>5. e.state \notin TerminalStates => p.to_buyer = 0 /\ p.to_payees = 0
  BY <1>1 DEF SoundBooks, Unsettled
<1> HIDE DEF verdict, fees
<1> QED
  BY <1>1, <1>3, <1>4, <1>5 DEF PaymentFor, verdict, fees

LEMMA PaymentEntries ==
    ASSUME TypeOK, TypeOK', BooksInv, BooksInv', NEW id \in Ids
    PROVE  /\ PaymentFor(payment_of(id), escrow[id], dispute[id], ledger[id])
           /\ PaymentFor(payment_of(id)', escrow'[id], dispute'[id], ledger'[id])
<1>1. PaymentFor(payment_of(id), escrow[id], dispute[id], ledger[id])
  <2>1. /\ escrow[id] \in EscrowRecord /\ dispute[id] \in DisputeRecord
        /\ ledger[id] \in Ledger
        /\ SoundBooks(escrow[id], dispute[id], ledger[id])
    BY DEF TypeOK, BooksInv
  <2> QED
    BY <2>1, PaymentParts DEF payment_of
<1>2. PaymentFor(payment_of(id)', escrow'[id], dispute'[id], ledger'[id])
  <2>1. /\ escrow'[id] \in EscrowRecord /\ dispute'[id] \in DisputeRecord
        /\ ledger'[id] \in Ledger
        /\ SoundBooks(escrow'[id], dispute'[id], ledger'[id])
    BY DEF TypeOK, BooksInv
  <2> QED
    BY <2>1, PaymentParts DEF payment_of
<1> QED
  BY <1>1, <1>2
-----------------------------------------------------------------------------
(* Moves and steps.                                                        *)

(* The payment of an escrow makes a step, or none.                         *)
PaymentStep(id) ==
    \/ payment_of(id)' = payment_of(id)
    \/ Payment!Step(payment_of(id), payment_of(id)')

(* A move between states of one phase that pays nobody.                    *)
LEMMA SamePhase ==
    ASSUME NEW p, NEW q, NEW e, NEW f, NEW d, NEW l,
           PaymentFor(p, e, d, l), PaymentFor(q, f, d, l),
           phase(f.state) = phase(e.state),
           e.state = "PendingFinalization" <=> f.state = "PendingFinalization"
    PROVE  q = p
<1>1. /\ p \in PaymentRecord /\ q \in PaymentRecord
      /\ p.phase = q.phase /\ p.verdict = q.verdict /\ p.settled = q.settled
      /\ p.deposit = q.deposit /\ p.to_buyer = q.to_buyer
      /\ p.to_payees = q.to_payees /\ p.fees = q.fees
  BY DEF PaymentFor
<1> QED
  BY <1>1, SamePayment

(* What is held goes back to the buyer.                                    *)
LEMMA ReturnStep ==
    ASSUME NEW p, NEW q, NEW e, NEW f, NEW d, NEW g, NEW l, NEW m,
           PaymentFor(p, e, d, l), PaymentFor(q, f, g, m),
           e.state \in HoldingStates \cup {"Pending"},
           f.state \in {"Refunded", "Canceled", "Expired"},
           g.fees_charged = d.fees_charged,
           m.deposited = l.deposited, m.to_payees = l.to_payees,
           m.to_collector = l.to_collector, m.to_resolver = l.to_resolver,
           m.to_treasury = l.to_treasury
    PROVE  Payment!Return(p, q)
<1> DEFINE r == [p EXCEPT !.phase = "Returned", !.verdict = None,
                          !.to_buyer = Payment!held(p)]
<1>1. p \in PaymentRecord /\ q \in PaymentRecord
  BY DEF PaymentFor
<1>2. /\ q.phase = "Returned" /\ q.verdict = None /\ q.settled = p.settled
      /\ q.deposit = p.deposit /\ q.to_payees = p.to_payees /\ q.fees = p.fees
  BY DEF PaymentFor, phase
<1>3. Payment!held(q) = 0
  BY DEF PaymentFor, HoldingStates
<1>4. p.to_buyer = 0
  BY DEF PaymentFor, HoldingStates, TerminalStates
<1>5. /\ p.deposit \in Int /\ p.to_payees \in Int /\ p.fees \in Int
      /\ p.to_buyer \in Int /\ q.to_buyer \in Int
  BY <1>1 DEF PaymentRecord
<1>6. /\ Payment!held(p) = p.deposit - p.to_buyer - p.to_payees - p.fees
      /\ Payment!held(q) = q.deposit - q.to_buyer - q.to_payees - q.fees
  BY DEF Payment!held
<1>7. q.to_buyer = Payment!held(p) /\ Payment!held(p) \in Int
  BY <1>2, <1>3, <1>4, <1>5, <1>6, SMT
<1>8. /\ r \in PaymentRecord /\ r.phase = "Returned" /\ r.verdict = None
      /\ r.settled = p.settled /\ r.deposit = p.deposit
      /\ r.to_buyer = Payment!held(p) /\ r.to_payees = p.to_payees /\ r.fees = p.fees
  BY <1>1, <1>7 DEF PaymentRecord, Phases
<1> HIDE DEF r
<1>9. q = r
  BY <1>1, <1>2, <1>7, <1>8, SamePayment
<1>10. p.phase \in {"Unfunded", "Held", "Contested", "Decided"}
  BY DEF PaymentFor, phase, HoldingStates
<1> QED
  BY <1>9, <1>10 DEF Payment!Return, r

(* The price is paid in.                                                   *)
LEMMA FundingStep ==
    ASSUME NEW p, NEW q, NEW e, NEW f, NEW d, NEW l, NEW m,
           PaymentFor(p, e, d, l), PaymentFor(q, f, d, m), SoundBooks(e, d, l),
           e.state = "Pending", f.state = "Funded", e.amount \in Nat, e.amount > 0,
           m.deposited = l.deposited + e.amount, m.to_buyer = l.to_buyer,
           m.to_payees = l.to_payees, m.to_collector = l.to_collector,
           m.to_resolver = l.to_resolver, m.to_treasury = l.to_treasury
    PROVE  Payment!Fund(p, q)
<1> DEFINE r == [p EXCEPT !.phase = "Held", !.deposit = q.deposit]
<1>1. p \in PaymentRecord /\ q \in PaymentRecord
  BY DEF PaymentFor
<1>2. /\ p.phase = "Unfunded" /\ q.phase = "Held" /\ p.verdict = None
      /\ q.verdict = None /\ q.settled = p.settled
      /\ q.to_buyer = p.to_buyer /\ q.to_payees = p.to_payees /\ q.fees = p.fees
      /\ Payment!held(p) = 0 /\ p.to_buyer = 0 /\ p.to_payees = 0
      /\ q.deposit = p.deposit + e.amount
  BY DEF PaymentFor, phase, HoldingStates, TerminalStates
<1>3. p.fees = 0
  <2>1. l.to_collector = 0 /\ l.to_resolver = 0 /\ l.to_treasury = 0
    BY DEF SoundBooks, Unsettled, TerminalStates, DisputedStates
  <2> QED
    BY <2>1 DEF PaymentFor
<1>4. p.deposit \in Int
  BY <1>1 DEF PaymentRecord
<1>5. q.deposit > 0
  <2>1. Payment!held(p) = p.deposit - p.to_buyer - p.to_payees - p.fees
    BY DEF Payment!held
  <2>2. p.deposit = 0
    BY <1>2, <1>3, <1>4, <2>1, SMT
  <2> QED
    BY <1>2, <2>2, SMT
<1>6. /\ r \in PaymentRecord /\ r.phase = "Held" /\ r.verdict = p.verdict
      /\ r.settled = p.settled /\ r.deposit = q.deposit
      /\ r.to_buyer = p.to_buyer /\ r.to_payees = p.to_payees /\ r.fees = p.fees
  BY <1>1 DEF PaymentRecord, Phases
<1> HIDE DEF r
<1>7. q = r
  BY <1>1, <1>2, <1>6, SamePayment
<1> QED
  BY <1>2, <1>5, <1>7 DEF Payment!Fund, r

(* A dispute is raised.                                                    *)
LEMMA ContestStep ==
    ASSUME NEW p, NEW q, NEW e, NEW f, NEW d, NEW g, NEW l,
           PaymentFor(p, e, d, l), PaymentFor(q, f, g, l),
           e.state \in {"Funded", "Shipped"}, f.state = "Disputed",
           g.fees_charged = d.fees_charged
    PROVE  Payment!Contest(p, q)
<1> DEFINE r == [p EXCEPT !.phase = "Contested"]
<1>1. p \in PaymentRecord /\ q \in PaymentRecord
  BY DEF PaymentFor
<1>2. /\ p.phase = "Held" /\ q.phase = "Contested" /\ q.verdict = p.verdict
      /\ q.settled = p.settled /\ q.deposit = p.deposit
      /\ q.to_buyer = p.to_buyer /\ q.to_payees = p.to_payees /\ q.fees = p.fees
  BY DEF PaymentFor, phase
<1>3. /\ r \in PaymentRecord /\ r.phase = "Contested" /\ r.verdict = p.verdict
      /\ r.settled = p.settled /\ r.deposit = p.deposit
      /\ r.to_buyer = p.to_buyer /\ r.to_payees = p.to_payees /\ r.fees = p.fees
  BY <1>1 DEF PaymentRecord, Phases
<1> HIDE DEF r
<1>4. q = r
  BY <1>1, <1>2, <1>3, SamePayment
<1> QED
  BY <1>2, <1>4 DEF Payment!Contest, r

(* The first decision settles the fees.                                    *)
LEMMA DecideStep ==
    ASSUME NEW p, NEW q, NEW e, NEW f, NEW d, NEW g, NEW l \in Ledger, NEW m,
           PaymentFor(p, e, d, l), PaymentFor(q, f, g, m),
           e.state = "Disputed", f.state = "PendingFinalization",
           get_resolution(g.resolution) \in Resolution, g.fees_charged = TRUE,
           m.deposited = l.deposited, m.to_buyer = l.to_buyer,
           m.to_payees = l.to_payees, m.to_treasury = l.to_treasury,
           e.amount \in Nat, NEW a \in Nat, NEW b \in Nat, a + b <= e.amount,
           m.to_collector = l.to_collector + a,
           m.to_resolver = l.to_resolver + b,
           d.fees_charged => a = 0 /\ b = 0
    PROVE  Payment!Decide(p, q)
<1> DEFINE r == [p EXCEPT !.phase = "Decided", !.verdict = q.verdict,
                          !.settled = TRUE, !.fees = q.fees]
<1>1. p \in PaymentRecord /\ q \in PaymentRecord
  BY DEF PaymentFor
<1>2. /\ p.phase = "Contested" /\ q.phase = "Decided"
      /\ q.verdict \in {"Release", "Refund"}
      /\ q.settled = TRUE /\ q.deposit = p.deposit
      /\ q.to_buyer = p.to_buyer /\ q.to_payees = p.to_payees
      /\ p.settled = d.fees_charged /\ Payment!held(p) = e.amount
  BY DEF PaymentFor, phase, HoldingStates, Resolution
<1>3. /\ p.fees = l.to_collector + l.to_resolver + l.to_treasury
      /\ q.fees = (l.to_collector + a) + (l.to_resolver + b) + l.to_treasury
  BY DEF PaymentFor
<1>4. q.fees = p.fees + (a + b) /\ p.fees \in Int
  <2>1. /\ l.to_collector \in Int /\ l.to_resolver \in Int /\ l.to_treasury \in Int
    BY LedgerParts
  <2> QED
    BY <1>3, <2>1, SMT
<1>5. Payment!charged(p, q)
  <2>1. q.fees - p.fees \in 0..e.amount
    BY <1>4, SMT
  <2> QED
    BY <1>2, <2>1 DEF Payment!charged
<1>6. p.settled => q.fees = p.fees
  BY <1>2, <1>4, SMT
<1>7. /\ r \in PaymentRecord /\ r.phase = "Decided" /\ r.verdict = q.verdict
      /\ r.settled = TRUE /\ r.deposit = p.deposit
      /\ r.to_buyer = p.to_buyer /\ r.to_payees = p.to_payees /\ r.fees = q.fees
  BY <1>1 DEF PaymentRecord, Phases
<1> HIDE DEF r
<1>8. q = r
  BY <1>1, <1>2, <1>7, SamePayment
<1> QED
  BY <1>2, <1>5, <1>6, <1>8 DEF Payment!Decide, r

LEMMA AppealStep ==
    ASSUME NEW p, NEW q, NEW e, NEW f, NEW d, NEW g, NEW l, NEW m,
           PaymentFor(p, e, d, l), PaymentFor(q, f, g, m),
           e.state = "PendingFinalization", f.state = "Disputed",
           g.fees_charged = d.fees_charged,
           m.deposited = l.deposited, m.to_buyer = l.to_buyer,
           m.to_payees = l.to_payees, m.to_collector = l.to_collector,
           m.to_resolver = l.to_resolver, m.to_treasury = l.to_treasury
    PROVE  Payment!Appeal(p, q)
<1> DEFINE r == [p EXCEPT !.phase = "Contested", !.verdict = None]
<1>1. p \in PaymentRecord /\ q \in PaymentRecord
  BY DEF PaymentFor
<1>2. /\ p.phase = "Decided" /\ q.phase = "Contested" /\ q.verdict = None
      /\ q.settled = p.settled /\ q.deposit = p.deposit
      /\ q.to_buyer = p.to_buyer /\ q.to_payees = p.to_payees /\ q.fees = p.fees
  BY DEF PaymentFor, phase
<1>3. /\ r \in PaymentRecord /\ r.phase = "Contested" /\ r.verdict = None
      /\ r.settled = p.settled /\ r.deposit = p.deposit
      /\ r.to_buyer = p.to_buyer /\ r.to_payees = p.to_payees /\ r.fees = p.fees
  BY <1>1 DEF PaymentRecord, Phases
<1> HIDE DEF r
<1>4. q = r
  BY <1>1, <1>2, <1>3, SamePayment
<1> QED
  BY <1>2, <1>4 DEF Payment!Appeal, r

(* The payees or the buyer get what the last fees leave.                   *)
LEMMA PayoutStep ==
    ASSUME NEW p, NEW q, NEW e, NEW f, NEW d, NEW g, NEW l \in Ledger, NEW m,
           PaymentFor(p, e, d, l), PaymentFor(q, f, g, m),
           g.fees_charged = d.fees_charged, m.deposited = l.deposited,
           e.amount \in Nat, NEW a \in Nat, NEW b \in Nat, NEW paid \in Nat,
           a + b + paid = e.amount,
           m.to_collector = l.to_collector + a,
           m.to_resolver = l.to_resolver,
           m.to_treasury = l.to_treasury + b
    PROVE  /\ /\ \/ e.state \in {"Funded", "Shipped"}
                 \/ /\ e.state = "PendingFinalization"
                    /\ get_resolution(d.resolution) = "Release"
              /\ f.state = "Completed"
              /\ m.to_buyer = l.to_buyer /\ m.to_payees = l.to_payees + paid
              => Payment!Release(p, q)
           /\ /\ e.state = "PendingFinalization"
              /\ get_resolution(d.resolution) = "Refund"
              /\ f.state = "Refunded"
              /\ m.to_buyer = l.to_buyer + paid /\ m.to_payees = l.to_payees
              => Payment!Refund(p, q)
<1> DEFINE rest == Payment!held(p) - (q.fees - p.fees)
           released == [p EXCEPT !.phase = "Released", !.verdict = None,
                                 !.fees = q.fees, !.to_payees = rest]
           refunded == [p EXCEPT !.phase = "Returned", !.verdict = None,
                                 !.fees = q.fees, !.to_buyer = rest]
<1>1. p \in PaymentRecord /\ q \in PaymentRecord
  BY DEF PaymentFor
<1>2. q.settled = p.settled /\ q.deposit = p.deposit
  BY DEF PaymentFor
<1>3. q.fees = p.fees + (a + b) /\ p.fees \in Int /\ q.fees \in Int
  <2>1. /\ l.to_collector \in Int /\ l.to_resolver \in Int /\ l.to_treasury \in Int
    BY LedgerParts
  <2>2. /\ p.fees = l.to_collector + l.to_resolver + l.to_treasury
        /\ q.fees = (l.to_collector + a) + l.to_resolver + (l.to_treasury + b)
    BY DEF PaymentFor
  <2> QED
    BY <2>1, <2>2, SMT
<1>4. ASSUME e.state \in {"Funded", "Shipped", "PendingFinalization"}
      PROVE  /\ Payment!charged(p, q) /\ rest = paid
             /\ p.to_buyer = 0 /\ p.to_payees = 0
  <2>1. /\ Payment!held(p) = e.amount /\ p.to_buyer = 0 /\ p.to_payees = 0
    BY <1>4 DEF PaymentFor, HoldingStates, TerminalStates
  <2>2. q.fees - p.fees \in 0..e.amount /\ e.amount - (q.fees - p.fees) = paid
    BY <1>3, SMT
  <2> QED
    BY <2>1, <2>2 DEF Payment!charged
<1>5. ASSUME rest = paid
      PROVE  /\ released \in PaymentRecord /\ released.phase = "Released"
             /\ released.verdict = None /\ released.settled = p.settled
             /\ released.deposit = p.deposit /\ released.to_buyer = p.to_buyer
             /\ released.to_payees = rest /\ released.fees = q.fees
  <2>1. rest \in Int
    BY <1>5
  <2> HIDE DEF rest
  <2> QED
    BY <1>1, <1>3, <2>1 DEF PaymentRecord, Phases
<1>6. ASSUME rest = paid
      PROVE  /\ refunded \in PaymentRecord /\ refunded.phase = "Returned"
             /\ refunded.verdict = None /\ refunded.settled = p.settled
             /\ refunded.deposit = p.deposit /\ refunded.to_buyer = rest
             /\ refunded.to_payees = p.to_payees /\ refunded.fees = q.fees
  <2>1. rest \in Int
    BY <1>6
  <2> HIDE DEF rest
  <2> QED
    BY <1>1, <1>3, <2>1 DEF PaymentRecord, Phases
<1>7. /\ m.to_payees = l.to_payees => q.to_payees = p.to_payees
      /\ m.to_buyer = l.to_buyer => q.to_buyer = p.to_buyer
      /\ m.to_payees = l.to_payees + paid => q.to_payees = p.to_payees + paid
      /\ m.to_buyer = l.to_buyer + paid => q.to_buyer = p.to_buyer + paid
  BY DEF PaymentFor
<1> HIDE DEF rest, released, refunded
<1>8. ASSUME \/ e.state \in {"Funded", "Shipped"}
             \/ /\ e.state = "PendingFinalization"
                /\ get_resolution(d.resolution) = "Release",
             f.state = "Completed",
             m.to_buyer = l.to_buyer, m.to_payees = l.to_payees + paid
      PROVE  Payment!Release(p, q)
  <2>1. /\ q.phase = "Released" /\ q.verdict = None
        /\ \/ p.phase = "Held"
           \/ p.phase = "Decided" /\ p.verdict = "Release"
    BY <1>8 DEF PaymentFor, phase
  <2>2. Payment!charged(p, q) /\ rest = paid /\ p.to_payees = 0
    BY <1>4, <1>8
  <2>3. q.to_payees = rest /\ q.to_buyer = p.to_buyer
    BY <1>7, <1>8, <2>2, SMT
  <2>4. q = released
    BY <1>1, <1>2, <1>5, <2>1, <2>2, <2>3, SamePayment
  <2> QED
    BY <2>1, <2>2, <2>4 DEF Payment!Release, released, rest
<1>9. ASSUME e.state = "PendingFinalization",
             get_resolution(d.resolution) = "Refund", f.state = "Refunded",
             m.to_buyer = l.to_buyer + paid, m.to_payees = l.to_payees
      PROVE  Payment!Refund(p, q)
  <2>1. /\ q.phase = "Returned" /\ q.verdict = None
        /\ p.phase = "Decided" /\ p.verdict = "Refund"
    BY <1>9 DEF PaymentFor, phase
  <2>2. Payment!charged(p, q) /\ rest = paid /\ p.to_buyer = 0
    BY <1>4, <1>9
  <2>3. q.to_buyer = rest /\ q.to_payees = p.to_payees
    BY <1>7, <1>9, <2>2, SMT
  <2>4. q = refunded
    BY <1>1, <1>2, <1>6, <2>1, <2>2, <2>3, SamePayment
  <2> QED
    BY <2>1, <2>2, <2>4 DEF Payment!Refund, refunded, rest
<1> QED
  BY <1>8, <1>9

-----------------------------------------------------------------------------
(* The moves of an escrow are steps of its payment.                        *)

(* An offer, a shipment, a delivery, the request of a refund, a rotation   *)
(* and a vote that decides nothing are no steps.                           *)
LEMMA QuietPayment ==
    ASSUME TypeOK, TypeOK', BooksInv, BooksInv', NEW id \in Ids,
           \/ Create(id) \/ Carry(id) \/ Rotate(id)
           \/ UNCHANGED <<escrow, dispute, ledger>>
    PROVE  PaymentStep(id)
<1> DEFINE p == payment_of(id)
           q == payment_of(id)'
           e == escrow[id]
           f == escrow'[id]
<1>1. PaymentFor(p, e, dispute[id], ledger[id])
      /\ PaymentFor(q, f, dispute'[id], ledger'[id])
  BY PaymentEntries
<1>2. dispute'[id] = dispute[id] /\ ledger'[id] = ledger[id]
  <2>1. UNCHANGED <<dispute, ledger>>
    BY Zenon DEF Create, NewEscrow, Carry, Rotate, rotate_resolver, dispute_vars
  <2> QED
    BY <2>1
<1>3. /\ phase(f.state) = phase(e.state)
      /\ e.state = "PendingFinalization" <=> f.state = "PendingFinalization"
  <2>1. CASE Create(id)
    <3>1. PICK t \in Terms : id = next_id /\ NewEscrow(t)
      BY <2>1, Zenon DEF Create
    <3>2. f.state = "Pending"
      BY <3>1, Entries DEF NewEscrow
    <3>3. e.state = "Absent"
      <4>1. next_id >= next_id
        BY SMT DEF TypeOK
      <4> QED
        BY <3>1, <4>1 DEF BooksInv, FreshIds
    <3> QED
      BY <3>2, <3>3 DEF phase
  <2>2. CASE Carry(id)
    <3>1. PICK next \in EscrowRecord :
             /\ save_escrow(id, next)
             /\ e.state \in {"Funded", "Shipped", "RefundRequested"}
             /\ next.state \in {"Funded", "Shipped", "RefundRequested"}
      BY <2>2, Zenon DEF Carry
    <3>2. f = next
      BY <3>1, Entries
    <3> QED
      BY <3>1, <3>2 DEF phase
  <2>3. CASE Rotate(id)
    <3>1. PICK new : save_escrow(id, [e EXCEPT !.resolvers.members = <<new>>])
      BY <2>3, Zenon DEF Rotate, rotate_resolver
    <3>2. f = [e EXCEPT !.resolvers.members = <<new>>] /\ e \in EscrowRecord
      BY <3>1, Entries
    <3>3. f.state = e.state
      BY <3>2 DEF EscrowRecord
    <3> QED
      BY <3>3
  <2>4. CASE UNCHANGED <<escrow, dispute, ledger>>
    BY <2>4
  <2> QED
    BY <2>1, <2>2, <2>3, <2>4
<1> HIDE DEF p, q, e, f
<1>4. q = p
  BY <1>1, <1>2, <1>3, SamePhase
<1> QED
  BY <1>4 DEF PaymentStep, p, q

(* The funding.                                                            *)
LEMMA FundPayment ==
    ASSUME TypeOK, TypeOK', BooksInv, BooksInv', DealInv, NEW id \in Ids,
           NEW buyer \in Address, fund(buyer, id)
    PROVE  PaymentStep(id)
<1> DEFINE p == payment_of(id)
           q == payment_of(id)'
           e == escrow[id]
           f == escrow'[id]
           d == dispute[id]
           l == ledger[id]
           m == ledger'[id]
           funded == [e EXCEPT !.state = "Funded", !.buyer = buyer,
                        !.funded_at = pack_timestamp(now),
                        !.dispute_deadline = pack_timestamp(now + DISPUTE_WINDOW)]
<1>1. PaymentFor(p, e, d, l) /\ PaymentFor(q, f, dispute'[id], m)
  BY PaymentEntries
<1>2. /\ e \in EscrowRecord /\ l \in Ledger /\ SoundBooks(e, d, l) /\ SoundDeal(e)
  BY Entries DEF BooksInv, DealInv
<1>3. /\ e.state = "Pending" /\ f = funded /\ dispute'[id] = d
      /\ m = [l EXCEPT !.deposited = @ + e.amount,
                       !.basket_deposited = @ + e.basket]
  <2>1. /\ e.state = "Pending" /\ save_escrow(id, funded) /\ UNCHANGED dispute
        /\ book(id, [l EXCEPT !.deposited = @ + e.amount,
                              !.basket_deposited = @ + e.basket])
    BY DEF fund, dispute_vars
  <2> HIDE DEF funded
  <2> QED
    BY <2>1, Entries
<1>4. f.state = "Funded"
  BY <1>2, <1>3 DEF EscrowRecord
<1>5. /\ m.deposited = l.deposited + e.amount /\ m.to_buyer = l.to_buyer
      /\ m.to_payees = l.to_payees /\ m.to_collector = l.to_collector
      /\ m.to_resolver = l.to_resolver /\ m.to_treasury = l.to_treasury
  BY <1>2, <1>3 DEF Ledger
<1>6. e.amount \in Nat /\ e.amount > 0
  BY <1>2, <1>3, PricedParts DEF SoundDeal
<1> HIDE DEF p, q, e, f, d, l, m, funded
<1>7. Payment!Fund(p, q)
  BY <1>1, <1>2, <1>3, <1>4, <1>5, <1>6, FundingStep
<1> QED
  BY <1>7 DEF PaymentStep, Payment!Step, p, q

(* An offer is cancelled, or the buyer gets back what is left.             *)
LEMMA ReturnPayment ==
    ASSUME TypeOK, TypeOK', BooksInv, BooksInv', NEW id \in Ids,
           Lapse(id) \/ GiveBack(id)
    PROVE  PaymentStep(id)
<1> DEFINE p == payment_of(id)
           q == payment_of(id)'
           e == escrow[id]
           f == escrow'[id]
           d == dispute[id]
           g == dispute'[id]
           l == ledger[id]
           m == ledger'[id]
<1>1. PaymentFor(p, e, d, l) /\ PaymentFor(q, f, g, m)
  BY PaymentEntries
<1>2. d \in DisputeRecord /\ l \in Ledger
  BY Entries
<1>3. /\ e.state \in HoldingStates \cup {"Pending"}
      /\ \E s \in {"Refunded", "Canceled", "Expired"} : move_to(id, s)
  BY Zenon DEF Lapse, GiveBack
<1>4. f.state \in {"Refunded", "Canceled", "Expired"}
  BY <1>3, StateMoves
<1>5. g.fees_charged = d.fees_charged
  <2>1. CASE UNCHANGED dispute
    BY <2>1
  <2>2. CASE Overridden(id)
    <3>1. PICK caller \in Address :
             save_dispute(id, [d EXCEPT
                !.status = "Resolved", !.resolved_by = caller,
                !.resolution = REFUND_DISCRIMINANT, !.resolved_at = now])
      BY <2>2 DEF Overridden
    <3>2. g = [d EXCEPT !.status = "Resolved", !.resolved_by = caller,
                 !.resolution = REFUND_DISCRIMINANT, !.resolved_at = now]
      BY <3>1, Entries
    <3> QED
      BY <1>2, <3>2 DEF DisputeRecord
  <2> QED
    BY <2>1, <2>2, Zenon DEF Lapse, GiveBack
<1>6. /\ m.deposited = l.deposited /\ m.to_payees = l.to_payees
      /\ m.to_collector = l.to_collector /\ m.to_resolver = l.to_resolver
      /\ m.to_treasury = l.to_treasury
  <2>1. CASE UNCHANGED ledger
    BY <2>1
  <2>2. CASE pay_buyer_in_full(id)
    <3>1. m = [l EXCEPT !.to_buyer = @ + payout(e.amount),
                        !.basket_to_buyer = @ + e.basket]
      BY <2>2, Entries DEF pay_buyer_in_full
    <3> QED
      BY <1>2, <3>1 DEF Ledger
  <2> QED
    BY <2>1, <2>2, Zenon DEF Lapse, GiveBack
<1> HIDE DEF p, q, e, f, d, g, l, m
<1>7. Payment!Return(p, q)
  BY <1>1, <1>3, <1>4, <1>5, <1>6, ReturnStep
<1> QED
  BY <1>7 DEF PaymentStep, Payment!Step, p, q

(* The payees are paid.                                                    *)
LEMMA SettlePayment ==
    ASSUME TypeOK, TypeOK', BooksInv, BooksInv', NEW id \in Ids, Settle(id)
    PROVE  PaymentStep(id)
<1> DEFINE p == payment_of(id)
           q == payment_of(id)'
           e == escrow[id]
           f == escrow'[id]
           d == dispute[id]
           g == dispute'[id]
           l == ledger[id]
           m == ledger'[id]
<1>1. PaymentFor(p, e, d, l) /\ PaymentFor(q, f, g, m)
  BY PaymentEntries
<1>2. /\ e \in EscrowRecord /\ l \in Ledger /\ SoundBooks(e, d, l)
  BY Entries DEF BooksInv
<1>3. PICK fee, paid \in Nat :
         /\ fee + paid = e.amount
         /\ book(id, [l EXCEPT !.to_collector = @ + fee, !.to_payees = @ + paid,
                               !.basket_to_seller = @ + e.basket])
  BY Zenon DEF Settle
<1>4. /\ e.state \in {"Funded", "Shipped"} /\ move_to(id, "Completed")
      /\ UNCHANGED dispute
  BY Zenon DEF Settle, dispute_vars
<1>5. f.state = "Completed" /\ g = d
  BY <1>4, StateMoves
<1>6. m = [l EXCEPT !.to_collector = @ + fee, !.to_payees = @ + paid,
                    !.basket_to_seller = @ + e.basket]
  BY <1>3, Entries
<1>7. /\ m.deposited = l.deposited /\ m.to_buyer = l.to_buyer
      /\ m.to_payees = l.to_payees + paid
      /\ m.to_collector = l.to_collector + fee
      /\ m.to_resolver = l.to_resolver /\ m.to_treasury = l.to_treasury
  BY <1>2, <1>6 DEF Ledger
<1>8. l.to_treasury \in Int
  BY <1>2, LedgerParts
<1>9. e.amount \in Nat
  <2>1. e.state # "Absent"
    BY <1>4
  <2> QED
    BY <1>2, <2>1, PricedParts
<1>10. m.to_treasury = l.to_treasury + 0 /\ fee + 0 + paid = e.amount
  BY <1>3, <1>7, <1>8, SMT
<1> HIDE DEF p, q, e, f, d, g, l, m
<1>11. Payment!Release(p, q)
  BY <1>1, <1>2, <1>4, <1>5, <1>7, <1>9, <1>10, PayoutStep
<1> QED
  BY <1>11 DEF PaymentStep, Payment!Step, p, q

(* A dispute is raised; it starts without the fees of a decision, as did   *)
(* the record it replaces.                                                 *)
LEMMA ContestPayment ==
    ASSUME TypeOK, TypeOK', BooksInv, BooksInv', FeesNeedDispute, NEW id \in Ids,
           NEW caller \in Address, raise_dispute(caller, id)
    PROVE  PaymentStep(id)
<1> DEFINE p == payment_of(id)
           q == payment_of(id)'
           e == escrow[id]
           f == escrow'[id]
           d == dispute[id]
           g == dispute'[id]
           raised == [NoDispute EXCEPT !.status = "Active", !.disputed_at = now]
<1>1. PaymentFor(p, e, d, ledger[id]) /\ PaymentFor(q, f, g, ledger'[id])
  BY PaymentEntries
<1>2. /\ e.state \in {"Funded", "Shipped"} /\ move_to(id, "Disputed")
      /\ save_dispute(id, raised) /\ UNCHANGED ledger
  BY Zenon DEF raise_dispute
<1>3. f.state = "Disputed" /\ g = raised
  BY <1>2, StateMoves, Entries
<1>4. raised.fees_charged = FALSE
  BY DEF NoDispute
<1>5. d.fees_charged = FALSE
  <2>1. ~d.fees_charged
    BY <1>2 DEF FeesNeedDispute, DisputedStates, TerminalStates
  <2>2. d \in DisputeRecord
    BY Entries
  <2> HIDE DEF d
  <2> QED
    BY <2>1, <2>2 DEF DisputeRecord
<1> HIDE DEF p, q, e, f, d, g, raised
<1>6. Payment!Contest(p, q)
  BY <1>1, <1>2, <1>3, <1>4, <1>5, ContestStep
<1> QED
  BY <1>6 DEF PaymentStep, Payment!Step, p, q

(* The record of a new round keeps the fees of the first.                  *)
LEMMA AppealPayment ==
    ASSUME TypeOK, TypeOK', BooksInv, BooksInv', NEW id \in Ids,
           NEW caller \in Address, appeal_dispute(caller, id)
    PROVE  PaymentStep(id)
<1> DEFINE p == payment_of(id)
           q == payment_of(id)'
           e == escrow[id]
           f == escrow'[id]
           d == dispute[id]
           g == dispute'[id]
           l == ledger[id]
           m == ledger'[id]
           fee == payout(calculate_fee(e.amount, config.appeal_fee_bps))
           reopened == [d EXCEPT !.status = "Active", !.resolution = 0,
                           !.resolved_by = None, !.resolved_at = 0,
                           !.appeal_count = @ + 1]
<1>1. PaymentFor(p, e, d, l) /\ PaymentFor(q, f, g, m)
  BY PaymentEntries
<1>2. /\ e.state = "PendingFinalization" /\ move_to(id, "Disputed")
      /\ save_dispute(id, reopened)
      /\ book(id, [l EXCEPT !.appeal_fees = @ + fee])
  BY Zenon DEF appeal_dispute
<1>3. d \in DisputeRecord /\ l \in Ledger
  BY Entries
<1>4. reopened.fees_charged = d.fees_charged
  BY <1>3 DEF DisputeRecord
<1> HIDE DEF fee, reopened
<1>5. /\ f.state = "Disputed" /\ g = reopened
      /\ m = [l EXCEPT !.appeal_fees = @ + fee]
  BY <1>2, StateMoves, Entries
<1>6. /\ m.deposited = l.deposited /\ m.to_buyer = l.to_buyer
      /\ m.to_payees = l.to_payees /\ m.to_collector = l.to_collector
      /\ m.to_resolver = l.to_resolver /\ m.to_treasury = l.to_treasury
  BY <1>3, <1>5 DEF Ledger
<1> HIDE DEF p, q, e, f, d, g, l, m
<1>7. Payment!Appeal(p, q)
  BY <1>1, <1>2, <1>4, <1>5, <1>6, AppealStep
<1> QED
  BY <1>7 DEF PaymentStep, Payment!Step, p, q

(* A decision, by whatever way: its fees are a part of the amount, and no  *)
(* later decision charges any.                                             *)
LEMMA DecidePayment ==
    ASSUME TypeOK, TypeOK', BooksInv, BooksInv', NEW id \in Ids, NEW caller,
           NEW r \in Resolution, NEW v, NEW charge_fees,
           escrow[id].state = "Disputed",
           execute_resolution_transition(id, caller, r, v, charge_fees)
    PROVE  PaymentStep(id)
<1> DEFINE p == payment_of(id)
           q == payment_of(id)'
           e == escrow[id]
           f == escrow'[id]
           d == dispute[id]
           g == dispute'[id]
           l == ledger[id]
           m == ledger'[id]
           arbitration_fee == calculate_fee(e.amount, config.arbitration_fee_bps)
           resolver_fee == calculate_fee(e.amount, e.resolver_fee_bps)
<1>1. PaymentFor(p, e, d, l) /\ PaymentFor(q, f, g, m)
  BY PaymentEntries
<1>2. /\ e \in EscrowRecord /\ l \in Ledger /\ SoundBooks(e, d, l)
      /\ g \in DisputeRecord /\ SoundBooks(f, g, m)
  BY Entries DEF BooksInv, TypeOK
<1>3. f.state = "PendingFinalization"
  BY DecisionMove
<1>4. get_resolution(g.resolution) \in Resolution
  BY DecisionRecord
<1>5. g.fees_charged = TRUE
  <2>1. g.fees_charged /\ g.fees_charged \in BOOLEAN
    BY <1>2, <1>3 DEF SoundBooks, FeesBooked, DisputeRecord
  <2> QED
    BY <2>1
<1>6. /\ e.amount \in Nat /\ e.resolver_fee_bps \in Nat
      /\ e.resolver_fee_bps <= MAX_ESCROW_FEE_BPS
  BY <1>2, PricedParts
<1>7. arbitration_fee \in Nat /\ resolver_fee \in Nat
  BY <1>6, DecisionFees
<1>8. \E a, b \in Nat :
         /\ a + b <= e.amount
         /\ d.fees_charged => a = 0 /\ b = 0
         /\ m.deposited = l.deposited /\ m.to_buyer = l.to_buyer
         /\ m.to_payees = l.to_payees /\ m.to_treasury = l.to_treasury
         /\ m.to_collector = l.to_collector + a
         /\ m.to_resolver = l.to_resolver + b
  <2>1. CASE /\ ~d.fees_charged /\ arbitration_fee + resolver_fee <= e.amount
             /\ book(id, [l EXCEPT !.to_collector = @ + payout(arbitration_fee),
                                   !.to_resolver = @ + payout(resolver_fee)])
    <3>1. payout(arbitration_fee) = arbitration_fee /\ payout(resolver_fee) = resolver_fee
      BY <1>7, PayoutOfNat
    <3> HIDE DEF arbitration_fee, resolver_fee
    <3>2. m = [l EXCEPT !.to_collector = @ + arbitration_fee,
                        !.to_resolver = @ + resolver_fee]
      BY <2>1, <3>1, Entries
    <3>3. /\ m.deposited = l.deposited /\ m.to_buyer = l.to_buyer
          /\ m.to_payees = l.to_payees /\ m.to_treasury = l.to_treasury
          /\ m.to_collector = l.to_collector + arbitration_fee
          /\ m.to_resolver = l.to_resolver + resolver_fee
      BY <1>2, <3>2 DEF Ledger
    <3> QED
      BY <1>7, <2>1, <3>3
  <2>2. CASE UNCHANGED ledger
    <3>1. l.to_collector \in Int /\ l.to_resolver \in Int
      BY <1>2, LedgerParts
    <3>2. l.to_collector = l.to_collector + 0 /\ l.to_resolver = l.to_resolver + 0
      BY <3>1, SMT
    <3>3. 0 \in Nat /\ 0 + 0 <= e.amount
      BY <1>6, SMT
    <3> QED
      BY <2>2, <3>2, <3>3
  <2> QED
    BY <2>1, <2>2, Zenon DEF execute_resolution_transition, first_charge
<1>9. PICK a, b \in Nat :
         /\ a + b <= e.amount
         /\ d.fees_charged => a = 0 /\ b = 0
         /\ m.deposited = l.deposited /\ m.to_buyer = l.to_buyer
         /\ m.to_payees = l.to_payees /\ m.to_treasury = l.to_treasury
         /\ m.to_collector = l.to_collector + a
         /\ m.to_resolver = l.to_resolver + b
  BY <1>8
<1> HIDE DEF p, q, f, d, g, l, m
<1>10. Payment!Decide(p, q)
  BY <1>1, <1>2, <1>3, <1>4, <1>5, <1>6, <1>9, DecideStep
<1> QED
  BY <1>10 DEF PaymentStep, Payment!Step, p, q

(* A vote decides or is only written down.                                 *)
LEMMA DecisionPayment ==
    ASSUME TypeOK, TypeOK', BooksInv, BooksInv', NEW id \in Ids, DecideOrVote(id)
    PROVE  PaymentStep(id)
<1>1. \A v : tally_votes_majority(v) \in Resolution
  BY DEF tally_votes_majority, Resolution
<1>2. \A v, n : tally_votes(v, n) # None => tally_votes(v, n) \in Resolution
  BY DEF tally_votes, Resolution
<1>3. CASE resolve_deadlocked_dispute(id)
  BY <1>1, <1>3, DecidePayment, Zenon DEF resolve_deadlocked_dispute
<1>4. ASSUME NEW caller \in Address, claim_dispute_timeout(caller, id)
      PROVE  PaymentStep(id)
  <2>1. "Refund" \in Resolution
    BY DEF Resolution
  <2> QED
    BY <1>4, <2>1, DecidePayment, Zenon DEF claim_dispute_timeout
<1>5. ASSUME NEW caller \in Address, NEW r \in Resolution,
             resolve_or_vote(caller, id, r)
      PROVE  PaymentStep(id)
  <2>1. CASE UNCHANGED <<escrow, dispute, ledger>>
    BY <2>1, QuietPayment
  <2> QED
    BY <1>2, <1>5, <2>1, DecidePayment, Zenon DEF resolve_or_vote
<1> QED
  BY <1>3, <1>4, <1>5 DEF DecideOrVote

(* The payout: the two fees of the finalization and the winner's share are *)
(* what the decision left.                                                 *)
LEMMA FinalPayment ==
    ASSUME TypeOK, TypeOK', BooksInv, BooksInv', NEW id \in Ids, finalize_dispute(id)
    PROVE  PaymentStep(id)
<1> DEFINE p == payment_of(id)
           q == payment_of(id)'
           e == escrow[id]
           f == escrow'[id]
           d == dispute[id]
           g == dispute'[id]
           l == ledger[id]
           m == ledger'[id]
           platform == platform_fee(id)
           protocol == protocol_fee(id)
           paid == payout_amount(id)
           after_fees == [l EXCEPT !.to_treasury = @ + payout(platform),
                                   !.to_collector = @ + payout(protocol)]
           released == [after_fees EXCEPT !.to_payees = @ + payout(paid),
                                          !.basket_to_seller = @ + e.basket]
           refunded == [after_fees EXCEPT !.to_buyer = @ + payout(paid),
                                          !.basket_to_buyer = @ + e.basket]
           closed == [d EXCEPT !.status = "Resolved"]
<1>1. PaymentFor(p, e, d, l) /\ PaymentFor(q, f, g, m)
  BY PaymentEntries
<1>2. /\ e \in EscrowRecord /\ l \in Ledger /\ d \in DisputeRecord
      /\ SoundBooks(e, d, l)
  BY Entries DEF BooksInv
<1>3. /\ e.state = "PendingFinalization" /\ save_dispute(id, closed)
      /\ \/ /\ get_resolution(d.resolution) = "Release"
            /\ move_to(id, "Completed") /\ book(id, released)
         \/ /\ get_resolution(d.resolution) = "Refund"
            /\ move_to(id, "Refunded") /\ book(id, refunded)
  BY Zenon DEF finalize_dispute
<1>4. /\ platform \in Nat /\ protocol \in Nat /\ paid \in Nat
      /\ protocol + platform + paid = e.amount
  BY <1>3, PayoutCoversFees
<1>5. e.amount \in Nat
  BY <1>2, <1>3, PricedParts
<1>6. closed.fees_charged = d.fees_charged
  BY <1>2 DEF DisputeRecord
<1> HIDE DEF platform, protocol, paid, closed
<1>7. payout(platform) = platform /\ payout(protocol) = protocol /\ payout(paid) = paid
  BY <1>4, PayoutOfNat
<1>8. g = closed
  BY <1>3, Entries
<1> DEFINE fees_out(x) ==
              /\ x.deposited = l.deposited /\ x.to_resolver = l.to_resolver
              /\ x.to_collector = l.to_collector + protocol
              /\ x.to_treasury = l.to_treasury + platform
<1>9. /\ fees_out(released)
      /\ released.to_buyer = l.to_buyer /\ released.to_payees = l.to_payees + paid
  BY <1>2, <1>7 DEF Ledger
<1>10. /\ fees_out(refunded)
       /\ refunded.to_buyer = l.to_buyer + paid /\ refunded.to_payees = l.to_payees
  BY <1>2, <1>7 DEF Ledger
<1> HIDE DEF p, q, released, refunded
<1>11. CASE /\ get_resolution(d.resolution) = "Release"
            /\ move_to(id, "Completed") /\ book(id, released)
  <2>1. f.state = "Completed" /\ m = released
    BY <1>11, StateMoves, Entries
  <2> HIDE DEF e, f, d, g, l, m
  <2>2. Payment!Release(p, q)
    BY <1>1, <1>2, <1>3, <1>4, <1>5, <1>6, <1>8, <1>9, <1>11, <2>1, PayoutStep
  <2> QED
    BY <2>2 DEF PaymentStep, Payment!Step, p, q
<1>12. CASE /\ get_resolution(d.resolution) = "Refund"
            /\ move_to(id, "Refunded") /\ book(id, refunded)
  <2>1. f.state = "Refunded" /\ m = refunded
    BY <1>12, StateMoves, Entries
  <2> HIDE DEF e, f, d, g, l, m
  <2>2. Payment!Refund(p, q)
    BY <1>1, <1>2, <1>3, <1>4, <1>5, <1>6, <1>8, <1>10, <1>12, <2>1, PayoutStep
  <2> QED
    BY <2>2 DEF PaymentStep, Payment!Step, p, q
<1> QED
  BY <1>3, <1>11, <1>12

-----------------------------------------------------------------------------
(* The refinement.                                                         *)

LEMMA MovePayment ==
    ASSUME TypeOK, TypeOK', BooksInv, BooksInv', DealInv, FeesNeedDispute,
           NEW id \in Ids, TradeMove(id) \/ DisputeMove(id)
    PROVE  PaymentStep(id)
BY QuietPayment, FundPayment, ReturnPayment, SettlePayment, ContestPayment,
   DecisionPayment, AppealPayment, FinalPayment DEF TradeMove, DisputeMove

(* The step of one payment leaves the payments of the others alone.        *)
LEMMA PaymentNext ==
    ASSUME TypeOK, TypeOK', BooksInv, BooksInv', DealInv, FeesNeedDispute,
           [Next]_vars
    PROVE  [Payment!Next]_([id \in Ids |-> payment_of(id)])
<1>1. ASSUME UNCHANGED <<escrow, dispute, ledger>>
      PROVE  \A id \in Ids : payment_of(id)' = payment_of(id)
  BY <1>1 DEF payment_of
<1>2. ASSUME NEW id \in Ids, TradeMove(id) \/ DisputeMove(id)
      PROVE  /\ PaymentStep(id)
             /\ \A other \in Ids \ {id} : payment_of(other)' = payment_of(other)
  <2>1. \A other \in Ids \ {id} : payment_of(other)' = payment_of(other)
    BY <1>2, MoveFrame DEF Same, payment_of
  <2> QED
    BY <1>2, <2>1, MovePayment
<1>3. NoMove => UNCHANGED <<escrow, dispute, ledger>>
  BY DEF NoMove
<1>4. \/ \A id \in Ids : payment_of(id)' = payment_of(id)
      \/ \E id \in Ids :
            /\ Payment!Step(payment_of(id), payment_of(id)')
            /\ \A other \in Ids \ {id} : payment_of(other)' = payment_of(other)
  BY <1>1, <1>2, <1>3, EveryMove DEF PaymentStep
<1>5. CASE \A id \in Ids : payment_of(id)' = payment_of(id)
  BY <1>5
<1>6. CASE \E id \in Ids :
              /\ Payment!Step(payment_of(id), payment_of(id)')
              /\ \A other \in Ids \ {id} : payment_of(other)' = payment_of(other)
  <2> DEFINE payment == [i \in Ids |-> payment_of(i)]
             after == [i \in Ids |-> payment_of(i)']
  <2>1. PICK id \in Ids :
           /\ Payment!Step(payment_of(id), payment_of(id)')
           /\ \A other \in Ids \ {id} : payment_of(other)' = payment_of(other)
    BY <1>6
  <2>2. payment[id] = payment_of(id) /\ after[id] = payment_of(id)'
    OBVIOUS
  <2>3. after = [payment EXCEPT ![id] = after[id]]
    BY <2>1
  <2>4. payment' = after
    OBVIOUS
  <2>5. Payment!Step(payment[id], after[id])
    BY <2>1, <2>2
  <2>6. Payment!Next
    BY <2>3, <2>4, <2>5, Zenon DEF Payment!Next
  <2> QED
    BY <2>6
<1> QED
  BY <1>4, <1>5, <1>6

(* ImplementsPayment: whatever thirty entry points do in whatever order, a *)
(* deposit is held until it goes to one side, whole but for the fees; it   *)
(* goes where the verdict says unless it is appealed or the buyer is       *)
(* refunded in full; and no step touches the payments of two escrows.      *)
THEOREM ContractImplementsPayment == Spec => ImplementsPayment
<1>1. Init => Payment!Init
  BY DEF Init, NoEscrow, NoDispute, NoMoney, payment_of, phase,
         Payment!Init, Payment!New
<1>2. /\ TypeOK /\ TypeOK' /\ BooksInv /\ BooksInv' /\ DealInv /\ FeesNeedDispute
      /\ [Next]_vars
      => [Payment!Next]_([id \in Ids |-> payment_of(id)])
  BY PaymentNext
<1> QED
  BY <1>1, <1>2, TypeCorrect, BooksHold, DealsHold, FeesNeedDisputes, PTL
     DEF Spec, ImplementsPayment, Payment!Spec
=============================================================================
