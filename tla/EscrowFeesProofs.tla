-------------------------- MODULE EscrowFeesProofs --------------------------
(***************************************************************************)
(* The claims payout.rs and distribute_to_payees make about their own      *)
(* arithmetic, for every amount, rate and list of payees.                  *)
(***************************************************************************)
EXTENDS EscrowFees, WellFoundedInduction, TLAPS

(* The floor of a division by 10000, as two linear inequalities.           *)
LEMMA FloorBounds ==
    ASSUME NEW x \in Nat
    PROVE  /\ x \div BASIS_POINTS \in Nat
           /\ BASIS_POINTS * (x \div BASIS_POINTS) <= x
           /\ x < BASIS_POINTS * (x \div BASIS_POINTS) + BASIS_POINTS
BY SMT DEF BASIS_POINTS

(* calculate_fee is the floor of amount * fee_bps / 10000, although it     *)
(* never forms that product.                                               *)
THEOREM FeeIsFloorForAll ==
    ASSUME NEW amount \in Nat, NEW fee_bps \in Nat
    PROVE  calculate_fee(amount, fee_bps) = (amount * fee_bps) \div BASIS_POINTS
<1> DEFINE q == amount \div BASIS_POINTS
           r == amount % BASIS_POINTS
<1>1. q \in Nat /\ r \in Nat /\ amount = BASIS_POINTS * q + r
  BY SMT DEF BASIS_POINTS
<1> HIDE DEF q, r
<1>2. amount * fee_bps = BASIS_POINTS * (q * fee_bps) + r * fee_bps
  BY <1>1, SMT DEF BASIS_POINTS
<1>3. q * fee_bps \in Nat /\ r * fee_bps \in Nat
  BY <1>1, SMT
<1>4. ASSUME NEW x \in Nat, NEW y \in Nat
      PROVE  (BASIS_POINTS * x + y) \div BASIS_POINTS = x + y \div BASIS_POINTS
  BY SMT DEF BASIS_POINTS
<1>5. (amount * fee_bps) \div BASIS_POINTS = q * fee_bps + (r * fee_bps) \div BASIS_POINTS
  BY <1>2, <1>3, <1>4
<1> QED
  BY <1>5 DEF calculate_fee, q, r

(* Whatever the sign of the amount, calculate_fee returns an integer: what  *)
(* the typing of the records needs.                                         *)
LEMMA FeeIsInt ==
    ASSUME NEW amount \in Int, NEW fee_bps \in Nat
    PROVE  calculate_fee(amount, fee_bps) \in Int
<1> DEFINE q == amount \div BASIS_POINTS
           r == amount % BASIS_POINTS
<1>1. q \in Int /\ r \in Int
  BY SMT DEF BASIS_POINTS
<1> HIDE DEF q, r
<1>2. q * fee_bps \in Int /\ r * fee_bps \in Int
  BY <1>1, SMT
<1>3. (r * fee_bps) \div BASIS_POINTS \in Int
  BY <1>2, SMT DEF BASIS_POINTS
<1>4. q * fee_bps + (r * fee_bps) \div BASIS_POINTS \in Int
  BY <1>2, <1>3, SMT
<1> QED
  BY <1>4 DEF calculate_fee, q, r

(* A fee is not negative, and with a rate of at most 100% not more than    *)
(* the amount it is taken from.                                            *)
LEMMA FeeBounds ==
    ASSUME NEW amount \in Nat, NEW fee_bps \in 0..BASIS_POINTS
    PROVE  calculate_fee(amount, fee_bps) \in 0..amount
<1> DEFINE product == amount * fee_bps
           fee == product \div BASIS_POINTS
<1>1. product \in Nat /\ product <= BASIS_POINTS * amount
  BY SMT DEF BASIS_POINTS
<1>2. calculate_fee(amount, fee_bps) = fee
  BY FeeIsFloorForAll DEF BASIS_POINTS
<1> HIDE DEF product
<1>3. fee \in Nat /\ BASIS_POINTS * fee <= product
  BY <1>1, FloorBounds
<1> HIDE DEF fee
<1>4. fee <= amount
  BY <1>1, <1>3, SMT DEF BASIS_POINTS
<1> QED
  BY <1>2, <1>3, <1>4, SMT
-----------------------------------------------------------------------------
(* Induction on the number of payees, in terms of sets: what the library   *)
(* states for an arbitrary predicate is stated here for membership.        *)

(* A set of natural numbers that is not empty has a least element.          *)
LEMMA NatSetHasLeast ==
    ASSUME NEW T \in SUBSET Nat, T # {}
    PROVE  \E x \in T : \A y \in T : x <= y
<1> DEFINE R == OpToRel(<, Nat)
<1>1. IsWellFoundedOn(R, Nat)
  BY NatLessThanWellFounded
<1>2. \A x, y \in Nat : x < y => <<x, y>> \in R
  BY DEF OpToRel
<1> HIDE DEF R
<1>3. PICK x \in T : \A y \in T : ~ (<<y, x>> \in R)
  BY <1>1, WFMin, Zenon
<1>4. \A y \in T : ~ (y < x)
  BY <1>2, <1>3, Zenon
<1>5. \A y \in T : x <= y
  BY <1>4, SMT
<1> QED
  BY <1>5

(* A set with 0 and with the successor of each of its numbers has them all. *)
LEMMA NatSetInduction ==
    ASSUME NEW S, 0 \in S, \A k \in Nat : k \in S => k + 1 \in S
    PROVE  \A k \in Nat : k \in S
<1> DEFINE T == {k \in Nat : k \notin S}
<1>1. SUFFICES ASSUME T # {} PROVE FALSE
  OBVIOUS
<1>2. PICK x \in T : \A y \in T : x <= y
  BY <1>1, NatSetHasLeast
<1>3. x \in Nat /\ x # 0
  BY <1>2
<1>4. x - 1 \in Nat /\ x - 1 \notin T /\ x = (x - 1) + 1
  BY <1>2, <1>3, SMT
<1>5. x - 1 \in S
  BY <1>4
<1> QED
  BY <1>2, <1>4, <1>5

(* The functions behind co_payee_total and bps_total, which sum the terms  *)
(* c[1], c[2], ... from the one after skip on, exist.                      *)
LEMMA PartialSumsExist ==
    ASSUME NEW N \in Nat, NEW skip \in Nat, NEW c \in [1..N -> Int]
    PROVE  \E f \in [0..N -> Int] :
              f = [n \in 0..N |-> IF n <= skip THEN 0 ELSE f[n - 1] + c[n]]
<1> DEFINE Sums(f, k) ==
              /\ f \in [0..k -> Int]
              /\ \A n \in 0..k : f[n] = IF n <= skip THEN 0 ELSE f[n - 1] + c[n]
           S == {k \in Nat : k <= N => \E f : Sums(f, k)}
<1>1. 0 \in S
  <2>1. Sums([n \in 0..0 |-> 0], 0)
    BY SMT
  <2> QED
    BY <2>1
<1>2. ASSUME NEW k \in Nat, k \in S PROVE k + 1 \in S
  <2>1. SUFFICES ASSUME k + 1 <= N PROVE \E f : Sums(f, k + 1)
    OBVIOUS
  <2>2. PICK f : Sums(f, k)
    <3>1. k <= N
      BY <2>1, SMT
    <3> QED
      BY <1>2, <3>1, Zenon
  <2> DEFINE last == IF k + 1 <= skip THEN 0 ELSE f[k] + c[k + 1]
             g == [n \in 0..(k + 1) |-> IF n = k + 1 THEN last ELSE f[n]]
  <2>3. last \in Int
    BY <2>1, <2>2, SMT
  <2> HIDE DEF last
  <2>4. g \in [0..(k + 1) -> Int]
    BY <2>2, <2>3, SMT
  <2>5. ASSUME NEW n \in 0..(k + 1)
        PROVE  g[n] = IF n <= skip THEN 0 ELSE g[n - 1] + c[n]
    <3>1. CASE n = k + 1
      BY <3>1, <2>2, SMT DEF last
    <3>2. CASE n \in 0..k /\ n = 0
      BY <3>2, <2>2, SMT
    <3>3. CASE n \in 1..k
      BY <3>3, <2>2, SMT
    <3> QED
      BY <3>1, <3>2, <3>3, SMT
  <2> QED
    BY <2>4, <2>5
<1> HIDE DEF S
<1>3. N \in S
  BY <1>1, <1>2, NatSetInduction
<1>4. PICK f : Sums(f, N)
  BY <1>3 DEF S
<1>5. f = [n \in 0..N |-> IF n <= skip THEN 0 ELSE f[n - 1] + c[n]]
  BY <1>4, SMT
<1> QED
  BY <1>4, <1>5
-----------------------------------------------------------------------------
(* What the two sums over the payees are.                                  *)

IsPayeeList(payees) ==
    /\ Len(payees) \in Nat
    /\ \A i \in 1..Len(payees) : payees[i].bps \in Nat

(* The share a co-payee is paid is an integer.                              *)
LEMMA PaidShareIsInt ==
    ASSUME NEW amount \in Int, NEW bps \in Nat
    PROVE  payout(payee_share(amount, bps)) \in Int
<1>1. amount * bps \in Int
  BY SMT
<1>2. payee_share(amount, bps) \in Int
  BY <1>1, SMT DEF payee_share, BASIS_POINTS
<1> QED
  BY <1>2, SMT DEF payout

(* co_payee_total is the last of the partial sums of the loop in            *)
(* distribute_to_payees.                                                    *)
LEMMA CoPayeeSums ==
    ASSUME NEW amount \in Int, NEW payees, IsPayeeList(payees)
    PROVE  \E f \in [0..Len(payees) -> Int] :
              /\ co_payee_total(amount, payees) = f[Len(payees)]
              /\ \A n \in 0..Len(payees) :
                    f[n] = IF n <= 1 THEN 0
                           ELSE f[n - 1]
                                  + payout(payee_share(amount, payees[n].bps))
<1> DEFINE N == Len(payees)
           c == [n \in 1..N |-> payout(payee_share(amount, payees[n].bps))]
           f == CHOOSE total : total = [n \in 0..N |->
                    IF n <= 1 THEN 0
                    ELSE total[n - 1] + payout(payee_share(amount, payees[n].bps))]
<1>1. \A n \in 1..N : payout(payee_share(amount, payees[n].bps)) \in Int
  BY PaidShareIsInt DEF IsPayeeList
<1>2. c \in [1..N -> Int] /\ N \in Nat /\ 1 \in Nat
  BY <1>1 DEF IsPayeeList
<1> HIDE DEF c
<1>3. PICK g \in [0..N -> Int] :
         g = [n \in 0..N |-> IF n <= 1 THEN 0 ELSE g[n - 1] + c[n]]
  <2> HIDE DEF N
  <2> QED
    BY <1>2, PartialSumsExist
<1>4. \A n \in 0..N : ~(n <= 1) => c[n] = payout(payee_share(amount, payees[n].bps))
  BY <1>2, SMT DEF c
<1>5. g = [n \in 0..N |-> IF n <= 1 THEN 0
                ELSE g[n - 1] + payout(payee_share(amount, payees[n].bps))]
  BY <1>3, <1>4, Zenon
<1>6. f = [n \in 0..N |-> IF n <= 1 THEN 0
                ELSE f[n - 1] + payout(payee_share(amount, payees[n].bps))]
  BY <1>5, Zenon
<1>7. co_payee_total(amount, payees) = f[N]
  BY Zenon DEF co_payee_total
<1> HIDE DEF f
<1>8. f \in [0..N -> Int]
  <2> DEFINE S == {k \in Nat : k <= N => f[k] \in Int}
  <2>1. 0 \in S
    BY <1>2, <1>6, SMT
  <2>2. ASSUME NEW k \in Nat, k \in S PROVE k + 1 \in S
    <3>1. SUFFICES ASSUME k + 1 <= N PROVE f[k + 1] \in Int
      OBVIOUS
    <3>2. k + 1 \in 0..N /\ k + 1 \in 1..N /\ k <= N /\ (k + 1) - 1 = k
      BY <3>1, <1>2, SMT
    <3>3. f[k] \in Int /\ payout(payee_share(amount, payees[k + 1].bps)) \in Int
      BY <2>2, <3>2, <1>1
    <3>4. f[k + 1] = IF k + 1 <= 1 THEN 0
                     ELSE f[k] + payout(payee_share(amount, payees[k + 1].bps))
      BY <1>6, <3>2, Zenon
    <3> QED
      BY <3>3, <3>4, SMT
  <2> HIDE DEF S
  <2>3. \A k \in Nat : k \in S
    BY <2>1, <2>2, NatSetInduction
  <2>4. \A k \in 0..N : f[k] \in Int
    BY <1>2, <2>3, SMT DEF S
  <2> QED
    BY <1>6, <2>4, Zenon
<1>9. \A n \in 0..N :
         f[n] = IF n <= 1 THEN 0
                ELSE f[n - 1] + payout(payee_share(amount, payees[n].bps))
  BY <1>6, Zenon
<1> QED
  BY <1>7, <1>8, <1>9

(* bps_total is the last of the partial sums of the loop in                 *)
(* validate_payees.                                                         *)
LEMMA BpsSums ==
    ASSUME NEW payees, IsPayeeList(payees)
    PROVE  \E f \in [0..Len(payees) -> Int] :
              /\ bps_total(payees) = f[Len(payees)]
              /\ \A n \in 0..Len(payees) :
                    f[n] = IF n = 0 THEN 0 ELSE f[n - 1] + payees[n].bps
<1> DEFINE N == Len(payees)
           c == [n \in 1..N |-> payees[n].bps]
           f == CHOOSE total : total = [n \in 0..N |->
                    IF n = 0 THEN 0 ELSE total[n - 1] + payees[n].bps]
<1>1. \A n \in 1..N : payees[n].bps \in Int
  BY DEF IsPayeeList
<1>2. c \in [1..N -> Int] /\ N \in Nat /\ 0 \in Nat
  BY <1>1 DEF IsPayeeList
<1> HIDE DEF c
<1>3. PICK g \in [0..N -> Int] :
         g = [n \in 0..N |-> IF n <= 0 THEN 0 ELSE g[n - 1] + c[n]]
  <2> HIDE DEF N
  <2> QED
    BY <1>2, PartialSumsExist
<1>4. \A n \in 0..N : /\ n <= 0 <=> n = 0
                      /\ n # 0 => c[n] = payees[n].bps
  BY <1>2, SMT DEF c
<1>5. g = [n \in 0..N |-> IF n = 0 THEN 0 ELSE g[n - 1] + payees[n].bps]
  BY <1>3, <1>4, Zenon
<1>6. f = [n \in 0..N |-> IF n = 0 THEN 0 ELSE f[n - 1] + payees[n].bps]
  BY <1>5, Zenon
<1>7. bps_total(payees) = f[N]
  BY Zenon DEF bps_total
<1> HIDE DEF f
<1>8. f \in [0..N -> Int]
  <2> DEFINE S == {k \in Nat : k <= N => f[k] \in Int}
  <2>1. 0 \in S
    BY <1>2, <1>6, SMT
  <2>2. ASSUME NEW k \in Nat, k \in S PROVE k + 1 \in S
    <3>1. SUFFICES ASSUME k + 1 <= N PROVE f[k + 1] \in Int
      OBVIOUS
    <3>2. k + 1 \in 0..N /\ k + 1 \in 1..N /\ k <= N /\ (k + 1) - 1 = k
      BY <3>1, <1>2, SMT
    <3>3. f[k] \in Int /\ payees[k + 1].bps \in Int
      BY <2>2, <3>2, <1>1
    <3>4. f[k + 1] = IF k + 1 = 0 THEN 0 ELSE f[k] + payees[k + 1].bps
      BY <1>6, <3>2, Zenon
    <3> QED
      BY <3>3, <3>4, SMT
  <2> HIDE DEF S
  <2>3. \A k \in Nat : k \in S
    BY <2>1, <2>2, NatSetInduction
  <2>4. \A k \in 0..N : f[k] \in Int
    BY <1>2, <2>3, SMT DEF S
  <2> QED
    BY <1>6, <2>4, Zenon
<1>9. \A n \in 0..N : f[n] = IF n = 0 THEN 0 ELSE f[n - 1] + payees[n].bps
  BY <1>6, Zenon
<1> QED
  BY <1>7, <1>8, <1>9

(* Each co-payee loses less than one unit to the rounding.                 *)
LEMMA ShareBounds ==
    ASSUME NEW amount \in Nat, NEW bps \in Nat
    PROVE  /\ payee_share(amount, bps) \in Nat
           /\ payout(payee_share(amount, bps)) = payee_share(amount, bps)
           /\ BASIS_POINTS * payee_share(amount, bps) <= amount * bps
           /\ amount * bps
                 <= BASIS_POINTS * payee_share(amount, bps) + BASIS_POINTS - 1
<1> DEFINE product == amount * bps
           share == product \div BASIS_POINTS
<1>1. product \in Nat
  BY SMT
<1>2. payee_share(amount, bps) = share
  BY DEF payee_share
<1> HIDE DEF product
<1>3. /\ share \in Nat /\ BASIS_POINTS * share <= product
      /\ product < BASIS_POINTS * share + BASIS_POINTS
  BY <1>1, FloorBounds
<1> HIDE DEF share
<1>4. product <= BASIS_POINTS * share + BASIS_POINTS - 1
  BY <1>1, <1>3, SMT DEF BASIS_POINTS
<1>5. payout(share) = share
  BY <1>3, SMT DEF payout
<1> QED
  BY <1>2, <1>3, <1>4, <1>5 DEF product

(* Points 2 and 3 of the proof in the comment of distribute_to_payees: the *)
(* co-payees together get at most their exact shares and fall short of     *)
(* them by less than one unit each.                                        *)
LEMMA CoPayeeBounds ==
    ASSUME NEW amount \in Nat, NEW payees, IsPayeeList(payees), Len(payees) > 0
    PROVE  LET exact == amount * (bps_total(payees) - payees[1].bps)
               paid  == BASIS_POINTS * co_payee_total(amount, payees)
           IN  /\ co_payee_total(amount, payees) \in Nat
               /\ paid <= exact
               /\ exact <= paid + (BASIS_POINTS - 1) * (Len(payees) - 1)
<1> DEFINE N == Len(payees)
           b1 == payees[1].bps
<1>1. N \in Nat /\ N >= 1 /\ \A n \in 1..N : payees[n].bps \in Nat
  BY SMT DEF IsPayeeList
<1>2. PICK f \in [0..N -> Int] :
         /\ co_payee_total(amount, payees) = f[N]
         /\ \A n \in 0..N : f[n] = IF n <= 1 THEN 0
                ELSE f[n - 1] + payout(payee_share(amount, payees[n].bps))
  <2>1. amount \in Int
    BY SMT
  <2> QED
    BY <2>1, CoPayeeSums
<1>3. PICK g \in [0..N -> Int] :
         /\ bps_total(payees) = g[N]
         /\ \A n \in 0..N : g[n] = IF n = 0 THEN 0 ELSE g[n - 1] + payees[n].bps
  BY BpsSums
<1> DEFINE InBounds(n) ==
              /\ f[n] \in Nat
              /\ BASIS_POINTS * f[n] <= amount * (g[n] - b1)
              /\ amount * (g[n] - b1)
                    <= BASIS_POINTS * f[n] + (BASIS_POINTS - 1) * (n - 1)
           S == {k \in Nat : k + 1 <= N => InBounds(k + 1)}
<1>4. 0 \in S
  <2>1. f[1] = 0 /\ g[1] = b1
    BY <1>1, <1>2, <1>3, SMT
  <2>2. b1 \in Nat /\ amount * (b1 - b1) = 0
    BY <1>1, SMT
  <2>3. InBounds(1)
    BY <2>1, <2>2, SMT DEF BASIS_POINTS
  <2> QED
    BY <2>3, SMT
<1>5. ASSUME NEW k \in Nat, k \in S PROVE k + 1 \in S
  <2> DEFINE n == k + 2
             b == payees[n].bps
             share == payee_share(amount, b)
  <2>1. SUFFICES ASSUME n <= N PROVE InBounds(n)
    BY SMT
  <2>2. k + 1 <= N /\ n \in 1..N /\ n \in 0..N /\ k + 1 \in 0..N /\ n - 1 = k + 1
    BY <2>1, <1>1, SMT
  <2>3. InBounds(k + 1)
    BY <2>2, <1>5, Zenon
  <2>4. b \in Nat /\ b1 \in Nat /\ g[k + 1] \in Int
    <3>1. 1 \in 1..N
      BY <1>1, SMT
    <3> QED
      BY <1>1, <1>3, <2>2, <3>1, Zenon
  <2>5. f[n] = f[k + 1] + share /\ g[n] = g[k + 1] + b
    <3>1. ~(n <= 1) /\ n # 0
      BY SMT
    <3>2. payout(share) = share
      BY <2>4, ShareBounds
    <3> QED
      BY <1>2, <1>3, <2>2, <3>1, <3>2, Zenon
  <2> DEFINE before == amount * (g[k + 1] - b1)
             after == amount * (g[n] - b1)
             own == amount * b
  <2>6. /\ share \in Nat
        /\ BASIS_POINTS * share <= own
        /\ own <= BASIS_POINTS * share + BASIS_POINTS - 1
    BY <2>4, ShareBounds
  <2>7. before \in Int /\ own \in Int /\ after = before + own
    <3> HIDE DEF b, b1
    <3> QED
      BY <2>4, <2>5, SMT
  <2>8. /\ f[k + 1] \in Nat
        /\ BASIS_POINTS * f[k + 1] <= before
        /\ before <= BASIS_POINTS * f[k + 1] + (BASIS_POINTS - 1) * k
    BY <2>3, SMT
  <2> HIDE DEF before, after, own, share
  <2>9. f[k + 1] + share \in Nat /\ BASIS_POINTS * (f[k + 1] + share) <= after
    BY <2>6, <2>7, <2>8, SMT DEF BASIS_POINTS
  <2>10. after <= BASIS_POINTS * (f[k + 1] + share) + (BASIS_POINTS - 1) * (n - 1)
    BY <2>6, <2>7, <2>8, SMT DEF BASIS_POINTS
  <2> QED
    BY <2>5, <2>9, <2>10 DEF after
<1> HIDE DEF S
<1>6. N - 1 \in S /\ (N - 1) + 1 = N
  <2>1. N - 1 \in Nat /\ (N - 1) + 1 = N
    BY <1>1, SMT
  <2> QED
    BY <2>1, <1>4, <1>5, NatSetInduction
<1>7. InBounds(N)
  BY <1>1, <1>6, SMT DEF S
<1> QED
  BY <1>2, <1>3, <1>7

(* What distribute_to_payees moves is an integer for any list of payees.    *)
LEMMA DistributedIsInt ==
    ASSUME NEW amount \in Int, NEW payees, IsPayeeList(payees)
    PROVE  distribute_to_payees(amount, payees) \in Int
<1>1. co_payee_total(amount, payees) \in Int
  <2>1. PICK f \in [0..Len(payees) -> Int] :
           co_payee_total(amount, payees) = f[Len(payees)]
    BY CoPayeeSums
  <2>2. Len(payees) \in 0..Len(payees)
    BY SMT DEF IsPayeeList
  <2> QED
    BY <2>1, <2>2
<1> QED
  BY <1>1, SMT DEF distribute_to_payees, primary_payee_share, payout

-----------------------------------------------------------------------------
(* The lists every creator accepts, with shares of at least zero.          *)
IsAcceptedList(payees) == IsPayeeList(payees) /\ validate_payees(payees)

(* validate_payees refuses the empty list, so there is a primary payee.     *)
LEMMA AcceptedIsNotEmpty ==
    ASSUME NEW payees, IsAcceptedList(payees)
    PROVE  Len(payees) \in Nat /\ Len(payees) > 0
BY SMT DEF IsAcceptedList, IsPayeeList, validate_payees, MAX_PAYEES

(* For a list whose shares add up to 100% the co-payees get no more than    *)
(* the amount, and what they leave is the primary payee's share and the     *)
(* dust.                                                                    *)
LEMMA CoPayeesWithinAmount ==
    ASSUME NEW amount \in Nat, NEW payees, IsAcceptedList(payees)
    PROVE  /\ co_payee_total(amount, payees) \in 0..amount
           /\ payees[1].bps \in Nat
           /\ BASIS_POINTS * co_payee_total(amount, payees)
                 <= amount * (BASIS_POINTS - payees[1].bps)
           /\ amount * (BASIS_POINTS - payees[1].bps)
                 <= BASIS_POINTS * co_payee_total(amount, payees)
                        + (BASIS_POINTS - 1) * (Len(payees) - 1)
<1> DEFINE total == co_payee_total(amount, payees)
           b1 == payees[1].bps
<1>1. bps_total(payees) = BASIS_POINTS
  BY DEF IsAcceptedList, validate_payees
<1>2. /\ total \in Nat
      /\ BASIS_POINTS * total <= amount * (BASIS_POINTS - b1)
      /\ amount * (BASIS_POINTS - b1)
            <= BASIS_POINTS * total + (BASIS_POINTS - 1) * (Len(payees) - 1)
  BY <1>1, CoPayeeBounds, AcceptedIsNotEmpty DEF IsAcceptedList
<1>3. b1 \in Nat
  BY AcceptedIsNotEmpty, SMT DEF IsAcceptedList, IsPayeeList
<1> HIDE DEF total, b1
<1>4. amount * (BASIS_POINTS - b1) <= BASIS_POINTS * amount
  BY <1>3, SMT DEF BASIS_POINTS
<1>5. total <= amount
  <2> DEFINE exact == amount * (BASIS_POINTS - b1)
  <2>1. exact \in Int
    BY <1>3, SMT DEF BASIS_POINTS
  <2>2. BASIS_POINTS * total <= exact /\ exact <= BASIS_POINTS * amount
    BY <1>2, <1>4
  <2> HIDE DEF exact
  <2> QED
    BY <1>2, <2>1, <2>2, SMT DEF BASIS_POINTS
<1>6. total \in 0..amount
  BY <1>2, <1>5, SMT
<1> QED
  BY <1>2, <1>3, <1>6 DEF total, b1

(* Point 1 of the same comment: distribute_to_payees moves exactly the     *)
(* amount it is given, whatever the accepted list, and no share is         *)
(* negative.                                                               *)
THEOREM SplitIsExactForAll ==
    ASSUME NEW amount \in Nat, NEW payees, IsAcceptedList(payees)
    PROVE  /\ primary_payee_share(amount, payees) \in 0..amount
           /\ distribute_to_payees(amount, payees) = amount
<1>1. co_payee_total(amount, payees) \in 0..amount
  BY CoPayeesWithinAmount
<1> QED
  BY <1>1, SMT DEF primary_payee_share, distribute_to_payees, payout

(* Point 3: the primary payee never gets less than its exact share and     *)
(* gains less than one unit for each other payee.                          *)
THEOREM DustIsBoundedForAll ==
    ASSUME NEW amount \in Nat, NEW payees, IsAcceptedList(payees)
    PROVE  LET bias == BASIS_POINTS * primary_payee_share(amount, payees)
                           - amount * payees[1].bps
           IN  bias \in 0..((BASIS_POINTS - 1) * (Len(payees) - 1))
<1> DEFINE total == co_payee_total(amount, payees)
           b1 == payees[1].bps
           own == amount * b1
           slack == (BASIS_POINTS - 1) * (Len(payees) - 1)
<1>1. /\ total \in 0..amount /\ b1 \in Nat
      /\ BASIS_POINTS * total <= amount * (BASIS_POINTS - b1)
      /\ amount * (BASIS_POINTS - b1) <= BASIS_POINTS * total + slack
  BY CoPayeesWithinAmount
<1>2. slack \in Int
  BY SMT DEF IsAcceptedList, IsPayeeList, BASIS_POINTS
<1>3. primary_payee_share(amount, payees) = amount - total
  BY DEF primary_payee_share
<1> HIDE DEF total, b1, slack
<1>4. own \in Int /\ amount * (BASIS_POINTS - b1) = BASIS_POINTS * amount - own
  BY <1>1, SMT DEF BASIS_POINTS
<1> HIDE DEF own
<1>5. /\ total \in Int
      /\ BASIS_POINTS * total <= BASIS_POINTS * amount - own
      /\ BASIS_POINTS * amount - own <= BASIS_POINTS * total + slack
  BY <1>1, <1>4
<1>6. BASIS_POINTS * (amount - total) - own \in 0..slack
  BY <1>2, <1>4, <1>5, SMT DEF BASIS_POINTS
<1> QED
  BY <1>3, <1>6 DEF own, b1, slack
=============================================================================
