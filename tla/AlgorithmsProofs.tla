-------------------------- MODULE AlgorithmsProofs --------------------------
(***************************************************************************)
(* Proofs about the algorithms: for every price list, requirement and      *)
(* preference the plan of the purchase optimizer is an order that can be   *)
(* placed, and no order of one family, nor any mix with a plain remainder, *)
(* is cheaper than the preference allows; every converted amount is the    *)
(* nearest one; what a distributor's adapter concludes is safe to buy,     *)
(* takes no missing stock for none, and passes nothing better over; a      *)
(* price text is read as what it says; what is required of a part is what  *)
(* all of its lines ask for; and a replacement that is recommended is as   *)
(* good as the original and the cheapest that is.                          *)
(*                                                                         *)
(* An answer is computed in one step, so the argument is about operators.  *)
(* The optimizer's is that the few quantities it tries are enough: of one  *)
(* family because the least quantity at each break is tried, of two        *)
(* because a linear price is least at an end. The adapters' is that a      *)
(* chain of tests ends at the first that holds, and that a first of        *)
(* finitely many exists, by any number of criteria. Folds and the sort by  *)
(* insertion are recursions over the places of a sequence: their functions *)
(* exist, and what holds of them fails nowhere, as it fails nowhere first. *)
(***************************************************************************)
EXTENDS Algorithms, NaturalsLemmas

-----------------------------------------------------------------------------
(* Rounding.                                                               *)

(* The largest of three numbers is one of them and no less than any.       *)
LEMMA MaxOfThree ==
  ASSUME NEW a \in Int, NEW b \in Int, NEW c \in Int
  PROVE  /\ Max({a, b, c}) \in {a, b, c}
         /\ Max({a, b, c}) >= a /\ Max({a, b, c}) >= b /\ Max({a, b, c}) >= c
<1>1. \E x \in {a, b, c} : \A y \in {a, b, c} : x >= y
  OBVIOUS
<1> QED
  BY <1>1 DEF Max

(* money.DivInt is the nearest number, whatever the parity of the divisor. *)
LEMMA DivIntIsNearest ==
  ASSUME NEW value \in Int, NEW divisor \in Int, divisor > 0
  PROVE  /\ DivInt(value, divisor) \in Int
         /\ 2 * (DivInt(value, divisor) * divisor - value) \in -divisor .. divisor
<1> DEFINE q == value \div divisor
           r == value % divisor
           half == (divisor + 1) \div 2
<1>1. q \in Int /\ r \in 0 .. divisor - 1 /\ value = divisor * q + r
  BY Divided
<1>2. half \in Int /\ 2 * half \in divisor .. divisor + 1
  OBVIOUS
<1> HIDE DEF q, r, half
<1>3. DivInt(value, divisor) = q + (IF r >= half THEN 1 ELSE 0)
  BY DEF DivInt, q, r, half
<1>4. CASE r >= half
  <2>1. DivInt(value, divisor) * divisor - value = divisor - r
    BY <1>1, <1>2, <1>3, <1>4
  <2> QED
    BY <1>1, <1>2, <1>3, <1>4, <2>1
<1>5. CASE r < half
  <2>1. DivInt(value, divisor) * divisor - value = - r
    BY <1>1, <1>2, <1>3, <1>5
  <2> QED
    BY <1>1, <1>2, <1>3, <1>5, <2>1
<1> QED
  BY <1>1, <1>2, <1>4, <1>5

(* Rounding up gives a multiple, less than one multiple further.           *)
LEMMA RoundedUp ==
  ASSUME NEW n \in Nat, NEW m \in Nat
  PROVE  LET r == RoundUpToMultiple(n, m)
         IN /\ r \in Nat /\ r >= n
            /\ m > 1 => r % m = 0 /\ r < n + m
            /\ m <= 1 => r = n
<1> DEFINE r == RoundUpToMultiple(n, m)
<1>1. CASE m <= 1
  BY <1>1 DEF RoundUpToMultiple
<1>2. CASE m > 1 /\ n % m = 0
  BY <1>2 DEF RoundUpToMultiple
<1>3. CASE m > 1 /\ n % m # 0
  <2>1. n % m \in 1 .. m - 1 /\ n \div m \in Int /\ n = m * (n \div m) + (n % m)
    BY <1>3, Divided
  <2>2. r = n + (m - (n % m))
    BY <1>3 DEF RoundUpToMultiple
  <2>3. r = m * (n \div m + 1) + 0
    BY <2>1, <2>2
  <2>4. r % m = 0
    BY <1>3, <2>1, <2>3, DividedOnce
  <2> QED
    BY <1>3, <2>1, <2>2, <2>4
<1> QED
  BY <1>1, <1>2, <1>3

(* No multiple lies between a number and what it is rounded up to.         *)
LEMMA RoundedUpIsLeast ==
  ASSUME NEW n \in Nat, NEW m \in Nat, NEW x \in Nat, x >= n, m > 1 => x % m = 0
  PROVE  RoundUpToMultiple(n, m) <= x
<1> DEFINE r == RoundUpToMultiple(n, m)
<1>1. CASE m <= 1
  BY <1>1, RoundedUp
<1>2. CASE m > 1
  <2>1. /\ r \in Nat /\ r % m = 0 /\ r < n + m
    BY <1>2, RoundedUp
  <2> HIDE DEF r
  <2>2. /\ x = m * (x \div m) /\ x \div m \in Int
        /\ r = m * (r \div m) /\ r \div m \in Int
    BY <1>2, <2>1, Divided
  <2>3. m * (r \div m) < m * (x \div m) + m
    BY <1>2, <2>1, <2>2
  <2>4. r \div m < x \div m + 1
    BY <1>2, <2>2, <2>3
  <2>5. m * (r \div m) <= m * (x \div m)
    BY <1>2, <2>2, <2>4
  <2> QED
    BY <2>2, <2>5 DEF r
<1> QED
  BY <1>1, <1>2

-----------------------------------------------------------------------------
(* One family: its candidates and the chosen leg.                          *)

(* What the optimizer may compute with, once a family is validated.        *)
Numbers(f) ==
  /\ f.moq \in Nat /\ Multiple(f) \in Nat /\ MixOf(f) \in Nat
  /\ f.available # None => f.available \in Nat
  /\ \A b \in Breaks(f) : b.quantity \in Nat \ {0} /\ b.price \in Nat

(* Validation leaves natural numbers.                                      *)
LEMMA ValidNumbers ==
  ASSUME NEW f, IsFamily(f), Valid(f)
  PROVE  Numbers(f)
<1>1. f.moq \in Int /\ f.multiple \in Int /\ f.reel \in Int /\ f.mix \in Int
  BY DEF IsFamily
<1>2. f.moq >= 0 /\ f.multiple >= 0 /\ f.reel >= 0 /\ f.mix >= 0
  BY DEF Valid
<1>3. Multiple(f) \in Nat /\ MixOf(f) \in Nat /\ f.moq \in Nat
  BY <1>1, <1>2 DEF Multiple, MixOf
<1>4. \A b \in Breaks(f) : b.quantity \in Int /\ b.price \in Int
  BY DEF IsFamily, Breaks
<1>5. \A b \in Breaks(f) : b.quantity >= 1 /\ b.price >= 0
  BY DEF Valid
<1>6. f.available # None => f.available \in Int
  BY DEF IsFamily
<1>7. f.available # None => f.available >= 0
  BY DEF Valid
<1> QED
  BY <1>3, <1>4, <1>5, <1>6, <1>7 DEF Numbers

(* A quantity that a leg at break b may buy when q is asked for.           *)
Meets(f, b, q, x) ==
  /\ x >= q /\ x >= b.quantity /\ x >= f.moq
  /\ Multiple(f) > 1 => x % Multiple(f) = 0

(* The quantity of a leg is the least that may be bought.                  *)
LEMMA QuantityFacts ==
  ASSUME NEW f, Numbers(f), NEW b \in Breaks(f), NEW q \in Nat
  PROVE  /\ QuantityAt(f, b, q) \in Nat \ {0}
         /\ Meets(f, b, q, QuantityAt(f, b, q))
         /\ \A x \in Nat : Meets(f, b, q, x) => QuantityAt(f, b, q) <= x
<1> DEFINE n == Max({q, b.quantity, f.moq})
           m == Multiple(f)
<1>1. b.quantity \in Nat \ {0} /\ f.moq \in Nat /\ m \in Nat
  BY DEF Numbers
<1>2. n \in {q, b.quantity, f.moq} /\ n >= q /\ n >= b.quantity /\ n >= f.moq
  <2>1. q \in Int /\ b.quantity \in Int /\ f.moq \in Int
    BY <1>1
  <2> QED
    BY <2>1, MaxOfThree
<1>3. QuantityAt(f, b, q) = RoundUpToMultiple(n, m)
  BY DEF QuantityAt
<1> HIDE DEF n, m
<1>4. n \in Nat
  BY <1>1, <1>2
<1>5. \A x \in Nat : Meets(f, b, q, x) => RoundUpToMultiple(n, m) <= x
  BY <1>1, <1>2, <1>4, RoundedUpIsLeast DEF Meets, m
<1>6. LET r == RoundUpToMultiple(n, m)
      IN r \in Nat /\ r >= n /\ (m > 1 => r % m = 0)
  BY <1>1, <1>4, RoundedUp
<1> QED
  BY <1>1, <1>2, <1>3, <1>4, <1>5, <1>6 DEF Meets, m

(* The order by three criteria, spelled out.                               *)
LEMMA PrecedesThree ==
  ASSUME NEW s, NEW t, DOMAIN s = 1 .. 3,
         s[1] \in Int, s[2] \in Int, s[3] \in Int, t[1] \in Int, t[2] \in Int, t[3] \in Int
  PROVE  Precedes(s, t) <=>
           \/ s[1] < t[1]
           \/ s[1] = t[1] /\ s[2] < t[2]
           \/ s[1] = t[1] /\ s[2] = t[2] /\ s[3] < t[3]
<1>1. \A i \in 1 .. 3 : i = 1 \/ i = 2 \/ i = 3
  OBVIOUS
<1>2. 1 .. 1 - 1 = {} /\ 1 .. 2 - 1 = {1} /\ 1 .. 3 - 1 = {1, 2}
  OBVIOUS
<1>3. Precedes(s, t) <=> \E i \in 1 .. 3 : s[i] < t[i] /\ \A j \in 1 .. i - 1 : s[j] = t[j]
  BY DEF Precedes
<1> QED
  BY <1>1, <1>2, <1>3

(* The candidate of one price break.                                       *)
CandidateAt(f, b, q) ==
  [family |-> f.id, kind |-> f.kind, purchased |-> QuantityAt(f, b, q),
   unit |-> b.price, extended |-> b.price * QuantityAt(f, b, q),
   break |-> b.quantity, verified |-> f.available # None]

(* There is one candidate for each break in stock.                         *)
LEMMA CandidatesAre ==
  ASSUME NEW f, NEW q
  PROVE  Candidates(f, q) =
           {CandidateAt(f, b, q) : b \in {x \in Breaks(f) : InStock(f, QuantityAt(f, x, q))}}
BY DEF Candidates, CandidateAt

(* A candidate is made of natural numbers.                                 *)
LEMMA CandidateNumbers ==
  ASSUME NEW f, Numbers(f), NEW q \in Nat, NEW c \in Candidates(f, q)
  PROVE  c.extended \in Nat /\ c.purchased \in Nat /\ c.break \in Nat
<1>1. PICK b \in Breaks(f) : c = CandidateAt(f, b, q)
  BY CandidatesAre
<1>2. QuantityAt(f, b, q) \in Nat /\ b.price \in Nat /\ b.quantity \in Nat
  BY QuantityFacts DEF Numbers
<1> QED
  BY <1>1, <1>2 DEF CandidateAt

(* A chosen leg is first by cost, quantity and break.                      *)
LEMMA LegMembers ==
  ASSUME NEW f, Numbers(f), NEW q \in Nat, NEW leg
  PROVE  leg \in Leg(f, q) <=>
           /\ leg \in Candidates(f, q)
           /\ \A c \in Candidates(f, q) :
                \/ leg.extended < c.extended
                \/ leg.extended = c.extended /\ leg.purchased < c.purchased
                \/ /\ leg.extended = c.extended /\ leg.purchased = c.purchased
                   /\ leg.break <= c.break
<1>1. \A c, d \in Candidates(f, q) :
        Precedes(CostOfLeg(c), CostOfLeg(d)) <=>
          \/ c.extended < d.extended
          \/ c.extended = d.extended /\ c.purchased < d.purchased
          \/ c.extended = d.extended /\ c.purchased = d.purchased /\ c.break < d.break
  <2> SUFFICES ASSUME NEW c \in Candidates(f, q), NEW d \in Candidates(f, q)
               PROVE  Precedes(CostOfLeg(c), CostOfLeg(d)) <=>
                        \/ c.extended < d.extended
                        \/ c.extended = d.extended /\ c.purchased < d.purchased
                        \/ c.extended = d.extended /\ c.purchased = d.purchased /\ c.break < d.break
    OBVIOUS
  <2>1. /\ c.extended \in Int /\ c.purchased \in Int /\ c.break \in Int
        /\ d.extended \in Int /\ d.purchased \in Int /\ d.break \in Int
    BY CandidateNumbers
  <2>2. \A x \in {c, d} : /\ DOMAIN CostOfLeg(x) = 1 .. 3
                          /\ CostOfLeg(x)[1] = x.extended
                          /\ CostOfLeg(x)[2] = x.purchased
                          /\ CostOfLeg(x)[3] = x.break
    BY DEF CostOfLeg
  <2> QED
    BY <2>1, <2>2, PrecedesThree
<1>2. leg \in Leg(f, q) <=>
        /\ leg \in Candidates(f, q)
        /\ \A c \in Candidates(f, q) : ~Precedes(CostOfLeg(c), CostOfLeg(leg))
  BY DEF Leg, Firsts
<1> QED
  BY <1>1, <1>2, CandidateNumbers

(* A chosen leg is a candidate that no other undercuts.                    *)
LEMMA LegIsCandidate ==
  ASSUME NEW f, Numbers(f), NEW q \in Nat, NEW leg \in Leg(f, q)
  PROVE  /\ \E b \in Breaks(f) :
              InStock(f, QuantityAt(f, b, q)) /\ leg = CandidateAt(f, b, q)
         /\ \A b \in Breaks(f) : InStock(f, QuantityAt(f, b, q)) =>
              leg.extended <= b.price * QuantityAt(f, b, q)
<1>1. leg \in Candidates(f, q) /\ \A c \in Candidates(f, q) : leg.extended <= c.extended
  BY LegMembers, CandidateNumbers
<1>2. ASSUME NEW b \in Breaks(f), InStock(f, QuantityAt(f, b, q))
      PROVE  leg.extended <= b.price * QuantityAt(f, b, q)
  <2>1. CandidateAt(f, b, q) \in Candidates(f, q)
    BY <1>2, CandidatesAre
  <2>2. CandidateAt(f, b, q).extended = b.price * QuantityAt(f, b, q)
    BY DEF CandidateAt
  <2> QED
    BY <1>1, <2>1, <2>2
<1> QED
  BY <1>1, <1>2, CandidatesAre

(* Where there is a candidate there is a leg: a family is not dropped.     *)
LEMMA LegExists ==
  ASSUME NEW f, Numbers(f), NEW q \in Nat, Candidates(f, q) # {}
  PROVE  Leg(f, q) # {}
<1> DEFINE A == Candidates(f, q)
<1>1. PICK x \in A : \A y \in A : x.extended <= y.extended
  <2> DEFINE value == [y \in A |-> y.extended]
  <2>1. value \in [A -> Nat] /\ A # {}
    BY CandidateNumbers
  <2>2. PICK m \in A : \A y \in A : value[m] <= value[y]
    <3> HIDE DEF value, A
    <3> QED
      BY <2>1, LeastOf
  <2> QED
    BY <2>2
<1> DEFINE B == {y \in A : y.extended = x.extended}
<1>2. PICK z \in B : \A y \in B : z.purchased <= y.purchased
  <2> DEFINE value == [y \in B |-> y.purchased]
  <2>1. value \in [B -> Nat] /\ B # {}
    BY CandidateNumbers
  <2>2. PICK m \in B : \A y \in B : value[m] <= value[y]
    <3> HIDE DEF value, B
    <3> QED
      BY <2>1, LeastOf
  <2> QED
    BY <2>2
<1> DEFINE C == {y \in B : y.purchased = z.purchased}
<1>3. PICK leg \in C : \A y \in C : leg.break <= y.break
  <2> DEFINE value == [y \in C |-> y.break]
  <2>1. value \in [C -> Nat] /\ C # {}
    BY <1>2, CandidateNumbers
  <2>2. PICK m \in C : \A y \in C : value[m] <= value[y]
    <3> HIDE DEF value, C
    <3> QED
      BY <2>1, LeastOf
  <2> QED
    BY <2>2
<1>4. leg \in A /\ leg.extended = x.extended /\ leg.purchased = z.purchased
  BY <1>3
<1>5. ASSUME NEW c \in A
      PROVE  \/ leg.extended < c.extended
             \/ leg.extended = c.extended /\ leg.purchased < c.purchased
             \/ /\ leg.extended = c.extended /\ leg.purchased = c.purchased
                /\ leg.break <= c.break
  <2>1. c.extended \in Nat /\ c.purchased \in Nat /\ x.extended \in Nat /\ z.purchased \in Nat
    BY <1>1, <1>2, CandidateNumbers
  <2>2. x.extended <= c.extended
    BY <1>1
  <2>3. c.extended = x.extended => z.purchased <= c.purchased
    BY <1>2
  <2>4. c.extended = x.extended /\ c.purchased = z.purchased => leg.break <= c.break
    BY <1>3
  <2> QED
    BY <1>4, <2>1, <2>2, <2>3, <2>4
<1> HIDE DEF A
<1>6. leg \in Candidates(f, q)
  BY <1>4 DEF A
<1> QED
  BY <1>5, <1>6, LegMembers DEF A

-----------------------------------------------------------------------------
(* A chosen leg is an order, and no order of its family is cheaper.        *)

(* The highest break a quantity reaches.                                   *)
IsTop(f, t, x) ==
  /\ t \in Breaks(f) /\ t.quantity <= x
  /\ \A c \in Breaks(f) : c.quantity <= x => c.quantity <= t.quantity

(* The distributor charges the price of the highest break reached.         *)
LEMMA ChargeIsOfTop ==
  ASSUME NEW f, Numbers(f), NEW x \in Nat, \E b \in Breaks(f) : b.quantity <= x
  PROVE  \E t : IsTop(f, t, x) /\ Charge(f, x) = t.price * x
<1> DEFINE R == {b \in Breaks(f) : b.quantity <= x}
           value == [b \in R |-> x - b.quantity]
<1>1. value \in [R -> Nat] /\ R # {}
  BY DEF Numbers
<1>2. PICK m \in R : \A c \in R : value[m] <= value[c]
  <2> HIDE DEF value, R
  <2> QED
    BY <1>1, LeastOf
<1>3. \E t \in R : \A c \in R : c.quantity <= t.quantity
  <2>1. ASSUME NEW c \in R PROVE c.quantity <= m.quantity
    <3>1. x - m.quantity <= x - c.quantity
      BY <1>2
    <3>2. m.quantity \in Nat /\ c.quantity \in Nat
      BY DEF Numbers
    <3> QED
      BY <3>1, <3>2
  <2> QED
    BY <2>1
<1> DEFINE top == CHOOSE b \in R : \A c \in R : c.quantity <= b.quantity
<1>4. top \in R /\ \A c \in R : c.quantity <= top.quantity
  <2> HIDE DEF R
  <2> QED
    BY <1>3
<1>5. Charge(f, x) = top.price * x
  BY DEF Charge
<1> QED
  BY <1>4, <1>5 DEF IsTop

(* What is known of a chosen leg without its prices falling.               *)
LEMMA LegNumbers ==
  ASSUME NEW f, Numbers(f), NEW q \in Nat, NEW leg \in Leg(f, q)
  PROVE  /\ leg.purchased \in Nat \ {0} /\ leg.extended \in Nat /\ leg.purchased >= q
         /\ leg.family = f.id
         /\ InStock(f, leg.purchased)
         /\ \E b \in Breaks(f) : /\ leg.purchased = QuantityAt(f, b, q)
                                 /\ leg.extended = b.price * leg.purchased
<1>1. PICK b \in Breaks(f) : InStock(f, QuantityAt(f, b, q)) /\ leg = CandidateAt(f, b, q)
  BY LegIsCandidate
<1>2. /\ leg.purchased = QuantityAt(f, b, q) /\ leg.family = f.id
      /\ leg.extended = b.price * QuantityAt(f, b, q)
  BY <1>1 DEF CandidateAt
<1>3. QuantityAt(f, b, q) \in Nat \ {0} /\ QuantityAt(f, b, q) >= q
  BY QuantityFacts DEF Meets
<1>4. b.price \in Nat
  BY DEF Numbers
<1> QED
  BY <1>1, <1>2, <1>3, <1>4

(* A chosen leg is an order its family accepts, at the price charged for   *)
(* it: the break it was computed at is as dear as the highest break it     *)
(* reaches.                                                                *)
LEMMA LegIsOrder ==
  ASSUME NEW f, Numbers(f), PricesFall(f), NEW q \in Nat, NEW leg \in Leg(f, q)
  PROVE  Orderable(f, leg.purchased) /\ leg.extended = Charge(f, leg.purchased)
<1> DEFINE n == leg.purchased
<1>1. PICK b \in Breaks(f) : n = QuantityAt(f, b, q) /\ leg.extended = b.price * n
  BY LegNumbers
<1>2. n \in Nat \ {0} /\ InStock(f, n)
  BY LegNumbers
<1> HIDE DEF n
<1>3. Meets(f, b, q, n)
  BY <1>1, QuantityFacts
<1>4. Orderable(f, n)
  BY <1>2, <1>3 DEF Orderable, Meets, InStock
<1>5. PICK t : IsTop(f, t, n) /\ Charge(f, n) = t.price * n
  BY <1>2, <1>3, ChargeIsOfTop DEF Meets
<1>6. /\ b.quantity \in Nat /\ t.quantity \in Nat /\ b.price \in Nat /\ t.price \in Nat
      /\ t \in Breaks(f) /\ b.quantity <= t.quantity /\ t.quantity <= n
  BY <1>3, <1>5 DEF IsTop, Numbers, Meets
<1>7. QuantityAt(f, t, q) = n
  <2>1. QuantityAt(f, t, q) \in Nat /\ Meets(f, t, q, QuantityAt(f, t, q))
    BY <1>6, QuantityFacts
  <2>2. Meets(f, t, q, n)
    BY <1>3, <1>6 DEF Meets
  <2>3. QuantityAt(f, t, q) <= n
    BY <1>2, <1>6, <2>2, QuantityFacts
  <2>4. Meets(f, b, q, QuantityAt(f, t, q))
    BY <1>6, <2>1 DEF Meets
  <2>5. n <= QuantityAt(f, t, q)
    BY <1>1, <2>1, <2>4, QuantityFacts
  <2> QED
    BY <1>2, <2>1, <2>3, <2>5
<1>8. leg.extended <= t.price * n
  BY <1>2, <1>6, <1>7, LegIsCandidate
<1>9. t.price <= b.price
  BY <1>6 DEF PricesFall
<1>10. t.price * n <= b.price * n
  BY <1>2, <1>6, <1>9, TimesMonotone
<1>11. leg.extended = t.price * n
  <2>1. t.price * n \in Nat /\ b.price * n \in Nat
    BY <1>2, <1>6
  <2> QED
    BY <1>1, <1>8, <1>10, <2>1
<1> QED
  BY <1>4, <1>5, <1>11 DEF n

(* Of one family no order of at least q is cheaper than the chosen leg,    *)
(* though one quantity per break was tried.                                *)
LEMMA NoOrderIsCheaper ==
  ASSUME NEW f, Numbers(f), NEW q \in Nat, NEW x \in Nat, x >= q, Orderable(f, x)
  PROVE  Leg(f, q) # {} /\ \A leg \in Leg(f, q) : leg.extended <= Charge(f, x)
<1>1. PICK t : IsTop(f, t, x) /\ Charge(f, x) = t.price * x
  BY ChargeIsOfTop DEF Orderable
<1>2. t \in Breaks(f) /\ t.quantity \in Nat /\ t.price \in Nat
  BY <1>1 DEF IsTop, Numbers
<1>3. Meets(f, t, q, x)
  BY <1>1 DEF Meets, Orderable, IsTop
<1> DEFINE n == QuantityAt(f, t, q)
<1>4. n \in Nat /\ n <= x
  BY <1>2, <1>3, QuantityFacts
<1>5. InStock(f, n)
  BY <1>4 DEF InStock, Orderable, Numbers
<1>6. Candidates(f, q) # {}
  BY <1>2, <1>5, CandidatesAre
<1> HIDE DEF n
<1>7. t.price * n <= t.price * x
  BY <1>2, <1>4, TimesMonotone
<1>8. ASSUME NEW leg \in Leg(f, q) PROVE leg.extended <= Charge(f, x)
  <2>1. leg.extended <= t.price * n
    BY <1>2, <1>5, LegIsCandidate DEF n
  <2>2. leg.extended \in Nat
    BY LegNumbers
  <2>3. t.price * n \in Nat /\ t.price * x \in Nat
    BY <1>2, <1>4
  <2> QED
    BY <1>1, <1>7, <2>1, <2>2, <2>3
<1> QED
  BY <1>6, <1>8, LegExists

-----------------------------------------------------------------------------
(* Plans.                                                                  *)

(* What validation establishes about the arguments.                        *)
Serving ==
  /\ required \in Nat \ {0}
  /\ preference \in Nat
  /\ \A f \in PricedFamilies : Numbers(f)
  /\ \A f, g \in PricedFamilies : f.id = g.id => f = g

(* The arguments are the ones given.                                       *)
ArgumentsOK ==
  /\ required \in Requirement
  /\ families \in Offered
  /\ preference \in Preference

(* Arguments that are not refused are in order.                            *)
LEMMA AcceptedServes ==
  ASSUME ArgumentsOK, ~Refused
  PROVE  Serving
<1>1. required \in Int /\ preference \in Int
  BY OptimizerAssumption DEF ArgumentsOK
<1>2. required >= 1 /\ preference >= 0
  BY <1>1 DEF Refused
<1>3. ASSUME NEW f \in PricedFamilies PROVE Numbers(f)
  <2>1. Valid(f)
    BY DEF Refused
  <2>2. IsFamily(f)
    BY OptimizerAssumption DEF ArgumentsOK, PricedFamilies
  <2> QED
    BY <2>1, <2>2, ValidNumbers
<1>4. ASSUME NEW f \in PricedFamilies, NEW g \in PricedFamilies, f.id = g.id
      PROVE  f = g
  <2>1. PICK i \in DOMAIN families, j \in DOMAIN families : f = families[i] /\ g = families[j]
    BY DEF PricedFamilies
  <2>2. i = j
    BY <1>4, <2>1, OptimizerAssumption DEF ArgumentsOK
  <2> QED
    BY <2>1, <2>2
<1> QED
  BY <1>1, <1>2, <1>3, <1>4 DEF Serving

(* A leg is found its family by the family's ID.                           *)
LEMMA FamilyIsFound ==
  ASSUME Serving, NEW f \in PricedFamilies, NEW leg, leg.family = f.id
  PROVE  FamilyOf(leg) = f
<1>1. \A g \in PricedFamilies : g.id = leg.family => g = f
  BY DEF Serving
<1> QED
  BY <1>1 DEF FamilyOf

(* Without an overflow a leg is within the widths of the numbers.          *)
LEMMA LegFits ==
  ASSUME NEW f, Numbers(f), NEW q \in Nat, NEW leg \in Leg(f, q), ~LegOverflows(f, q)
  PROVE  leg.purchased <= MaxInt /\ leg.extended <= MaxMoney
<1>1. PICK b \in Breaks(f) : leg.purchased = QuantityAt(f, b, q)
                             /\ leg.extended = b.price * leg.purchased
  BY LegNumbers
<1>2. InStock(f, leg.purchased) /\ leg.purchased \in Nat /\ leg.extended \in Nat
  BY LegNumbers
<1>3. MaxInt \in Nat /\ MaxMoney \in Nat
  BY OptimizerAssumption
<1>4. ~(QuantityAt(f, b, q) > MaxInt) /\ ~(b.price * QuantityAt(f, b, q) > MaxMoney)
  BY <1>1, <1>2 DEF LegOverflows
<1> QED
  BY <1>1, <1>2, <1>3, <1>4

(* Legs that tie for the first place buy the same at the same price.       *)
LEMMA LegsAgree ==
  ASSUME NEW f, Numbers(f), NEW q \in Nat, NEW a \in Leg(f, q), NEW b \in Leg(f, q)
  PROVE  a.purchased = b.purchased /\ a.extended = b.extended
<1>1. a \in Candidates(f, q) /\ b \in Candidates(f, q)
  BY LegMembers
<1>2. /\ a.extended \in Nat /\ b.extended \in Nat /\ a.purchased \in Nat /\ b.purchased \in Nat
  BY <1>1, CandidateNumbers
<1> QED
  BY <1>1, <1>2, LegMembers

(* A bulk quantity tried is positive and leaves a remainder.               *)
LEMMA BulkQuantityNumbers ==
  ASSUME Serving, NEW f \in PricedFamilies, NEW g \in PricedFamilies,
         NEW q \in BulkQuantities(f, g)
  PROVE  q \in Nat \ {0} /\ q < required /\ MixOf(f) > 1
<1> DEFINE mix == MixOf(f)
           counts ==
             UNION ({Around(required \div mix)}
               \cup {Around(b.quantity \div mix) : b \in Breaks(f)}
               \cup {Around((required - b.quantity) \div mix) :
                       b \in {x \in Breaks(g) : required > x.quantity}}
               \cup IF f.available = None THEN {}
                    ELSE {Around(f.available \div mix)})
<1>1. mix \in Nat /\ mix > 1
  BY DEF BulkQuantities, Serving, Numbers
<1>2. PICK n \in counts : q = n * mix /\ n * mix < required
  BY <1>1 DEF BulkQuantities
<1>3. \A c \in Int : \A k \in Around(c) : k \in Nat \ {0}
  BY DEF Around
<1>4. n \in Nat \ {0}
  <2>1. required \div mix \in Int
    BY <1>1 DEF Serving
  <2>2. \A b \in Breaks(f) : b.quantity \div mix \in Int
    BY <1>1 DEF Serving, Numbers
  <2>3. \A b \in Breaks(g) : (required - b.quantity) \div mix \in Int
    BY <1>1 DEF Serving, Numbers
  <2>4. f.available # None => f.available \div mix \in Int
    BY <1>1 DEF Serving, Numbers
  <2> HIDE DEF mix
  <2> QED
    BY <1>3, <2>1, <2>2, <2>3, <2>4
<1> QED
  BY <1>1, <1>2, <1>4

(* A mix is of two priced families and a positive quantity.                *)
LEMMA MixNumbers ==
  ASSUME Serving, NEW m \in Mixes
  PROVE  /\ m[1] \in PricedFamilies /\ m[2] \in PricedFamilies
         /\ m[3] \in Nat \ {0}
<1>1. PICK p \in PricedFamilies \X PricedFamilies :
        \E q \in BulkQuantities(p[1], p[2]) : m = <<p[1], p[2], q>>
  BY DEF Mixes
<1> QED
  BY <1>1, BulkQuantityNumbers

(* A plan is of one chosen leg, or of a bulk leg and its remainder.        *)
LEMMA PlanIsOfLegs ==
  ASSUME Serving, NEW p \in Plans
  PROVE  \/ \E f \in PricedFamilies : \E leg \in Leg(f, required) : p = PlanOf(<<leg>>)
         \/ \E m \in Mixes : \E bulk \in BulkLegs(m) : \E rest \in Leg(m[2], Rest(m, bulk)) :
              p = PlanOf(<<bulk, rest>>)
<1>1. CASE p \in {PlanOf(<<leg>>) : leg \in UNION {Leg(f, required) : f \in PricedFamilies}}
  BY <1>1
<1>2. CASE p \in {PlanOf(legs) : legs \in UNION {LegsOfMix(m) : m \in Mixes}}
  <2>1. PICK m \in Mixes : \E legs \in LegsOfMix(m) : p = PlanOf(legs)
    BY <1>2
  <2>2. PICK bulk \in BulkLegs(m), b \in BulkLegs(m) :
          \E rest \in Leg(m[2], Rest(m, b)) : p = PlanOf(<<bulk, rest>>)
    BY <2>1 DEF LegsOfMix
  <2>3. bulk.purchased = b.purchased
    BY MixNumbers, LegsAgree DEF BulkLegs, Serving
  <2>4. Rest(m, b) = Rest(m, bulk)
    BY <2>3 DEF Rest
  <2> QED
    BY <2>2, <2>4
<1> QED
  BY <1>1, <1>2 DEF Plans

(* PlanCovers, of any plan.                                                *)
Covers(p) ==
  /\ p.purchased \in required .. MaxInt
  /\ p.price \in 0 .. MaxMoney
  /\ Len(p.legs) = 2 => p.legs[1].purchased < required
  /\ 2 * (p.effective * p.purchased - p.price) \in -p.purchased .. p.purchased

(* What PlanIsOrderable says of a leg.                                     *)
IsOrder(leg) ==
  LET f == FamilyOf(leg)
  IN f \in Usable =>
       /\ Orderable(f, leg.purchased)
       /\ leg.extended = Charge(f, leg.purchased)

(* A chosen leg of a family offered is an order.                           *)
LEMMA LegOfFamilyIsOrder ==
  ASSUME Serving, NEW f \in PricedFamilies, NEW q \in Nat, NEW leg \in Leg(f, q)
  PROVE  IsOrder(leg)
<1>1. FamilyOf(leg) = f
  BY FamilyIsFound, LegNumbers DEF Serving
<1>2. f \in Usable => PricesFall(f) /\ Numbers(f)
  BY DEF Usable, Serving
<1> QED
  BY <1>1, <1>2, LegIsOrder DEF IsOrder

(* The plan of one leg covers the requirement and is an order.             *)
LEMMA SinglePlan ==
  ASSUME Serving, ~Fails, NEW f \in PricedFamilies, NEW leg \in Leg(f, required)
  PROVE  LET p == PlanOf(<<leg>>)
         IN /\ Covers(p) /\ \A i \in DOMAIN p.legs : IsOrder(p.legs[i])
            /\ p.price = leg.extended
<1> DEFINE p == PlanOf(<<leg>>)
<1>1. /\ leg.purchased \in Nat \ {0} /\ leg.extended \in Nat /\ leg.purchased >= required
  BY LegNumbers DEF Serving
<1>2. leg.purchased <= MaxInt /\ leg.extended <= MaxMoney
  BY LegFits DEF Fails, Serving
<1>3. /\ p.legs = <<leg>> /\ p.purchased = leg.purchased /\ p.price = leg.extended
      /\ p.effective = DivInt(leg.extended, leg.purchased)
  BY DEF PlanOf, Purchased, Extended
<1>4. IsOrder(leg)
  BY LegOfFamilyIsOrder DEF Serving
<1>5. 2 * (p.effective * p.purchased - p.price) \in -p.purchased .. p.purchased
  <2>1. p.purchased \in Int /\ p.price \in Int /\ p.purchased > 0
    BY <1>1, <1>3
  <2>2. p.effective = DivInt(p.price, p.purchased)
    BY <1>3
  <2> HIDE DEF p
  <2> QED
    BY <2>1, <2>2, DivIntIsNearest
<1>6. p.purchased \in required .. MaxInt /\ p.price \in 0 .. MaxMoney
  BY <1>1, <1>2, <1>3, OptimizerAssumption DEF Serving
<1>7. Len(p.legs) = 1 /\ \A i \in DOMAIN p.legs : p.legs[i] = leg
  BY <1>3
<1> HIDE DEF p
<1>8. Covers(p)
  BY <1>5, <1>6, <1>7 DEF Covers
<1> QED
  BY <1>3, <1>4, <1>7, <1>8 DEF p

(* The plan of a bulk leg and a remainder covers the requirement and is    *)
(* made of orders.                                                         *)
LEMMA MixedPlan ==
  ASSUME Serving, ~Fails, NEW m \in Mixes, NEW bulk \in BulkLegs(m),
         NEW rest \in Leg(m[2], Rest(m, bulk))
  PROVE  LET p == PlanOf(<<bulk, rest>>)
         IN /\ Covers(p) /\ \A i \in DOMAIN p.legs : IsOrder(p.legs[i])
            /\ p.price = bulk.extended + rest.extended
<1> DEFINE p == PlanOf(<<bulk, rest>>)
<1>1. /\ m[1] \in PricedFamilies /\ m[2] \in PricedFamilies /\ m[3] \in Nat
      /\ Numbers(m[1]) /\ Numbers(m[2]) /\ required \in Nat
  BY MixNumbers DEF Serving
<1>2. bulk \in Leg(m[1], m[3]) /\ bulk.purchased < required
  BY DEF BulkLegs
<1>3. bulk.purchased \in Nat \ {0} /\ bulk.extended \in Nat
  BY <1>1, <1>2, LegNumbers
<1>4. Rest(m, bulk) \in Nat /\ Rest(m, bulk) + bulk.purchased = required
  BY <1>1, <1>2, <1>3 DEF Rest
<1>5. rest.purchased \in Nat \ {0} /\ rest.extended \in Nat /\ rest.purchased >= Rest(m, bulk)
  BY <1>1, <1>4, LegNumbers
<1>6. ~(bulk.extended + rest.extended > MaxMoney) /\ ~(bulk.purchased + rest.purchased > MaxInt)
  BY DEF Fails, MixOverflows
<1>7. /\ p.legs = <<bulk, rest>> /\ p.purchased = bulk.purchased + rest.purchased
      /\ p.price = bulk.extended + rest.extended
      /\ p.effective = DivInt(bulk.extended + rest.extended, bulk.purchased + rest.purchased)
  BY DEF PlanOf, Purchased, Extended
<1>8. IsOrder(bulk) /\ IsOrder(rest)
  BY <1>1, <1>2, <1>4, LegOfFamilyIsOrder
<1>9. 2 * (p.effective * p.purchased - p.price) \in -p.purchased .. p.purchased
  <2>1. p.purchased \in Int /\ p.price \in Int /\ p.purchased > 0
    BY <1>3, <1>5, <1>7
  <2>2. p.effective = DivInt(p.price, p.purchased)
    BY <1>7
  <2> QED
    BY <2>1, <2>2, DivIntIsNearest
<1>10. p.purchased \in required .. MaxInt /\ p.price \in 0 .. MaxMoney
  BY <1>1, <1>3, <1>4, <1>5, <1>6, <1>7, OptimizerAssumption
<1>11. /\ Len(p.legs) = 2 /\ p.legs[1] = bulk
       /\ \A i \in DOMAIN p.legs : p.legs[i] = bulk \/ p.legs[i] = rest
  BY <1>7
<1> QED
  BY <1>2, <1>7, <1>8, <1>9, <1>10, <1>11 DEF Covers

(* Every plan considered could be chosen safely.                           *)
LEMMA PlansAreOrders ==
  ASSUME Serving, ~Fails, NEW p \in Plans
  PROVE  Covers(p) /\ \A i \in DOMAIN p.legs : IsOrder(p.legs[i])
BY PlanIsOfLegs, SinglePlan, MixedPlan

-----------------------------------------------------------------------------
(* Nothing is missed: one family.                                          *)

(* The best plan costs no more than the preference allows above any other. *)
LEMMA BestIsWithin ==
  ASSUME Serving, ~Fails, NEW p \in BestPlans(Plans, preference), NEW q \in Plans
  PROVE  /\ p \in Plans
         /\ p.price * 10000 <= q.price * (10000 + preference)
<1> DEFINE prices == {r.price : r \in Plans}
<1>1. p \in Plans /\ Within(p, Plans, preference)
  BY Zenon DEF BestPlans, Firsts
<1>2. \A r \in Plans : r.price \in Nat
  BY PlansAreOrders, OptimizerAssumption DEF Covers
<1>3. prices \subseteq Nat /\ q.price \in prices
  BY <1>2
<1>4. Min(prices) \in Nat /\ Min(prices) <= q.price
  <2> HIDE DEF prices
  <2>1. \E m \in prices : \A k \in prices : m <= k
    BY <1>3, LeastNat
  <2>2. Min(prices) \in prices /\ \A k \in prices : Min(prices) <= k
    BY <2>1 DEF Min
  <2> QED
    BY <1>3, <2>2
<1>5. p.price * 10000 <= Min(prices) * (10000 + preference)
  BY <1>1 DEF Within
<1> HIDE DEF prices
<1>6. preference \in Nat /\ p.price \in Nat /\ q.price \in Nat
  BY <1>1, <1>2 DEF Serving
<1>7. Min(prices) * (10000 + preference) <= q.price * (10000 + preference)
  BY <1>4, <1>6, TimesMonotone
<1>8. /\ Min(prices) * (10000 + preference) \in Nat /\ q.price * (10000 + preference) \in Nat
      /\ p.price * 10000 \in Nat
  BY <1>4, <1>6
<1> QED
  BY <1>1, <1>5, <1>7, <1>8

(* No order of one family beats every plan considered.                     *)
LEMMA SingleIsTried ==
  ASSUME Serving, ~Fails, NEW f \in PricedFamilies, NEW x \in Nat, x >= required,
         Orderable(f, x)
  PROVE  \E p \in Plans : p.price \in Nat /\ p.price <= Charge(f, x)
<1>1. Numbers(f) /\ required \in Nat
  BY DEF Serving
<1>2. PICK leg \in Leg(f, required) : leg.extended <= Charge(f, x)
  BY <1>1, NoOrderIsCheaper
<1>3. PlanOf(<<leg>>) \in Plans
  BY DEF Plans
<1>4. PlanOf(<<leg>>).price = leg.extended
  BY SinglePlan
<1>5. leg.extended \in Nat
  BY <1>1, LegNumbers
<1> QED
  BY <1>2, <1>3, <1>4, <1>5

-----------------------------------------------------------------------------
(* Nothing is missed: two families.                                        *)

(* Two families of Pairs.                                                  *)
Mixable(f, g) ==
  /\ f \in PricedFamilies /\ g \in PricedFamilies
  /\ f.id # g.id /\ f.asBulk /\ g.asRemainder
  /\ MixOf(f) > 1 /\ MixOf(f) = Multiple(f)
  /\ Plain(g)

(* What a bulk quantity that is tried leads to: with z bought of f at      *)
(* break t and w of g at break u the requirement is covered, and some plan *)
(* is not dearer. (The leg chosen may be another one, and may even need no *)
(* remainder.)                                                             *)
LEMMA MixAtQuantity ==
  ASSUME Serving, ~Fails, NEW f, NEW g, Mixable(f, g),
         NEW q \in BulkQuantities(f, g), NEW t \in Breaks(f), t.quantity <= q,
         NEW z, z = QuantityAt(f, t, q), InStock(f, z), z < required,
         NEW u \in Breaks(g), NEW w \in Nat,
         w >= required - z, w >= u.quantity, w <= required
  PROVE  \E p \in Plans : p.price \in Nat /\ p.price <= t.price * z + u.price * w
<1>1. /\ f \in PricedFamilies /\ g \in PricedFamilies /\ Numbers(f) /\ Numbers(g)
      /\ required \in Nat
  BY DEF Mixable, Serving
<1>2. q \in Nat \ {0} /\ q < required
  BY <1>1, BulkQuantityNumbers
<1>3. /\ t.quantity \in Nat /\ t.price \in Nat /\ u.quantity \in Nat \ {0} /\ u.price \in Nat
  BY <1>1 DEF Numbers
<1>4. z \in Nat /\ t.price * z \in Nat /\ u.price * w \in Nat
  BY <1>1, <1>2, <1>3, QuantityFacts
<1>5. PICK bulk \in Leg(f, q) : TRUE
  <2>1. CandidateAt(f, t, q) \in Candidates(f, q)
    BY CandidatesAre
  <2> QED
    BY <1>1, <1>2, <2>1, LegExists
<1>6. bulk.extended <= t.price * z
  BY <1>1, <1>2, LegIsCandidate
<1>7. bulk.purchased \in Nat \ {0} /\ bulk.extended \in Nat /\ InStock(f, bulk.purchased)
  BY <1>1, <1>2, LegNumbers
<1>8. PICK b \in Breaks(f) : /\ bulk.purchased = QuantityAt(f, b, q)
                             /\ bulk.extended = b.price * bulk.purchased
  BY <1>1, <1>2, LegNumbers
<1>9. Meets(f, b, q, bulk.purchased)
  BY <1>1, <1>2, <1>8, QuantityFacts
<1>10. bulk.purchased >= z
  <2>1. Meets(f, t, q, bulk.purchased)
    BY <1>2, <1>3, <1>7, <1>9 DEF Meets
  <2> QED
    BY <1>1, <1>2, <1>7, <2>1, QuantityFacts
<1>11. CASE bulk.purchased < required
  <2> DEFINE r == required - bulk.purchased
             m == <<f, g, q>>
  <2>1. r \in Nat /\ r <= w /\ r <= required
    BY <1>1, <1>4, <1>7, <1>10, <1>11
  <2>2. Meets(g, u, r, w)
    BY <1>1, <1>3, <2>1 DEF Meets, Mixable, Plain, Numbers
  <2>3. QuantityAt(g, u, r) \in Nat /\ QuantityAt(g, u, r) <= w
    BY <1>1, <2>1, <2>2, QuantityFacts
  <2>4. InStock(g, QuantityAt(g, u, r))
    BY <1>1, <2>3 DEF InStock, Mixable, Plain, Numbers
  <2>5. PICK rest \in Leg(g, r) : TRUE
    <3>1. CandidateAt(g, u, r) \in Candidates(g, r)
      BY <2>4, CandidatesAre
    <3> QED
      BY <1>1, <2>1, <3>1, LegExists
  <2>6. rest.extended <= u.price * w /\ rest.extended \in Nat
    <3>1. rest.extended <= u.price * QuantityAt(g, u, r) /\ rest.extended \in Nat
      BY <1>1, <2>1, <2>4, LegIsCandidate, LegNumbers
    <3>2. u.price * QuantityAt(g, u, r) <= u.price * w
      BY <1>3, <2>3, TimesMonotone
    <3>3. u.price * QuantityAt(g, u, r) \in Nat
      BY <1>3, <2>3
    <3> QED
      BY <1>4, <3>1, <3>2, <3>3
  <2>7. m \in Mixes
    <3> DEFINE pair == <<f, g>>
               pairs == {x \in PricedFamilies \X PricedFamilies :
                           x[1].asBulk /\ x[2].asRemainder /\ x[1].id # x[2].id}
    <3>1. pair \in pairs
      BY <1>1 DEF Mixable
    <3>2. m \in {<<pair[1], pair[2], k>> : k \in BulkQuantities(pair[1], pair[2])}
      OBVIOUS
    <3>3. Mixes = UNION {{<<p[1], p[2], k>> : k \in BulkQuantities(p[1], p[2])} : p \in pairs}
      BY Zenon DEF Mixes
    <3> HIDE DEF pair, pairs, m
    <3> QED
      BY <3>1, <3>2, <3>3, Zenon
  <2>8. bulk \in BulkLegs(m) /\ Rest(m, bulk) = r
    BY <1>11 DEF BulkLegs, Rest
  <2>9. PlanOf(<<bulk, rest>>) \in Plans
    <3>1. rest \in Leg(m[2], Rest(m, bulk))
      BY <2>5, <2>8
    <3> HIDE DEF m
    <3>2. <<bulk, rest>> \in LegsOfMix(m)
      BY <2>8, <3>1 DEF LegsOfMix
    <3> QED
      BY <2>7, <3>2 DEF Plans
  <2>10. PlanOf(<<bulk, rest>>).price = bulk.extended + rest.extended
    BY <2>5, <2>7, <2>8, MixedPlan
  <2> HIDE DEF r, m
  <2> QED
    BY <1>4, <1>6, <1>7, <2>6, <2>9, <2>10
<1>12. CASE bulk.purchased >= required
  <2>1. Meets(f, b, required, bulk.purchased)
    BY <1>9, <1>12 DEF Meets
  <2>2. QuantityAt(f, b, required) \in Nat /\ QuantityAt(f, b, required) <= bulk.purchased
    BY <1>1, <1>7, <2>1, QuantityFacts
  <2>3. InStock(f, QuantityAt(f, b, required))
    BY <1>1, <1>7, <2>2 DEF InStock, Numbers
  <2>4. PICK leg \in Leg(f, required) : TRUE
    <3>1. CandidateAt(f, b, required) \in Candidates(f, required)
      BY <2>3, CandidatesAre
    <3> QED
      BY <1>1, <3>1, LegExists
  <2>5. leg.extended <= bulk.extended /\ leg.extended \in Nat
    <3>1. leg.extended <= b.price * QuantityAt(f, b, required) /\ leg.extended \in Nat
      BY <1>1, <2>3, LegIsCandidate, LegNumbers
    <3>2. b.price \in Nat
      BY <1>1 DEF Numbers
    <3>3. b.price * QuantityAt(f, b, required) <= b.price * bulk.purchased
      BY <1>7, <2>2, <3>2, TimesMonotone
    <3>4. b.price * QuantityAt(f, b, required) \in Nat
      BY <2>2, <3>2
    <3> QED
      BY <1>7, <1>8, <3>1, <3>3, <3>4
  <2>6. PlanOf(<<leg>>) \in Plans
    BY <1>1 DEF Plans
  <2>7. PlanOf(<<leg>>).price = leg.extended
    BY <1>1, SinglePlan
  <2> QED
    BY <1>4, <1>6, <1>7, <2>5, <2>6, <2>7
<1> QED
  BY <1>1, <1>7, <1>11, <1>12

(* The least whole number of multiples that reaches v is around v div m.   *)
LEMMA WholeAbove ==
  ASSUME NEW v \in Nat \ {0}, NEW m \in Nat, m > 1
  PROVE  \E n \in Around(v \div m) :
           /\ n \in Nat \ {0} /\ n * m >= v
           /\ \A k \in Nat : k * m >= v => n <= k
<1> DEFINE d == v \div m
<1>1. d \in Int /\ v % m \in 0 .. m - 1 /\ v = m * d + (v % m)
  BY Divided
<1>2. d >= 0
  <2>1. CASE d <= -1
    <3>1. m * d <= m * (-1)
      BY <1>1, <2>1
    <3> QED
      BY <1>1, <3>1
  <2> QED
    BY <1>1, <2>1
<1>3. \A k \in Nat : k < d => k * m < v
  <2> SUFFICES ASSUME NEW k \in Nat, k < d PROVE k * m < v
    OBVIOUS
  <2>1. k * m < d * m
    BY <1>1
  <2> QED
    BY <1>1, <2>1
<1>4. \A k \in Nat : k <= d => k * m <= d * m
  BY <1>1, <1>2, TimesMonotone
<1>5. CASE v % m = 0
  <2>1. v = m * d /\ d # 0
    BY <1>1, <1>5
  <2>2. d \in Around(d)
    BY <1>1, <1>2, <2>1 DEF Around
  <2>3. \A k \in Nat : k * m >= v => d <= k
    BY <1>1, <1>3
  <2> QED
    BY <1>1, <1>2, <2>1, <2>2, <2>3
<1>6. CASE v % m # 0
  <2>1. d + 1 \in Around(d) /\ d + 1 \in Nat \ {0}
    BY <1>1, <1>2 DEF Around
  <2>2. (d + 1) * m >= v
    BY <1>1
  <2>3. ASSUME NEW k \in Nat, k * m >= v PROVE d + 1 <= k
    <3>1. CASE k <= d
      <4>1. k * m <= d * m
        BY <1>4, <3>1
      <4>2. d * m < v
        BY <1>1, <1>6
      <4> QED
        BY <1>1, <2>3, <4>1, <4>2
    <3> QED
      BY <1>1, <3>1
  <2> QED
    BY <2>1, <2>2, <2>3
<1> QED
  BY <1>5, <1>6

(* So is the greatest that stays within v.                                 *)
LEMMA WholeBelow ==
  ASSUME NEW v \in Nat, NEW m \in Nat, m > 1, NEW k \in Nat \ {0}, k * m <= v
  PROVE  LET n == v \div m
         IN n \in Around(n) /\ n \in Nat \ {0} /\ n * m <= v /\ k <= n
<1> DEFINE d == v \div m
<1>1. d \in Int /\ v % m \in 0 .. m - 1 /\ v = m * d + (v % m)
  BY Divided
<1>2. k <= d
  <2>1. CASE d + 1 <= k
    <3>1. m * (d + 1) <= m * k
      BY <1>1, <2>1
    <3> QED
      BY <1>1, <3>1
  <2> QED
    BY <1>1, <2>1
<1>3. d \in Around(d) /\ d \in Nat \ {0}
  BY <1>1, <1>2 DEF Around
<1>4. d * m <= v
  BY <1>1
<1> QED
  BY <1>2, <1>3, <1>4

(* What is around a break of the bulk family, the requirement less a break *)
(* of the remainder, or the stock is tried; the width of an int excludes   *)
(* nothing.                                                                *)
LEMMA TriedQuantity ==
  ASSUME Serving, ~Fails, NEW f, NEW g, Mixable(f, g), NEW n \in Nat \ {0},
         n * MixOf(f) < required,
         \/ \E b \in Breaks(f) : n \in Around(b.quantity \div MixOf(f))
         \/ \E b \in Breaks(g) : required > b.quantity
                                 /\ n \in Around((required - b.quantity) \div MixOf(f))
         \/ f.available # None /\ n \in Around(f.available \div MixOf(f))
  PROVE  n * MixOf(f) \in BulkQuantities(f, g)
<1> DEFINE mix == MixOf(f)
           ofBulk == {Around(b.quantity \div mix) : b \in Breaks(f)}
           ofRest == {Around((required - b.quantity) \div mix) :
                        b \in {x \in Breaks(g) : required > x.quantity}}
           ofStock == IF f.available = None THEN {} ELSE {Around(f.available \div mix)}
           counts == UNION ({Around(required \div mix)} \cup ofBulk \cup ofRest \cup ofStock)
<1>1. mix \in Nat /\ mix > 1 /\ Numbers(f) /\ f \in PricedFamilies /\ required \in Nat
  BY DEF Mixable, Serving, Numbers
<1>2. n \in counts
  OBVIOUS
<1>3. required <= MaxInt
  <2>1. PICK b \in Breaks(f) : TRUE
    BY <1>1 DEF PricedFamilies
  <2>2. ~(QuantityAt(f, b, required) > MaxInt)
    BY <1>1 DEF Fails, LegOverflows
  <2>3. QuantityAt(f, b, required) \in Nat /\ QuantityAt(f, b, required) >= required
    BY <1>1, QuantityFacts DEF Meets
  <2> QED
    BY <1>1, <2>2, <2>3, OptimizerAssumption
<1>4. n <= MaxInt \div mix
  <2>1. n * mix <= MaxInt
    BY <1>1, <1>3, OptimizerAssumption
  <2> QED
    BY <1>1, <2>1, WholeBelow, OptimizerAssumption
<1>5. BulkQuantities(f, g) =
        {k * mix : k \in {l \in counts : l <= MaxInt \div mix /\ l * mix < required}}
  BY <1>1 DEF BulkQuantities
<1> HIDE DEF counts
<1> QED
  BY <1>2, <1>4, <1>5

(* An order of both families, in the numbers its price is made of.         *)
MixOrder(f, g, t, u, x, y) ==
  /\ t \in Breaks(f) /\ t.quantity <= x /\ x \in Nat \ {0} /\ x < required
  /\ x >= f.moq /\ x % MixOf(f) = 0 /\ InStock(f, x)
  /\ u \in Breaks(g) /\ u.quantity <= y /\ y \in Nat /\ y <= required
  /\ x + y >= required

(* When everything from q to x that can be bought in bulk is no dearer     *)
(* than x, the quantity q is enough to try: the leg it leads to lies in    *)
(* between.                                                                *)
LEMMA LessInBulk ==
  ASSUME Serving, ~Fails, NEW f, NEW g, Mixable(f, g),
         NEW t, NEW u, NEW x, NEW y, MixOrder(f, g, t, u, x, y),
         NEW q \in BulkQuantities(f, g), t.quantity <= q, q <= x,
         \A z \in Nat : z >= q /\ z <= x =>
           \E w \in Nat : /\ w >= u.quantity /\ w <= required /\ w >= required - z
                          /\ t.price * z + u.price * w <= t.price * x + u.price * y
  PROVE  \E p \in Plans : p.price \in Nat /\ p.price <= t.price * x + u.price * y
<1> DEFINE z == QuantityAt(f, t, q)
<1>1. /\ f \in PricedFamilies /\ g \in PricedFamilies /\ Numbers(f) /\ Numbers(g)
      /\ MixOf(f) = Multiple(f) /\ required \in Nat
  BY DEF Mixable, Serving
<1>2. q \in Nat \ {0}
  BY <1>1, BulkQuantityNumbers
<1>3. /\ t \in Breaks(f) /\ u \in Breaks(g) /\ x \in Nat /\ y \in Nat /\ x < required
      /\ Meets(f, t, q, x) /\ InStock(f, x)
  BY <1>1 DEF MixOrder, Meets
<1>4. z \in Nat /\ z <= x /\ z >= q
  BY <1>1, <1>2, <1>3, QuantityFacts DEF Meets
<1>5. InStock(f, z) /\ z < required
  BY <1>1, <1>3, <1>4 DEF InStock, Numbers
<1>6. PICK w \in Nat : /\ w >= u.quantity /\ w <= required /\ w >= required - z
                       /\ t.price * z + u.price * w <= t.price * x + u.price * y
  BY <1>4
<1>7. PICK p \in Plans : p.price \in Nat /\ p.price <= t.price * z + u.price * w
  <2> HIDE DEF z
  <2>1. z = QuantityAt(f, t, q)
    BY DEF z
  <2> QED
    BY <1>3, <1>5, <1>6, <2>1, MixAtQuantity
<1>8. /\ t.price \in Nat /\ u.price \in Nat
  BY <1>1, <1>3 DEF Numbers
<1> HIDE DEF z
<1>9. /\ t.price * z \in Nat /\ u.price * w \in Nat /\ t.price * x \in Nat /\ u.price * y \in Nat
  BY <1>3, <1>4, <1>8
<1> QED
  BY <1>6, <1>7, <1>9

(* When more in bulk is cheaper, the multiple q is enough to try: it is    *)
(* bought as it stands.                                                    *)
LEMMA MoreInBulk ==
  ASSUME Serving, ~Fails, NEW f, NEW g, Mixable(f, g),
         NEW t, NEW u, NEW x, NEW y, MixOrder(f, g, t, u, x, y),
         NEW q \in BulkQuantities(f, g), x <= q, q % MixOf(f) = 0, InStock(f, q),
         u.quantity <= required - q,
         t.price * q + u.price * (required - q) <= t.price * x + u.price * y
  PROVE  \E p \in Plans : p.price \in Nat /\ p.price <= t.price * x + u.price * y
<1>1. /\ f \in PricedFamilies /\ g \in PricedFamilies /\ Numbers(f) /\ Numbers(g)
      /\ MixOf(f) = Multiple(f) /\ required \in Nat
  BY DEF Mixable, Serving
<1>2. q \in Nat \ {0} /\ q < required
  BY <1>1, BulkQuantityNumbers
<1>3. /\ t \in Breaks(f) /\ u \in Breaks(g) /\ x \in Nat /\ y \in Nat
      /\ t.quantity \in Nat /\ t.quantity <= q /\ t.price \in Nat /\ u.price \in Nat
      /\ u.quantity \in Nat
  BY <1>1, <1>2 DEF MixOrder, Numbers
<1>4. Meets(f, t, q, q)
  BY <1>1, <1>2, <1>3 DEF MixOrder, Meets, Numbers
<1>5. QuantityAt(f, t, q) = q
  <2>1. /\ QuantityAt(f, t, q) \in Nat /\ Meets(f, t, q, QuantityAt(f, t, q))
        /\ QuantityAt(f, t, q) <= q
    BY <1>1, <1>2, <1>3, <1>4, QuantityFacts
  <2> QED
    BY <1>2, <2>1 DEF Meets
<1> DEFINE w == required - q
<1>6. w \in Nat /\ w <= required /\ w >= required - q /\ w >= u.quantity
  BY <1>1, <1>2
<1>7. PICK p \in Plans : p.price \in Nat /\ p.price <= t.price * q + u.price * w
  <2> HIDE DEF w
  <2> QED
    BY <1>2, <1>3, <1>5, <1>6, MixAtQuantity
<1>8. t.price * q \in Nat /\ u.price * w \in Nat /\ t.price * x \in Nat /\ u.price * y \in Nat
  <2> HIDE DEF w
  <2> QED
    BY <1>2, <1>3, <1>6
<1>9. t.price * q + u.price * w <= t.price * x + u.price * y
  OBVIOUS
<1> HIDE DEF w
<1> QED
  BY <1>7, <1>8, <1>9

(* No mix beats every plan considered. Between two breaks the price is     *)
(* linear in what is bought in bulk, so it is least at an end: at the      *)
(* first multiple that reaches the bulk break or leaves the remainder its  *)
(* break, or at the last one that does so and is in stock. Those ends are  *)
(* tried.                                                                  *)
LEMMA MixIsTried ==
  ASSUME Serving, ~Fails, NEW f, NEW g, Mixable(f, g),
         NEW x \in Nat \ {0}, x < required, Orderable(f, x),
         NEW y \in Nat, y <= required, x + y >= required, Orderable(g, y)
  PROVE  \E p \in Plans : p.price \in Nat /\ p.price <= Charge(f, x) + Charge(g, y)
<1> DEFINE m == MixOf(f)
<1>1. /\ m \in Nat /\ m > 1 /\ m = Multiple(f) /\ Numbers(f) /\ Numbers(g)
      /\ required \in Nat
  BY DEF Mixable, Serving, Numbers
<1>2. PICK t : IsTop(f, t, x) /\ Charge(f, x) = t.price * x
  BY <1>1, ChargeIsOfTop DEF Orderable
<1>3. PICK u : IsTop(g, u, y) /\ Charge(g, y) = u.price * y
  BY <1>1, ChargeIsOfTop DEF Orderable
<1>4. /\ t \in Breaks(f) /\ t.price \in Nat /\ t.quantity \in Nat \ {0} /\ t.quantity <= x
      /\ u \in Breaks(g) /\ u.price \in Nat /\ u.quantity \in Nat \ {0} /\ u.quantity <= y
  BY <1>1, <1>2, <1>3 DEF IsTop, Numbers
<1>5. x % m = 0 /\ x >= f.moq /\ InStock(f, x)
  BY <1>1 DEF Orderable, InStock
<1>6. MixOrder(f, g, t, u, x, y)
  BY <1>4, <1>5 DEF MixOrder
<1>7. PICK k \in Nat \ {0} : x = k * m
  BY <1>1, <1>5, MultipleOf
<1> SUFFICES \E p \in Plans : p.price \in Nat /\ p.price <= t.price * x + u.price * y
  BY <1>2, <1>3
<1> DEFINE Tried(n) == n * m \in BulkQuantities(f, g)
<1> HIDE DEF m
<1>8. \A n \in Nat \ {0} : n <= k => n * m <= x /\ n * m < required
  <2> SUFFICES ASSUME NEW n \in Nat \ {0}, n <= k
               PROVE  n * m <= x /\ n * m < required
    OBVIOUS
  <2>1. n * m <= x /\ n * m \in Nat
    BY <1>1, <1>7, TimesMonotone
  <2> QED
    BY <1>1, <2>1
<1>9. PICK n0 \in Nat \ {0} : n0 * m >= t.quantity /\ n0 <= k /\ Tried(n0)
  <2>1. PICK n \in Around(t.quantity \div m) :
           n \in Nat \ {0} /\ n * m >= t.quantity /\ n <= k
    BY <1>1, <1>4, <1>7, WholeAbove
  <2>2. n * m < required
    BY <1>8, <2>1
  <2>3. Tried(n)
    BY <1>4, <2>1, <2>2, TriedQuantity DEF m
  <2> QED
    BY <2>1, <2>3
(* The remainder's price break is more than is missing. *)
<1>10. CASE required - x <= u.quantity
  <2>1. ASSUME NEW z \in Nat, z <= x
        PROVE  t.price * z + u.price * u.quantity <= t.price * x + u.price * y
    <3>1. t.price * z <= t.price * x /\ u.price * u.quantity <= u.price * y
      BY <1>4, <2>1, TimesMonotone
    <3>2. /\ t.price * z \in Nat /\ t.price * x \in Nat
          /\ u.price * u.quantity \in Nat /\ u.price * y \in Nat
      BY <1>4
    <3> QED
      BY <3>1, <3>2
  <2>2. PICK n \in Nat \ {0} : /\ n * m >= t.quantity /\ n <= k /\ Tried(n)
                               /\ n * m >= required - u.quantity
    <3>1. CASE required <= u.quantity
      <4>1. n0 * m \in Nat
        BY <1>1
      <4>2. n0 * m >= required - u.quantity
        BY <1>1, <1>4, <3>1, <4>1
      <4> QED
        BY <1>9, <4>2
    <3>2. CASE required > u.quantity
      <4>1. required - u.quantity \in Nat \ {0} /\ k * m >= required - u.quantity
        BY <1>1, <1>4, <1>7, <1>10, <3>2
      <4>2. PICK n1 \in Around((required - u.quantity) \div m) :
               n1 \in Nat \ {0} /\ n1 * m >= required - u.quantity /\ n1 <= k
        BY <1>1, <4>1, WholeAbove
      <4>3. n1 * m < required
        BY <1>8, <4>2
      <4>4. Tried(n1)
        BY <1>4, <3>2, <4>2, <4>3, TriedQuantity DEF m
      <4>5. CASE n0 <= n1
        <5>1. n0 * m <= n1 * m /\ n0 * m \in Nat /\ n1 * m \in Nat
          BY <1>1, <4>2, <4>5, TimesMonotone
        <5>2. n1 * m >= t.quantity
          BY <1>4, <1>9, <5>1
        <5> QED
          BY <4>2, <4>4, <5>2
      <4>6. CASE n1 <= n0
        <5>1. n1 * m <= n0 * m /\ n0 * m \in Nat /\ n1 * m \in Nat
          BY <1>1, <4>2, <4>6, TimesMonotone
        <5>2. n0 * m >= required - u.quantity
          BY <4>1, <4>2, <5>1
        <5> QED
          BY <1>9, <5>2
      <4> QED
        BY <4>2, <4>5, <4>6
    <3> QED
      BY <1>1, <1>4, <3>1, <3>2
  <2> DEFINE q == n * m
  <2>3. q \in Nat /\ q <= x /\ q >= t.quantity /\ q >= required - u.quantity
        /\ q \in BulkQuantities(f, g)
    BY <1>1, <1>8, <2>2
  <2> HIDE DEF q
  <2>4. ASSUME NEW z \in Nat, z >= q, z <= x
        PROVE  \E w \in Nat : /\ w >= u.quantity /\ w <= required /\ w >= required - z
                              /\ t.price * z + u.price * w <= t.price * x + u.price * y
    <3>1. u.quantity \in Nat /\ u.quantity <= required /\ u.quantity >= required - z
      BY <1>1, <1>4, <2>3, <2>4
    <3> QED
      BY <2>1, <2>4, <3>1
  <2> QED
    BY <1>6, <2>3, <2>4, LessInBulk
(* Every part bought in bulk saves one of the remainder. *)
<1>11. CASE required - x > u.quantity
  <2>1. u.price * (required - x) <= u.price * y
    BY <1>1, <1>4, <1>11, TimesMonotone
  <2>2. \A z \in Nat : \/ t.price >= u.price /\ z <= x
                       \/ t.price <= u.price /\ z >= x
          => t.price * z + u.price * (required - z) <= t.price * x + u.price * y
    <3> SUFFICES ASSUME NEW z \in Nat, \/ t.price >= u.price /\ z <= x
                                       \/ t.price <= u.price /\ z >= x
                 PROVE  t.price * z + u.price * (required - z) <= t.price * x + u.price * y
      OBVIOUS
    <3>1. t.price * z + u.price * (required - z) <= t.price * x + u.price * (required - x)
      <4>1. z \in Int /\ x \in Int /\ required \in Int /\ t.price \in Nat /\ u.price \in Nat
        BY <1>1, <1>4
      <4>2. \/ t.price >= u.price /\ z <= x
            \/ t.price <= u.price /\ z >= x
        OBVIOUS
      <4> QED
        BY <4>1, <4>2, Moved
    <3>2. /\ t.price * z \in Int /\ u.price * (required - z) \in Int /\ t.price * x \in Int
          /\ u.price * (required - x) \in Int /\ u.price * y \in Int
      BY <1>1, <1>4
    <3> QED
      BY <2>1, <3>1, <3>2
  <2>3. CASE t.price >= u.price
    <3> DEFINE q == n0 * m
    <3>1. q \in Nat /\ q <= x /\ q >= t.quantity /\ q \in BulkQuantities(f, g)
      BY <1>1, <1>8, <1>9
    <3> HIDE DEF q
    <3>2. ASSUME NEW z \in Nat, z >= q, z <= x
          PROVE  \E w \in Nat : /\ w >= u.quantity /\ w <= required /\ w >= required - z
                                /\ t.price * z + u.price * w <= t.price * x + u.price * y
      <4>1. required - z \in Nat /\ required - z >= u.quantity /\ required - z <= required
        BY <1>1, <1>4, <1>11, <3>2
      <4>2. t.price * z + u.price * (required - z) <= t.price * x + u.price * y
        BY <2>2, <2>3, <3>2
      <4> QED
        BY <1>1, <4>1, <4>2
    <3> QED
      BY <1>6, <3>1, <3>2, LessInBulk
  <2>4. CASE t.price < u.price
    <3> DEFINE most == required - u.quantity
    <3>1. most \in Nat /\ k * m <= most /\ required > u.quantity
      BY <1>1, <1>4, <1>7, <1>11
    <3>2. PICK n \in Nat \ {0} : /\ k <= n /\ n * m <= most /\ Tried(n) /\ InStock(f, n * m)
      <4> DEFINE n1 == most \div m
      <4>1. n1 \in Around(n1) /\ n1 \in Nat \ {0} /\ n1 * m <= most /\ k <= n1
        BY <1>1, <3>1, WholeBelow
      <4>2. n1 * m \in Nat /\ n1 * m < required
        BY <1>1, <1>4, <4>1
      <4>3. Tried(n1)
        <5>1. n1 \in Around((required - u.quantity) \div m)
          BY <4>1
        <5> HIDE DEF n1
        <5> QED
          BY <1>4, <3>1, <4>1, <4>2, <5>1, TriedQuantity DEF m
      <4> HIDE DEF n1, most
      <4>4. CASE InStock(f, n1 * m)
        BY <4>1, <4>3, <4>4
      <4>5. CASE ~InStock(f, n1 * m)
        <5>1. f.available # None /\ f.available \in Nat /\ f.available < n1 * m
          BY <1>1, <4>2, <4>5 DEF InStock, Numbers
        <5>2. k * m <= f.available
          BY <1>5, <1>7, <5>1 DEF InStock
        <5> DEFINE n2 == f.available \div m
        <5>3. n2 \in Around(n2) /\ n2 \in Nat \ {0} /\ n2 * m <= f.available /\ k <= n2
          BY <1>1, <5>1, <5>2, WholeBelow
        <5>4. n2 \in Around(f.available \div m)
          BY <5>3
        <5> HIDE DEF n2
        <5>5. n2 * m \in Nat /\ n2 * m <= most /\ n2 * m < required
          BY <1>1, <3>1, <4>1, <4>2, <5>1, <5>3
        <5>6. Tried(n2)
          BY <5>1, <5>3, <5>4, <5>5, TriedQuantity DEF m
        <5>7. InStock(f, n2 * m)
          BY <5>3 DEF InStock
        <5> QED
          BY <5>3, <5>5, <5>6, <5>7
      <4> QED
        BY <4>4, <4>5
    <3> DEFINE q == n * m
    <3>3. q \in Nat /\ x <= q /\ q \in BulkQuantities(f, g) /\ InStock(f, q) /\ q <= most
      BY <1>1, <1>7, <3>2, TimesMonotone
    <3>4. q % m = 0
      BY <1>1, WholeMultiple
    <3> HIDE DEF q
    <3>5. u.quantity <= required - q
      BY <1>1, <1>4, <3>3
    <3>6. t.price * q + u.price * (required - q) <= t.price * x + u.price * y
      BY <1>4, <2>2, <2>4, <3>3
    <3> QED
      BY <1>6, <3>3, <3>4, <3>5, <3>6, MoreInBulk DEF m
  <2> QED
    BY <1>4, <2>3, <2>4
<1> QED
  BY <1>1, <1>4, <1>10, <1>11

-----------------------------------------------------------------------------
(* The optimizer as a state machine.                                       *)

(* A step answers; it does not change the question.                        *)
SameQuestion == required' = required /\ families' = families /\ preference' = preference

(* So nothing that is computed of the question alone changes.              *)
LEMMA SameFamilies ==
  ASSUME SameQuestion
  PROVE  /\ PricedFamilies' = PricedFamilies
         /\ Usable' = Usable
         /\ SinglePrices' = SinglePrices
         /\ MixedPrices' = MixedPrices
         /\ \A leg : FamilyOf(leg)' = FamilyOf(leg)
<1>1. PricedFamilies' = PricedFamilies
  BY DEF PricedFamilies, SameQuestion
<1>2. Usable' = Usable
  BY <1>1 DEF Usable
<1>3. SinglePrices' = SinglePrices
  BY <1>2 DEF SinglePrices, SameQuestion
<1>4. Pairs' = Pairs
  BY <1>2 DEF Pairs, Plain, SameQuestion
<1>5. MixedPrices' = MixedPrices
  BY <1>4 DEF MixedPrices, SameQuestion
<1>6. \A leg : FamilyOf(leg)' = FamilyOf(leg)
  BY <1>1 DEF FamilyOf
<1> QED
  BY <1>1, <1>2, <1>3, <1>5, <1>6

(* What NothingCheaperIsPassedOver says of a plan.                         *)
NotDearer(p) ==
  \A price \in SinglePrices \cup MixedPrices :
    p.price * 10000 <= price * (10000 + preference)

(* An answer is right, of the arguments it was computed from.              *)
Answered(kind, plan) ==
  /\ kind = "plan" => /\ Covers(plan)
                      /\ \A i \in DOMAIN plan.legs : IsOrder(plan.legs[i])
                      /\ NotDearer(plan)
  /\ kind = "none" => SinglePrices = {}

(* No order of one family is missed.                                       *)
LEMMA UsableOrder ==
  ASSUME Serving, ~Fails, NEW price \in SinglePrices
  PROVE  price \in Nat /\ \E q \in Plans : q.price \in Nat /\ q.price <= price
<1>1. PICK f \in Usable, x \in required .. MaxInt : Orderable(f, x) /\ price = Charge(f, x)
  BY DEF SinglePrices
<1>2. f \in PricedFamilies /\ x \in Nat /\ x >= required /\ Numbers(f)
  BY OptimizerAssumption DEF Usable, Serving
<1>3. price \in Nat
  <2>1. PICK t : IsTop(f, t, x) /\ Charge(f, x) = t.price * x
    BY <1>1, <1>2, ChargeIsOfTop DEF Orderable
  <2>2. t.price \in Nat
    BY <1>2, <2>1 DEF IsTop, Numbers
  <2> QED
    BY <1>1, <1>2, <2>1, <2>2
<1> QED
  BY <1>1, <1>2, <1>3, SingleIsTried

(* No mix is missed.                                                       *)
LEMMA UsableMix ==
  ASSUME Serving, ~Fails, NEW price \in MixedPrices
  PROVE  price \in Nat /\ \E q \in Plans : q.price \in Nat /\ q.price <= price
<1>1. PICK p \in Pairs, o \in (1 .. required - 1) \X (1 .. required) :
        /\ o[1] + o[2] >= required
        /\ Orderable(p[1], o[1]) /\ Orderable(p[2], o[2])
        /\ price = Charge(p[1], o[1]) + Charge(p[2], o[2])
  BY DEF MixedPrices
<1> DEFINE f == p[1]
           g == p[2]
           x == o[1]
           y == o[2]
<1>2. /\ x \in Nat \ {0} /\ x < required /\ y \in Nat /\ y <= required /\ x + y >= required
      /\ Orderable(f, x) /\ Orderable(g, y) /\ price = Charge(f, x) + Charge(g, y)
  BY <1>1 DEF Serving
<1>3. Mixable(f, g) /\ Numbers(f) /\ Numbers(g)
  BY DEF Pairs, Usable, Mixable, Serving
<1> HIDE DEF f, g, x, y
<1>4. Charge(f, x) \in Nat /\ Charge(g, y) \in Nat
  <2>1. PICK t : IsTop(f, t, x) /\ Charge(f, x) = t.price * x
    BY <1>2, <1>3, ChargeIsOfTop DEF Orderable
  <2>2. PICK u : IsTop(g, u, y) /\ Charge(g, y) = u.price * y
    BY <1>2, <1>3, ChargeIsOfTop DEF Orderable
  <2>3. t.price \in Nat /\ u.price \in Nat
    BY <1>3, <2>1, <2>2 DEF IsTop, Numbers
  <2> QED
    BY <1>2, <2>1, <2>2, <2>3
<1> QED
  BY <1>2, <1>3, <1>4, MixIsTried

(* The plan chosen is within the preference of every order there is.       *)
LEMMA BestIsNotDearer ==
  ASSUME Serving, ~Fails, NEW p \in BestPlans(Plans, preference)
  PROVE  NotDearer(p)
<1> SUFFICES ASSUME NEW price \in SinglePrices \cup MixedPrices
             PROVE  p.price * 10000 <= price * (10000 + preference)
  BY DEF NotDearer
<1>1. price \in Nat /\ \E q \in Plans : q.price \in Nat /\ q.price <= price
  BY UsableOrder, UsableMix
<1>2. PICK q \in Plans : q.price \in Nat /\ q.price <= price
  BY <1>1
<1>3. p.price * 10000 <= q.price * (10000 + preference) /\ p \in Plans
  BY BestIsWithin
<1>4. p.price \in Nat /\ preference \in Nat
  BY <1>3, PlansAreOrders, OptimizerAssumption DEF Covers, Serving
<1>5. q.price * (10000 + preference) <= price * (10000 + preference)
  BY <1>1, <1>2, <1>4, TimesMonotone
<1>6. /\ q.price * (10000 + preference) \in Nat /\ price * (10000 + preference) \in Nat
      /\ p.price * 10000 \in Nat
  BY <1>1, <1>2, <1>4
<1> QED
  BY <1>3, <1>5, <1>6

(* The optimizer's answer is right.                                        *)
LEMMA OptimizeAnswers ==
  ASSUME ArgumentsOK, Optimize
  PROVE  Answered(result'.kind, result'.plan)
<1>1. CASE Refused \/ Fails
  BY <1>1 DEF Optimize, Answered
<1>2. CASE ~Refused /\ ~Fails
  <2>1. Serving
    BY <1>2, AcceptedServes
  <2>2. CASE Plans = {}
    <3>1. result' = [kind |-> "none", plan |-> None]
      BY <1>2, <2>2 DEF Optimize
    <3>2. SinglePrices = {}
      BY <1>2, <2>1, <2>2, UsableOrder
    <3> QED
      BY <3>1, <3>2 DEF Answered
  <2>3. CASE Plans # {}
    <3>1. PICK p \in BestPlans(Plans, preference) : result' = [kind |-> "plan", plan |-> p]
      BY <1>2, <2>3 DEF Optimize
    <3>2. NotDearer(p)
      BY <1>2, <2>1, BestIsNotDearer
    <3>3. p \in Plans
      BY Zenon DEF BestPlans, Firsts
    <3>4. Covers(p) /\ \A i \in DOMAIN p.legs : IsOrder(p.legs[i])
      BY <1>2, <2>1, <3>3, PlansAreOrders
    <3> QED
      BY <3>1, <3>2, <3>4 DEF Answered
  <2> QED
    BY <2>2, <2>3
<1> QED
  BY <1>1, <1>2

(* The inductive invariant of the optimizer: a result is right for the     *)
(* arguments that are still there, and these are the ones that were given. *)
OptimizerInv == ArgumentsOK /\ Answered(result.kind, result.plan)

(* A right answer stays right.                                             *)
LEMMA StaysAnswered ==
  ASSUME SameQuestion, NEW kind, NEW plan
  PROVE  Answered(kind, plan)' <=> Answered(kind, plan)
<1>1. \A leg : IsOrder(leg)' <=> IsOrder(leg)
  BY SameFamilies DEF IsOrder
<1>2. Covers(plan)' <=> Covers(plan)
  BY DEF Covers, SameQuestion
<1>3. NotDearer(plan)' <=> NotDearer(plan)
  BY SameFamilies DEF NotDearer, SameQuestion
<1> QED
  BY <1>1, <1>2, <1>3, SameFamilies DEF Answered

(* The invariant is inductive.                                             *)
LEMMA OptimizerInduction ==
  /\ Init => OptimizerInv
  /\ OptimizerInv /\ [Next]_vars => OptimizerInv'
<1>1. ASSUME Init PROVE OptimizerInv
  BY <1>1 DEF Init, OptimizerInv, ArgumentsOK, Answered
<1>2. ASSUME OptimizerInv, [Next]_vars PROVE OptimizerInv'
  <2>1. SameQuestion
    BY <1>2 DEF Next, Optimize, vars, SameQuestion
  <2>2. ArgumentsOK'
    BY <1>2, <2>1 DEF OptimizerInv, ArgumentsOK, SameQuestion
  <2>3. PICK kind, plan : kind = result'.kind /\ plan = result'.plan
    OBVIOUS
  <2>4. Answered(kind, plan)
    <3>1. CASE UNCHANGED vars
      BY <1>2, <2>3, <3>1 DEF OptimizerInv, vars
    <3>2. CASE Optimize
      BY <1>2, <2>3, <3>2, OptimizeAnswers DEF OptimizerInv
    <3> QED
      BY <1>2, <3>1, <3>2 DEF Next
  <2>5. Answered(kind, plan)'
    BY <2>1, <2>4, StaysAnswered
  <2> QED
    BY <2>2, <2>3, <2>5 DEF OptimizerInv
<1> QED
  BY <1>1, <1>2

(* The properties are what a right answer means.                           *)
LEMMA AnsweredMeans ==
  OptimizerInv => PlanIsOrderable /\ NothingCheaperIsPassedOver
BY DEF OptimizerInv, Answered, PlanIsOrderable, NothingCheaperIsPassedOver, PlanCovers,
       Covers, IsOrder, NotDearer

-----------------------------------------------------------------------------
(* Conversion.                                                             *)

(* fx divideHalfEven is the nearest number, the even one of two.           *)
LEMMA HalfEven ==
  ASSUME NEW n \in Nat, NEW d \in Nat \ {0}
  PROVE  LET r == Prices!DivideHalfEven(n, d)
             off == 2 * (r * d - n)
         IN /\ r \in Nat /\ off \in -d .. d
            /\ off \in {-d, d} => (r % 2) = 0
<1> DEFINE q == n \div d
           m == n % d
           r == Prices!DivideHalfEven(n, d)
           up == 2 * m > d \/ (2 * m = d /\ (q % 2) = 1)
<1>1. /\ q \in Int /\ m \in 0 .. d - 1 /\ n = d * q + m
  BY Divided
<1>2. q \in Nat
  <2>1. CASE q <= -1
    <3>1. d * q <= d * (-1)
      BY <1>1, <2>1
    <3> QED
      BY <1>1, <3>1
  <2> QED
    BY <1>1, <2>1
<1>3. q % 2 \in {0, 1} /\ (q + 1) % 2 = 1 - (q % 2)
  BY <1>2
<1>4. r = q + IF up THEN 1 ELSE 0
  BY DEF Prices!DivideHalfEven
<1> HIDE DEF q, m, r
<1>5. CASE up
  <2>1. r = q + 1 /\ r * d - n = d - m /\ r \in Nat
    BY <1>1, <1>2, <1>4, <1>5
  <2>2. 2 * m >= d
    BY <1>1, <1>5
  <2>3. 2 * (r * d - n) \in -d .. d
    BY <1>1, <2>1, <2>2
  <2>4. 2 * (r * d - n) \in {-d, d} => 2 * m = d
    BY <1>1, <2>1, <2>2
  <2>5. 2 * m = d => r % 2 = 0
    BY <1>1, <1>3, <1>5, <2>1
  <2> QED
    BY <2>1, <2>3, <2>4, <2>5 DEF r
<1>6. CASE ~up
  <2>1. r = q /\ r * d - n = -m /\ r \in Nat
    BY <1>1, <1>2, <1>4, <1>6
  <2>2. 2 * m <= d
    BY <1>1, <1>6
  <2>3. 2 * (r * d - n) \in -d .. d
    BY <1>1, <2>1, <2>2
  <2>4. 2 * (r * d - n) \in {-d, d} => 2 * m = d
    BY <1>1, <2>1, <2>2
  <2>5. 2 * m = d => r % 2 = 0
    BY <1>1, <1>3, <1>6, <2>1
  <2> QED
    BY <2>1, <2>3, <2>4, <2>5 DEF r
<1> QED
  BY <1>5, <1>6

(* A rate of a table that was built is positive.                           *)
LEMMA RateType ==
  ASSUME NEW d, Prices!TableBuilt(d), NEW c, Prices!HasQuote(d, c),
         \A k \in DOMAIN d.rates : d.rates[k] \in Nat \cup {Bad}
  PROVE  Prices!Rate(d, c) \in Nat \ {0} /\ c \in DOMAIN d.rates \cup {d.base}
BY AlgorithmsAssumption DEF Prices!TableBuilt, Prices!HasQuote, Prices!Rate

(* A conversion that succeeds is exact to the last unit.                   *)
LEMMA ConvertStep ==
  ASSUME question \in MoneyQuestions, Prices!Next
  PROVE  Prices!ConversionIsNearest'
<1> SUFFICES ASSUME question.kind = "convert", answer'.ok
             PROVE  Prices!ConversionIsNearest'
  BY DEF Prices!ConversionIsNearest, Prices!Next
<1> DEFINE d == question.document
           amount == question.amount
           from == question.from
           to == question.to
<1>1. /\ question' = question
      /\ answer' = IF Prices!TableBuilt(d) THEN Prices!ConvertAmount(d, amount, from, to)
                   ELSE Prices!Error
  BY DEF Prices!Next, Prices!ReadPrice, Prices!ScalePrice, Prices!Convert
<1>2. /\ amount \in Nat
      /\ \A c \in DOMAIN d.rates : d.rates[c] \in Nat \cup {Bad}
  BY AlgorithmsAssumption DEF Prices!IsQuestion
<1> HIDE DEF d, amount, from, to
<1>3. Prices!TableBuilt(d) /\ answer' = Prices!ConvertAmount(d, amount, from, to)
  BY <1>1 DEF Prices!Error
<1>4. \A c \in DOMAIN d.rates : d.rates[c] \notin {Bad, 0}
  BY <1>3 DEF Prices!TableBuilt
<1>5. CASE from = to
  <2>1. answer'.value = amount
    BY <1>3, <1>5 DEF Prices!ConvertAmount, Prices!Value
  <2> QED
    BY <1>1, <1>4, <1>5, <2>1 DEF Prices!ConversionIsNearest, d, from, to, amount
<1>6. CASE from # to
  <2>1. Prices!HasQuote(d, from) /\ Prices!HasQuote(d, to)
    BY <1>3, <1>6 DEF Prices!ConvertAmount, Prices!Error
  <2> DEFINE rf == Prices!Rate(d, from)
             rt == Prices!Rate(d, to)
             r == Prices!DivideHalfEven(amount * rt, rf)
  <2>2. /\ rf \in Nat \ {0} /\ rt \in Nat \ {0}
        /\ {from, to} \subseteq DOMAIN d.rates \cup {d.base}
    BY <1>2, <1>3, <2>1, RateType
  <2>3. answer'.value = r
    BY <1>3, <1>6, <2>1 DEF Prices!ConvertAmount, Prices!Value, Prices!Error
  <2>4. amount * rt \in Nat
    BY <1>2, <2>2
  <2> DEFINE off == 2 * (r * rf - amount * rt)
  <2>5. off \in -rf .. rf /\ (off \in {-rf, rf} => (r % 2) = 0)
    <3> HIDE DEF rf, rt
    <3> QED
      BY <2>2, <2>4, HalfEven
  <2>6. from # to => /\ {from, to} \subseteq DOMAIN d.rates \cup {d.base}
                     /\ off \in -rf .. rf /\ (off \in {-rf, rf} => (answer'.value % 2) = 0)
                     /\ off = 2 * (answer'.value * rf - amount * rt)
    BY <2>2, <2>3, <2>5
  <2> HIDE DEF r, off
  <2> QED
    BY <1>1, <1>4, <1>6, <2>6 DEF Prices!ConversionIsNearest, d, from, to, amount
<1> QED
  BY <1>5, <1>6

-----------------------------------------------------------------------------
(* Lookups: sums, and chains of tests.                                     *)

(* f is the sums of a up to each of its N places.                          *)
AddsUp(f, a, N) == f[0] = 0 /\ \A n \in 1 .. N : f[n] = f[n - 1] + a[n]

(* What Sum adds up.                                                       *)
LEMMA SumIs ==
  ASSUME NEW N \in Nat, NEW a \in [1 .. N -> Nat]
  PROVE  \E f : AddsUp(f, a, N) /\ Resolvers!Sum(a) = f[N]
<1> DEFINE f == CHOOSE g : g = [n \in 0 .. N |-> IF n = 0 THEN 0 ELSE g[n - 1] + a[n]]
<1>1. f = [n \in 0 .. N |-> IF n = 0 THEN 0 ELSE f[n - 1] + a[n]]
  BY PartialSums
<1>2. Len(a) = N
  OBVIOUS
<1>3. Resolvers!Sum(a) = f[N]
  BY <1>2 DEF Resolvers!Sum
<1> HIDE DEF f
<1>4. AddsUp(f, a, N)
  BY <1>1 DEF AddsUp
<1> QED
  BY <1>3, <1>4

(* The sum of larger amounts is larger.                                    *)
LEMMA SumGrows ==
  ASSUME NEW N \in Nat, NEW a \in [1 .. N -> Nat], NEW b \in [1 .. N -> Nat],
         \A n \in 1 .. N : a[n] <= b[n]
  PROVE  Resolvers!Sum(a) \in Nat /\ Resolvers!Sum(b) \in Nat
         /\ Resolvers!Sum(a) <= Resolvers!Sum(b)
<1>1. PICK f : AddsUp(f, a, N) /\ Resolvers!Sum(a) = f[N]
  BY SumIs
<1>2. PICK g : AddsUp(g, b, N) /\ Resolvers!Sum(b) = g[N]
  BY SumIs
<1> DEFINE Wrong == {n \in 0 .. N : ~(f[n] \in Nat /\ g[n] \in Nat /\ f[n] <= g[n])}
<1>3. Wrong = {}
  <2> SUFFICES ASSUME Wrong # {} PROVE FALSE
    OBVIOUS
  <2>1. PICK n \in Wrong : \A k \in Wrong : n <= k
    <3>1. Wrong \subseteq Nat
      OBVIOUS
    <3> HIDE DEF Wrong
    <3> QED
      BY <3>1, LeastNat
  <2>2. n # 0
    BY <1>1, <1>2, <2>1 DEF AddsUp
  <2>3. n \in 1 .. N /\ n - 1 \in 0 .. N /\ n - 1 \notin Wrong
    BY <2>1, <2>2
  <2>4. f[n] = f[n - 1] + a[n] /\ g[n] = g[n - 1] + b[n]
    BY <1>1, <1>2, <2>3 DEF AddsUp
  <2>5. a[n] \in Nat /\ b[n] \in Nat /\ a[n] <= b[n]
    BY <2>3
  <2>6. f[n - 1] \in Nat /\ g[n - 1] \in Nat /\ f[n - 1] <= g[n - 1]
    BY <2>3
  <2>7. ~(f[n] \in Nat /\ g[n] \in Nat /\ f[n] <= g[n])
    BY <2>1
  <2> QED
    BY <2>4, <2>5, <2>6, <2>7
<1>4. N \in 0 .. N
  OBVIOUS
<1> QED
  BY <1>1, <1>2, <1>3, <1>4

(* FirstThat is the first test that holds.                                 *)
LEMMA FirstThatIs ==
  ASSUME NEW N \in Nat, NEW cases, DOMAIN cases = 1 .. N, NEW k \in 1 .. N, cases[k][1],
         \A i \in 1 .. k - 1 : ~cases[i][1]
  PROVE  Resolvers!FirstThat(cases) = cases[k][2]
<1> DEFINE H == {i \in DOMAIN cases : cases[i][1]}
<1>1. k \in H /\ H \subseteq 1 .. N /\ \A i \in H : k <= i
  OBVIOUS
<1>2. Resolvers!Min(H) = k
  <2> HIDE DEF H
  <2>1. \A m \in H : (\A i \in H : m <= i) => m = k
    BY <1>1
  <2> QED
    BY <1>1, <2>1 DEF Resolvers!Min
<1>3. Resolvers!FirstThat(cases) = cases[Resolvers!Min(H)][2]
  BY DEF Resolvers!FirstThat
<1> QED
  BY <1>2, <1>3

(* A chain of four tests.                                                  *)
LEMMA FourCases ==
  ASSUME NEW cases, DOMAIN cases = 1 .. 4, cases[4][1]
  PROVE  LET v == Resolvers!FirstThat(cases)
         IN /\ cases[1][1] => v = cases[1][2]
            /\ ~cases[1][1] /\ cases[2][1] => v = cases[2][2]
            /\ ~cases[1][1] /\ ~cases[2][1] /\ cases[3][1] => v = cases[3][2]
            /\ ~cases[1][1] /\ ~cases[2][1] /\ ~cases[3][1] => v = cases[4][2]
<1> DEFINE v == Resolvers!FirstThat(cases)
<1>1. \A k \in 1 .. 4 : cases[k][1] /\ (\A i \in 1 .. k - 1 : ~cases[i][1]) => v = cases[k][2]
  BY FirstThatIs
<1> HIDE DEF v
<1>2. /\ cases[1][1] => v = cases[1][2]
      /\ ~cases[1][1] /\ cases[2][1] => v = cases[2][2]
      /\ ~cases[1][1] /\ ~cases[2][1] /\ cases[3][1] => v = cases[3][2]
      /\ ~cases[1][1] /\ ~cases[2][1] /\ ~cases[3][1] => v = cases[4][2]
  BY <1>1
<1> QED
  BY <1>2 DEF v

-----------------------------------------------------------------------------
(* Mouser and Farnell: articles and their order.                           *)

(* normalizeOffer of mouser and farnell: the obstacles in order.           *)
LEMMA CatalogueStatusIs ==
  ASSUME NEW p, NEW exact \in BOOLEAN
  PROVE  LET plan == Resolvers!CataloguePlan(p)
             status == Resolvers!CatalogueStatus(p, exact)
             blocked == p.sku = 0 \/ Resolvers!RetiredWithoutStock(p) \/ ~Resolvers!Priceable(p)
         IN /\ blocked => status = "unavailable"
            /\ ~blocked /\ plan = Nil => status = IF p.stock # Nil THEN "shortage" ELSE "unavailable"
            /\ ~blocked /\ plan # Nil /\ ~plan.verified => status = "stock_unknown"
            /\ ~blocked /\ plan # Nil /\ plan.verified => status = IF exact THEN "priced" ELSE "review"
<1> DEFINE plan == Resolvers!CataloguePlan(p)
           status == Resolvers!CatalogueStatus(p, exact)
           blocked == p.sku = 0 \/ Resolvers!RetiredWithoutStock(p) \/ ~Resolvers!Priceable(p)
           cases == << <<blocked, "unavailable">>,
                       <<plan = Nil /\ p.stock # Nil, "shortage">>,
                       <<plan = Nil, "unavailable">>,
                       <<plan # Nil => ~plan.verified, "stock_unknown">>,
                       <<~exact, "review">>,
                       <<TRUE, "priced">> >>
<1>1. status = Resolvers!FirstThat(cases)
  BY DEF Resolvers!CatalogueStatus
<1>2. DOMAIN cases = 1 .. 6
  OBVIOUS
<1>3. /\ cases[1][1] <=> blocked
      /\ cases[2][1] <=> plan = Nil /\ p.stock # Nil
      /\ cases[3][1] <=> plan = Nil
      /\ cases[4][1] <=> (plan # Nil => ~plan.verified)
      /\ cases[5][1] <=> ~exact
      /\ cases[6][1]
  OBVIOUS
<1>4. /\ cases[1][2] = "unavailable" /\ cases[2][2] = "shortage" /\ cases[3][2] = "unavailable"
      /\ cases[4][2] = "stock_unknown" /\ cases[5][2] = "review" /\ cases[6][2] = "priced"
  OBVIOUS
<1>5. \A i \in 1 .. 5 : i \in {1, 2, 3, 4, 5}
  OBVIOUS
<1> HIDE DEF plan, status, blocked, cases
<1>6. \A k \in 1 .. 6 : cases[k][1] /\ (\A i \in 1 .. k - 1 : ~cases[i][1]) => status = cases[k][2]
  BY <1>1, <1>2, FirstThatIs
<1> QED
  BY <1>3, <1>4, <1>6 DEF plan, status, blocked

(* What is known of a plan for so many parts at one price.                 *)
PlannedAt(plan, bought, price, stock) ==
  /\ stock # Nil /\ stock < bought => plan = Nil
  /\ stock # Nil => stock < bought \/ plan # Nil
  /\ stock = Nil => plan # Nil
  /\ plan # Nil => /\ plan.purchased = bought /\ plan.price = bought * price
                   /\ plan.price \in Nat /\ plan.purchased \in Nat
                   /\ plan.verified <=> stock # Nil

(* PlanOf is such a plan.                                                  *)
LEMMA PlanIs ==
  ASSUME NEW r \in Nat, NEW m \in Nat, NEW price \in Nat, NEW stock \in Nat \cup {Nil}
  PROVE  PlannedAt(Resolvers!PlanOf(r, m, price, stock), IF m > r THEN m ELSE r, price, stock)
<1> DEFINE bought == IF m > r THEN m ELSE r
           plan == Resolvers!PlanOf(r, m, price, stock)
           record == [purchased |-> bought, price |-> bought * price, verified |-> stock # Nil]
<1>1. plan = IF stock # Nil /\ stock < bought THEN Nil ELSE record
  BY DEF Resolvers!PlanOf
<1>2. bought \in Nat /\ bought * price \in Nat
  OBVIOUS
<1>3. record \in Resolvers!Plan
  BY <1>2 DEF Resolvers!Plan
<1>4. record # Nil
  BY <1>3, AlgorithmsAssumption
<1>5. /\ record.purchased = bought /\ record.price = bought * price
      /\ record.verified <=> stock # Nil
  OBVIOUS
<1> HIDE DEF bought, plan, record
<1> QED
  BY <1>1, <1>2, <1>4, <1>5 DEF bought, plan, PlannedAt

(* The question is Mouser's or Farnell's.                                  *)
Searching ==
  /\ question.provider \in {"mouser", "farnell"}
  /\ question.required \in Nat \ {0}
  /\ IsFiniteSet(question.exact) /\ IsFiniteSet(question.broad)
  /\ question.exact \cup question.broad \subseteq Resolvers!Article

(* What the adapter reads of an article.                                   *)
Article(p) ==
  /\ p.number \in {"same", "related", "other"} /\ p.maker \in BOOLEAN /\ p.kit \in BOOLEAN
  /\ p.sku \in Nat /\ p.stock \in Nat \cup {Nil} /\ p.price \in Nat \cup {Nil, Bad}
  /\ p.minimum \in Nat

(* Every article is one that an adapter can read.                          *)
LEMMA ArticleIs == ASSUME NEW p \in Resolvers!Article PROVE Article(p)
BY DEF Article, Resolvers!Article

(* The conclusions from an article.                                        *)
CatalogueStatuses == {"priced", "review", "shortage", "stock_unknown", "unavailable"}

(* The article can be bought as the search found it.                       *)
Priced(p, exact) ==
  LET status == Resolvers!CatalogueStatus(p, exact)
      offer == Resolvers!CatalogueOffer(p, exact)
      needed == Resolvers!Needed(p.minimum)
  IN /\ status = IF exact THEN "priced" ELSE "review"
     /\ p.sku # 0 /\ p.price \in Nat /\ p.stock \in Nat /\ p.stock # Nil /\ p.stock >= needed
     /\ offer.plan # Nil /\ offer.plan.purchased = needed
     /\ offer.plan.price = needed * p.price
     /\ offer.plan.price \in Nat

(* What each conclusion from an article says of it.                        *)
LEMMA CatalogueCases ==
  ASSUME Searching, NEW p, Article(p), NEW exact \in BOOLEAN
  PROVE  LET status == Resolvers!CatalogueStatus(p, exact)
             offer == Resolvers!CatalogueOffer(p, exact)
             needed == Resolvers!Needed(p.minimum)
         IN /\ status \in CatalogueStatuses
            /\ offer.sku = p.sku /\ offer.stock = p.stock
            /\ offer.review <=> ~exact
            /\ offer.selected = IF status = "priced" THEN offer.plan ELSE Nil
            /\ status \in {"priced", "review"} => Priced(p, exact)
            /\ status = "shortage" => p.stock # Nil /\ p.stock < needed
            /\ status = "stock_unknown" => p.stock = Nil
            /\ offer.plan # Nil => offer.plan.price \in Nat /\ offer.plan \in Resolvers!Plan
            /\ /\ p.sku # 0 /\ p.price \notin {Nil, Bad} /\ p.stock # Nil
               /\ p.stock >= p.minimum /\ p.stock >= question.required
               => status = IF exact THEN "priced" ELSE "review"
<1> DEFINE status == Resolvers!CatalogueStatus(p, exact)
           offer == Resolvers!CatalogueOffer(p, exact)
           needed == Resolvers!Needed(p.minimum)
           plan == Resolvers!CataloguePlan(p)
           retired == Resolvers!RetiredWithoutStock(p)
           priceable == Resolvers!Priceable(p)
           orderable == p.sku # 0 /\ ~retired
<1>1. /\ p.sku \in Nat /\ p.stock \in Nat \cup {Nil} /\ p.price \in Nat \cup {Nil, Bad}
      /\ p.minimum \in Nat /\ question.required \in Nat \ {0}
  BY DEF Article, Searching
<1>2. needed \in Nat \ {0} /\ needed = IF p.minimum > question.required THEN p.minimum ELSE question.required
  BY <1>1 DEF Resolvers!Needed
<1>3. priceable <=> p.price \notin {Nil, Bad}
  BY DEF Resolvers!Priceable
<1>4. retired => p.stock \in {Nil, 0}
  BY DEF Resolvers!RetiredWithoutStock
<1>5. plan = IF priceable THEN Resolvers!PlanOf(question.required, p.minimum, p.price, p.stock) ELSE Nil
  BY DEF Resolvers!CataloguePlan
<1>6. /\ offer.sku = p.sku /\ offer.stock = p.stock /\ (offer.review <=> ~exact)
      /\ offer.plan = IF orderable THEN plan ELSE Nil
      /\ offer.selected = IF status = "priced" THEN offer.plan ELSE Nil
  BY DEF Resolvers!CatalogueOffer, Resolvers!Offer
<1>7. LET blocked == p.sku = 0 \/ retired \/ ~priceable
      IN /\ blocked => status = "unavailable"
         /\ ~blocked /\ plan = Nil => status = IF p.stock # Nil THEN "shortage" ELSE "unavailable"
         /\ ~blocked /\ plan # Nil /\ ~plan.verified => status = "stock_unknown"
         /\ ~blocked /\ plan # Nil /\ plan.verified => status = IF exact THEN "priced" ELSE "review"
  BY CatalogueStatusIs
<1>8. priceable => PlannedAt(plan, needed, p.price, p.stock)
  <2> SUFFICES ASSUME priceable PROVE PlannedAt(plan, needed, p.price, p.stock)
    OBVIOUS
  <2>1. /\ question.required \in Nat /\ p.minimum \in Nat /\ p.price \in Nat
        /\ p.stock \in Nat \cup {Nil}
    BY <1>1, <1>3
  <2>2. plan = Resolvers!PlanOf(question.required, p.minimum, p.price, p.stock)
    BY <1>5
  <2> HIDE DEF plan, needed, priceable
  <2> QED
    BY <1>2, <2>1, <2>2, PlanIs
<1>9. plan # Nil => plan \in Resolvers!Plan
  <2>1. CASE priceable
    BY <1>1, <1>3, <1>5, <2>1 DEF Resolvers!PlanOf, Resolvers!Plan
  <2>2. CASE ~priceable
    BY <1>5, <2>2
  <2> QED
    BY <2>1, <2>2
<1> HIDE DEF status, offer, needed, plan, retired, priceable
<1> USE DEF PlannedAt
<1>10. status \in {"priced", "review"} =>
         /\ status = IF exact THEN "priced" ELSE "review"
         /\ p.sku # 0 /\ p.price \in Nat /\ p.stock \in Nat /\ p.stock # Nil /\ p.stock >= needed
         /\ offer.plan # Nil /\ offer.plan.purchased = needed
         /\ offer.plan.price = needed * p.price
         /\ offer.plan.price \in Nat
  BY <1>1, <1>2, <1>3, <1>6, <1>7, <1>8
<1>11. status \in {"priced", "review"} => Priced(p, exact)
  BY <1>10 DEF Priced, status, offer, needed
<1>12. status \in CatalogueStatuses
  BY <1>7 DEF CatalogueStatuses
<1>13. status = "shortage" => p.stock # Nil /\ p.stock < needed
  BY <1>1, <1>7, <1>8
<1>14. status = "stock_unknown" => p.stock = Nil
  BY <1>7, <1>8
<1>15. offer.plan # Nil => offer.plan.price \in Nat /\ offer.plan \in Resolvers!Plan
  <2>1. CASE priceable
    BY <1>6, <1>8, <1>9, <2>1
  <2>2. CASE ~priceable
    BY <1>5, <1>6, <2>2
  <2> QED
    BY <2>1, <2>2
<1>16. /\ p.sku # 0 /\ p.price \notin {Nil, Bad} /\ p.stock # Nil
       /\ p.stock >= p.minimum /\ p.stock >= question.required
       => status = IF exact THEN "priced" ELSE "review"
  BY <1>1, <1>2, <1>3, <1>4, <1>7, <1>8
<1> QED
  BY <1>6, <1>11, <1>12, <1>13, <1>14, <1>15, <1>16 DEF status, offer, needed

(* The criteria of an article are numbers.                                 *)
LEMMA KeyIs ==
  ASSUME Searching, NEW p, Article(p), NEW exact \in BOOLEAN
  PROVE  LET key == Resolvers!CandidateKey(p, exact)
             plan == Resolvers!CatalogueOffer(p, exact).plan
         IN /\ DOMAIN key = 1 .. 5
            /\ \A i \in 1 .. 5 : key[i] \in Int
            /\ key[1] = Resolvers!StatusRank(Resolvers!CatalogueStatus(p, exact))
            /\ key[2] = IF plan = Nil THEN 0 ELSE plan.price
<1> DEFINE plan == Resolvers!CatalogueOffer(p, exact).plan
           rank == Resolvers!StatusRank(Resolvers!CatalogueStatus(p, exact))
           key == Resolvers!CandidateKey(p, exact)
           made == <<rank, IF plan = Nil THEN 0 ELSE plan.price,
                     IF p.stock = Nil THEN 1 ELSE 0, IF p.stock = Nil THEN 0 ELSE -p.stock, p.sku>>
<1>1. key = made
  BY DEF Resolvers!CandidateKey
<1>2. rank \in Int
  BY CatalogueCases DEF Resolvers!StatusRank, CatalogueStatuses
<1>3. plan # Nil => plan.price \in Nat
  BY CatalogueCases
<1>4. p.stock \in Nat \cup {Nil} /\ p.sku \in Nat
  BY DEF Article
<1> HIDE DEF plan, rank
<1>5. DOMAIN made = 1 .. 5
  OBVIOUS
<1>6. /\ made[1] = rank /\ made[2] = IF plan = Nil THEN 0 ELSE plan.price
      /\ made[3] = IF p.stock = Nil THEN 1 ELSE 0
      /\ made[4] = IF p.stock = Nil THEN 0 ELSE -p.stock
      /\ made[5] = p.sku
  OBVIOUS
<1> HIDE DEF made, key
<1>7. made[1] \in Int /\ made[2] \in Int /\ made[3] \in Int /\ made[4] \in Int /\ made[5] \in Int
  BY <1>2, <1>3, <1>4, <1>6
<1>8. \A i \in 1 .. 5 : made[i] \in Int
  <2>1. \A i \in 1 .. 5 : i = 1 \/ i = 2 \/ i = 3 \/ i = 4 \/ i = 5
    OBVIOUS
  <2> QED
    BY <1>7, <2>1
<1> QED
  BY <1>1, <1>5, <1>6, <1>8 DEF plan, rank, key

(* p is a first of S by the criteria.                                      *)
IsFirst(S, p, exact) ==
  /\ p \in S
  /\ \A y \in S : ~Resolvers!Precedes(Resolvers!CandidateKey(y, exact), Resolvers!CandidateKey(p, exact))

(* sourceCandidates chooses a first article.                               *)
LEMMA SelectedIsFirst ==
  ASSUME Searching, NEW S, IsFiniteSet(S), S # {}, \A p \in S : Article(p), NEW exact \in BOOLEAN
  PROVE  IsFirst(S, Resolvers!Selected(S, exact), exact)
<1> DEFINE key == [p \in S |-> Resolvers!CandidateKey(p, exact)]
<1>1. \A x \in S : key[x] = Resolvers!CandidateKey(x, exact)
  OBVIOUS
<1>2. \A x \in S : DOMAIN key[x] = 1 .. 5 /\ \A i \in 1 .. 5 : key[x][i] \in Int
  BY KeyIs
<1> HIDE DEF key
<1>3. PICK x \in S : \A y \in S : ~Before(key[y], key[x], 5)
  BY <1>2, FirstExists
<1>4. \A y \in S : ~Resolvers!Precedes(key[y], key[x])
  <2> SUFFICES ASSUME NEW y \in S, Resolvers!Precedes(key[y], key[x]) PROVE FALSE
    OBVIOUS
  <2>1. DOMAIN key[y] = 1 .. 5
    BY <1>2
  <2>2. Before(key[y], key[x], 5)
    BY <2>1 DEF Resolvers!Precedes, Before
  <2> QED
    BY <1>3, <2>2
<1>5. IsFirst(S, x, exact)
  BY <1>1, <1>4 DEF IsFirst
<1> DEFINE F == {p \in S : \A y \in S :
                   ~Resolvers!Precedes(Resolvers!CandidateKey(y, exact), Resolvers!CandidateKey(p, exact))}
<1>6. x \in F /\ \A p \in F : IsFirst(S, p, exact)
  BY <1>5 DEF IsFirst
<1>7. Resolvers!Selected(S, exact) = CHOOSE p \in F : TRUE
  BY DEF Resolvers!Selected, Resolvers!Firsts
<1> HIDE DEF F
<1> QED
  BY <1>6, <1>7

(* A first article can be bought if one can, and is no dearer.             *)
LEMMA FirstIsBest ==
  ASSUME Searching, NEW S, \A p \in S : Article(p), NEW exact \in BOOLEAN,
         NEW p, IsFirst(S, p, exact), NEW y \in S, Priced(y, exact)
  PROVE  /\ Priced(p, exact)
         /\ Resolvers!CatalogueOffer(p, exact).plan.price
              <= Resolvers!CatalogueOffer(y, exact).plan.price
<1> DEFINE kp == Resolvers!CandidateKey(p, exact)
           ky == Resolvers!CandidateKey(y, exact)
           sp == Resolvers!CatalogueStatus(p, exact)
           sy == Resolvers!CatalogueStatus(y, exact)
           pp == Resolvers!CatalogueOffer(p, exact).plan
           py == Resolvers!CatalogueOffer(y, exact).plan
<1>1. p \in S /\ Article(p) /\ Article(y) /\ ~Resolvers!Precedes(ky, kp)
  BY DEF IsFirst
<1>2. /\ DOMAIN ky = 1 .. 5 /\ kp[1] \in Int /\ ky[1] \in Int /\ kp[2] \in Int /\ ky[2] \in Int
      /\ kp[1] = Resolvers!StatusRank(sp) /\ ky[1] = Resolvers!StatusRank(sy)
      /\ kp[2] = IF pp = Nil THEN 0 ELSE pp.price
      /\ ky[2] = IF py = Nil THEN 0 ELSE py.price
  BY <1>1, KeyIs
<1>3. /\ sp \in CatalogueStatuses /\ (sp \in {"priced", "review"} => Priced(p, exact))
  BY <1>1, CatalogueCases
<1>4. sy = (IF exact THEN "priced" ELSE "review") /\ py # Nil
  BY DEF Priced
<1>5. sp \in {"priced", "review"} => sp = (IF exact THEN "priced" ELSE "review") /\ pp # Nil
  BY <1>3 DEF Priced
<1> HIDE DEF kp, ky, sp, sy, pp, py
<1>6. kp[1] <= ky[1]
  <2>1. 1 \in DOMAIN ky /\ 1 .. 1 - 1 = {}
    BY <1>2
  <2>2. ~(ky[1] < kp[1])
    BY <1>1, <2>1 DEF Resolvers!Precedes
  <2> QED
    BY <1>2, <2>2
<1>7. sp \in {"priced", "review"}
  BY <1>2, <1>3, <1>4, <1>6 DEF Resolvers!StatusRank, CatalogueStatuses
<1>8. kp[1] = ky[1]
  BY <1>2, <1>4, <1>5, <1>7
<1>9. kp[2] <= ky[2]
  <2>1. 2 \in DOMAIN ky /\ \A j \in 1 .. 2 - 1 : j = 1
    BY <1>2
  <2>2. ~(ky[2] < kp[2])
    BY <1>1, <1>8, <2>1 DEF Resolvers!Precedes
  <2> QED
    BY <1>2, <2>2
<1> QED
  BY <1>2, <1>3, <1>4, <1>5, <1>7, <1>9 DEF pp, py

-----------------------------------------------------------------------------
(* What an answer has to be.                                               *)

(* PricedOnlyWhenSafe, of any answer.                                      *)
Safe(a) ==
  /\ a.status = "priced" <=> (a.offer # Nil /\ a.offer.selected # Nil)
  /\ a.status = "priced" =>
       /\ question.provider # "microchip"
       /\ ~a.offer.review
       /\ Resolvers!Allowed(a.offer)

(* UnknownIsNotShortage, of any answer.                                    *)
Known(a) ==
  a.offer # Nil =>
    /\ a.status = "shortage" =>
         \/ Resolvers!Searched /\ \E p \in question.exact \cup question.broad :
              p.sku = a.offer.sku /\ p.stock # Nil /\ p.stock < Resolvers!Needed(p.minimum)
         \/ question.provider = "ti" /\ \E n \in {question.stock, question.limit} :
              n # Nil /\ n < Resolvers!Needed(question.minimum)
         \/ question.provider = "digikey" /\ \E i \in DOMAIN a.offer.sku :
              /\ a.offer.sku[i].sku \in DOMAIN question.reported
              /\ question.reported[a.offer.sku[i].sku] < a.offer.plan.purchased
         \/ question.provider = "microchip" /\ a.offer.stock # Nil
              /\ a.offer.stock < question.required
    /\ a.status = "stock_unknown" => a.offer.stock = Nil
    /\ Resolvers!Searched /\ a.status = "review" =>
         a.offer.stock # Nil /\ a.offer.plan.purchased <= a.offer.stock

(* NothingBetterIsPassedOver, of an answer of Mouser or Farnell,           *)
BestOfSearch(a) ==
  LET exact == {p \in Resolvers!Buyable(question.exact) : p.number = "same"}
      loose == {p \in Resolvers!Buyable(question.broad) : p.number # "other"}
  IN /\ exact # {} =>
          /\ a.status = "priced"
          /\ \A p \in exact : a.offer.selected.price <= Resolvers!BoughtAt(p)
     /\ a.asked = 2 /\ loose # {} =>
          /\ a.status = "review"
          /\ \A p \in loose : a.offer.plan.price <= Resolvers!BoughtAt(p)
     /\ a.status = "not_found" =>
          /\ \A p \in question.exact : p.number # "same" \/ ~p.maker \/ p.kit
          /\ \A p \in question.broad : p.number = "other" \/ ~p.maker \/ p.kit

(* of one of DigiKey,                                                      *)
BestOption(a) ==
  a.offer # Nil =>
    \A i \in DOMAIN question.options :
      LET o == question.options[i]
      IN Resolvers!Complete(o) /\ (\A sku \in Resolvers!Skus(o) :
                                     /\ sku \in DOMAIN question.reported
                                     /\ Resolvers!Bought(o, sku) <= question.reported[sku]) =>
           a.offer.plan.verified /\ a.offer.plan.price <= o.price

(* and of any.                                                             *)
Best(a) ==
  a.status # "error" =>
    /\ Resolvers!Searched => BestOfSearch(a)
    /\ question.provider = "digikey" => BestOption(a)
    /\ question.provider = "microchip" /\ a.status = "not_found" =>
         \A i \in DOMAIN question.first : question.first[i].number # "same"

(* The parts of a result.                                                  *)
LEMMA ResultIs ==
  ASSUME NEW status, NEW offer, NEW asked
  PROVE  LET a == Resolvers!Result(status, offer, asked)
         IN a.status = status /\ a.offer = offer /\ a.asked = asked
BY DEF Resolvers!Result

(* An answer without an offer promises nothing.                            *)
LEMMA RefusalIsSafe ==
  ASSUME NEW a, a.offer = Nil, a.status # "priced"
  PROVE  Safe(a) /\ Known(a)
BY DEF Safe, Known

-----------------------------------------------------------------------------
(* Mouser and Farnell: searches.                                           *)

(* What a search may conclude from,                                        *)
FoundBy(S, exact) ==
  /\ S \subseteq question.exact \cup question.broad /\ S # {} /\ IsFiniteSet(S)
  /\ exact => S \subseteq {p \in question.exact : p.number = "same" /\ p.maker /\ ~p.kit}

(* and what it concludes.                                                  *)
Concludes(a, S, exact, asked) ==
  /\ Safe(a) /\ Known(a) /\ a.asked = asked /\ a.status \in CatalogueStatuses
  /\ \A y \in S : Priced(y, exact) =>
       /\ a.status = IF exact THEN "priced" ELSE "review"
       /\ a.offer.plan.price <= Resolvers!CatalogueOffer(y, exact).plan.price
       /\ exact => a.offer.selected = a.offer.plan

(* The conclusion of one search.                                           *)
LEMMA CatalogueOffers ==
  ASSUME Searching, NEW S, NEW exact \in BOOLEAN, FoundBy(S, exact), NEW asked
  PROVE  Concludes(Resolvers!Concluded(S, exact, asked), S, exact, asked)
<1> DEFINE a == Resolvers!Concluded(S, exact, asked)
<1>1. \A p \in S : Article(p)
  BY ArticleIs DEF Searching, FoundBy
<1> DEFINE p == Resolvers!Selected(S, exact)
           offer == Resolvers!CatalogueOffer(p, exact)
           status == Resolvers!CatalogueStatus(p, exact)
           needed == Resolvers!Needed(p.minimum)
<1>2. IsFirst(S, p, exact)
  BY <1>1, SelectedIsFirst DEF FoundBy
<1>3. p \in S /\ Article(p)
  BY <1>1, <1>2 DEF IsFirst
<1>4. a.status = status /\ a.offer = offer /\ a.asked = asked
  BY ResultIs DEF Resolvers!Concluded
<1> HIDE DEF a, p
<1>5. /\ status \in CatalogueStatuses
      /\ offer.sku = p.sku /\ offer.stock = p.stock
      /\ offer.review <=> ~exact
      /\ offer.selected = IF status = "priced" THEN offer.plan ELSE Nil
      /\ status \in {"priced", "review"} => Priced(p, exact)
      /\ status = "shortage" => p.stock # Nil /\ p.stock < needed
      /\ status = "stock_unknown" => p.stock = Nil
      /\ offer.plan # Nil => offer.plan \in Resolvers!Plan
  BY <1>3, CatalogueCases
<1>6. Priced(p, exact) =>
        /\ status = IF exact THEN "priced" ELSE "review"
        /\ p.sku # 0 /\ p.price \in Nat /\ p.stock \in Nat /\ p.stock # Nil /\ p.stock >= needed
        /\ offer.plan # Nil /\ offer.plan.purchased = needed
        /\ offer.plan.price = needed * p.price
        /\ offer.plan.price \in Nat
  BY DEF Priced
<1>7. /\ p.minimum \in Nat /\ question.required \in Nat
      /\ needed = IF p.minimum > question.required THEN p.minimum ELSE question.required
      /\ p \in question.exact \cup question.broad /\ Resolvers!Searched
  BY <1>3 DEF Article, Searching, FoundBy, Resolvers!Needed, Resolvers!Searched
<1>8. offer # Nil
  <2>1. offer \in Resolvers!Offers
    <3>1. p.sku \in Nat /\ p.stock \in Int \cup {Nil}
      BY <1>3 DEF Article
    <3>2. /\ offer.plan \in Resolvers!Plan \cup {Nil}
          /\ offer.selected \in Resolvers!Plan \cup {Nil}
      BY <1>5
    <3>3. offer = [sku |-> offer.sku, review |-> offer.review, stock |-> offer.stock,
                   plan |-> offer.plan, selected |-> offer.selected]
      BY DEF Resolvers!CatalogueOffer, Resolvers!Offer
    <3>4. offer.review \in BOOLEAN
      BY DEF Resolvers!CatalogueOffer, Resolvers!Offer
    <3> HIDE DEF offer
    <3> QED
      BY <1>5, <3>1, <3>2, <3>3, <3>4 DEF Resolvers!Offers
  <2> QED
    BY <2>1, AlgorithmsAssumption
<1>9. ASSUME NEW y \in S, Priced(y, exact)
      PROVE  /\ status = IF exact THEN "priced" ELSE "review"
             /\ offer.plan.price <= Resolvers!CatalogueOffer(y, exact).plan.price
             /\ exact => offer.selected = offer.plan
  <2>1. /\ Priced(p, exact)
        /\ offer.plan.price <= Resolvers!CatalogueOffer(y, exact).plan.price
    BY <1>1, <1>2, <1>9, FirstIsBest
  <2> QED
    BY <1>5, <1>6, <2>1
<1> HIDE DEF offer, status, needed
<1>10. ASSUME status = "priced"
       PROVE  exact /\ Resolvers!Allowed(offer)
  <2>1. exact /\ offer.selected = offer.plan
    BY <1>5, <1>6, <1>10
  <2>2. p \in question.exact /\ p.number = "same" /\ p.maker /\ ~p.kit
    BY <1>3, <2>1 DEF FoundBy
  <2>3. p \in Resolvers!ArticlesOf(offer.sku)
    BY <1>5, <1>6, <1>10, <2>2 DEF Resolvers!ArticlesOf
  <2>4. /\ offer.selected.purchased = needed /\ offer.selected.price = needed * p.price
        /\ p.stock # Nil /\ p.stock >= needed
    BY <1>5, <1>6, <1>10, <2>1
  <2>5. needed >= question.required /\ needed >= p.minimum
    BY <1>7
  <2>6. question.provider # "digikey" /\ question.provider # "ti"
    BY DEF Searching
  <2> QED
    BY <2>1, <2>2, <2>3, <2>4, <2>5, <2>6 DEF Resolvers!Allowed
<1>11. Safe(a)
  <2>1. offer.selected # Nil <=> status = "priced"
    BY <1>5, <1>6
  <2>2. question.provider # "microchip"
    BY DEF Searching
  <2> QED
    BY <1>4, <1>5, <1>8, <1>10, <2>1, <2>2 DEF Safe
<1>12. Known(a)
  <2>1. status = "shortage" =>
          Resolvers!Searched /\ \E x \in question.exact \cup question.broad :
            x.sku = offer.sku /\ x.stock # Nil /\ x.stock < Resolvers!Needed(x.minimum)
    BY <1>5, <1>7 DEF needed
  <2>2. status = "review" => offer.stock # Nil /\ offer.plan.purchased <= offer.stock
    <3>1. ASSUME status = "review"
          PROVE  p.stock \in Nat /\ p.stock # Nil /\ p.stock >= needed /\ offer.plan.purchased = needed
      BY <1>5, <1>6, <3>1
    <3> QED
      BY <1>5, <1>7, <3>1
  <2> QED
    BY <1>4, <1>5, <2>1, <2>2 DEF Known
<1>13. Concludes(a, S, exact, asked)
  BY <1>4, <1>5, <1>9, <1>11, <1>12 DEF Concludes
<1> QED
  BY <1>13 DEF a

(* What can be bought is priced, at what it costs.                         *)
LEMMA BuyableIs ==
  ASSUME Searching, NEW found, found \subseteq question.exact \cup question.broad,
         NEW p \in Resolvers!Buyable(found), NEW exact \in BOOLEAN
  PROVE  Priced(p, exact)
         /\ Resolvers!CatalogueOffer(p, exact).plan.price = Resolvers!BoughtAt(p)
<1>1. p \in found /\ Article(p)
  BY ArticleIs DEF Resolvers!Buyable, Searching
<1>2. /\ p.sku # 0 /\ p.price \notin {Nil, Bad} /\ p.stock # Nil
      /\ p.stock >= p.minimum /\ p.stock >= question.required
  BY DEF Resolvers!Buyable
<1>3. Priced(p, exact)
  BY <1>1, <1>2, CatalogueCases
<1>4. Resolvers!CatalogueOffer(p, exact).plan.price = Resolvers!Needed(p.minimum) * p.price
      /\ p.price \in Nat
  BY <1>3 DEF Priced
<1>5. Resolvers!Needed(p.minimum) \in Nat
  BY <1>1 DEF Resolvers!Needed, Article, Searching
<1> QED
  BY <1>3, <1>4, <1>5 DEF Resolvers!BoughtAt

(* The answers of Mouser and Farnell.                                      *)
LEMMA CatalogueAnswers ==
  ASSUME Searching, NEW a, a = Resolvers!CatalogueLookup
  PROVE  Safe(a) /\ Known(a) /\ Best(a)
<1> DEFINE exact == Resolvers!Candidates(question.exact, TRUE)
           broad == Resolvers!Candidates(question.broad, FALSE)
<1>1. \A p : /\ p \in exact <=> p \in question.exact /\ p.number = "same" /\ p.maker /\ ~p.kit
             /\ p \in broad <=> p \in question.broad /\ p.number \in {"same", "related"} /\ p.maker /\ ~p.kit
  BY DEF Resolvers!Candidates, Resolvers!Eligible, Resolvers!NumberMatches,
         Resolvers!ManufacturersMatch, Resolvers!IsNonComponent
<1>2. /\ exact \in SUBSET question.exact /\ broad \in SUBSET question.broad
      /\ IsFiniteSet(exact) /\ IsFiniteSet(broad)
  <2>1. exact \in SUBSET question.exact /\ broad \in SUBSET question.broad
    BY DEF Resolvers!Candidates
  <2> HIDE DEF exact, broad
  <2> QED
    BY <2>1, PartOfFinite DEF Searching
<1>3. a = IF question.fails = 1 THEN Resolvers!Result("error", Nil, 1)
          ELSE IF exact # {} THEN Resolvers!Concluded(exact, TRUE, 1)
          ELSE IF question.fails = 2 THEN Resolvers!Result("error", Nil, 2)
          ELSE IF broad = {} THEN Resolvers!Result("not_found", Nil, 2)
          ELSE Resolvers!Concluded(broad, FALSE, 2)
  BY DEF Resolvers!CatalogueLookup
<1>4. \A p \in Resolvers!Buyable(question.exact) : p.number = "same" => p \in exact
  BY <1>1 DEF Resolvers!Buyable
<1>5. \A p \in Resolvers!Buyable(question.broad) : p.number # "other" => p \in broad
  BY <1>1 DEF Resolvers!Buyable, Searching, Resolvers!Article
<1>6. question.provider # "digikey" /\ question.provider # "microchip"
  BY DEF Searching
<1> HIDE DEF exact, broad
<1>7. ASSUME NEW asked, a = Resolvers!Result("error", Nil, asked)
      PROVE  Safe(a) /\ Known(a) /\ Best(a)
  BY <1>7, ResultIs, RefusalIsSafe DEF Best
<1>8. CASE exact # {} /\ a = Resolvers!Concluded(exact, TRUE, 1)
  <2>1. /\ Safe(a) /\ Known(a) /\ a.asked = 1 /\ a.status \in CatalogueStatuses
        /\ \A y \in exact : Priced(y, TRUE) =>
             /\ a.status = "priced"
             /\ a.offer.plan.price <= Resolvers!CatalogueOffer(y, TRUE).plan.price
             /\ a.offer.selected = a.offer.plan
    <3>1. FoundBy(exact, TRUE)
      BY <1>1, <1>2, <1>8 DEF FoundBy
    <3>2. Concludes(a, exact, TRUE, 1)
      BY <1>8, <3>1, CatalogueOffers
    <3> QED
      BY <3>2 DEF Concludes
  <2>2. \A p \in Resolvers!Buyable(question.exact) : p.number = "same" =>
          a.status = "priced" /\ a.offer.selected.price <= Resolvers!BoughtAt(p)
    <3> SUFFICES ASSUME NEW p \in Resolvers!Buyable(question.exact), p.number = "same"
                 PROVE  a.status = "priced" /\ a.offer.selected.price <= Resolvers!BoughtAt(p)
      OBVIOUS
    <3>1. question.exact \subseteq question.exact \cup question.broad /\ TRUE \in BOOLEAN
      OBVIOUS
    <3>2. /\ Priced(p, TRUE)
          /\ Resolvers!CatalogueOffer(p, TRUE).plan.price = Resolvers!BoughtAt(p)
      BY <3>1, BuyableIs
    <3>3. p \in exact
      BY <1>4
    <3> QED
      BY <2>1, <3>2, <3>3
  <2>3. a.status # "not_found"
    BY <2>1 DEF CatalogueStatuses
  <2> QED
    BY <1>6, <2>1, <2>2, <2>3 DEF Best, BestOfSearch
<1>9. CASE exact = {} /\ broad = {} /\ a = Resolvers!Result("not_found", Nil, 2)
  <2>1. a.status = "not_found" /\ a.offer = Nil
    BY <1>9, ResultIs
  <2>2. /\ \A p \in question.exact : p.number # "same" \/ ~p.maker \/ p.kit
        /\ \A p \in question.broad : p.number = "other" \/ ~p.maker \/ p.kit
    BY <1>1, <1>9 DEF Searching, Resolvers!Article
  <2>3. /\ \A p \in Resolvers!Buyable(question.exact) : p.number # "same"
        /\ \A p \in Resolvers!Buyable(question.broad) : p.number = "other"
    BY <1>4, <1>5, <1>9
  <2> QED
    BY <1>6, <2>1, <2>2, <2>3, RefusalIsSafe DEF Best, BestOfSearch
<1>10. CASE exact = {} /\ broad # {} /\ a = Resolvers!Concluded(broad, FALSE, 2)
  <2>1. /\ Safe(a) /\ Known(a) /\ a.asked = 2 /\ a.status \in CatalogueStatuses
        /\ \A y \in broad : Priced(y, FALSE) =>
             /\ a.status = "review"
             /\ a.offer.plan.price <= Resolvers!CatalogueOffer(y, FALSE).plan.price
    <3>1. FoundBy(broad, FALSE)
      BY <1>1, <1>2, <1>10 DEF FoundBy
    <3>2. Concludes(a, broad, FALSE, 2)
      BY <1>10, <3>1, CatalogueOffers
    <3> QED
      BY <3>2 DEF Concludes
  <2>2. \A p \in Resolvers!Buyable(question.broad) : p.number # "other" =>
          a.status = "review" /\ a.offer.plan.price <= Resolvers!BoughtAt(p)
    <3> SUFFICES ASSUME NEW p \in Resolvers!Buyable(question.broad), p.number # "other"
                 PROVE  a.status = "review" /\ a.offer.plan.price <= Resolvers!BoughtAt(p)
      OBVIOUS
    <3>1. question.broad \subseteq question.exact \cup question.broad /\ FALSE \in BOOLEAN
      OBVIOUS
    <3>2. /\ Priced(p, FALSE)
          /\ Resolvers!CatalogueOffer(p, FALSE).plan.price = Resolvers!BoughtAt(p)
      BY <3>1, BuyableIs
    <3>3. p \in broad
      BY <1>5
    <3> QED
      BY <2>1, <3>2, <3>3
  <2>3. a.status # "not_found"
    BY <2>1 DEF CatalogueStatuses
  <2>4. \A p \in Resolvers!Buyable(question.exact) : p.number # "same"
    BY <1>4, <1>10
  <2> QED
    BY <1>6, <2>1, <2>2, <2>3, <2>4 DEF Best, BestOfSearch
<1> QED
  BY <1>3, <1>7, <1>8, <1>9, <1>10

-----------------------------------------------------------------------------
(* TI.                                                                     *)

(* TI's store: the obstacles in order.                                     *)
LEMMA StoreStatusIs ==
  ASSUME NEW q
  PROVE  LET plan == Resolvers!StorePlan(q)
             status == Resolvers!StoreStatus(q)
             unpriced == ~q.schedule \/ q.price = Nil
             over == Resolvers!OverLimit(q)
         IN /\ unpriced => status = "unavailable"
            /\ ~unpriced /\ over => status = "shortage"
            /\ ~unpriced /\ ~over /\ q.price = Bad => status = "unavailable"
            /\ ~unpriced /\ ~over /\ q.price # Bad =>
                 status = IF plan = Nil THEN "shortage"
                          ELSE IF q.number # "same" \/ q.lifecycle = "retired" THEN "review"
                          ELSE IF ~plan.verified THEN "stock_unknown" ELSE "priced"
<1> DEFINE plan == Resolvers!StorePlan(q)
           status == Resolvers!StoreStatus(q)
           unpriced == ~q.schedule \/ q.price = Nil
           over == Resolvers!OverLimit(q)
           cases == << <<unpriced, "unavailable">>,
                       <<over, "shortage">>,
                       <<q.price = Bad, "unavailable">>,
                       <<plan = Nil, "shortage">>,
                       <<q.number # "same" \/ q.lifecycle = "retired", "review">>,
                       <<plan # Nil => ~plan.verified, "stock_unknown">>,
                       <<TRUE, "priced">> >>
<1>1. status = Resolvers!FirstThat(cases)
  BY DEF Resolvers!StoreStatus
<1>2. DOMAIN cases = 1 .. 7
  OBVIOUS
<1>3. /\ cases[1][1] <=> unpriced
      /\ cases[2][1] <=> over
      /\ cases[3][1] <=> q.price = Bad
      /\ cases[4][1] <=> plan = Nil
      /\ cases[5][1] <=> (q.number # "same" \/ q.lifecycle = "retired")
      /\ cases[6][1] <=> (plan # Nil => ~plan.verified)
      /\ cases[7][1]
  OBVIOUS
<1>4. /\ cases[1][2] = "unavailable" /\ cases[2][2] = "shortage" /\ cases[3][2] = "unavailable"
      /\ cases[4][2] = "shortage" /\ cases[5][2] = "review" /\ cases[6][2] = "stock_unknown"
      /\ cases[7][2] = "priced"
  OBVIOUS
<1> HIDE DEF plan, status, unpriced, over, cases
<1>5. \A k \in 1 .. 7 : cases[k][1] /\ (\A i \in 1 .. k - 1 : ~cases[i][1]) => status = cases[k][2]
  BY <1>1, <1>2, FirstThatIs
<1> QED
  BY <1>3, <1>4, <1>5 DEF plan, status, unpriced, over

(* The question is TI's.                                                   *)
StoreQuestion ==
  /\ question.provider = "ti"
  /\ question.required \in Nat \ {0}
  /\ question.price \in Nat \cup {Nil, Bad} /\ question.minimum \in Nat
  /\ question.stock \in Nat \cup {Nil} /\ question.limit \in Nat \cup {Nil}
  /\ question.lifecycle \in {"active", "retired"}

(* The answers of TI's store.                                              *)
LEMMA StoreAnswers ==
  ASSUME StoreQuestion, Resolvers!SupportsManufacturer,
         NEW a, a = Resolvers!Result(Resolvers!StoreStatus(question), Resolvers!StoreOffer(question), 1)
  PROVE  Safe(a) /\ Known(a)
<1> DEFINE q == question
           plan == Resolvers!StorePlan(q)
           status == Resolvers!StoreStatus(q)
           offer == Resolvers!StoreOffer(q)
           stock == Resolvers!StoreStock(q)
           over == Resolvers!OverLimit(q)
           unpriced == ~q.schedule \/ q.price = Nil
           needed == Resolvers!Needed(q.minimum)
<1>1. a.status = status /\ a.offer = offer
  BY ResultIs
<1>2. /\ q.provider = "ti" /\ q.required \in Nat \ {0} /\ q.price \in Nat \cup {Nil, Bad}
      /\ q.minimum \in Nat /\ q.stock \in Nat \cup {Nil} /\ q.limit \in Nat \cup {Nil}
      /\ q.lifecycle \in {"active", "retired"} /\ q.maker
  BY DEF StoreQuestion, Resolvers!SupportsManufacturer
<1>3. /\ unpriced => status = "unavailable"
      /\ ~unpriced /\ over => status = "shortage"
      /\ ~unpriced /\ ~over /\ q.price = Bad => status = "unavailable"
      /\ ~unpriced /\ ~over /\ q.price # Bad =>
           status = IF plan = Nil THEN "shortage"
                    ELSE IF q.number # "same" \/ q.lifecycle = "retired" THEN "review"
                    ELSE IF ~plan.verified THEN "stock_unknown" ELSE "priced"
  BY StoreStatusIs
<1>4. over <=> q.limit # Nil /\ q.required > q.limit
  BY DEF Resolvers!OverLimit
<1>5. stock = IF q.stock # Nil /\ q.limit # Nil /\ q.limit < q.stock THEN q.limit ELSE q.stock
  BY DEF Resolvers!StoreStock
<1>6. plan = IF ~unpriced /\ ~over /\ q.price # Bad
               THEN Resolvers!PlanOf(q.required, q.minimum, q.price, stock) ELSE Nil
  BY DEF Resolvers!StorePlan, Resolvers!Planned
<1>7. /\ offer.sku = 1 /\ offer.stock = q.stock /\ offer.plan = plan
      /\ offer.review <=> (q.number # "same" \/ status = "review")
      /\ offer.selected = IF status = "priced" THEN plan ELSE Nil
      /\ offer = [sku |-> 1, review |-> offer.review, stock |-> q.stock, plan |-> plan,
                  selected |-> offer.selected]
      /\ offer.review \in BOOLEAN
  BY DEF Resolvers!StoreOffer, Resolvers!Offer
<1>8. needed = IF q.minimum > q.required THEN q.minimum ELSE q.required
  BY DEF Resolvers!Needed
<1> HIDE DEF q, plan, status, offer, stock, over, unpriced, needed
<1>9. stock \in Nat \cup {Nil}
  BY <1>2, <1>5
<1>10. ~unpriced /\ ~over /\ q.price # Bad => PlannedAt(plan, needed, q.price, stock)
  <2> SUFFICES ASSUME ~unpriced, ~over, q.price # Bad PROVE PlannedAt(plan, needed, q.price, stock)
    OBVIOUS
  <2>1. q.price \in Nat /\ q.required \in Nat
    BY <1>2 DEF unpriced
  <2> QED
    BY <1>2, <1>6, <1>8, <1>9, <2>1, PlanIs
<1>11. plan \in Resolvers!Plan \cup {Nil}
  <2>1. CASE ~unpriced /\ ~over /\ q.price # Bad
    <3>1. q.price \in Nat
      BY <1>2, <2>1 DEF unpriced
    <3> QED
      BY <1>2, <1>6, <1>9, <2>1, <3>1 DEF Resolvers!PlanOf, Resolvers!Plan
  <2>2. CASE ~(~unpriced /\ ~over /\ q.price # Bad)
    BY <1>6, <2>2
  <2> QED
    BY <2>1, <2>2
<1>12. offer # Nil
  <2>1. offer.selected \in Resolvers!Plan \cup {Nil}
    BY <1>7, <1>11
  <2>2. offer \in Resolvers!Offers
    BY <1>2, <1>7, <1>11, <2>1 DEF Resolvers!Offers
  <2> QED
    BY <2>2, AlgorithmsAssumption
<1> USE DEF PlannedAt
<1>13. ASSUME status = "priced"
       PROVE  /\ plan # Nil /\ offer.selected = plan /\ q.number = "same" /\ q.lifecycle = "active"
              /\ plan.purchased = needed /\ stock # Nil /\ stock >= needed
  <2>1. ~unpriced /\ ~over /\ q.price # Bad
    BY <1>3, <1>13
  <2>2. /\ plan # Nil /\ q.number = "same" /\ q.lifecycle # "retired" /\ plan.verified
    BY <1>3, <1>13, <2>1
  <2>3. plan.purchased = needed /\ stock # Nil
    BY <1>10, <2>1, <2>2
  <2>4. ~(stock < needed)
    BY <1>10, <2>1, <2>2, <2>3
  <2> QED
    BY <1>2, <1>7, <1>8, <1>9, <1>13, <2>2, <2>3, <2>4
<1>14. ASSUME status = "priced" PROVE Resolvers!Allowed(offer)
  <2>1. /\ offer.selected.purchased = needed /\ needed >= q.required
    BY <1>2, <1>8, <1>13, <1>14
  <2>2. q.stock # Nil /\ q.stock >= needed /\ (q.limit # Nil => q.limit >= needed)
    BY <1>2, <1>5, <1>8, <1>13, <1>14
  <2>3. ~Resolvers!Searched /\ q.provider # "digikey"
    BY <1>2 DEF Resolvers!Searched, q
  <2> QED
    BY <1>2, <1>13, <1>14, <2>1, <2>2, <2>3 DEF Resolvers!Allowed, q
<1>15. Safe(a)
  <2>1. offer.selected # Nil <=> status = "priced"
    BY <1>7, <1>13
  <2>2. status = "priced" => ~offer.review
    BY <1>7, <1>13
  <2>3. question.provider # "microchip"
    BY <1>2 DEF q
  <2> QED
    BY <1>1, <1>12, <1>14, <2>1, <2>2, <2>3 DEF Safe
<1>16. ASSUME status = "shortage"
       PROVE  \E n \in {q.stock, q.limit} : n # Nil /\ n < needed
  <2>1. CASE over
    BY <1>2, <1>4, <1>8, <2>1
  <2>2. CASE ~over
    <3>1. ~unpriced /\ q.price # Bad /\ plan = Nil
      BY <1>3, <1>16, <2>2
    <3>2. stock # Nil /\ stock < needed
      BY <1>10, <2>2, <3>1
    <3> QED
      BY <1>5, <3>2
  <2> QED
    BY <2>1, <2>2
<1>17. ASSUME status = "stock_unknown" PROVE q.stock = Nil
  <2>1. ~unpriced /\ ~over /\ q.price # Bad /\ plan # Nil /\ ~plan.verified
    BY <1>3, <1>17
  <2>2. stock = Nil
    BY <1>10, <2>1
  <2> QED
    BY <1>5, <2>2
<1>18. Known(a)
  <2>1. ~Resolvers!Searched
    BY <1>2 DEF Resolvers!Searched, q
  <2> QED
    BY <1>1, <1>2, <1>7, <1>16, <1>17, <2>1 DEF Known, q, needed
<1> QED
  BY <1>15, <1>18

(* The answers of TI.                                                      *)
LEMMA TIAnswers ==
  ASSUME question \in LookupQuestions, Resolvers!TILookup
  PROVE  Safe(answer') /\ Known(answer') /\ Best(answer')
<1> DEFINE fails == question.fails
<1>1. /\ question.provider = "ti" /\ StoreQuestion
      /\ fails # "none" => fails \in {"error", "not_found"}
  BY AlgorithmsAssumption DEF Resolvers!TILookup, Resolvers!IsQuestion, StoreQuestion
<1> DEFINE own == Resolvers!SupportsManufacturer
           stored == Resolvers!Result(Resolvers!StoreStatus(question), Resolvers!StoreOffer(question), 1)
<1>2. /\ ~own => answer' = Resolvers!Result("not_applicable", Nil, 0)
      /\ own /\ fails # "none" => answer' = Resolvers!Result(fails, Nil, 1)
      /\ own /\ ~(fails # "none") /\ ~Resolvers!Related(question) => answer' = Resolvers!Result("not_found", Nil, 1)
      /\ own /\ ~(fails # "none") /\ Resolvers!Related(question) => answer' = stored
  <2> DEFINE v1 == Resolvers!Result("not_applicable", Nil, 0)
             v2 == Resolvers!Result(fails, Nil, 1)
             v3 == Resolvers!Result("not_found", Nil, 1)
             related == Resolvers!Related(question)
             cases == << <<~own, v1>>, <<fails # "none", v2>>, <<~related, v3>>, <<TRUE, stored>> >>
  <2>1. answer' = Resolvers!FirstThat(cases)
    BY DEF Resolvers!TILookup
  <2> HIDE DEF v1, v2, v3, stored
  <2>2. DOMAIN cases = 1 .. 4
    OBVIOUS
  <2>4. /\ cases[1][1] <=> ~own
        /\ cases[2][1] <=> (fails # "none")
        /\ cases[3][1] <=> ~related
        /\ cases[4][1]
    OBVIOUS
  <2>5. cases[1][2] = v1 /\ cases[2][2] = v2 /\ cases[3][2] = v3 /\ cases[4][2] = stored
    OBVIOUS
  <2> HIDE DEF cases
  <2>3. /\ ~own => answer' = v1
        /\ own /\ fails # "none" => answer' = v2
        /\ own /\ ~(fails # "none") /\ ~related => answer' = v3
        /\ own /\ ~(fails # "none") /\ related => answer' = stored
    BY <2>1, <2>2, <2>4, <2>5, FourCases
  <2> QED
    BY <2>3 DEF v1, v2, v3
<1>3. Best(answer')
  <2>1. ~Resolvers!Searched
    BY <1>1 DEF Resolvers!Searched
  <2> QED
    BY <1>1, <2>1 DEF Best
<1>4. ASSUME NEW s \in {"not_applicable", "error", "not_found"}, NEW n, answer' = Resolvers!Result(s, Nil, n)
      PROVE  Safe(answer') /\ Known(answer')
  BY <1>4, ResultIs, RefusalIsSafe
<1>5. CASE ~own
  BY <1>2, <1>3, <1>4, <1>5
<1>6. CASE own /\ fails # "none"
  BY <1>1, <1>2, <1>3, <1>4, <1>6
<1>7. CASE own /\ ~(fails # "none") /\ ~Resolvers!Related(question)
  BY <1>2, <1>3, <1>4, <1>7
<1>8. CASE own /\ answer' = stored
  BY <1>1, <1>3, <1>8, StoreAnswers
<1> QED
  BY <1>2, <1>3, <1>5, <1>6, <1>7, <1>8

-----------------------------------------------------------------------------
(* Microchip.                                                              *)

(* The answers of Microchip.                                               *)
LEMMA MicrochipAnswers ==
  ASSUME question \in LookupQuestions, Resolvers!MicrochipLookup
  PROVE  Safe(answer') /\ Known(answer') /\ Best(answer')
<1> DEFINE again == question.first = <<>> /\ question.fallback
           products == IF again THEN question.second ELSE question.first
           asked == IF again THEN 2 ELSE 1
           p == Resolvers!ExactMatch(products)
           offer == Resolvers!Offer(1, TRUE, p.stock, Nil, Nil)
           status == Resolvers!EvidenceStatus(p)
<1>1. /\ question.provider = "microchip" /\ question.required \in Nat
      /\ question.first \in Seq(Resolvers!Product) /\ question.second \in Seq(Resolvers!Product)
  BY AlgorithmsAssumption DEF Resolvers!MicrochipLookup, Resolvers!IsQuestion
<1>2. answer' = IF ~Resolvers!SupportsManufacturer THEN Resolvers!Result("not_applicable", Nil, 0)
          ELSE IF question.fails \in 1 .. asked THEN Resolvers!Result("error", Nil, question.fails)
          ELSE IF p = Nil THEN Resolvers!Result("not_found", Nil, asked)
          ELSE Resolvers!Result(status, offer, asked)
  BY DEF Resolvers!MicrochipLookup
<1>3. products \in Seq(Resolvers!Product)
  BY <1>1
<1>4. /\ (\E i \in DOMAIN products : products[i].number = "same") => p \in Resolvers!Product
      /\ (\A i \in DOMAIN products : products[i].number # "same") => p = Nil
  <2> DEFINE S == {i \in DOMAIN products : products[i].number = "same"}
  <2> HIDE DEF products
  <2>1. ASSUME S # {} PROVE \E i \in S : \A j \in 1 .. i - 1 : products[j].number # "same"
    <3>1. PICK i \in S : \A j \in S : i <= j
      <4>1. S \subseteq Nat
        BY <1>3
      <4> HIDE DEF S
      <4> QED
        BY <2>1, <4>1, LeastNat
    <3>2. \A j \in 1 .. i - 1 : j \in DOMAIN products
      BY <1>3
    <3>3. \A j \in 1 .. i - 1 : j \notin S
      BY <1>3, <3>1
    <3> QED
      BY <3>1, <3>2, <3>3
  <2> DEFINE Q(i) == products[i].number = "same" /\ \A j \in 1 .. i - 1 : products[j].number # "same"
             c == CHOOSE i \in DOMAIN products : Q(i)
  <2>2. ASSUME S # {} PROVE p \in Resolvers!Product
    <3>1. \E i \in DOMAIN products : Q(i)
      BY <2>1, <2>2
    <3>2. p = products[c]
      BY <2>2 DEF Resolvers!ExactMatch
    <3>3. c \in DOMAIN products
      BY <3>1
    <3> HIDE DEF c
    <3> QED
      BY <1>3, <3>2, <3>3
  <2>3. ASSUME \A i \in DOMAIN products : products[i].number # "same" PROVE p = Nil
    BY <2>3 DEF Resolvers!ExactMatch
  <2> QED
    BY <2>2, <2>3
<1> HIDE DEF p
<1>5. p = Nil => \A i \in DOMAIN question.first : question.first[i].number # "same"
  <2>1. CASE again
    <3>1. DOMAIN question.first = {}
      BY <2>1
    <3> QED
      BY <3>1
  <2>2. CASE ~again
    BY <1>4, <2>2, AlgorithmsAssumption
  <2> QED
    BY <2>1, <2>2
<1>6. ~Resolvers!Searched
  BY <1>1 DEF Resolvers!Searched
<1>7. ASSUME NEW s \in {"not_applicable", "error", "not_found"}, NEW n, answer' = Resolvers!Result(s, Nil, n),
             s = "not_found" => p = Nil
      PROVE  Safe(answer') /\ Known(answer') /\ Best(answer')
  <2>1. answer'.status = s /\ answer'.offer = Nil
    BY <1>7, ResultIs
  <2>2. Safe(answer') /\ Known(answer')
    BY <2>1, RefusalIsSafe
  <2> QED
    BY <1>1, <1>5, <1>6, <1>7, <2>1, <2>2 DEF Best
<1>8. ASSUME p # Nil, answer' = Resolvers!Result(status, offer, asked)
      PROVE  Safe(answer') /\ Known(answer') /\ Best(answer')
  <2>1. p \in Resolvers!Product
    BY <1>4, <1>8
  <2>2. /\ p.ended \in BOOLEAN /\ p.stock \in Nat \cup {Nil}
    BY <2>1 DEF Resolvers!Product
  <2>3. answer'.status = status /\ answer'.offer = offer
    <3> HIDE DEF status, offer, asked
    <3> QED
      BY <1>8, ResultIs
  <2>4. offer = [sku |-> 1, review |-> TRUE, stock |-> p.stock, plan |-> Nil, selected |-> Nil]
    BY DEF Resolvers!Offer
  <2>5. offer # Nil
    <3>1. offer \in Resolvers!Offers
      <4> HIDE DEF offer
      <4> QED
        BY <2>2, <2>4, 1 \in Nat DEF Resolvers!Offers
    <3> QED
      BY <3>1, AlgorithmsAssumption
  <2>6. /\ p.ended => status = "review"
        /\ ~p.ended /\ p.stock = Nil => status = "stock_unknown"
        /\ ~p.ended /\ p.stock # Nil => status = IF p.stock >= question.required THEN "review" ELSE "shortage"
    <3> DEFINE ended == p.ended
               unknown == p.stock = Nil
               enough == p.stock # Nil => p.stock >= question.required
               cases == << <<ended, "review">>, <<unknown, "stock_unknown">>, <<enough, "review">>, <<TRUE, "shortage">> >>
    <3>1. status = Resolvers!FirstThat(cases)
      BY DEF Resolvers!EvidenceStatus
    <3>2. DOMAIN cases = 1 .. 4
      OBVIOUS
    <3>4. /\ cases[1][1] <=> ended
          /\ cases[2][1] <=> unknown
          /\ cases[3][1] <=> enough
          /\ cases[4][1]
      OBVIOUS
    <3>5. /\ cases[1][2] = "review" /\ cases[2][2] = "stock_unknown"
          /\ cases[3][2] = "review" /\ cases[4][2] = "shortage"
      OBVIOUS
    <3> HIDE DEF cases, status
    <3>3. /\ ended => status = "review"
          /\ ~ended /\ unknown => status = "stock_unknown"
          /\ ~ended /\ ~unknown /\ enough => status = "review"
          /\ ~ended /\ ~unknown /\ ~enough => status = "shortage"
      BY <3>1, <3>2, <3>4, <3>5, FourCases
    <3> QED
      BY <3>3
  <2> HIDE DEF status
  <2>7. status \in {"review", "stock_unknown", "shortage"}
    BY <2>2, <2>6
  <2>8. status = "shortage" => p.stock # Nil /\ p.stock < question.required
    BY <1>1, <2>2, <2>6
  <2>9. status = "stock_unknown" => p.stock = Nil
    BY <2>2, <2>6
  <2>10. /\ answer'.offer.selected = Nil /\ answer'.offer.stock = p.stock
    <3> HIDE DEF offer
    <3> QED
      BY <2>3, <2>4
  <2>11. Safe(answer')
    BY <2>3, <2>7, <2>10 DEF Safe
  <2>12. Known(answer')
    BY <1>1, <1>6, <2>3, <2>7, <2>8, <2>9, <2>10 DEF Known
  <2>13. Best(answer')
    BY <1>1, <1>6, <2>3, <2>7 DEF Best
  <2> QED
    BY <2>11, <2>12, <2>13
<1>9. CASE ~Resolvers!SupportsManufacturer
  BY <1>2, <1>7, <1>9
<1>10. CASE Resolvers!SupportsManufacturer /\ question.fails \in 1 .. asked
  BY <1>2, <1>7, <1>10
<1>11. CASE Resolvers!SupportsManufacturer /\ question.fails \notin 1 .. asked /\ p = Nil
  BY <1>2, <1>7, <1>11
<1>12. CASE Resolvers!SupportsManufacturer /\ question.fails \notin 1 .. asked /\ p # Nil
  BY <1>2, <1>8, <1>12
<1> QED
  BY <1>9, <1>10, <1>11, <1>12

-----------------------------------------------------------------------------
(* DigiKey.                                                                *)

(* The question is DigiKey's.                                              *)
Pricing ==
  /\ question.provider = "digikey" /\ question.required \in Nat \ {0}
  /\ \A sku \in DOMAIN question.reported : question.reported[sku] \in Int

(* An option that is complete.                                             *)
Offerable(o) ==
  /\ Resolvers!Complete(o)
  /\ o.total \in Int /\ o.price \in Int /\ o.legs \in Seq(Resolvers!QuotedLeg)

(* A complete option is made of natural numbers, and of no SKU more is     *)
(* bought than of all.                                                     *)
LEMMA OptionNumbers ==
  ASSUME Pricing, NEW o, Offerable(o)
  PROVE  /\ o.total \in Nat /\ o.price \in Nat /\ o.total >= question.required
         /\ Len(o.legs) \in Nat /\ DOMAIN o.legs = 1 .. Len(o.legs) /\ o.legs # <<>>
         /\ \A i \in DOMAIN o.legs : o.legs[i].quantity \in Nat
         /\ \A sku : Resolvers!Bought(o, sku) \in Nat /\ Resolvers!Bought(o, sku) <= o.total
<1>1. /\ o.total >= question.required /\ o.total >= 1 /\ o.price > 0 /\ o.legs # <<>>
      /\ \A i \in DOMAIN o.legs : o.legs[i].quantity >= 1
      /\ Resolvers!Sum([i \in DOMAIN o.legs |-> o.legs[i].quantity]) = o.total
  BY DEF Offerable, Resolvers!Complete
<1>2. o.total \in Int /\ o.price \in Int /\ o.legs \in Seq(Resolvers!QuotedLeg)
  BY DEF Offerable
<1>3. /\ Len(o.legs) \in Nat /\ DOMAIN o.legs = 1 .. Len(o.legs)
      /\ \A i \in DOMAIN o.legs : o.legs[i] \in Resolvers!QuotedLeg
  BY <1>2
<1>4. \A i \in DOMAIN o.legs : o.legs[i].quantity \in Nat
  <2>1. \A i \in DOMAIN o.legs : o.legs[i].quantity \in Int
    BY <1>3 DEF Resolvers!QuotedLeg
  <2> QED
    BY <1>1, <2>1
<1>5. ASSUME NEW sku
      PROVE  Resolvers!Bought(o, sku) \in Nat /\ Resolvers!Bought(o, sku) <= o.total
  <2> DEFINE N == Len(o.legs)
             a == [i \in DOMAIN o.legs |-> IF o.legs[i].sku = sku THEN o.legs[i].quantity ELSE 0]
             b == [i \in DOMAIN o.legs |-> o.legs[i].quantity]
  <2>1. a \in [1 .. N -> Nat] /\ b \in [1 .. N -> Nat]
    BY <1>3, <1>4
  <2>2. \A n \in 1 .. N : a[n] <= b[n]
    BY <1>3, <1>4
  <2>3. Resolvers!Bought(o, sku) = Resolvers!Sum(a)
    BY DEF Resolvers!Bought, Resolvers!QuantityOf
  <2>4. Resolvers!Sum(b) = o.total
    BY <1>1
  <2>5. N \in Nat
    BY <1>3
  <2> HIDE DEF a, b, N
  <2>6. Resolvers!Sum(a) \in Nat /\ Resolvers!Sum(a) <= Resolvers!Sum(b)
    BY <2>1, <2>2, <2>5, SumGrows
  <2> QED
    BY <2>3, <2>4, <2>6
<1> QED
  BY <1>1, <1>2, <1>3, <1>4, <1>5

(* The stock shown is a number, or not known.                              *)
LEMMA LimitingStockIs ==
  ASSUME Pricing, NEW o, Offerable(o)
  PROVE  Resolvers!LimitingStock(o) \in Int \cup {Nil}
<1> DEFINE N == Len(o.legs)
           sku(i) == o.legs[i].sku
           stocks == {question.reported[s] : s \in Resolvers!Skus(o)}
<1>1. CASE Resolvers!Skus(o) \subseteq DOMAIN question.reported
  <2>1. N \in Nat /\ DOMAIN o.legs = 1 .. N /\ 1 \in 1 .. N
    <3>1. o.legs \in Seq(Resolvers!QuotedLeg) /\ o.legs # <<>>
      BY OptionNumbers DEF Offerable
    <3> QED
      BY <3>1
  <2> DEFINE value == [i \in 1 .. N |-> question.reported[sku(i)]]
  <2>2. \A i \in 1 .. N : sku(i) \in Resolvers!Skus(o)
    BY <2>1 DEF Resolvers!Skus
  <2>3. value \in [1 .. N -> Int]
    BY <1>1, <2>2 DEF Pricing
  <2>4. \A s \in stocks : \E i \in 1 .. N : s = value[i]
    BY <2>1 DEF Resolvers!Skus
  <2>5. \A i \in 1 .. N : value[i] \in stocks
    BY <2>2
  <2>6. 1 .. N \in SUBSET (1 .. N) /\ 1 .. N # {} /\ IsFiniteSet(1 .. N)
    BY <2>1, IntervalIsFinite
  <2> HIDE DEF value, stocks, N
  <2>7. PICK m \in 1 .. N : \A i \in 1 .. N : value[m] <= value[i]
    BY <2>3, <2>6, LeastOfFinite
  <2>8. value[m] \in stocks /\ \A s \in stocks : value[m] <= s
    BY <2>4, <2>5, <2>7
  <2>9. Resolvers!Min(stocks) \in stocks
    BY <2>8 DEF Resolvers!Min
  <2>10. Resolvers!Min(stocks) \in Int
    BY <2>3, <2>4, <2>9
  <2> QED
    BY <1>1, <2>10 DEF Resolvers!LimitingStock, stocks
<1>2. CASE ~(Resolvers!Skus(o) \subseteq DOMAIN question.reported)
  BY <1>2 DEF Resolvers!LimitingStock
<1> QED
  BY <1>1, <1>2

(* The statuses of an option in order.                                     *)
LEMMA PricingStatusIs ==
  ASSUME NEW o
  PROVE  LET status == Resolvers!PricingStatus(o)
         IN /\ question.number # "same" => status = "review"
            /\ question.number = "same" /\ Resolvers!ApplyStock(o) => status = "priced"
            /\ question.number = "same" /\ ~Resolvers!ApplyStock(o) =>
                 status = IF Resolvers!LimitingStock(o) = Nil THEN "stock_unknown" ELSE "shortage"
<1> DEFINE status == Resolvers!PricingStatus(o)
           other == question.number # "same"
           stocked == Resolvers!ApplyStock(o)
           unknown == Resolvers!LimitingStock(o) = Nil
           cases == << <<other, "review">>, <<stocked, "priced">>, <<unknown, "stock_unknown">>, <<TRUE, "shortage">> >>
<1>1. status = Resolvers!FirstThat(cases)
  BY DEF Resolvers!PricingStatus
<1>2. stocked \in BOOLEAN
  BY DEF Resolvers!ApplyStock
<1>3. DOMAIN cases = 1 .. 4
  OBVIOUS
<1>4. /\ cases[1][1] <=> other
      /\ cases[2][1] <=> stocked
      /\ cases[3][1] <=> unknown
      /\ cases[4][1]
  OBVIOUS
<1>5. /\ cases[1][2] = "review" /\ cases[2][2] = "priced"
      /\ cases[3][2] = "stock_unknown" /\ cases[4][2] = "shortage"
  OBVIOUS
<1> HIDE DEF cases, status
<1>6. /\ other => status = "review"
      /\ ~other /\ stocked => status = "priced"
      /\ ~other /\ ~stocked /\ unknown => status = "stock_unknown"
      /\ ~other /\ ~stocked /\ ~unknown => status = "shortage"
  BY <1>1, <1>3, <1>4, <1>5, FourCases
<1> QED
  BY <1>6 DEF status

(* The first option is fully stocked if one is, and is then the cheapest.  *)
LEMMA FirstOption ==
  ASSUME Pricing, NEW o, Offerable(o), NEW x, Offerable(x), Resolvers!ApplyStock(x),
         ~Resolvers!Precedes(Resolvers!OptionKey(x), Resolvers!OptionKey(o))
  PROVE  Resolvers!ApplyStock(o) /\ o.price <= x.price
<1> DEFINE ko == Resolvers!OptionKey(o)
           kx == Resolvers!OptionKey(x)
<1>1. /\ DOMAIN kx = 1 .. 3
      /\ kx[1] = 0 /\ kx[2] = x.price
      /\ ko[1] = IF Resolvers!ApplyStock(o) THEN 0 ELSE 1
      /\ ko[2] = o.price
  BY DEF Resolvers!OptionKey
<1>2. o.price \in Nat /\ x.price \in Nat
  BY OptionNumbers
<1> HIDE DEF ko, kx
<1>3. Resolvers!ApplyStock(o)
  <2> SUFFICES ASSUME ~Resolvers!ApplyStock(o) PROVE FALSE
    OBVIOUS
  <2>1. kx[1] < ko[1]
    BY <1>1
  <2>2. 1 \in DOMAIN kx /\ 1 .. 1 - 1 = {}
    BY <1>1
  <2>3. Resolvers!Precedes(kx, ko)
    BY <2>1, <2>2 DEF Resolvers!Precedes
  <2> QED
    BY <2>3 DEF kx, ko
<1>4. ~(x.price < o.price)
  <2> SUFFICES ASSUME x.price < o.price PROVE FALSE
    OBVIOUS
  <2>1. kx[2] < ko[2] /\ kx[1] = ko[1]
    BY <1>1, <1>3
  <2>2. 2 \in DOMAIN kx /\ \A j \in 1 .. 2 - 1 : j = 1
    BY <1>1
  <2>3. Resolvers!Precedes(kx, ko)
    BY <2>1, <2>2 DEF Resolvers!Precedes
  <2> QED
    BY <2>3 DEF kx, ko
<1> QED
  BY <1>2, <1>3, <1>4

(* The conclusion from an option.                                          *)
LEMMA PricingAnswers ==
  ASSUME Pricing, Resolvers!OfTheDemand, NEW o, Offerable(o), NEW a,
         a = Resolvers!Result(Resolvers!PricingStatus(o), Resolvers!PricingOffer(o), 2)
  PROVE  /\ Safe(a) /\ Known(a)
         /\ a.offer.plan.verified = Resolvers!ApplyStock(o) /\ a.offer.plan.price = o.price
<1> DEFINE status == Resolvers!PricingStatus(o)
           offer == Resolvers!PricingOffer(o)
           plan == Resolvers!PricingPlan(o)
           stock == Resolvers!LimitingStock(o)
<1>1. a.status = status /\ a.offer = offer
  <2> HIDE DEF status, offer
  <2> QED
    BY ResultIs DEF status, offer
<1>2. /\ o.total \in Nat /\ o.price \in Nat /\ o.total >= question.required
      /\ \A sku : Resolvers!Bought(o, sku) \in Nat /\ Resolvers!Bought(o, sku) <= o.total
  BY OptionNumbers
<1>3. stock \in Int \cup {Nil} /\ o.legs \in Seq(Resolvers!QuotedLeg)
  BY LimitingStockIs DEF Offerable
<1>4. /\ question.number # "same" => status = "review"
      /\ question.number = "same" /\ Resolvers!ApplyStock(o) => status = "priced"
      /\ question.number = "same" /\ ~Resolvers!ApplyStock(o) =>
           status = IF stock = Nil THEN "stock_unknown" ELSE "shortage"
  BY PricingStatusIs
<1>5. offer = [sku |-> o.legs, review |-> question.number # "same", stock |-> stock,
               plan |-> plan, selected |-> IF status = "priced" THEN plan ELSE Nil]
  BY DEF Resolvers!PricingOffer, Resolvers!Offer
<1>6. /\ plan = [purchased |-> o.total, price |-> o.price, verified |-> Resolvers!ApplyStock(o)]
      /\ Resolvers!ApplyStock(o) \in BOOLEAN
  BY DEF Resolvers!PricingPlan, Resolvers!ApplyStock
<1>7. plan \in Resolvers!Plan
  BY <1>2, <1>6 DEF Resolvers!Plan
<1>8. plan # Nil
  BY <1>7, AlgorithmsAssumption
<1>9. plan.purchased = o.total /\ plan.price = o.price /\ plan.verified = Resolvers!ApplyStock(o)
  BY <1>6
<1> HIDE DEF plan, offer, status, stock
<1>10. /\ offer.sku = o.legs /\ offer.stock = stock /\ offer.plan = plan
       /\ offer.review <=> question.number # "same"
       /\ offer.selected = IF status = "priced" THEN plan ELSE Nil
  BY <1>5
<1>11. offer # Nil
  <2> DEFINE chosen == IF status = "priced" THEN plan ELSE Nil
             other == question.number # "same"
  <2>1. chosen \in Resolvers!Plan \cup {Nil} /\ other \in BOOLEAN
    BY <1>7
  <2>2. offer = [sku |-> o.legs, review |-> other, stock |-> stock, plan |-> plan, selected |-> chosen]
    BY <1>5
  <2> HIDE DEF chosen, other
  <2>3. offer \in Resolvers!Offers
    BY <1>3, <1>7, <2>1, <2>2 DEF Resolvers!Offers
  <2> QED
    BY <2>3, AlgorithmsAssumption
<1>12. question.provider = "digikey" /\ question.maker /\ ~Resolvers!Searched
  BY DEF Pricing, Resolvers!OfTheDemand, Resolvers!Searched
<1>13. status = "priced" => question.number = "same" /\ Resolvers!ApplyStock(o)
  BY <1>4
<1>14. ASSUME status = "priced" PROVE Resolvers!Allowed(offer)
  <2>1. ASSUME NEW i \in DOMAIN offer.sku
        PROVE  /\ offer.sku[i].sku \in DOMAIN question.reported
               /\ Resolvers!QuantityOf(offer.sku, offer.sku[i].sku) <= question.reported[offer.sku[i].sku]
    <3>1. o.legs[i].sku \in Resolvers!Skus(o) /\ offer.sku[i].sku = o.legs[i].sku
      BY <1>10 DEF Resolvers!Skus
    <3> QED
      BY <1>10, <1>13, <1>14, <3>1 DEF Resolvers!ApplyStock, Resolvers!Bought
  <2>2. offer.selected.purchased >= question.required
    BY <1>2, <1>9, <1>10, <1>14
  <2>3. question.provider # "ti"
    BY <1>12
  <2> QED
    BY <1>12, <1>13, <1>14, <2>1, <2>2, <2>3 DEF Resolvers!Allowed
<1>15. Safe(a)
  <2>1. offer.selected # Nil <=> status = "priced"
    BY <1>8, <1>10
  <2>2. status = "priced" => ~offer.review
    BY <1>10, <1>13
  <2>3. question.provider # "microchip"
    BY <1>12
  <2> QED
    BY <1>1, <1>11, <1>14, <2>1, <2>2, <2>3 DEF Safe
<1>16. ASSUME status = "shortage"
       PROVE  \E i \in DOMAIN offer.sku :
                /\ offer.sku[i].sku \in DOMAIN question.reported
                /\ question.reported[offer.sku[i].sku] < offer.plan.purchased
  <2>1. ~Resolvers!ApplyStock(o) /\ stock # Nil
    BY <1>4, <1>16
  <2>2. Resolvers!Skus(o) \subseteq DOMAIN question.reported
    BY <2>1 DEF stock, Resolvers!LimitingStock
  <2>3. PICK sku \in Resolvers!Skus(o) : ~(Resolvers!Bought(o, sku) <= question.reported[sku])
    BY <2>1, <2>2 DEF Resolvers!ApplyStock
  <2>4. question.reported[sku] \in Int
    BY <2>2, <2>3 DEF Pricing
  <2>5. question.reported[sku] < o.total
    BY <1>2, <2>3, <2>4
  <2>6. PICK i \in DOMAIN o.legs : sku = o.legs[i].sku
    BY <2>3 DEF Resolvers!Skus
  <2> QED
    BY <1>9, <1>10, <2>2, <2>3, <2>5, <2>6
<1>17. status = "stock_unknown" => stock = Nil
  BY <1>4
<1>18. Known(a)
  BY <1>1, <1>10, <1>12, <1>16, <1>17 DEF Known
<1> QED
  BY <1>1, <1>9, <1>10, <1>15, <1>18

(* The answers of DigiKey.                                                 *)
LEMMA DigiKeyAnswers ==
  ASSUME question \in LookupQuestions, Resolvers!DigiKeyLookup
  PROVE  Safe(answer') /\ Known(answer') /\ Best(answer')
<1> DEFINE options == {question.options[i] : i \in DOMAIN question.options}
           complete == {o \in options : Resolvers!Complete(o)}
           firsts == Resolvers!Firsts(complete, Resolvers!OptionKey)
           Concluded(o) == answer' = Resolvers!Result(Resolvers!PricingStatus(o), Resolvers!PricingOffer(o), 2)
<1>1. Pricing
  BY AlgorithmsAssumption DEF Resolvers!DigiKeyLookup, Resolvers!IsQuestion, Pricing
<1>2. \A o \in options : Resolvers!Complete(o) => Offerable(o)
  BY <1>1, AlgorithmsAssumption DEF Resolvers!IsQuestion, Pricing, Offerable
<1>3. question.provider # "microchip" /\ ~Resolvers!Searched
  BY <1>1 DEF Pricing, Resolvers!Searched
<1>4. ASSUME NEW s \in {"error", "not_found", "unavailable"}, answer' = Resolvers!Result(s, Nil, 1)
      PROVE  Safe(answer') /\ Known(answer') /\ Best(answer')
  <2>1. answer'.status = s /\ answer'.offer = Nil
    BY <1>4, ResultIs
  <2>2. Safe(answer') /\ Known(answer')
    BY <2>1, RefusalIsSafe
  <2> QED
    BY <1>3, <2>1, <2>2 DEF Best, BestOption
<1>5. ASSUME Resolvers!OfTheDemand, NEW o \in firsts, Concluded(o)
      PROVE  Safe(answer') /\ Known(answer') /\ Best(answer')
  <2>1. /\ o \in complete
        /\ \A x \in complete : ~Resolvers!Precedes(Resolvers!OptionKey(x), Resolvers!OptionKey(o))
    BY DEF Resolvers!Firsts
  <2>2. Offerable(o)
    BY <1>2, <2>1
  <2>3. /\ Safe(answer') /\ Known(answer')
        /\ answer'.offer.plan.verified = Resolvers!ApplyStock(o) /\ answer'.offer.plan.price = o.price
    <3> HIDE DEF firsts
    <3> QED
      BY <1>1, <1>5, <2>2, PricingAnswers
  <2>4. ASSUME NEW i \in DOMAIN question.options, Resolvers!Complete(question.options[i]),
               \A sku \in Resolvers!Skus(question.options[i]) :
                 /\ sku \in DOMAIN question.reported
                 /\ Resolvers!Bought(question.options[i], sku) <= question.reported[sku]
        PROVE  answer'.offer.plan.verified /\ answer'.offer.plan.price <= question.options[i].price
    <3>1. question.options[i] \in complete
      BY <2>4
    <3>2. Offerable(question.options[i])
      BY <1>2, <3>1
    <3>3. Resolvers!ApplyStock(question.options[i])
      BY <2>4 DEF Resolvers!ApplyStock
    <3>4. ~Resolvers!Precedes(Resolvers!OptionKey(question.options[i]), Resolvers!OptionKey(o))
      BY <2>1, <3>1
    <3>5. Resolvers!ApplyStock(o) /\ o.price <= question.options[i].price
      <4> HIDE DEF complete, options, firsts
      <4> QED
        BY <1>1, <2>2, <3>2, <3>3, <3>4, FirstOption
    <3> QED
      BY <2>3, <3>5
  <2>5. BestOption(answer')
    BY <2>4 DEF BestOption
  <2> QED
    BY <1>3, <2>3, <2>5 DEF Best
<1>6. \/ \E s \in {"error", "not_found", "unavailable"} : answer' = Resolvers!Result(s, Nil, 1)
      \/ Resolvers!OfTheDemand /\ \E o \in firsts : Concluded(o)
  BY DEF Resolvers!DigiKeyLookup
<1> QED
  BY <1>4, <1>5, <1>6

-----------------------------------------------------------------------------
(* Every distributor.                                                      *)

(* Every lookup keeps what the properties say.                             *)
LEMMA LookupStep ==
  ASSUME question \in LookupQuestions, Resolvers!Next
  PROVE  /\ Resolvers!PricedOnlyWhenSafe' /\ Resolvers!UnknownIsNotShortage'
         /\ Resolvers!NothingBetterIsPassedOver' /\ question' = question
<1>1. question' = question
  BY DEF Resolvers!Next
<1>2. Safe(answer') /\ Known(answer') /\ Best(answer')
  <2>1. CASE Resolvers!MouserLookup \/ Resolvers!FarnellLookup
    <3>1. Searching
      <4>1. question.provider \in {"mouser", "farnell"}
        BY <2>1 DEF Resolvers!MouserLookup, Resolvers!FarnellLookup
      <4>2. Resolvers!IsQuestion(question)
        BY AlgorithmsAssumption
      <4>3. question.required \in Nat \ {0}
        BY <4>2 DEF Resolvers!IsQuestion
      <4>4. IsFiniteSet(question.exact) /\ IsFiniteSet(question.broad)
        <5>1. Resolvers!IsFiniteSet(question.exact) /\ Resolvers!IsFiniteSet(question.broad)
          BY <4>1, <4>2 DEF Resolvers!IsQuestion
        <5> QED
          BY <5>1, Zenon DEF IsFiniteSet, Resolvers!IsFiniteSet
      <4>5. question.exact \cup question.broad \subseteq Resolvers!Article
        BY <4>1, <4>2 DEF Resolvers!IsQuestion
      <4> QED
        BY <4>1, <4>3, <4>4, <4>5 DEF Searching
    <3>2. answer' = Resolvers!CatalogueLookup
      BY <2>1 DEF Resolvers!MouserLookup, Resolvers!FarnellLookup
    <3> QED
      BY <3>1, <3>2, CatalogueAnswers
  <2>2. CASE Resolvers!DigiKeyLookup
    BY <2>2, DigiKeyAnswers
  <2>3. CASE Resolvers!TILookup
    BY <2>3, TIAnswers
  <2>4. CASE Resolvers!MicrochipLookup
    BY <2>4, MicrochipAnswers
  <2> QED
    BY <2>1, <2>2, <2>3, <2>4 DEF Resolvers!Next
<1>3. Resolvers!PricedOnlyWhenSafe'
  BY <1>1, <1>2 DEF Safe, Resolvers!PricedOnlyWhenSafe, Resolvers!Allowed, Resolvers!ArticlesOf, Resolvers!Searched
<1>4. Resolvers!UnknownIsNotShortage'
  BY <1>1, <1>2 DEF Known, Resolvers!UnknownIsNotShortage, Resolvers!Needed, Resolvers!Searched
<1>5. Resolvers!NothingBetterIsPassedOver'
  <2>1. (answer # Nil /\ answer.status # "error" /\ Resolvers!Searched)' => BestOfSearch(answer')
    BY <1>1, <1>2 DEF Best, Resolvers!Searched
  <2>2. (answer # Nil /\ answer.status # "error" /\ question.provider = "digikey")' => BestOption(answer')
    BY <1>1, <1>2 DEF Best
  <2>3. (answer # Nil /\ question.provider = "microchip" /\ answer.status = "not_found")' =>
          \A i \in DOMAIN question.first : question.first[i].number # "same"
    BY <1>1, <1>2 DEF Best
  <2> QED
    BY <1>1, <2>1, <2>2, <2>3
    DEF BestOfSearch, BestOption, Resolvers!NothingBetterIsPassedOver,
        Resolvers!Buyable, Resolvers!BoughtAt, Resolvers!Needed, Resolvers!Complete
<1> QED
  BY <1>1, <1>3, <1>4, <1>5

-----------------------------------------------------------------------------
(* Prices that are read.                                                   *)

(* No digits in no run.                                                    *)
LEMMA NoDigits ==
  ASSUME NEW text, NEW from \in Int, NEW to \in Int, from > to
  PROVE  Prices!DigitsIn(text, from, to) = 0
<1>1. from .. to = {}
  OBVIOUS
<1> DEFINE it(g) == g = [s \in SUBSET {} |->
                          IF s = {} THEN 0
                          ELSE LET x == CHOOSE x \in s : TRUE IN g[s \ {x}] + text.runs[x]]
<1>2. \E g : it(g)
  <2> DEFINE g == [s \in SUBSET {} |-> 0]
  <2>1. it(g)
    OBVIOUS
  <2> QED
    BY <2>1
<1> QED
  BY <1>1, <1>2 DEF Prices!DigitsIn, Prices!FoldSet, Prices!MapThenFoldSet

(* The digits of one run.                                                  *)
LEMMA DigitsOfOne ==
  ASSUME NEW text, NEW k \in Int, text.runs[k] \in Nat
  PROVE  Prices!DigitsIn(text, k, k) = text.runs[k]
<1>1. k .. k = {k}
  OBVIOUS
<1>2. SUBSET {k} = {{}, {k}} /\ (CHOOSE x \in {k} : TRUE) = k /\ {k} \ {k} = {} /\ {k} # {}
  OBVIOUS
<1> DEFINE it(g) == g = [s \in SUBSET {k} |->
                          IF s = {} THEN 0
                          ELSE LET x == CHOOSE x \in s : TRUE IN g[s \ {x}] + text.runs[x]]
<1>3. \E g : it(g)
  <2> DEFINE g == [s \in SUBSET {k} |-> IF s = {} THEN 0 ELSE text.runs[k]]
  <2>1. g[{}] = 0
    OBVIOUS
  <2>2. \A s \in SUBSET {k} : g[s] = IF s = {} THEN 0
                          ELSE LET x == CHOOSE x \in s : TRUE IN g[s \ {x}] + text.runs[x]
    <3> SUFFICES ASSUME NEW s \in SUBSET {k}, s # {}
                 PROVE  g[s] = LET x == CHOOSE x \in s : TRUE IN g[s \ {x}] + text.runs[x]
      BY <2>1
    <3>1. s = {k}
      BY <1>2
    <3> QED
      BY <1>2, <2>1, <3>1
  <2>3. it(g)
    BY <2>2
  <2> QED
    BY <2>3
<1>4. PICK g : it(g)
  BY <1>3
<1>5. g[{}] = 0
  BY <1>2, <1>4
<1>6. g[{k}] = text.runs[k]
  BY <1>2, <1>4, <1>5
<1> DEFINE iter == CHOOSE h : it(h)
<1>7. it(iter)
  BY <1>3, Zenon
<1>8. iter[{}] = 0
  <2> HIDE DEF iter
  <2> QED BY <1>2, <1>7
<1>9. iter[{k}] = text.runs[k]
  <2> HIDE DEF iter
  <2> QED BY <1>2, <1>7, <1>8
<1>10. Prices!DigitsIn(text, k, k) = iter[{k}]
  BY <1>1, Zenon DEF Prices!DigitsIn, Prices!FoldSet, Prices!MapThenFoldSet
<1> QED
  BY <1>9, <1>10

(* The marks of a text are finitely many.                                  *)
LEMMA MarksAreFinite ==
  ASSUME NEW n \in Nat, NEW S \in SUBSET (1 .. n)
  PROVE  /\ Prices!Cardinality(S) \in Nat
         /\ Prices!Cardinality(S) = 0 => S = {}
         /\ Prices!Cardinality(S) = 1 => \E x : S = {x}
         /\ \A x : Prices!Cardinality({x}) = 1
<1>1. IsFiniteSet(S)
  BY IntervalIsFinite, PartOfFinite
<1>2. \A T : Prices!Cardinality(T) = Cardinality(T)
  BY DEF Prices!Cardinality, Cardinality, Prices!IsFiniteSet, IsFiniteSet
<1> QED
  BY <1>1, <1>2, FS_CardinalityType, FS_EmptySet, FS_Singleton

(* How a text with both separators is read, if it is.                      *)
LEMMA ReadsLast ==
  ASSUME NEW text, NEW n \in Nat, DOMAIN text.marks = 1 .. n, Len(text.runs) = n + 1,
         NEW grouping, NEW decimal,
         Prices!MarksOf(text, grouping) # {}, Prices!MarksOf(text, decimal) # {},
         NEW last, last = Prices!Max(Prices!MarksOf(text, grouping) \cup Prices!MarksOf(text, decimal))
  PROVE  Prices!Reads(text, grouping, decimal) \subseteq {Prices!Fraction(text, last)}
<1> DEFINE points == Prices!MarksOf(text, decimal)
           groups == Prices!MarksOf(text, grouping)
<1>1. points \subseteq 1 .. n /\ groups \subseteq 1 .. n
  BY DEF Prices!MarksOf
<1>0. points # {} /\ last = Prices!Max(groups \cup points)
  OBVIOUS
<1> HIDE DEF points, groups
<1>2. CASE Prices!Cardinality(points) <= 1 /\ \A i \in groups : i < Prices!Min(points)
  <2>1. PICK p : points = {p}
    <3>0. points \in SUBSET (1 .. n)
      BY <1>1
    <3>2. Prices!Cardinality(points) \in Nat /\ Prices!Cardinality(points) # 0
      BY <1>0, <3>0, MarksAreFinite
    <3>3. Prices!Cardinality(points) <= 1
      BY <1>2
    <3>1. Prices!Cardinality(points) = 1
      BY <3>2, <3>3
    <3> QED
      BY <3>0, <3>1, MarksAreFinite
  <2>2. p \in 1 .. n
    BY <1>1, <2>1
  <2>3. Prices!Min(points) = p
    BY <2>1, <2>2 DEF Prices!Min
  <2>4. last = p
    <3> DEFINE all == groups \cup points
    <3>1. all \subseteq Int /\ p \in all /\ \A y \in all : p >= y
      <4>1. \A y \in groups : y < p /\ y \in Int
        BY <1>1, <1>2, <2>3
      <4> QED
        BY <2>1, <2>2, <4>1
    <3>2. \A x \in all : (\A y \in all : x >= y) => x = p
      BY <3>1
    <3> HIDE DEF all
    <3>3. Prices!Max(all) = p
      BY <3>1, <3>2 DEF Prices!Max
    <3> QED
      BY <1>0, <3>3 DEF all
  <2> QED
    BY <2>1, <2>3, <2>4 DEF Prices!Reads, Prices!Fraction, points, groups
<1>3. CASE ~(Prices!Cardinality(points) <= 1 /\ \A i \in groups : i < Prices!Min(points))
  BY <1>3 DEF Prices!Reads, points, groups
<1> QED
  BY <1>2, <1>3

(* How a text of two runs is read, with one separator between them.        *)
LEMMA ReadsOfTwo ==
  ASSUME NEW text, text.runs \in Seq(Nat), Len(text.runs) = 2, DOMAIN text.marks = 1 .. 1,
         NEW grouping, NEW decimal, grouping # decimal
  PROVE  /\ text.marks[1] = decimal =>
              Prices!Reads(text, grouping, decimal) = {text.runs[2]}
         /\ text.marks[1] = grouping =>
              Prices!Reads(text, grouping, decimal) =
                IF ~text.zero /\ text.runs[1] \in 1 .. 3 /\ text.runs[2] = 3 THEN {0} ELSE {}
         /\ text.marks[1] \notin {grouping, decimal} =>
              Prices!Reads(text, grouping, decimal) = {}
<1> DEFINE points == Prices!MarksOf(text, decimal)
           groups == Prices!MarksOf(text, grouping)
<1>0. 1 .. 1 = {1} /\ 2 .. 2 = {2} /\ 2 .. 1 = {}
  OBVIOUS
<1>1. /\ points = IF text.marks[1] = decimal THEN {1} ELSE {}
      /\ groups = IF text.marks[1] = grouping THEN {1} ELSE {}
  BY <1>0 DEF Prices!MarksOf
<1>2. Prices!Cardinality({}) = 0 /\ Prices!Cardinality({1}) = 1
  BY FS_EmptySet, FS_Singleton DEF Prices!Cardinality, Cardinality, Prices!IsFiniteSet, IsFiniteSet
<1>3. Prices!Min({1}) = 1
  BY DEF Prices!Min
<1>4. text.runs[2] \in Nat /\ text.runs[1] \in Nat
  OBVIOUS
<1>5. Prices!DigitsIn(text, 2, 2) = text.runs[2]
  BY <1>4, DigitsOfOne
<1>6. Prices!DigitsIn(text, 3, 2) = 0
  BY NoDigits
<1> HIDE DEF points, groups
<1>7. CASE text.marks[1] = decimal
  <2>1. points = {1} /\ groups = {}
    BY <1>1, <1>7
  <2>2. Prices!Reads(text, grouping, decimal) = {Prices!DigitsIn(text, 2, 2)}
    BY <1>0, <1>2, <1>3, <2>1 DEF Prices!Reads, points, groups
  <2> QED
    BY <1>5, <1>7, <2>2
<1>8. CASE text.marks[1] = grouping
  <2>1. points = {} /\ groups = {1}
    BY <1>1, <1>8
  <2>2. Prices!Reads(text, grouping, decimal) =
          IF ~text.zero /\ text.runs[1] \in 1 .. 3 /\ text.runs[2] = 3
            THEN {Prices!DigitsIn(text, 3, 2)} ELSE {}
    BY <1>0, <1>2, <2>1 DEF Prices!Reads, points, groups
  <2> QED
    BY <1>6, <1>8, <2>2
<1>9. CASE text.marks[1] \notin {grouping, decimal}
  <2>1. points = {} /\ groups = {}
    BY <1>1, <1>9
  <2>2. Prices!Reads(text, grouping, decimal) = {}
    BY <1>0, <2>1 DEF Prices!Reads, points, groups
  <2> QED
    BY <1>9, <2>2
<1> QED
  BY <1>7, <1>8, <1>9

(* What is made of a text is one of its readings, and the dot's when there *)
(* are several.                                                            *)
LEMMA TextIsRead ==
  ASSUME NEW text, text.runs \in Seq(Nat), text.runs # <<>>,
         text.marks = [i \in 1 .. Len(text.runs) - 1 |-> text.marks[i]],
         NEW a, a = Prices!Normalize(text), a.ok
  PROVE  LET readings == Prices!Readings(text)
         IN /\ readings # {} => a.value \in readings
            /\ Prices!Cardinality(readings) > 1 =>
                 Prices!LoneDot(text) /\ a.value = text.runs[2]
<1> DEFINE dots == Prices!MarksOf(text, ".")
           commas == Prices!MarksOf(text, ",")
           last == Prices!Max(dots \cup commas)
           n == Len(text.runs) - 1
           readings == Prices!Readings(text)
<1>0. a # Prices!Error /\ ~Prices!Error.ok
  BY DEF Prices!Error
<1>1. n \in Nat /\ DOMAIN text.marks = 1 .. n /\ Len(text.runs) = n + 1
  OBVIOUS
<1>2. dots \subseteq 1 .. n /\ commas \subseteq 1 .. n
  BY <1>1 DEF Prices!MarksOf
<1>3. \A x : Prices!Cardinality({x}) = 1
  BY <1>1, <1>2, MarksAreFinite
<1>4. Prices!Cardinality({}) = 0
  BY FS_EmptySet DEF Prices!Cardinality, Cardinality, Prices!IsFiniteSet, IsFiniteSet
<1>5. \A v : readings \subseteq {v} /\ a.value = v =>
         /\ readings # {} => a.value \in readings
         /\ ~(Prices!Cardinality(readings) > 1)
  <2> SUFFICES ASSUME NEW v, readings \subseteq {v}, a.value = v
               PROVE  /\ readings # {} => a.value \in readings
                      /\ ~(Prices!Cardinality(readings) > 1)
    OBVIOUS
  <2> HIDE DEF readings
  <2>1. CASE readings = {}
    BY <1>4, <2>1
  <2>2. CASE readings = {v}
    <3>1. Prices!Cardinality(readings) = 1
      BY <1>3, <2>2, Zenon
    <3> QED
      BY <2>2, <3>1
  <2> QED
    BY <2>1, <2>2
<1>6. CASE dots \cup commas = {}
  <2>1. a.value = 0
    BY <1>0, <1>6 DEF Prices!Normalize, Prices!Value
  <2>2. Prices!DigitsIn(text, n + 2, n + 1) = 0
    BY <1>1, NoDigits
  <2>3. Prices!Reads(text, ".", ",") \subseteq {0} /\ Prices!Reads(text, ",", ".") \subseteq {0}
    <3>1. commas = {} /\ dots = {} /\ Len(text.runs) + 1 = n + 2
      <4>1. commas = {} /\ dots = {}
        BY <1>6, Zenon
      <4>2. Len(text.runs) + 1 = n + 2
        <5> HIDE DEF n
        <5> QED
          BY <1>1
      <4> QED
        BY <4>1, <4>2, Zenon
    <3> QED
      BY <1>1, <2>2, <3>1 DEF Prices!Reads
  <2> QED
    BY <1>5, <2>1, <2>3 DEF Prices!Readings
<1>7. CASE dots # {} /\ commas # {}
  <2>1. a.value = Prices!Fraction(text, last)
    BY <1>0, <1>7 DEF Prices!Normalize, Prices!Value
  <2>2. last = Prices!Max(commas \cup dots)
    <3>1. dots \cup commas = commas \cup dots
      OBVIOUS
    <3> QED
      BY <3>1
  <2>3. Prices!Reads(text, ".", ",") \subseteq {Prices!Fraction(text, last)}
    <3> HIDE DEF n
    <3> QED
      BY <1>1, <1>7, ReadsLast
  <2>4. Prices!Reads(text, ",", ".") \subseteq {Prices!Fraction(text, last)}
    <3> HIDE DEF n
    <3> QED
      BY <1>1, <1>7, <2>2, ReadsLast
  <2> QED
    BY <1>5, <2>1, <2>3, <2>4 DEF Prices!Readings
<1>8. CASE dots \cup commas # {} /\ ~(dots # {} /\ commas # {})
  <2>1. /\ ~(Prices!Cardinality(dots \cup commas) > 1)
        /\ ~(commas # {} /\ Prices!Ambiguous(text, last))
        /\ a = Prices!Value(Prices!Fraction(text, last))
    BY <1>0, <1>8 DEF Prices!Normalize
  <2>2. PICK k : dots \cup commas = {k}
    <3> DEFINE all == dots \cup commas
    <3>1. all \in SUBSET (1 .. n) /\ all # {} /\ ~(Prices!Cardinality(all) > 1)
      BY <1>2, <1>8, <2>1
    <3> HIDE DEF n, all
    <3>2. Prices!Cardinality(all) \in Nat /\ Prices!Cardinality(all) # 0
      BY <1>1, <3>1, MarksAreFinite
    <3>3. Prices!Cardinality(all) = 1
      BY <3>1, <3>2
    <3>4. \E k : all = {k}
      BY <1>1, <3>1, <3>3, MarksAreFinite
    <3> QED
      BY <3>4 DEF all
  <2>3. k \in 1 .. n
    BY <1>2, <2>2
  <2>4. last = k
    <3>1. Prices!Max({k}) = k
      BY <2>3 DEF Prices!Max
    <3> QED
      BY <2>2, <3>1
  <2>5. a.value = Prices!Fraction(text, k)
    <3> HIDE DEF last
    <3>1. a = Prices!Value(Prices!Fraction(text, k))
      BY <2>1, <2>4, Zenon
    <3> QED
      BY <3>1 DEF Prices!Value
  <2>6. CASE n # 1
    <3>1. \E i \in DOMAIN text.marks : i \notin dots \cup commas
      <4> HIDE DEF n, dots, commas
      <4>1. \E i \in 1 .. n : i # k
        <5>1. CASE k = 1
          <6>1. 2 \in 1 .. n
            BY <1>1, <2>3, <2>6
          <6> QED
            BY <5>1, <6>1
        <5>2. CASE k # 1
          <6>1. 1 \in 1 .. n
            BY <1>1, <2>3, <2>6
          <6> QED
            BY <5>2, <6>1
        <5> QED
          BY <5>1, <5>2
      <4> QED
        BY <1>1, <2>2, <4>1
    <3>2. readings = {}
      BY <3>1 DEF Prices!Readings, Prices!Reads
    <3> QED
      BY <1>4, <3>2
  <2>7. CASE n = 1
    <3>1. Len(text.runs) = 2 /\ DOMAIN text.marks = 1 .. 1 /\ k = 1
      BY <1>1, <2>3, <2>7
    <3>2. text.runs[1] \in Nat /\ text.runs[2] \in Nat
      BY <3>1
    <3>3. a.value = text.runs[2]
      BY <2>5, <3>1, <3>2, DigitsOfOne DEF Prices!Fraction
    <3>4. CASE text.marks[1] = "."
      <4>1. Prices!LoneDot(text)
        <5>1. text.marks = [i \in 1 .. 1 |-> "."]
          BY <3>1, <3>4
        <5>2. <<".">> = [i \in 1 .. 1 |-> "."]
          OBVIOUS
        <5> QED
          BY <5>1, <5>2 DEF Prices!LoneDot
      <4>2. text.runs[2] \in readings
        <5>1. Prices!Reads(text, ",", ".") = {text.runs[2]}
          BY <3>1, <3>4, ReadsOfTwo
        <5> QED
          BY <5>1 DEF Prices!Readings
      <4> QED
        BY <3>3, <4>1, <4>2
    <3>5. CASE text.marks[1] = ","
      <4>1. commas # {} /\ ~Prices!Ambiguous(text, 1)
        <5>1. commas # {}
          <6>1. 1 \in commas
            <7>1. 1 \in DOMAIN text.marks
              BY <3>1
            <7> QED
              BY <3>5, <7>1, Zenon DEF Prices!MarksOf
          <6> QED
            BY <6>1, Zenon
        <5>2. last = 1
          BY <2>4, <3>1
        <5> HIDE DEF last
        <5> QED
          BY <2>1, <5>1, <5>2
      <4>2. /\ Prices!Fraction(text, 1) = text.runs[2]
            /\ Prices!DigitsIn(text, 1, 1) = text.runs[1]
        BY <3>1, <3>2, DigitsOfOne DEF Prices!Fraction
      <4>3. ~(~text.zero /\ text.runs[1] \in 1 .. 3 /\ text.runs[2] = 3)
        <5> SUFFICES ASSUME ~text.zero, text.runs[1] \in 1 .. 3, text.runs[2] = 3
                     PROVE  FALSE
          OBVIOUS
        <5>1. Prices!DigitsIn(text, 1, 1) > 0 /\ Prices!Fraction(text, 1) = 3
          BY <4>2
        <5> QED
          BY <4>1, <5>1 DEF Prices!Ambiguous
      <4>4. Prices!Reads(text, ",", ".") = {}
        BY <3>1, <3>5, <4>3, ReadsOfTwo
      <4>5. Prices!Reads(text, ".", ",") = {text.runs[2]}
        BY <3>1, <3>5, ReadsOfTwo
      <4> QED
        BY <1>5, <3>3, <4>4, <4>5 DEF Prices!Readings
    <3> QED
      BY <2>2, <3>1, <3>4, <3>5 DEF Prices!MarksOf
  <2> QED
    BY <2>6, <2>7
<1> QED
  BY <1>6, <1>7, <1>8

(* A scaled value is exact, or too large.                                  *)
LEMMA ScaledExactly ==
  ASSUME NEW whole \in Nat, NEW fraction \in Nat
  PROVE  whole > (MaxMoney - fraction) \div Scale <=> whole * Scale + fraction > MaxMoney
<1> DEFINE d == (MaxMoney - fraction) \div Scale
           r == (MaxMoney - fraction) % Scale
<1>1. Scale \in Nat \ {0} /\ MaxMoney \in Nat
  BY AlgorithmsAssumption, OptimizerAssumption
<1>2. d \in Int /\ r \in 0 .. Scale - 1 /\ MaxMoney - fraction = Scale * d + r
  BY <1>1
<1> HIDE DEF d, r
<1>3. CASE whole > d
  <2>1. Scale * (whole - d - 1) >= 0
    BY <1>1, <1>2, <1>3
  <2>2. Scale * whole = Scale * (whole - d - 1) + Scale * d + Scale
    BY <1>1, <1>2
  <2> QED
    BY <1>1, <1>2, <1>3, <2>1, <2>2 DEF d
<1>4. CASE whole <= d
  <2>1. Scale * (d - whole) >= 0
    BY <1>1, <1>2, <1>4
  <2>2. Scale * d = Scale * (d - whole) + Scale * whole
    BY <1>1, <1>2
  <2> QED
    BY <1>1, <1>2, <1>4, <2>1, <2>2 DEF d
<1> QED
  BY <1>2, <1>3, <1>4

(* A price is read, and scaled, for what it is.                            *)
LEMMA PriceStep ==
  ASSUME question \in MoneyQuestions, Prices!Next
  PROVE  Prices!PriceIsNeverMisread'
<1>0. Prices!IsQuestion(question) /\ question' = question
  BY AlgorithmsAssumption DEF Prices!Next
<1>1. CASE question.kind = "text"
  <2> DEFINE text == question.text
  <2>1. /\ text.runs \in Seq(Nat) /\ text.runs # <<>>
        /\ text.marks = [i \in 1 .. Len(text.runs) - 1 |-> text.marks[i]]
    BY <1>0, <1>1 DEF Prices!IsQuestion
  <2>2. answer' = Prices!Normalize(text)
    BY <1>1 DEF Prices!Next, Prices!ReadPrice, Prices!ScalePrice, Prices!Convert
  <2> HIDE DEF text
  <2> DEFINE a == answer'
             readings == Prices!Readings(text)
  <2>3. a.ok =>
          /\ readings # {} => a.value \in readings
          /\ Prices!Cardinality(readings) > 1 =>
               Prices!LoneDot(text) /\ a.value = text.runs[2]
    BY <2>1, <2>2, TextIsRead
  <2> QED
    BY <1>0, <1>1, <2>3
    DEF text, Prices!PriceIsNeverMisread, Prices!Readings, Prices!Reads, Prices!LoneDot
<1>2. CASE question.kind = "scale"
  <2>1. question.whole \in Nat /\ question.fraction \in Nat /\ question.roundUp \in BOOLEAN
    BY <1>0, <1>2 DEF Prices!IsQuestion
  <2>2. Prices!ScalePrice
    BY <1>2 DEF Prices!Next, Prices!ReadPrice, Prices!Convert
  <2> DEFINE scaled == question.whole * Scale + question.fraction
  <2>3. question.whole > (MaxMoney - question.fraction) \div Scale <=> scaled > MaxMoney
    BY <2>1, ScaledExactly
  <2>4. scaled \in Nat /\ MaxMoney \in Nat
    BY <2>1, AlgorithmsAssumption, OptimizerAssumption
  <2> DEFINE exact == scaled + IF question.roundUp THEN 1 ELSE 0
  <2>5. answer' = IF exact > MaxMoney THEN Prices!Error ELSE Prices!Value(exact)
    <3>1. answer' = IF scaled > MaxMoney THEN Prices!Error
                    ELSE IF ~question.roundUp THEN Prices!Value(scaled)
                    ELSE IF scaled = MaxMoney THEN Prices!Error
                    ELSE Prices!Value(scaled + 1)
      BY <2>2, <2>3 DEF Prices!ScalePrice
    <3> HIDE DEF scaled
    <3> QED
      BY <2>1, <2>4, <3>1
  <2> QED
    BY <1>0, <1>2, <2>5 DEF Prices!PriceIsNeverMisread
<1>3. CASE question.kind \notin {"text", "scale"}
  BY <1>0, <1>3 DEF Prices!PriceIsNeverMisread
<1> QED
  BY <1>1, <1>2, <1>3

-----------------------------------------------------------------------------
(* Demands of a bill of materials.                                         *)

(* The lines of one part up to a place.                                    *)
Met(lines, key, n) == {i \in 1 .. n : lines[i].key = key}

(* What the property calls the quantity listed of a part.                  *)
SumOfLines(lines, key) ==
  Boms!SumFunctionOnSet([i \in DOMAIN lines |-> lines[i].quantity], Met(lines, key, Len(lines)))

(* What SumFunctionOnSet is.                                               *)
LEMMA SumFunctionMeans ==
  ASSUME NEW f, NEW S
  PROVE  Boms!SumFunctionOnSet(f, S) = (CHOOSE g : Sums(f, S, g))[S]
BY DEF Boms!SumFunctionOnSet, Boms!FoldFunctionOnSet, Boms!MapThenFoldSet, Sums

(* The cardinality of the instance is that of the library.                 *)
LEMMA CardinalityOfBoms == \A S : Boms!Cardinality(S) = Cardinality(S)
BY DEF Boms!Cardinality, Cardinality, Boms!IsFiniteSet, IsFiniteSet

(* A recursion over the places of a sequence, and what it computes.        *)
DemandsAfter(lines, key, after) ==
  after = [n \in 0 .. Len(lines) |->
             IF n = 0 THEN [key |-> key, quantity |-> 0, detail |-> Nil, warnings |-> 0]
             ELSE IF lines[n].key = key THEN Boms!Merged(after[n - 1], lines[n])
             ELSE after[n - 1]]

(* The demands of one part.                                                *)
DemandsOf(key) ==
  [key : {key}, quantity : Int, detail : Int \cup {Nil}, warnings : Nat]

(* What Merged adds to a demand: the quantity, the first detail, and a     *)
(* warning when two details differ.                                        *)
LEMMA MergedMeans ==
  ASSUME NEW key, NEW d \in DemandsOf(key), NEW part \in Boms!Part
  PROVE  LET m == Boms!Merged(d, part)
         IN /\ m \in DemandsOf(key)
            /\ m.quantity = d.quantity + part.quantity
            /\ m.detail = IF d.detail = Nil THEN part.detail ELSE d.detail
            /\ m.warnings = IF Nil \notin {part.detail, d.detail} /\ part.detail # d.detail
                              THEN d.warnings + 1 ELSE d.warnings
<1> DEFINE q == d.quantity + part.quantity
           e == IF d.detail = Nil THEN part.detail ELSE d.detail
           w == d.warnings + IF Nil \notin {part.detail, d.detail} /\ part.detail # d.detail
                               THEN 1 ELSE 0
<1>1. Boms!Merged(d, part) = [d EXCEPT !.quantity = q, !.detail = e, !.warnings = w]
  BY Zenon DEF Boms!Merged
<1>2. q \in Int /\ e \in Int \cup {Nil} /\ w \in Nat
  BY DEF DemandsOf, Boms!Part
<1>3. w = IF Nil \notin {part.detail, d.detail} /\ part.detail # d.detail
            THEN d.warnings + 1 ELSE d.warnings
  BY DEF DemandsOf
<1> HIDE DEF q, e, w
<1>4. /\ Boms!Merged(d, part) \in DemandsOf(key)
      /\ Boms!Merged(d, part).quantity = q /\ Boms!Merged(d, part).detail = e
      /\ Boms!Merged(d, part).warnings = w
  BY <1>1, <1>2 DEF DemandsOf
<1> QED
  BY <1>3, <1>4 DEF q, e

(* The recursion is defined, at every place by a demand of the part.       *)
LEMMA DemandsAfterExist ==
  ASSUME NEW lines \in Seq(Boms!Part), NEW key
  PROVE  \E after \in [0 .. Len(lines) -> DemandsOf(key)] : DemandsAfter(lines, key, after)
<1> DEFINE N == Len(lines)
           S == DemandsOf(key)
           first == [key |-> key, quantity |-> 0, detail |-> Nil, warnings |-> 0]
           step == [p \in (1 .. N) \X S |->
                      IF lines[p[1]].key = key THEN Boms!Merged(p[2], lines[p[1]]) ELSE p[2]]
<1>1. N \in Nat /\ \A n \in 1 .. N : lines[n] \in Boms!Part
  OBVIOUS
<1>2. first \in S
  BY DEF DemandsOf
<1>3. step \in [(1 .. N) \X S -> S]
  <2>1. \A p \in (1 .. N) \X S : p[1] \in 1 .. N /\ p[2] \in S
    OBVIOUS
  <2>2. \A p \in (1 .. N) \X S :
          (IF lines[p[1]].key = key THEN Boms!Merged(p[2], lines[p[1]]) ELSE p[2]) \in S
    <3> HIDE DEF N
    <3> QED
      BY <1>1, <2>1, MergedMeans
  <2> QED
    BY <2>2
<1>4. \A n \in 1 .. N : \A d \in S :
         step[<<n, d>>] = IF lines[n].key = key THEN Boms!Merged(d, lines[n]) ELSE d
  OBVIOUS
<1> HIDE DEF N, S, first, step
<1>5. PICK f : Recurs(f, N, S, step, first)
  BY <1>1, <1>2, <1>3, RecursionExists
<1>6. ASSUME NEW n \in 0 .. N
      PROVE  f[n] = IF n = 0 THEN first
                    ELSE IF lines[n].key = key THEN Boms!Merged(f[n - 1], lines[n]) ELSE f[n - 1]
  <2>1. CASE n = 0
    BY <1>5, <2>1 DEF Recurs
  <2>2. CASE n # 0
    <3>1. n \in 1 .. N /\ f[n - 1] \in S
      BY <1>1, <1>5, <2>2 DEF Recurs
    <3> QED
      BY <1>4, <1>5, <2>2, <3>1 DEF Recurs
  <2> QED
    BY <2>1, <2>2
<1>7. f \in [0 .. N -> S]
  BY <1>5 DEF Recurs
<1>8. f = [n \in 0 .. N |->
             IF n = 0 THEN first
             ELSE IF lines[n].key = key THEN Boms!Merged(f[n - 1], lines[n]) ELSE f[n - 1]]
  BY <1>6, <1>7
<1> QED
  BY <1>7, <1>8 DEF DemandsAfter, N, S, first

(* What is known of a demand after some of the lines.                      *)
Accounted(lines, key, g, n, d) ==
  /\ d \in DemandsOf(key)
  /\ d.quantity = g[Met(lines, key, n)]
  /\ d.quantity >= 0
  /\ Met(lines, key, n) # {} => d.quantity >= 1
  /\ d.detail = Nil => \A i \in Met(lines, key, n) : lines[i].detail = Nil
  /\ d.detail # Nil => \E i \in Met(lines, key, n) : lines[i].detail = d.detail
  /\ d.warnings > 0 <=> \E i \in Met(lines, key, n) : lines[i].detail \notin {Nil, d.detail}

(* One more line keeps the account.                                        *)
LEMMA OneMoreLine ==
  ASSUME NEW lines \in Seq(Boms!Part), \A i \in 1 .. Len(lines) : lines[i].quantity >= 1,
         NEW key, NEW n \in 1 .. Len(lines), NEW d, NEW g,
         Accounted(lines, key, g, n - 1, d),
         lines[n].key = key =>
           g[Met(lines, key, n)] = lines[n].quantity + g[Met(lines, key, n) \ {n}]
  PROVE  Accounted(lines, key, g, n,
                   IF lines[n].key = key THEN Boms!Merged(d, lines[n]) ELSE d)
<1>1. n \in Nat /\ lines[n] \in Boms!Part /\ lines[n].quantity >= 1
  OBVIOUS
<1>2. CASE lines[n].key # key
  <2>1. Met(lines, key, n) = Met(lines, key, n - 1)
    BY <1>1, <1>2 DEF Met
  <2> QED
    BY <1>2, <2>1 DEF Accounted
<1>3. CASE lines[n].key = key
  <2> DEFINE before == Met(lines, key, n - 1)
             now == Met(lines, key, n)
             part == lines[n]
             m == Boms!Merged(d, part)
  <2>1. now = before \cup {n} /\ now \ {n} = before
    BY <1>1, <1>3 DEF Met
  <2>2. /\ d \in DemandsOf(key) /\ d.quantity \in Int /\ d.warnings \in Nat
        /\ part.quantity \in Int
    BY <1>1 DEF Accounted, DemandsOf, Boms!Part
  <2>3. /\ m \in DemandsOf(key)
        /\ m.quantity = d.quantity + part.quantity
        /\ m.detail = IF d.detail = Nil THEN part.detail ELSE d.detail
        /\ m.warnings = IF Nil \notin {part.detail, d.detail} /\ part.detail # d.detail
                          THEN d.warnings + 1 ELSE d.warnings
    BY <1>1, <2>2, MergedMeans
  <2>4. /\ d.quantity = g[before] /\ d.quantity >= 0
        /\ d.detail = Nil => \A i \in before : lines[i].detail = Nil
        /\ d.detail # Nil => \E i \in before : lines[i].detail = d.detail
        /\ d.warnings > 0 <=> \E i \in before : lines[i].detail \notin {Nil, d.detail}
    BY DEF Accounted
  <2>5. g[now] = part.quantity + g[before]
    BY <1>3, <2>1
  <2> HIDE DEF m, before, now
  <2>6. m.quantity = g[now] /\ m.quantity >= 1
    BY <1>1, <2>2, <2>3, <2>4, <2>5
  <2>7. part = lines[n] /\ n \in now
    BY <2>1
  <2> HIDE DEF part
  <2>8. /\ m.detail = Nil => \A i \in now : lines[i].detail = Nil
        /\ m.detail # Nil => \E i \in now : lines[i].detail = m.detail
    BY <2>1, <2>3, <2>4, <2>7
  <2>9. m.warnings > 0 <=> \E i \in now : lines[i].detail \notin {Nil, m.detail}
    <3>1. CASE d.detail = Nil
      <4>2. ~(d.warnings > 0) /\ m.warnings = d.warnings
        BY <2>3, <2>4, <3>1
      <4> QED
        BY <2>1, <2>3, <2>4, <2>7, <3>1, <4>2
    <3>2. CASE d.detail # Nil
      <4>1. m.detail = d.detail
        BY <2>3, <3>2
      <4>2. CASE part.detail \in {Nil, d.detail}
        BY <2>1, <2>3, <2>4, <2>7, <4>1, <4>2
      <4>3. CASE part.detail \notin {Nil, d.detail}
        <5>1. m.warnings > 0
          BY <2>2, <2>3, <3>2, <4>3
        <5> QED
          BY <2>7, <4>1, <4>3, <5>1
      <4> QED
        BY <4>2, <4>3
    <3> QED
      BY <3>1, <3>2
  <2>10. Accounted(lines, key, g, n, m)
    <3>1. Met(lines, key, n) = now
      BY DEF now
    <3>2. m.quantity >= 0
      BY <2>2, <2>3, <2>6
    <3> QED
      BY <2>3, <2>6, <2>8, <2>9, <3>1, <3>2 DEF Accounted
  <2> QED
    BY <1>3, <2>10 DEF m, part
<1> QED
  BY <1>2, <1>3

(* The demand of a part accounts for all of its lines.                     *)
LEMMA DemandAccounts ==
  ASSUME NEW lines \in Seq(Boms!Part), \A i \in 1 .. Len(lines) : lines[i].quantity >= 1,
         NEW key
  PROVE  \E g : /\ Accounted(lines, key, g, Len(lines), Boms!DemandOf(lines, key))
               /\ g[Met(lines, key, Len(lines))] = SumOfLines(lines, key)
<1> DEFINE N == Len(lines)
           q == [i \in DOMAIN lines |-> lines[i].quantity]
           S == 1 .. N
<1>1. N \in Nat /\ IsFiniteSet(S) /\ S = DOMAIN lines
  BY IntervalIsFinite
<1>2. \A i \in S : q[i] = lines[i].quantity
  OBVIOUS
<1>13. \A i \in S : q[i] \in Int
  <2>1. \A i \in S : lines[i] \in Boms!Part
    OBVIOUS
  <2> HIDE DEF q
  <2> QED
    BY <1>2, <2>1 DEF Boms!Part
<1> HIDE DEF q, S
<1>3. PICK g : g[{}] = 0 /\ AnyIsLast(q, S, g) /\ AgreesOnParts(q, S, g)
  BY <1>1, <1>13, SummedUp
<1>4. g[{}] = 0
  BY <1>3
<1> DEFINE after == CHOOSE f : DemandsAfter(lines, key, f)
<1>5. DemandsAfter(lines, key, after) /\ Boms!DemandOf(lines, key) = after[N]
  <2>1. \E f : DemandsAfter(lines, key, f)
    BY DemandsAfterExist
  <2>2. DemandsAfter(lines, key, after)
    BY <2>1, Zenon
  <2> QED
    BY <2>2 DEF DemandsAfter, Boms!DemandOf
<1> HIDE DEF after
<1>6. after[0] = [key |-> key, quantity |-> 0, detail |-> Nil, warnings |-> 0]
  BY <1>1, <1>5 DEF DemandsAfter
<1>7. ASSUME NEW n \in 1 .. N
      PROVE  after[n] = IF lines[n].key = key THEN Boms!Merged(after[n - 1], lines[n])
                        ELSE after[n - 1]
  BY <1>1, <1>5 DEF DemandsAfter
<1>8. Accounted(lines, key, g, 0, after[0])
  <2>1. Met(lines, key, 0) = {}
    BY DEF Met
  <2>2. after[0] \in DemandsOf(key)
    BY <1>6 DEF DemandsOf
  <2>3. /\ after[0].quantity = 0 /\ after[0].detail = Nil /\ after[0].warnings = 0
    BY <1>6
  <2> DEFINE d == after[0]
  <2>4. /\ d \in DemandsOf(key) /\ d.quantity = 0 /\ d.detail = Nil /\ ~(d.warnings > 0)
    BY <2>2, <2>3
  <2> HIDE DEF d
  <2>5. Accounted(lines, key, g, 0, d)
    <3> SUFFICES ASSUME NEW M, M = Met(lines, key, 0), M = {}
                 PROVE  Accounted(lines, key, g, 0, d)
      BY <2>1
    <3>1. g[M] = 0
      BY <1>4
    <3>2. ~(\E i \in M : lines[i].detail \notin {Nil, d.detail})
      OBVIOUS
    <3> QED
      BY <2>4, <3>1, <3>2 DEF Accounted
  <2> QED
    BY <2>5 DEF d
<1>9. \A n \in 0 .. N : Accounted(lines, key, g, n, after[n])
  <2> DEFINE Wrong == {n \in 0 .. N : ~Accounted(lines, key, g, n, after[n])}
  <2> SUFFICES ASSUME Wrong # {} PROVE FALSE
    OBVIOUS
  <2>1. PICK n \in Wrong : \A k \in Wrong : n <= k
    <3>1. Wrong \subseteq Nat
      OBVIOUS
    <3> HIDE DEF Wrong
    <3> QED
      BY <3>1, LeastNat
  <2>2. n # 0
    BY <1>8, <2>1
  <2>3. n \in 1 .. N /\ n - 1 \in 0 .. N /\ ~(n <= n - 1)
    BY <1>1, <2>2
  <2>4. Accounted(lines, key, g, n - 1, after[n - 1])
    BY <2>1, <2>3
  <2>5. lines[n].key = key =>
          g[Met(lines, key, n)] = lines[n].quantity + g[Met(lines, key, n) \ {n}]
    <3> SUFFICES ASSUME lines[n].key = key
                 PROVE  g[Met(lines, key, n)] = lines[n].quantity + g[Met(lines, key, n) \ {n}]
      OBVIOUS
    <3>1. Met(lines, key, n) \in SUBSET S /\ n \in Met(lines, key, n) /\ n \in S
      BY <1>1, <2>3 DEF Met, S
    <3>2. g[Met(lines, key, n)] = q[n] + g[Met(lines, key, n) \ {n}]
      BY <1>3, <3>1 DEF AnyIsLast
    <3> QED
      BY <1>2, <3>1, <3>2
  <2> HIDE DEF Wrong
  <2>6. Accounted(lines, key, g, n, after[n])
    <3> DEFINE d == after[n - 1]
    <3>1. Accounted(lines, key, g, n - 1, d)
      BY <2>4
    <3>2. after[n] = IF lines[n].key = key THEN Boms!Merged(d, lines[n]) ELSE d
      BY <1>7, <2>3
    <3> HIDE DEF d
    <3>3. Accounted(lines, key, g, n, IF lines[n].key = key THEN Boms!Merged(d, lines[n]) ELSE d)
      BY <2>3, <2>5, <3>1, OneMoreLine
    <3> QED
      BY <3>2, <3>3
  <2> QED
    BY <2>1, <2>6 DEF Wrong
<1>10. g[Met(lines, key, N)] = SumOfLines(lines, key)
  <2> DEFINE T == Met(lines, key, N)
             h == CHOOSE f : Sums(q, T, f)
  <2>1. T \in SUBSET S /\ IsFiniteSet(T) /\ \A i \in T : q[i] \in Int
    <3>1. T \in SUBSET S
      BY DEF Met, S
    <3> QED
      BY <1>1, <1>13, <3>1, PartOfFinite
  <2> HIDE DEF T
  <2>2. \E f : Sums(q, T, f)
    BY <2>1, SumsOverExist DEF SumsUp
  <2>3. Sums(q, T, h)
    BY <2>2, Zenon
  <2>4. SumOfLines(lines, key) = h[T]
    BY SumFunctionMeans DEF SumOfLines, T, q
  <2> HIDE DEF h
  <2>5. h[T] = g[T]
    BY <1>3, <2>1, <2>3 DEF AgreesOnParts
  <2> QED
    BY <2>4, <2>5 DEF T
<1>11. N \in 0 .. N
  BY <1>1
<1>12. Accounted(lines, key, g, N, Boms!DemandOf(lines, key))
  BY <1>5, <1>9, <1>11
<1> QED
  BY <1>10, <1>12

(* Sequences put together are a sequence, of the members of each.          *)
LEMMA FlattenedFrom ==
  ASSUME NEW S, NEW seqs \in Seq(Seq(S))
  PROVE  /\ Boms!FlattenSeq(seqs) \in Seq(S)
         /\ \A i \in 1 .. Len(Boms!FlattenSeq(seqs)) :
              \E n \in 1 .. Len(seqs) : \E k \in 1 .. Len(seqs[n]) :
                Boms!FlattenSeq(seqs)[i] = seqs[n][k]
<1> DEFINE N == Len(seqs)
           Flat(f) == f = [i \in 1 .. N |-> IF i = 1 THEN seqs[i] ELSE f[i - 1] \o seqs[i]]
           flat == CHOOSE f : Flat(f)
           From(s, n) == \A i \in 1 .. Len(s) : \E m \in 1 .. n : \E k \in 1 .. Len(seqs[m]) :
                           s[i] = seqs[m][k]
<1>0. N \in Nat /\ \A n \in 1 .. N : seqs[n] \in Seq(S)
  OBVIOUS
<1>1. CASE N = 0
  <2>1. Boms!FlattenSeq(seqs) = seqs
    BY <1>1 DEF Boms!FlattenSeq
  <2>2. seqs = << >>
    BY <1>1
  <2> QED
    BY <2>1, <2>2
<1>2. CASE N # 0
  <2>1. \E f : Flat(f)
    <3> DEFINE step == [p \in (1 .. N) \X Seq(S) |-> p[2] \o seqs[p[1]]]
    <3>1. << >> \in Seq(S) /\ step \in [(1 .. N) \X Seq(S) -> Seq(S)]
      <4>1. \A p \in (1 .. N) \X Seq(S) : p[2] \o seqs[p[1]] \in Seq(S)
        <5> SUFFICES ASSUME NEW p \in (1 .. N) \X Seq(S) PROVE p[2] \o seqs[p[1]] \in Seq(S)
          OBVIOUS
        <5>1. p[1] \in 1 .. N /\ p[2] \in Seq(S)
          OBVIOUS
        <5>2. seqs[p[1]] \in Seq(S)
          BY <1>0, <5>1
        <5> QED
          BY <5>1, <5>2
      <4> QED
        BY <4>1
    <3>2. \A n \in 1 .. N : \A s \in Seq(S) : step[<<n, s>>] = s \o seqs[n]
      OBVIOUS
    <3> HIDE DEF step, N
    <3>3. PICK f : Recurs(f, N, Seq(S), step, << >>)
      BY <1>0, <3>1, RecursionExists
    <3>4. \A n \in 1 .. N : f[n] = f[n - 1] \o seqs[n] /\ f[n - 1] \in Seq(S) /\ f[n] \in Seq(S)
      <4>1. \A n \in 1 .. N : n \in 0 .. N /\ n - 1 \in 0 .. N
        BY <1>0
      <4> QED
        BY <3>2, <3>3, <4>1 DEF Recurs
    <3> DEFINE h == [i \in 1 .. N |-> f[i]]
    <3>5. ASSUME NEW i \in 1 .. N
          PROVE  h[i] = IF i = 1 THEN seqs[i] ELSE h[i - 1] \o seqs[i]
      <4>1. CASE i = 1
        <5>1. f[0] = << >>
          BY <3>3 DEF Recurs
        <5>2. f[1] = << >> \o seqs[1]
          <6>1. 1 \in 1 .. N /\ 1 - 1 = 0
            BY <4>1
          <6> QED
            BY <3>4, <5>1, <6>1
        <5>3. seqs[1] \in Seq(S)
          BY <1>0, <4>1
        <5>4. << >> \o seqs[1] = seqs[1]
          BY <5>3
        <5> QED
          BY <4>1, <5>2, <5>4
      <4>2. CASE i # 1
        <5>1. i - 1 \in 1 .. N
          BY <1>0, <4>2
        <5> QED
          BY <3>4, <4>2, <5>1
      <4> QED
        BY <4>1, <4>2
    <3>6. h = [i \in 1 .. N |-> h[i]]
      OBVIOUS
    <3> HIDE DEF h
    <3>7. Flat(h)
      BY <3>5, <3>6
    <3> QED
      BY <3>7
  <2>2. Flat(flat)
    BY <2>1, Zenon
  <2>3. Boms!FlattenSeq(seqs) = flat[N]
    BY <1>2 DEF Boms!FlattenSeq
  <2>4. \A i \in 1 .. N : flat[i] = IF i = 1 THEN seqs[i] ELSE flat[i - 1] \o seqs[i]
    <3> HIDE DEF flat, N
    <3> QED
      BY <2>2
  <2> HIDE DEF flat
  <2>5. \A n \in 1 .. N : flat[n] \in Seq(S) /\ From(flat[n], n)
    <3> DEFINE Wrong == {n \in 1 .. N : ~(flat[n] \in Seq(S) /\ From(flat[n], n))}
    <3> SUFFICES ASSUME Wrong # {} PROVE FALSE
      OBVIOUS
    <3>1. PICK n \in Wrong : \A k \in Wrong : n <= k
      <4>1. Wrong \subseteq Nat
        OBVIOUS
      <4> HIDE DEF Wrong
      <4> QED
        BY <4>1, LeastNat
    <3>2. n \in 1 .. N /\ ~(flat[n] \in Seq(S) /\ From(flat[n], n))
      OBVIOUS
    <3>3. CASE n = 1
      <4>1. flat[n] = seqs[1] /\ seqs[1] \in Seq(S)
        BY <1>0, <2>4, <3>2, <3>3
      <4> QED
        BY <3>2, <3>3, <4>1
    <3>4. CASE n # 1
      <4>1. n - 1 \in 1 .. N /\ n - 1 \notin Wrong
        <5>1. n - 1 \in 1 .. N /\ ~(n <= n - 1)
          BY <1>0, <3>2, <3>4
        <5> HIDE DEF Wrong
        <5> QED
          BY <3>1, <5>1
      <4>2. flat[n - 1] \in Seq(S) /\ From(flat[n - 1], n - 1)
        BY <4>1
      <4>3. flat[n] = flat[n - 1] \o seqs[n] /\ seqs[n] \in Seq(S)
        BY <1>0, <2>4, <3>2, <3>4
      <4>4. flat[n] \in Seq(S)
        BY <4>2, <4>3
      <4>5. From(flat[n], n)
        <5> SUFFICES ASSUME NEW i \in 1 .. Len(flat[n])
                     PROVE  \E m \in 1 .. n : \E k \in 1 .. Len(seqs[m]) : flat[n][i] = seqs[m][k]
          OBVIOUS
        <5>1. CASE i <= Len(flat[n - 1])
          <6>1. i \in 1 .. Len(flat[n - 1]) /\ flat[n][i] = flat[n - 1][i]
            BY <4>2, <4>3, <5>1
          <6>2. PICK m \in 1 .. n - 1 : \E k \in 1 .. Len(seqs[m]) : flat[n - 1][i] = seqs[m][k]
            BY <4>2, <6>1
          <6>3. m \in 1 .. n
            BY <3>2, <6>2
          <6> QED
            BY <6>1, <6>2, <6>3
        <5>2. CASE i > Len(flat[n - 1])
          <6>1. i - Len(flat[n - 1]) \in 1 .. Len(seqs[n])
            <7>1. Len(flat[n]) = Len(flat[n - 1]) + Len(seqs[n])
              BY <4>2, <4>3
            <7>2. Len(flat[n - 1]) \in Nat /\ Len(seqs[n]) \in Nat
              BY <4>2, <4>3
            <7> DEFINE a == Len(flat[n - 1])
                       b == Len(seqs[n])
                       c == Len(flat[n])
            <7>3. a \in Nat /\ b \in Nat /\ c = a + b /\ i \in 1 .. c /\ i > a
              BY <5>2, <7>1, <7>2
            <7> HIDE DEF a, b, c
            <7>4. i - a \in 1 .. b
              BY <7>3
            <7> QED
              BY <7>4 DEF a, b
          <6>2. flat[n][i] = seqs[n][i - Len(flat[n - 1])]
            BY <4>2, <4>3, <5>2
          <6>3. n \in 1 .. n
            BY <3>2
          <6> QED
            BY <6>1, <6>2, <6>3
        <5>3. Len(flat[n - 1]) \in Nat
          BY <4>2
        <5> QED
          BY <5>1, <5>2, <5>3
      <4> QED
        BY <3>2, <4>4, <4>5
    <3> QED
      BY <3>3, <3>4
  <2>6. N \in 1 .. N
    BY <1>0, <1>2
  <2>7. flat[N] \in Seq(S) /\ From(flat[N], N)
    <3> HIDE DEF N, From
    <3> QED
      BY <2>5, <2>6
  <2> QED
    BY <2>3, <2>7
<1> QED
  BY <1>1, <1>2

(* What is required is the least that covers units and attrition.          *)
LEMMA ScaledCovers ==
  ASSUME NEW p \in Nat \ {0}, NEW u \in Nat \ {0}, NEW a \in 0 .. Scale,
         NEW n, n = Boms!Scaled(p, u, a), n # Nil
  PROVE  n \in 1 .. MaxInt /\ Boms!IsLeastCover(n, p * u * (Scale + a))
<1> DEFINE base == p * u
           d == MaxInt \div u
           extra == (base * a + Scale - 1) \div Scale
<1>1. Scale \in Nat \ {0} /\ MaxInt \in Nat /\ a \in Nat
  BY AlgorithmsAssumption, OptimizerAssumption
<1>2. base \in Nat \ {0}
  BY SMT
<1>3. base <= MaxInt
  <2>1. ~(p > d)
    BY DEF Boms!Scaled
  <2>2. d \in Int /\ u * d <= MaxInt
    BY <1>1
  <2> HIDE DEF d
  <2>3. p <= d
    BY <2>1, <2>2
  <2>4. p * u <= d * u
    BY <2>2, <2>3, TimesMonotone
  <2> QED
    BY <1>1, <2>2, <2>4
<1>4. CASE a = 0
  <2>1. n = base
    BY <1>4 DEF Boms!Scaled
  <2>2. Scale * (n - 1) < Scale * n
    BY <1>1, <1>2, <2>1
  <2>3. p * u * (Scale + a) = Scale * n
    BY <1>1, <1>2, <1>4, <2>1
  <2> QED
    BY <1>1, <1>2, <1>3, <2>1, <2>2, <2>3 DEF Boms!IsLeastCover
<1>5. CASE a # 0
  <2>1. n = base + extra /\ ~(extra > MaxInt - base)
    BY <1>2, <1>5 DEF Boms!Scaled
  <2> DEFINE top == base * a
             r == (top + Scale - 1) % Scale
  <2>2. top \in Nat
    BY <1>1, <1>2
  <2>3. p * u * (Scale + a) = Scale * base + top
    BY <1>1, <1>2
  <2> HIDE DEF base, top
  <2>4. extra \in Int /\ r \in 0 .. Scale - 1 /\ top + Scale - 1 = Scale * extra + r
    BY <1>1, <2>2 DEF top
  <2> HIDE DEF extra, r
  <2>5. extra >= 0
    <3> SUFFICES ASSUME extra <= -1 PROVE FALSE
      BY <2>4
    <3>1. Scale * (-1 - extra) >= 0
      BY <1>1, <2>4
    <3>2. Scale * (-1 - extra) = - Scale - Scale * extra
      BY <1>1, <2>4
    <3>3. Scale * extra \in Int
      BY <1>1, <2>4
    <3> QED
      BY <1>1, <2>2, <2>4, <3>1, <3>2, <3>3
  <2>6. Scale * n = Scale * base + Scale * extra /\ Scale * (n - 1) = Scale * base + Scale * extra - Scale
    BY <1>1, <1>2, <2>1, <2>4
  <2>7. Scale * n >= Scale * base + top /\ Scale * (n - 1) < Scale * base + top
    <3>1. Scale * extra \in Int /\ Scale * base \in Int
      BY <1>1, <1>2, <2>4
    <3> QED
      BY <1>1, <2>2, <2>4, <2>6, <3>1
  <2> QED
    BY <1>1, <1>2, <1>3, <2>1, <2>3, <2>4, <2>5, <2>7 DEF Boms!IsLeastCover
<1> QED
  BY <1>4, <1>5

(* Of what loads, every line is one of a part, and counts.                 *)
LEMMA LinesAreParts ==
  ASSUME NEW q, Boms!IsQuestion(q), Boms!Loads(q.sources)
  PROVE  LET lines == Boms!Lines(q.sources)
         IN /\ lines \in Seq(Boms!Part)
            /\ \A i \in 1 .. Len(lines) : lines[i].quantity >= 1 /\ lines[i].key \in Int
<1> DEFINE sources == q.sources
           documents == [i \in DOMAIN sources |-> sources[i].document]
           designs == Boms!DesignsOf(sources)
           lines == Boms!Lines(sources)
<1>1. sources \in Seq([stdin : BOOLEAN, document : Seq(Seq(Boms!Part)) \cup {Bad}])
  BY DEF Boms!IsQuestion
<1>2. \A i \in DOMAIN sources : sources[i].document \in Seq(Seq(Boms!Part))
  <2> DEFINE D == Seq(Seq(Boms!Part)) \cup {Bad}
  <2>1. \A i \in DOMAIN sources : sources[i].document \in D
    <3>1. sources \in Seq([stdin : BOOLEAN, document : D])
      BY <1>1
    <3> HIDE DEF D, sources
    <3>3. \A X : sources \in Seq(X) => \A i \in DOMAIN sources : sources[i] \in X
      OBVIOUS
    <3>2. \A i \in DOMAIN sources : sources[i] \in [stdin : BOOLEAN, document : D]
      BY <3>1, <3>3
    <3> QED
      BY <3>2
  <2> QED
    BY <2>1 DEF Boms!Loads, Boms!Readable
<1>3. documents \in Seq(Seq(Seq(Boms!Part)))
  <2>1. Len(sources) \in Nat /\ DOMAIN sources = 1 .. Len(sources)
    BY <1>1
  <2>2. documents = [i \in 1 .. Len(sources) |-> sources[i].document]
    BY <2>1
  <2> HIDE DEF documents
  <2> QED
    BY <1>2, <2>1, <2>2
<1>4. designs \in Seq(Seq(Boms!Part))
  <2> HIDE DEF documents
  <2>1. Boms!FlattenSeq(documents) \in Seq(Seq(Boms!Part))
    BY <1>3, FlattenedFrom
  <2> QED
    BY <2>1 DEF documents, Boms!DesignsOf
<1>5. \A n \in 1 .. Len(designs) : Boms!ValidDesign(designs[n])
  BY <1>4 DEF Boms!Loads
<1> HIDE DEF designs
<1>6. /\ Boms!FlattenSeq(designs) \in Seq(Boms!Part)
      /\ \A i \in 1 .. Len(Boms!FlattenSeq(designs)) :
           \E n \in 1 .. Len(designs) : \E k \in 1 .. Len(designs[n]) :
             Boms!FlattenSeq(designs)[i] = designs[n][k]
  BY <1>4, FlattenedFrom
<1>7. lines = Boms!FlattenSeq(designs)
  BY DEF Boms!Lines, designs
<1> HIDE DEF lines
<1>8. ASSUME NEW i \in 1 .. Len(lines) PROVE lines[i].quantity >= 1 /\ lines[i].key \in Int
  <2>1. PICK n \in 1 .. Len(designs) : \E k \in 1 .. Len(designs[n]) : lines[i] = designs[n][k]
    BY <1>6, <1>7
  <2>2. PICK k \in 1 .. Len(designs[n]) : lines[i] = designs[n][k]
    BY <2>1
  <2>3. designs[n] \in Seq(Boms!Part)
    BY <1>4
  <2>4. k \in DOMAIN designs[n] /\ designs[n][k] \in Boms!Part
    BY <2>3
  <2>5. designs[n][k].key # Nil /\ designs[n][k].quantity >= 1
    BY <1>5, <2>4 DEF Boms!ValidDesign
  <2> QED
    BY <2>2, <2>4, <2>5 DEF Boms!Part
<1> QED
  BY <1>6, <1>7, <1>8 DEF lines

(* The members of a finite set that has one of them are several as soon as *)
(* there is another.                                                       *)
LEMMA SeveralMeans ==
  ASSUME NEW S, IsFiniteSet(S), NEW a \in S
  PROVE  Boms!Cardinality(S) > 1 <=> \E b \in S : b # a
<1>1. Boms!Cardinality(S) = Cardinality(S) /\ Cardinality(S) \in Nat
  BY CardinalityOfBoms, FS_CardinalityType
<1>2. ASSUME NEW b \in S, b # a PROVE Cardinality(S) > 1
  <2>1. IsFiniteSet({a}) /\ Cardinality({a}) = 1
    BY FS_Singleton
  <2>2. {a} \in SUBSET S /\ {a} # S
    BY <1>2
  <2>3. Cardinality({a}) <= Cardinality(S) /\ (Cardinality(S) = Cardinality({a}) => S = {a})
    BY <2>2, FS_Subset
  <2> QED
    BY <1>1, <2>1, <2>2, <2>3
<1>3. ASSUME ~(\E b \in S : b # a) PROVE Cardinality(S) = 1
  <2>1. S = {a}
    BY <1>3
  <2> QED
    BY <2>1, FS_Singleton
<1> QED
  BY <1>1, <1>2, <1>3

(* The members of a sequence are finitely many.                            *)
LEMMA FiniteImage ==
  ASSUME NEW n \in Nat, NEW f, DOMAIN f = 1 .. n
  PROVE  IsFiniteSet({f[i] : i \in 1 .. n})
<1>1. IsFiniteSet(1 .. n)
  BY IntervalIsFinite
<1> DEFINE T == {f[i] : i \in 1 .. n}
           g == [i \in 1 .. n |-> f[i]]
<1>2. g \in Surjection(1 .. n, T)
  BY DEF Surjection
<1> HIDE DEF g, T
<1>3. IsFiniteSet(T)
  BY <1>1, <1>2, FS_Surjection
<1> QED
  BY <1>3 DEF T

(* A demand sums up its lines, and warns when they disagree.               *)
LEMMA DemandIsExact ==
  ASSUME NEW lines \in Seq(Boms!Part), \A i \in 1 .. Len(lines) : lines[i].quantity >= 1,
         NEW key, NEW at \in 1 .. Len(lines), lines[at].key = key
  PROVE  LET d == Boms!DemandOf(lines, key)
             details == {lines[l].detail : l \in Met(lines, key, Len(lines))} \ {Nil}
         IN /\ d.key = key
            /\ d.quantity = SumOfLines(lines, key) /\ d.quantity \in Nat \ {0}
            /\ d.warnings > 0 <=> Boms!Cardinality(details) > 1
            /\ d.detail \in IF details = {} THEN {Nil} ELSE details
<1> DEFINE N == Len(lines)
           met == Met(lines, key, N)
           d == Boms!DemandOf(lines, key)
           all == {lines[l].detail : l \in met}
           details == all \ {Nil}
<1> SUFFICES /\ d.key = key
             /\ d.quantity = SumOfLines(lines, key) /\ d.quantity \in Nat \ {0}
             /\ d.warnings > 0 <=> Boms!Cardinality(details) > 1
             /\ d.detail \in IF details = {} THEN {Nil} ELSE details
  OBVIOUS
<1>1. PICK g : Accounted(lines, key, g, N, d) /\ g[met] = SumOfLines(lines, key)
  BY DemandAccounts
<1>2. at \in met /\ N \in Nat
  BY DEF Met
<1>3. IsFiniteSet(details)
  <2> DEFINE f == [l \in 1 .. N |-> lines[l].detail]
  <2>1. IsFiniteSet({f[l] : l \in 1 .. N})
    BY <1>2, FiniteImage
  <2>2. details \subseteq {f[l] : l \in 1 .. N}
    BY DEF Met
  <2> HIDE DEF f, details
  <2> QED
    BY <2>1, <2>2, PartOfFinite
<1> HIDE DEF d, met, N
<1>4. /\ d.key = key /\ d.quantity = SumOfLines(lines, key) /\ d.quantity \in Int
      /\ d.quantity >= 1 /\ d.warnings \in Nat
  BY <1>1, <1>2 DEF Accounted, DemandsOf, met
<1>5. /\ d.detail = Nil => \A i \in met : lines[i].detail = Nil
      /\ d.detail # Nil => \E i \in met : lines[i].detail = d.detail
      /\ d.warnings > 0 <=> \E i \in met : lines[i].detail \notin {Nil, d.detail}
  BY <1>1 DEF Accounted, met
<1>8. d.quantity \in Nat \ {0}
  <2> HIDE DEF details
  <2> QED
    BY <1>4
<1>6. CASE d.detail = Nil
  <2>1. details = {}
    BY <1>5, <1>6
  <2>2. Boms!Cardinality({}) = 0
    BY CardinalityOfBoms, FS_EmptySet
  <2>3. ~(d.warnings > 0)
    BY <1>5, <1>6
  <2>4. /\ d.warnings > 0 <=> Boms!Cardinality(details) > 1
        /\ d.detail \in IF details = {} THEN {Nil} ELSE details
    <3> HIDE DEF details
    <3> QED
      BY <1>6, <2>1, <2>2, <2>3
  <2> QED
    BY <1>4, <2>4, <1>8
<1>7. CASE d.detail # Nil
  <2>1. d.detail \in details
    BY <1>5, <1>7
  <2>2. Boms!Cardinality(details) > 1 <=> \E b \in details : b # d.detail
    <3> HIDE DEF details
    <3> QED
      BY <1>3, <2>1, SeveralMeans
  <2>3. (\E b \in details : b # d.detail) <=> \E i \in met : lines[i].detail \notin {Nil, d.detail}
    OBVIOUS
  <2>4. /\ d.warnings > 0 <=> Boms!Cardinality(details) > 1
        /\ d.detail \in IF details = {} THEN {Nil} ELSE details
    <3> HIDE DEF details
    <3> QED
      BY <1>5, <2>1, <2>2, <2>3
  <2> QED
    BY <1>4, <2>4, <1>8
<1> QED
  BY <1>6, <1>7

(* The order in which aggregation reports is one: each key once, the       *)
(* lesser first.                                                           *)
LEMMA AscendingMeans ==
  ASSUME NEW K \in SUBSET Int, IsFiniteSet(K)
  PROVE  /\ Boms!Ascending(K) \in [1 .. Boms!Cardinality(K) -> K]
         /\ Boms!Range(Boms!Ascending(K)) = K
         /\ \A i, j \in 1 .. Boms!Cardinality(K) :
              i < j => Boms!Ascending(K)[i] < Boms!Ascending(K)[j]
<1> DEFINE Right(s) == Boms!Range(s) = K /\ \A i, j \in DOMAIN s : i < j => s[i] < s[j]
<1>1. PICK s \in [1 .. Cardinality(K) -> K] :
        /\ \A x \in K : \E i \in DOMAIN s : s[i] = x
        /\ \A i, j \in DOMAIN s : i < j => s[i] < s[j]
  BY AscendingExists
<1>2. Boms!Range(s) = K
  BY <1>1 DEF Boms!Range
<1>3. Right(s)
  BY <1>1, <1>2
<1>4. Boms!Cardinality(K) = Cardinality(K)
  BY CardinalityOfBoms
<1>5. \E t \in [1 .. Boms!Cardinality(K) -> K] : Right(t)
  BY <1>3, <1>4
<1>6. Boms!Ascending(K) = CHOOSE t \in [1 .. Boms!Cardinality(K) -> K] : Right(t)
  BY DEF Boms!Ascending
<1> HIDE DEF Right
<1>7. Boms!Ascending(K) \in [1 .. Boms!Cardinality(K) -> K] /\ Right(Boms!Ascending(K))
  BY <1>5, <1>6, Zenon
<1> QED
  BY <1>7 DEF Right

(* Every demand of an aggregation is exact.                                *)
LEMMA AggregateStep ==
  ASSUME question \in DemandsQuestions, Boms!Next
  PROVE  Boms!RequiredQuantityIsExact'
<1> DEFINE sources == question.sources
           lines == Boms!Lines(sources)
           N == Len(lines)
           keys == {lines[i].key : i \in DOMAIN lines}
           u == question.units
           a == question.attrition
           D(k) == Boms!DemandOf(lines, k)
           order == Boms!Ascending(keys)
           card == Boms!Cardinality(keys)
           Required(k) == Boms!Scaled(D(k).quantity, u, a)
           result_ == [i \in 1 .. card |->
                        [key |-> D(order[i]).key, perUnit |-> D(order[i]).quantity,
                         required |-> Required(order[i]),
                         detail |-> D(order[i]).detail, warnings |-> D(order[i]).warnings]]
           answered == answer'.demands
<1>1. question' = question /\ Boms!IsQuestion(question)
  BY AlgorithmsAssumption DEF Boms!Next
<1> SUFFICES ASSUME answer'.kind = "demands" PROVE Boms!RequiredQuantityIsExact'
  BY DEF Boms!RequiredQuantityIsExact
<1>2. Boms!Loads(sources) /\ answer' = Boms!Aggregate
  BY DEF Boms!Next, Boms!LoadAndAggregate, Boms!Refusal
<1>3. /\ ~(u < 1) /\ a \in 0 .. Scale
      /\ \A k \in keys : ~(D(k).quantity > MaxInt) /\ Required(k) # Nil
      /\ answer' = [kind |-> "demands", demands |-> result_]
  <2>1. Boms!Refusal.kind # "demands"
    BY DEF Boms!Refusal
  <2> QED
    BY <1>2, <2>1 DEF Boms!Aggregate
<1>4. lines \in Seq(Boms!Part) /\ \A i \in 1 .. N : lines[i].quantity >= 1 /\ lines[i].key \in Int
  BY <1>1, <1>2, LinesAreParts
<1>5. N \in Nat /\ DOMAIN lines = 1 .. N
  BY <1>4
<1>6. keys \in SUBSET Int /\ IsFiniteSet(keys)
  <2> DEFINE f == [i \in 1 .. N |-> lines[i].key]
  <2>1. IsFiniteSet({f[i] : i \in 1 .. N})
    BY <1>5, FiniteImage
  <2>2. keys = {f[i] : i \in 1 .. N}
    BY <1>5
  <2>3. keys \subseteq Int
    BY <1>4, <1>5
  <2> HIDE DEF f, keys
  <2> QED
    BY <2>1, <2>2, <2>3
<1>7. u \in Nat \ {0} /\ a \in 0 .. Scale
  BY <1>1, <1>3 DEF Boms!IsQuestion
<1>8. answered = result_
  BY <1>3
<1> DEFINE named(k) == {lines[l].detail : l \in Met(lines, k, N)} \ {Nil}
<1>9. ASSUME NEW k \in keys
      PROVE  /\ D(k).key = k
             /\ D(k).quantity = SumOfLines(lines, k)
             /\ Required(k) \in 1 .. MaxInt
             /\ Boms!IsLeastCover(Required(k), D(k).quantity * u * (Scale + a))
             /\ D(k).warnings > 0 <=> Boms!Cardinality(named(k)) > 1
             /\ D(k).detail \in IF named(k) = {} THEN {Nil} ELSE named(k)
  <2>1. PICK at \in 1 .. N : lines[at].key = k
    BY <1>5
  <2>2. /\ D(k).key = k
        /\ D(k).quantity = SumOfLines(lines, k) /\ D(k).quantity \in Nat \ {0}
        /\ D(k).warnings > 0 <=> Boms!Cardinality(named(k)) > 1
        /\ D(k).detail \in IF named(k) = {} THEN {Nil} ELSE named(k)
    <3> HIDE DEF lines
    <3> QED
      BY <1>4, <2>1, DemandIsExact
  <2>3. Required(k) # Nil
    BY <1>3
  <2>4. /\ Required(k) \in 1 .. MaxInt
        /\ Boms!IsLeastCover(Required(k), D(k).quantity * u * (Scale + a))
    <3> HIDE DEF D, u, a
    <3> QED
      BY <1>7, <2>2, <2>3, ScaledCovers
  <2> QED
    BY <2>2, <2>4
<1>10. /\ order \in [1 .. card -> keys] /\ Boms!Range(order) = keys
       /\ \A i, j \in 1 .. card : i < j => order[i] < order[j]
  <2> HIDE DEF keys
  <2> QED
    BY <1>6, AscendingMeans
<1>11. DOMAIN answered = 1 .. card
  BY <1>8
<1>12. ASSUME NEW i \in 1 .. card
       PROVE  /\ order[i] \in keys
              /\ answered[i].key = order[i]
              /\ answered[i].perUnit = D(order[i]).quantity
              /\ answered[i].required = Required(order[i])
              /\ answered[i].detail = D(order[i]).detail
              /\ answered[i].warnings = D(order[i]).warnings
  <2>1. order[i] \in keys
    BY <1>10
  <2>2. D(order[i]).key = order[i]
    <3> HIDE DEF D, order, keys
    <3> QED
      BY <1>9, <2>1
  <2>3. answered[i] = [key |-> D(order[i]).key, perUnit |-> D(order[i]).quantity,
                       required |-> Required(order[i]),
                       detail |-> D(order[i]).detail, warnings |-> D(order[i]).warnings]
    BY <1>8
  <2> HIDE DEF D, order, keys, answered, Required
  <2> QED
    BY <2>1, <2>2, <2>3
<1> HIDE DEF D, Required, result_, answered
<1>13. {answered[i].key : i \in DOMAIN answered} = keys
  <2> HIDE DEF order, keys, card
  <2>1. \A k \in keys : \E i \in 1 .. card : order[i] = k
    BY <1>10 DEF Boms!Range
  <2> QED
    BY <1>11, <1>12, <2>1
<1>14. ASSUME NEW i \in 1 .. card, NEW j \in 1 .. i - 1 PROVE answered[j].key < answered[i].key
  <2>1. i \in Int /\ j \in 1 .. card /\ j < i
    <3>1. card \in Nat
      BY <1>6, CardinalityOfBoms, FS_CardinalityType
    <3> HIDE DEF card
    <3> QED
      BY <3>1
  <2> HIDE DEF order, keys, card
  <2> QED
    BY <1>10, <1>12, <2>1
<1>15. ASSUME NEW k
       PROVE  /\ Met(lines, k, N) = {i \in DOMAIN lines : lines[i].key = k}
              /\ SumOfLines(lines, k) =
                   Boms!SumFunctionOnSet([i \in DOMAIN lines |-> lines[i].quantity],
                                         {i \in DOMAIN lines : lines[i].key = k})
  <2>1. Met(lines, k, N) = {i \in DOMAIN lines : lines[i].key = k}
    BY <1>5 DEF Met
  <2> QED
    BY <2>1 DEF SumOfLines
<1> DEFINE Exact(i) ==
             LET d == answered[i]
             IN /\ d.perUnit = SumOfLines(lines, d.key)
                /\ d.required \in 1 .. MaxInt
                /\ Boms!IsLeastCover(d.required, d.perUnit * u * (Scale + a))
                /\ d.warnings > 0 <=> Boms!Cardinality(named(d.key)) > 1
                /\ d.detail \in IF named(d.key) = {} THEN {Nil} ELSE named(d.key)
                /\ \A j \in 1 .. i - 1 : answered[j].key < d.key
<1>16. \A i \in DOMAIN answered : Exact(i)
  <2> SUFFICES ASSUME NEW i \in 1 .. card PROVE Exact(i)
    BY <1>11
  <2> HIDE DEF order, keys, named, card
  <2> QED
    BY <1>9, <1>12, <1>14
<1>17. /\ \A k : named(k) = {lines[l].detail : l \in {i \in DOMAIN lines : lines[i].key = k}} \ {Nil}
       /\ \A k : SumOfLines(lines, k) =
                  Boms!SumFunctionOnSet([i \in DOMAIN lines |-> lines[i].quantity],
                                        {i \in DOMAIN lines : lines[i].key = k})
  BY <1>15
<1>18. answered = answer'.demands /\ question' = question
  BY <1>1 DEF answered
<1> DEFINE ofKey(k) == {i \in DOMAIN lines : lines[i].key = k}
           ofLines(k) == {lines[l].detail : l \in ofKey(k)} \ {Nil}
           Proper(i) ==
             LET d == answered[i]
             IN /\ d.perUnit = Boms!SumFunctionOnSet([l \in DOMAIN lines |-> lines[l].quantity],
                                                     ofKey(d.key))
                /\ d.required \in 1 .. MaxInt
                /\ Boms!IsLeastCover(d.required, d.perUnit * u * (Scale + a))
                /\ d.warnings > 0 <=> Boms!Cardinality(ofLines(d.key)) > 1
                /\ d.detail \in IF ofLines(d.key) = {} THEN {Nil} ELSE ofLines(d.key)
                /\ \A j \in 1 .. i - 1 : answered[j].key < d.key
<1>19. ASSUME NEW i \in DOMAIN answered PROVE Proper(i)
  <2> DEFINE k == answered[i].key
  <2>1. /\ named(k) = ofLines(k)
        /\ SumOfLines(lines, k) =
              Boms!SumFunctionOnSet([l \in DOMAIN lines |-> lines[l].quantity], ofKey(k))
    BY <1>17
  <2>2. Exact(i)
    BY <1>16
  <2> HIDE DEF named, ofLines, ofKey, lines
  <2> QED
    BY <2>1, <2>2
<1>20. \A i \in DOMAIN answered : Proper(i)
  <2> HIDE DEF Proper
  <2> QED
    BY <1>19
<1> HIDE DEF named, Exact
<1>21. Boms!AllLines' = lines
  BY <1>1 DEF Boms!AllLines
<1>22. u = question'.units /\ a = question'.attrition
  BY <1>1
<1> HIDE DEF lines, u, a
<1>23. ASSUME NEW i \in DOMAIN answer'.demands
       PROVE  (LET d == answer.demands[i]
                   details == {Boms!AllLines[l].detail : l \in Boms!LinesOf(d.key)} \ {Nil}
               IN /\ d.perUnit = Boms!Listed(d.key)
                  /\ d.required \in 1 .. MaxInt
                  /\ Boms!IsLeastCover(d.required,
                        d.perUnit * question.units * (Scale + question.attrition))
                  /\ d.warnings > 0 <=> Boms!Cardinality(details) > 1
                  /\ d.detail \in IF details = {} THEN {Nil} ELSE details
                  /\ \A j \in 1 .. i - 1 : answer.demands[j].key < d.key)'
  <2>1. Proper(i)
    BY <1>18, <1>20
  <2> QED
    BY <1>18, <1>21, <1>22, <2>1 DEF Boms!LinesOf, Boms!Listed
<1>24. {answer'.demands[i].key : i \in DOMAIN answer'.demands}
         = {Boms!AllLines'[i].key : i \in DOMAIN Boms!AllLines'}
  BY <1>13, <1>18, <1>21 DEF keys
<1> QED
  BY <1>23, <1>24 DEF Boms!RequiredQuantityIsExact

-----------------------------------------------------------------------------
(* Replacements.                                                           *)

(* What evaluation makes of a candidate.                                   *)
IsResult(r) ==
  /\ r.key \in Int
  /\ r.compatibility \in {"compatible", "unknown", "incompatible"}
  /\ r.sourcing = Nil \/ Replacements!IsOutcome(r.sourcing)

(* A result that may be recommended.                                       *)
Buyable(r) == r.compatibility = "compatible" /\ Replacements!HasPlan(r)

(* The price of a plan.                                                    *)
Price(r) == r.sourcing.plan.price

(* The lexicographic order of two quintuples.                              *)
LEMMA PrecedesOfFive ==
  ASSUME NEW a, NEW b, DOMAIN a = 1 .. 5
  PROVE  Replacements!Precedes(a, b) <=>
           \/ a[1] < b[1]
           \/ a[1] = b[1] /\ a[2] < b[2]
           \/ a[1] = b[1] /\ a[2] = b[2] /\ a[3] < b[3]
           \/ a[1] = b[1] /\ a[2] = b[2] /\ a[3] = b[3] /\ a[4] < b[4]
           \/ a[1] = b[1] /\ a[2] = b[2] /\ a[3] = b[3] /\ a[4] = b[4] /\ a[5] < b[5]
<1> DEFINE Here(i) == a[i] < b[i] /\ \A j \in 1 .. i - 1 : a[j] = b[j]
<1>1. Replacements!Precedes(a, b) <=> \E i \in 1 .. 5 : Here(i)
  BY DEF Replacements!Precedes
<1>2. 1 .. 1 - 1 = {} /\ 1 .. 2 - 1 = {1} /\ 1 .. 3 - 1 = {1, 2}
  OBVIOUS
<1>3. 1 .. 4 - 1 = {1, 2, 3} /\ 1 .. 5 - 1 = {1, 2, 3, 4}
  OBVIOUS
<1>4. Here(1) <=> a[1] < b[1]
  BY <1>2
<1>5. Here(2) <=> a[1] = b[1] /\ a[2] < b[2]
  BY <1>2
<1>6. Here(3) <=> a[1] = b[1] /\ a[2] = b[2] /\ a[3] < b[3]
  BY <1>2
<1>7. Here(4) <=> a[1] = b[1] /\ a[2] = b[2] /\ a[3] = b[3] /\ a[4] < b[4]
  BY <1>3
<1>8. Here(5) <=> a[1] = b[1] /\ a[2] = b[2] /\ a[3] = b[3] /\ a[4] = b[4] /\ a[5] < b[5]
  BY <1>3
<1> HIDE DEF Here
<1>9. (\E i \in 1 .. 5 : Here(i)) <=> Here(1) \/ Here(2) \/ Here(3) \/ Here(4) \/ Here(5)
  <2>1. 1 .. 5 = {1, 2, 3, 4, 5}
    OBVIOUS
  <2> QED
    BY <2>1
<1> QED
  BY <1>1, <1>4, <1>5, <1>6, <1>7, <1>8, <1>9

(* The first in the ranks are the compatible ones, and the priced ones.    *)
LEMMA RanksMean ==
  ASSUME NEW r, IsResult(r)
  PROVE  /\ Replacements!CompatibilityRank(r) \in Nat
         /\ Replacements!CompatibilityRank(r) = 0 <=> r.compatibility = "compatible"
         /\ Replacements!SourcingRank(r) \in Nat \ {0}
         /\ Replacements!SourcingRank(r) = 1 <=> Replacements!HasPlan(r)
         /\ Replacements!SourcingRank(r) = 7 <=>
              r.sourcing # Nil /\ r.sourcing.status = "provider_error"
         /\ Replacements!AvailableStock(r) \in Int
<1>1. /\ Replacements!CompatibilityRank(r) \in Nat
      /\ Replacements!CompatibilityRank(r) = 0 <=> r.compatibility = "compatible"
  BY DEF IsResult, Replacements!CompatibilityRank
<1>2. Replacements!AvailableStock(r) \in Int
  BY DEF IsResult, Replacements!IsOutcome, Replacements!AvailableStock
<1>3. CASE r.sourcing = Nil
  BY <1>1, <1>2, <1>3 DEF Replacements!SourcingRank, Replacements!HasPlan
<1>4. CASE r.sourcing # Nil
  <2> DEFINE at == CHOOSE i \in DOMAIN Replacements!Statuses :
                     Replacements!Statuses[i] = r.sourcing.status
  <2>1. Replacements!IsOutcome(r.sourcing)
    BY <1>4 DEF IsResult
  <2>2. \E i \in DOMAIN Replacements!Statuses : Replacements!Statuses[i] = r.sourcing.status
    BY <2>1 DEF Replacements!IsOutcome
  <2>3. /\ at \in DOMAIN Replacements!Statuses
        /\ Replacements!Statuses[at] = r.sourcing.status
    BY <2>2
  <2>4. Replacements!SourcingRank(r) = at
    BY <1>4 DEF Replacements!SourcingRank
  <2> HIDE DEF at
  <2>5. DOMAIN Replacements!Statuses = 1 .. 7
    BY DEF Replacements!Statuses
  <2>6. /\ Replacements!Statuses[1] = "priced" /\ Replacements!Statuses[2] # "priced"
        /\ Replacements!Statuses[3] # "priced" /\ Replacements!Statuses[4] # "priced"
        /\ Replacements!Statuses[5] # "priced" /\ Replacements!Statuses[6] # "priced"
        /\ Replacements!Statuses[7] # "priced"
    BY DEF Replacements!Statuses
  <2>7. /\ Replacements!Statuses[7] = "provider_error"
        /\ Replacements!Statuses[1] # "provider_error"
        /\ Replacements!Statuses[2] # "provider_error"
        /\ Replacements!Statuses[3] # "provider_error"
        /\ Replacements!Statuses[4] # "provider_error"
        /\ Replacements!Statuses[5] # "provider_error"
        /\ Replacements!Statuses[6] # "provider_error"
    BY DEF Replacements!Statuses
  <2>8. at \in {1, 2, 3, 4, 5, 6, 7}
    BY <2>3, <2>5
  <2>9. at = 1 <=> r.sourcing.status = "priced"
    BY <2>3, <2>6, <2>8
  <2>10. at = 7 <=> r.sourcing.status = "provider_error"
    BY <2>3, <2>7, <2>8
  <2>11. Replacements!HasPlan(r) <=> r.sourcing.status = "priced"
    BY <1>4, <2>1 DEF Replacements!HasPlan, Replacements!IsOutcome
  <2> QED
    BY <1>1, <1>2, <1>4, <2>4, <2>8, <2>9, <2>10, <2>11
<1> QED
  BY <1>3, <1>4

(* Where compareResults puts what may be recommended: before what may not, *)
(* and, of one currency, by price.                                         *)
LEMMA LessMeans ==
  ASSUME NEW r, NEW s, IsResult(r), IsResult(s)
  PROVE  /\ Buyable(s) /\ ~Buyable(r) => ~Replacements!Less(r, s)
         /\ Buyable(r) /\ ~Buyable(s) => Replacements!Less(r, s)
         /\ Buyable(r) /\ Buyable(s)
              /\ r.sourcing.plan.currency = s.sourcing.plan.currency =>
              IF Replacements!Less(r, s) THEN Price(r) <= Price(s) ELSE Price(s) <= Price(r)
<1> DEFINE comparable ==
             /\ Replacements!HasPlan(r) /\ Replacements!HasPlan(s)
             /\ r.sourcing.plan.currency = s.sourcing.plan.currency
           r1 == Replacements!CompatibilityRank(r)
           r2 == Replacements!SourcingRank(r)
           r3 == IF comparable THEN Price(r) ELSE 0
           r4 == -Replacements!AvailableStock(r)
           r5 == r.key
           s1 == Replacements!CompatibilityRank(s)
           s2 == Replacements!SourcingRank(s)
           s3 == IF comparable THEN Price(s) ELSE 0
           s4 == -Replacements!AvailableStock(s)
           s5 == s.key
<1>1. /\ r1 \in Nat /\ r2 \in Nat \ {0} /\ r4 \in Int /\ r5 \in Int
      /\ s1 \in Nat /\ s2 \in Nat \ {0} /\ s4 \in Int /\ s5 \in Int
  BY RanksMean DEF IsResult
<1>2. r3 \in Int /\ s3 \in Int
  BY DEF IsResult, Replacements!HasPlan, Replacements!IsOutcome, Price
<1> DEFINE p == <<r1, r2, r3, r4, r5>>
           q == <<s1, s2, s3, s4, s5>>
<1>3. Replacements!Less(r, s) <=> Replacements!Precedes(p, q)
  BY DEF Replacements!Less, Price
<1>4. Buyable(r) <=> r1 = 0 /\ r2 = 1
  BY RanksMean DEF Buyable
<1>5. Buyable(s) <=> s1 = 0 /\ s2 = 1
  BY RanksMean DEF Buyable
<1>6. Buyable(r) /\ Buyable(s) /\ r.sourcing.plan.currency = s.sourcing.plan.currency =>
        r3 = Price(r) /\ s3 = Price(s)
  BY DEF Buyable
<1> HIDE DEF r1, r2, r3, r4, r5, s1, s2, s3, s4, s5
<1>7. Replacements!Less(r, s) <=>
        \/ r1 < s1
        \/ r1 = s1 /\ r2 < s2
        \/ r1 = s1 /\ r2 = s2 /\ r3 < s3
        \/ r1 = s1 /\ r2 = s2 /\ r3 = s3 /\ r4 < s4
        \/ r1 = s1 /\ r2 = s2 /\ r3 = s3 /\ r4 = s4 /\ r5 < s5
  <2>1. DOMAIN p = 1 .. 5
    OBVIOUS
  <2>2. /\ p[1] = r1 /\ p[2] = r2 /\ p[3] = r3 /\ p[4] = r4 /\ p[5] = r5
        /\ q[1] = s1 /\ q[2] = s2 /\ q[3] = s3 /\ q[4] = s4 /\ q[5] = s5
    OBVIOUS
  <2> HIDE DEF p, q
  <2>3. Replacements!Precedes(p, q) <=>
          \/ p[1] < q[1]
          \/ p[1] = q[1] /\ p[2] < q[2]
          \/ p[1] = q[1] /\ p[2] = q[2] /\ p[3] < q[3]
          \/ p[1] = q[1] /\ p[2] = q[2] /\ p[3] = q[3] /\ p[4] < q[4]
          \/ p[1] = q[1] /\ p[2] = q[2] /\ p[3] = q[3] /\ p[4] = q[4] /\ p[5] < q[5]
    BY <2>1, PrecedesOfFive
  <2> QED
    BY <1>3, <2>2, <2>3
<1>8. Buyable(s) /\ ~Buyable(r) => ~Replacements!Less(r, s)
  BY <1>1, <1>4, <1>5, <1>7
<1>9. Buyable(r) /\ ~Buyable(s) => Replacements!Less(r, s)
  BY <1>1, <1>4, <1>5, <1>7
<1>10. ASSUME Buyable(r), Buyable(s), r.sourcing.plan.currency = s.sourcing.plan.currency
       PROVE  IF Replacements!Less(r, s) THEN Price(r) <= Price(s) ELSE Price(s) <= Price(r)
  BY <1>10, <1>1, <1>2, <1>4, <1>5, <1>6, <1>7
<1> QED
  BY <1>8, <1>9, <1>10

(* The position a result is inserted after: the last it is not less than.  *)
After(sorted, r) ==
  Replacements!Max({0} \cup {j \in DOMAIN sorted : ~Replacements!Less(r, sorted[j])})

(* Before the place are results that may be better, behind it none.        *)
LEMMA AfterMeans ==
  ASSUME NEW s, NEW r, NEW n \in Nat, DOMAIN s = 1 .. n
  PROVE  /\ After(s, r) \in 0 .. n
         /\ After(s, r) # 0 => ~Replacements!Less(r, s[After(s, r)])
         /\ \A j \in 1 .. n : After(s, r) < j => Replacements!Less(r, s[j])
<1> DEFINE T == {0} \cup {j \in DOMAIN s : ~Replacements!Less(r, s[j])}
           Top(m) == m \in T /\ \A k \in T : m >= k
           Over == {m \in 0 .. n : \A k \in T : m >= k}
<1>1. T \subseteq 0 .. n /\ 0 \in T
  OBVIOUS
<1>2. Over \subseteq Nat
  OBVIOUS
<1>3. n \in Over
  BY <1>1
<1>4. PICK m \in Over : \A k \in Over : m <= k
  <2>1. Over # {}
    BY <1>3
  <2> QED
    BY <1>2, <2>1, LeastNat
<1> HIDE DEF T
<1>5. m \in T
  <2>1. SUFFICES ASSUME m \notin T PROVE FALSE
    OBVIOUS
  <2>2. m # 0 /\ m \in 0 .. n
    BY <1>1, <1>4, <2>1
  <2>3. m - 1 \in 0 .. n
    BY <2>2
  <2>4. \A k \in T : m - 1 >= k
    <3>1. SUFFICES ASSUME NEW k \in T PROVE m - 1 >= k
      OBVIOUS
    <3>2. m >= k /\ k \in 0 .. n /\ k # m
      BY <1>1, <1>4, <2>1
    <3> QED
      BY <2>2, <3>2
  <2>5. m - 1 \in Over
    BY <2>3, <2>4
  <2>6. m <= m - 1
    BY <1>4, <2>5
  <2> QED
    BY <2>2, <2>6
<1>6. Top(m)
  BY <1>4, <1>5
<1>7. After(s, r) = CHOOSE x \in T : \A y \in T : x >= y
  BY DEF After, Replacements!Max, T
<1>8. Top(After(s, r))
  <2>1. \E x \in T : \A y \in T : x >= y
    BY <1>6
  <2> QED
    BY <1>7, <2>1
<1> DEFINE a == After(s, r)
<1>9. a \in T /\ \A k \in T : a >= k
  BY <1>8
<1> HIDE DEF a, Top, Over
<1>10. a \in 0 .. n
  BY <1>1, <1>9
<1>11. a # 0 => ~Replacements!Less(r, s[a])
  BY <1>9 DEF T
<1>12. ASSUME NEW j \in 1 .. n, a < j PROVE Replacements!Less(r, s[j])
  <2>1. j \notin T
    BY <1>9, <1>10, <1>12
  <2> QED
    BY <2>1 DEF T
<1> QED
  BY <1>10, <1>11, <1>12 DEF a

(* What InsertAt of the library is.                                        *)
LEMMA InsertAtIs ==
  ASSUME NEW s, NEW i, NEW e
  PROVE  Replacements!InsertAt(s, i, e) = SubSeq(s, 1, i - 1) \o <<e>> \o SubSeq(s, i, Len(s))
  BY DEF Replacements!InsertAt

(* The sequence t is s with r inserted at i.                               *)
OneMore(t, s, i, r) ==
  /\ Len(t) = Len(s) + 1
  /\ t[i] = r
  /\ \A j \in 1 .. i - 1 : t[j] = s[j]
  /\ \A j \in i + 1 .. Len(s) + 1 : t[j] = s[j - 1]

(* What inserting at a place does to a sequence.                           *)
LEMMA InsertMeans ==
  ASSUME NEW S, NEW s \in Seq(S), NEW r \in S, NEW i \in 1 .. Len(s) + 1,
         NEW t, t = Replacements!InsertAt(s, i, r)
  PROVE  t \in Seq(S) /\ OneMore(t, s, i, r)
<1> DEFINE n == Len(s)
           b == SubSeq(s, 1, i - 1)
           c == SubSeq(s, i, n)
           d == b \o <<r>>
<1>1. n \in Nat /\ i \in Nat \ {0} /\ i <= n + 1
  OBVIOUS
<1>2. t = d \o c
  BY InsertAtIs
<1>3. b \in Seq(S) /\ Len(b) = i - 1 /\ \A j \in 1 .. i - 1 : b[j] = s[j]
  BY <1>1
<1>4. c \in Seq(S) /\ Len(c) = n + 1 - i /\ \A j \in 1 .. n + 1 - i : c[j] = s[i + j - 1]
  BY <1>1
<1> HIDE DEF b, c
<1>5. d \in Seq(S) /\ Len(d) = i /\ d[i] = r /\ \A j \in 1 .. i - 1 : d[j] = s[j]
  BY <1>1, <1>3
<1> HIDE DEF d, n
<1>6. t \in Seq(S) /\ Len(t) = n + 1
  <2>1. t \in Seq(S) /\ Len(t) = Len(d) + Len(c)
    <3>1. c \in Seq(S) /\ d \in Seq(S)
      BY <1>4, <1>5
    <3> QED
      BY <1>2, <3>1
  <2>2. Len(d) + Len(c) = i + (n + 1 - i)
    BY <1>4, <1>5
  <2>3. i + (n + 1 - i) = n + 1
    BY <1>1
  <2> QED
    BY <2>1, <2>2, <2>3
<1>7. t[i] = r /\ \A j \in 1 .. i - 1 : t[j] = s[j]
  BY <1>1, <1>2, <1>4, <1>5
<1>8. \A j \in i + 1 .. n + 1 : t[j] = s[j - 1]
  <2>1. SUFFICES ASSUME NEW j \in i + 1 .. n + 1 PROVE t[j] = s[j - 1]
    OBVIOUS
  <2>2. j - i \in 1 .. n + 1 - i /\ i + (j - i) - 1 = j - 1
    BY <1>1
  <2>3. t[j] = c[j - i]
    BY <1>1, <1>2, <1>4, <1>5
  <2> QED
    BY <1>4, <2>2, <2>3
<1> QED
  BY <1>6, <1>7, <1>8 DEF n, OneMore

(* The results of one currency: any two plans of compatible ones.          *)
OnePrice(S) ==
  \A r, s \in S : Buyable(r) /\ Buyable(s) => r.sourcing.plan.currency = s.sourcing.plan.currency

(* What may be recommended comes first, the cheapest of it before the rest.*)
Ranked(s) ==
  \A i, j \in 1 .. Len(s) :
    i < j /\ Buyable(s[j]) => Buyable(s[i]) /\ Price(s[i]) <= Price(s[j])

(* A result is inserted where the ranking demands it.                      *)
LEMMA InsertedRanks ==
  ASSUME NEW S, \A r \in S : IsResult(r), OnePrice(S),
         NEW s \in Seq(S), Ranked(s), NEW r \in S
  PROVE  Ranked(Replacements!Inserted(s, r))
<1> DEFINE n == Len(s)
           a == After(s, r)
           t == Replacements!InsertAt(s, 1 + a, r)
<1>1. n \in Nat /\ DOMAIN s = 1 .. n /\ \A j \in 1 .. n : s[j] \in S
  OBVIOUS
<1>2. /\ a \in 0 .. n
      /\ a # 0 => ~Replacements!Less(r, s[a])
      /\ \A j \in 1 .. n : a < j => Replacements!Less(r, s[j])
  BY <1>1, AfterMeans
<1>3. /\ t \in Seq(S)
      /\ Len(t) = n + 1
      /\ t[a + 1] = r
      /\ \A j \in 1 .. a : t[j] = s[j]
      /\ \A j \in a + 2 .. n + 1 : t[j] = s[j - 1]
  <2> DEFINE i == 1 + a
  <2>1. i \in 1 .. Len(s) + 1 /\ i - 1 = a /\ a + 1 = i /\ a + 2 = i + 1
    BY <1>1, <1>2
  <2>2. t = Replacements!InsertAt(s, i, r)
    OBVIOUS
  <2> HIDE DEF a, i, t
  <2>3. t \in Seq(S) /\ OneMore(t, s, i, r)
    BY <2>1, <2>2, InsertMeans
  <2> QED
    BY <2>1, <2>3 DEF OneMore, n
<1>4. Replacements!Inserted(s, r) = t
  BY DEF Replacements!Inserted, After
<1>5. \A i, j \in 1 .. n :
        i < j /\ Buyable(s[j]) => Buyable(s[i]) /\ Price(s[i]) <= Price(s[j])
  BY DEF Ranked
<1> HIDE DEF n, a, t
<1>6. ASSUME NEW j \in 1 .. n, Buyable(r), Buyable(s[j])
      PROVE  IF Replacements!Less(r, s[j]) THEN Price(r) <= Price(s[j])
                                           ELSE Price(s[j]) <= Price(r)
  <2>1. s[j] \in S /\ IsResult(r) /\ IsResult(s[j])
    BY <1>1
  <2>2. r.sourcing.plan.currency = s[j].sourcing.plan.currency
    BY <1>6, <2>1 DEF OnePrice
  <2> QED
    BY <1>6, <2>1, <2>2, LessMeans
<1>8. \A j \in a + 1 .. n : Buyable(s[j]) => Buyable(r) /\ Price(r) <= Price(s[j])
  <2>1. SUFFICES ASSUME NEW j \in a + 1 .. n, Buyable(s[j])
                 PROVE  Buyable(r) /\ Price(r) <= Price(s[j])
    OBVIOUS
  <2>2. j \in 1 .. n /\ a < j
    BY <1>1, <1>2
  <2>3. Replacements!Less(r, s[j])
    BY <1>2, <2>2
  <2>4. Buyable(r)
    BY <1>1, <2>1, <2>2, <2>3, LessMeans
  <2> QED
    BY <1>6, <2>1, <2>2, <2>3, <2>4
<1>9. ASSUME Buyable(r) PROVE \A j \in 1 .. a : Buyable(s[j]) /\ Price(s[j]) <= Price(r)
  <2>1. SUFFICES ASSUME NEW j \in 1 .. a PROVE Buyable(s[j]) /\ Price(s[j]) <= Price(r)
    OBVIOUS
  <2>2. a # 0 /\ a \in 1 .. n /\ j \in 1 .. n /\ j <= a
    BY <1>1, <1>2
  <2>3. ~Replacements!Less(r, s[a])
    BY <1>2, <2>2
  <2>4. Buyable(s[a])
    BY <1>1, <1>9, <2>2, <2>3, LessMeans
  <2>5. Price(s[a]) <= Price(r)
    BY <1>6, <1>9, <2>2, <2>3, <2>4
  <2>6. CASE j = a
    BY <2>4, <2>5, <2>6
  <2>7. CASE j # a
    <3>1. j < a
      BY <1>1, <1>2, <2>2, <2>7
    <3>2. Buyable(s[j]) /\ Price(s[j]) <= Price(s[a])
      BY <1>5, <2>2, <2>4, <3>1
    <3>3. Price(s[j]) \in Int /\ Price(s[a]) \in Int /\ Price(r) \in Int
      <4>1. IsResult(s[j]) /\ IsResult(s[a]) /\ IsResult(r)
        BY <1>1, <2>2
      <4> QED
        BY <1>9, <2>4, <3>2, <4>1
        DEF Buyable, Price, IsResult, Replacements!HasPlan, Replacements!IsOutcome
    <3> QED
      BY <2>5, <3>2, <3>3
  <2> QED
    BY <2>6, <2>7
<1>10. ASSUME NEW i \in 1 .. n + 1, NEW j \in 1 .. n + 1, i < j, Buyable(t[j])
       PROVE  Buyable(t[i]) /\ Price(t[i]) <= Price(t[j])
  <2>1. CASE j <= a
    <3>1. i \in 1 .. a /\ j \in 1 .. a /\ i \in 1 .. n /\ j \in 1 .. n
      BY <1>1, <1>2, <1>10, <2>1
    <3>2. t[i] = s[i] /\ t[j] = s[j]
      BY <1>3, <3>1
    <3> QED
      BY <1>5, <1>10, <3>1, <3>2
  <2>2. CASE j = a + 1
    <3>1. i \in 1 .. a /\ t[j] = r
      BY <1>1, <1>2, <1>3, <1>10, <2>2
    <3> QED
      BY <1>3, <1>9, <1>10, <3>1
  <2>3. CASE j > a + 1
    <3>1. j \in a + 2 .. n + 1 /\ j - 1 \in a + 1 .. n /\ j - 1 \in 1 .. n
      BY <1>1, <1>2, <2>3
    <3>2. t[j] = s[j - 1]
      BY <1>3, <3>1
    <3>3. CASE i <= a
      <4>1. i \in 1 .. a /\ i \in 1 .. n /\ i < j - 1
        BY <1>1, <1>2, <2>3, <3>3
      <4>2. t[i] = s[i]
        BY <1>3, <4>1
      <4> QED
        BY <1>5, <1>10, <3>1, <3>2, <4>1, <4>2
    <3>4. CASE i = a + 1
      <4>1. t[i] = r
        BY <1>3, <3>4
      <4> QED
        BY <1>8, <1>10, <3>1, <3>2, <4>1
    <3>5. CASE i > a + 1
      <4>1. i \in a + 2 .. n + 1 /\ i - 1 \in 1 .. n /\ i - 1 < j - 1
        BY <1>1, <1>2, <1>10, <3>1, <3>5
      <4>2. t[i] = s[i - 1]
        BY <1>3, <4>1
      <4> QED
        BY <1>5, <1>10, <3>1, <3>2, <4>1, <4>2
    <3>6. i <= a \/ i = a + 1 \/ i > a + 1
      BY <1>1, <1>2
    <3> QED
      BY <3>3, <3>4, <3>5, <3>6
  <2>4. j <= a \/ j = a + 1 \/ j > a + 1
    BY <1>1, <1>2
  <2> QED
    BY <2>1, <2>2, <2>3, <2>4
<1> QED
  BY <1>3, <1>4, <1>10 DEF Ranked

(* The sequence holds the first n of the results, and nothing else.        *)
Holds(s, E, n) ==
  /\ Len(s) = n
  /\ \A i \in 1 .. n : \E j \in 1 .. n : s[j] = E[i]
  /\ \A j \in 1 .. n : \E i \in 1 .. n : s[j] = E[i]

(* Inserting a result adds it at some place.                               *)
LEMMA InsertedMeans ==
  ASSUME NEW S, NEW s \in Seq(S), NEW r \in S
  PROVE  /\ Replacements!Inserted(s, r) \in Seq(S)
         /\ \E i \in 1 .. Len(s) + 1 : OneMore(Replacements!Inserted(s, r), s, i, r)
<1> DEFINE n == Len(s)
           i == 1 + After(s, r)
           t == Replacements!InsertAt(s, i, r)
<1>1. n \in Nat /\ DOMAIN s = 1 .. n
  OBVIOUS
<1>2. i \in 1 .. Len(s) + 1
  <2>1. After(s, r) \in 0 .. n
    BY <1>1, AfterMeans
  <2> QED
    BY <1>1, <2>1
<1>3. Replacements!Inserted(s, r) = t
  BY DEF Replacements!Inserted, After
<1> HIDE DEF i
<1>4. t \in Seq(S) /\ OneMore(t, s, i, r)
  BY <1>2, InsertMeans
<1> QED
  BY <1>2, <1>3, <1>4

(* One more of the results is held after it is inserted.                   *)
LEMMA OneMoreHeld ==
  ASSUME NEW s, NEW t, NEW E, NEW n \in Nat, Holds(s, E, n),
         NEW i \in 1 .. n + 1, OneMore(t, s, i, E[n + 1])
  PROVE  Holds(t, E, n + 1)
<1>1. /\ Len(t) = n + 1
      /\ t[i] = E[n + 1]
      /\ \A j \in 1 .. i - 1 : t[j] = s[j]
      /\ \A j \in i + 1 .. n + 1 : t[j] = s[j - 1]
  BY DEF OneMore, Holds
<1>2. ASSUME NEW k \in 1 .. n + 1 PROVE \E j \in 1 .. n + 1 : t[j] = E[k]
  <2>1. CASE k = n + 1
    BY <1>1, <2>1
  <2>2. CASE k # n + 1
    <3>1. PICK j \in 1 .. n : s[j] = E[k]
      BY <1>2, <2>2 DEF Holds
    <3>2. CASE j < i
      <4>1. j \in 1 .. i - 1 /\ j \in 1 .. n + 1
        BY <3>2
      <4> QED
        BY <1>1, <3>1, <4>1
    <3>3. CASE j >= i
      <4>1. j + 1 \in i + 1 .. n + 1 /\ j + 1 \in 1 .. n + 1 /\ j + 1 - 1 = j
        BY <3>3
      <4>2. t[j + 1] = s[j + 1 - 1]
        BY <1>1, <4>1
      <4>3. t[j + 1] = E[k]
        BY <3>1, <4>1, <4>2
      <4> QED
        BY <4>1, <4>3
    <3> QED
      BY <3>2, <3>3
  <2> QED
    BY <2>1, <2>2
<1>3. ASSUME NEW j \in 1 .. n + 1 PROVE \E k \in 1 .. n + 1 : t[j] = E[k]
  <2>1. CASE j = i
    BY <1>1, <2>1
  <2>2. CASE j < i
    <3>1. j \in 1 .. i - 1 /\ j \in 1 .. n
      BY <2>2
    <3>2. PICK k \in 1 .. n : s[j] = E[k]
      BY <3>1 DEF Holds
    <3>3. k \in 1 .. n + 1
      OBVIOUS
    <3> QED
      BY <1>1, <3>1, <3>2, <3>3
  <2>3. CASE j > i
    <3>1. j \in i + 1 .. n + 1 /\ j - 1 \in 1 .. n
      BY <2>3
    <3>2. PICK k \in 1 .. n : s[j - 1] = E[k]
      BY <3>1 DEF Holds
    <3>3. k \in 1 .. n + 1
      OBVIOUS
    <3> QED
      BY <1>1, <3>1, <3>2, <3>3
  <2> QED
    BY <2>1, <2>2, <2>3
<1> QED
  BY <1>1, <1>2, <1>3 DEF Holds

(* Sorting keeps the results, and ranks them when their prices compare.    *)
LEMMA SortedMeans ==
  ASSUME NEW S, \A r \in S : IsResult(r), NEW E \in Seq(S)
  PROVE  LET s == Replacements!Sorted(E)
         IN s \in Seq(S) /\ Holds(s, E, Len(E)) /\ (OnePrice(S) => Ranked(s))
<1> DEFINE N == Len(E)
           step == [p \in (1 .. N) \X Seq(S) |-> Replacements!Inserted(p[2], E[p[1]])]
           IsInsertion(f) ==
             f = [n \in 0 .. N |-> IF n = 0 THEN << >> ELSE Replacements!Inserted(f[n - 1], E[n])]
           first == CHOOSE f : IsInsertion(f)
<1>1. N \in Nat /\ \A n \in 1 .. N : E[n] \in S
  OBVIOUS
<1>2. << >> \in Seq(S)
  OBVIOUS
<1>3. step \in [(1 .. N) \X Seq(S) -> Seq(S)]
  <2>1. \A p \in (1 .. N) \X Seq(S) : p[1] \in 1 .. N /\ p[2] \in Seq(S)
    OBVIOUS
  <2>2. \A p \in (1 .. N) \X Seq(S) : Replacements!Inserted(p[2], E[p[1]]) \in Seq(S)
    <3> HIDE DEF N
    <3> QED
      BY <1>1, <2>1, InsertedMeans
  <2> QED
    BY <2>2
<1>4. \A n \in 1 .. N : \A s \in Seq(S) : step[<<n, s>>] = Replacements!Inserted(s, E[n])
  OBVIOUS
<1>5. Replacements!Sorted(E) = first[N]
  BY DEF Replacements!Sorted
<1> HIDE DEF N, step
<1>6. \E f : IsInsertion(f)
  <2>1. PICK f : Recurs(f, N, Seq(S), step, << >>)
    BY <1>1, <1>2, <1>3, RecursionExists
  <2>2. ASSUME NEW n \in 0 .. N
        PROVE  f[n] = IF n = 0 THEN << >> ELSE Replacements!Inserted(f[n - 1], E[n])
    <3>1. CASE n = 0
      BY <2>1, <3>1 DEF Recurs
    <3>2. CASE n # 0
      <4>1. n \in 1 .. N /\ f[n - 1] \in Seq(S)
        BY <1>1, <2>1, <3>2 DEF Recurs
      <4> QED
        BY <1>4, <2>1, <3>2, <4>1 DEF Recurs
    <3> QED
      BY <3>1, <3>2
  <2>3. f \in [0 .. N -> Seq(S)]
    BY <2>1 DEF Recurs
  <2>4. IsInsertion(f)
    BY <2>2, <2>3
  <2> QED
    BY <2>4
<1>7. IsInsertion(first)
  BY <1>6, Zenon
<1> HIDE DEF first
<1>8. first[0] = << >> /\ \A n \in 1 .. N : first[n] = Replacements!Inserted(first[n - 1], E[n])
  BY <1>1, <1>7
<1> HIDE DEF IsInsertion
<1> DEFINE Good(n) == /\ first[n] \in Seq(S)
                      /\ Holds(first[n], E, n)
                      /\ OnePrice(S) => Ranked(first[n])
           Wrong == {n \in 0 .. N : ~Good(n)}
<1>9. Good(0)
  BY <1>8 DEF Holds, Ranked
<1>10. ASSUME NEW n \in 1 .. N, Good(n - 1) PROVE Good(n)
  <2> DEFINE s == first[n - 1]
             t == first[n]
  <2>1. /\ s \in Seq(S) /\ Holds(s, E, n - 1) /\ (OnePrice(S) => Ranked(s))
        /\ t = Replacements!Inserted(s, E[n])
    BY <1>8, <1>10
  <2> HIDE DEF s, t
  <2>2. E[n] \in S /\ n - 1 \in Nat /\ n - 1 + 1 = n /\ Len(s) = n - 1
    BY <1>1, <2>1 DEF Holds
  <2>3. t \in Seq(S) /\ \E i \in 1 .. Len(s) + 1 : OneMore(t, s, i, E[n])
    BY <2>1, <2>2, InsertedMeans
  <2>4. PICK i \in 1 .. n - 1 + 1 : OneMore(t, s, i, E[n - 1 + 1])
    BY <2>2, <2>3
  <2>5. Holds(t, E, n)
    BY <2>1, <2>2, <2>4, OneMoreHeld
  <2>6. OnePrice(S) => Ranked(t)
    BY <2>1, <2>2, InsertedRanks
  <2> QED
    BY <2>3, <2>5, <2>6 DEF t
<1> HIDE DEF Good
<1>11. Wrong = {}
  <2>1. SUFFICES ASSUME Wrong # {} PROVE FALSE
    OBVIOUS
  <2>2. Wrong \subseteq Nat
    BY <1>1
  <2>3. PICK n \in Wrong : \A k \in Wrong : n <= k
    BY <2>1, <2>2, LeastNat
  <2>4. n \in 1 .. N /\ n - 1 \in 0 .. N
    BY <1>1, <1>9, <2>3
  <2>5. n - 1 \notin Wrong
    <3>1. ~(n <= n - 1)
      BY <2>4
    <3> QED
      BY <2>3, <3>1
  <2> QED
    BY <1>10, <2>3, <2>4, <2>5
<1>12. Good(N)
  BY <1>1, <1>11
<1> QED
  BY <1>5, <1>12 DEF Good, N

(* The cardinality of the instance is that of the library.                 *)
LEMMA CardinalityOfReplacements == \A S : Replacements!Cardinality(S) = Cardinality(S)
BY DEF Replacements!Cardinality, Cardinality, Replacements!IsFiniteSet, IsFiniteSet

(* A compared field neither worse nor unknown.                             *)
Fine(f, original, candidate) ==
  IF f = "qualifications"
    THEN original[f] = {} \/ (f \in DOMAIN candidate /\ original[f] \subseteq candidate[f])
    ELSE /\ f \in DOMAIN candidate
         /\ \/ candidate[f] = original[f]
            \/ f \in Replacements!AtMost /\ candidate[f] < original[f]
            \/ f \in Replacements!AtLeast /\ candidate[f] > original[f]

(* What a field's relation says, of a field the original requires.         *)
LEMMA RelationMeans ==
  ASSUME NEW f, NEW original, NEW candidate, f \in DOMAIN original,
         f = "qualifications" => original[f] # {}
  PROVE  Fine(f, original, candidate) <=>
           Replacements!Relation(f, original, candidate) \notin {"worse", "unknown"}
<1>1. CASE f \notin DOMAIN candidate
  BY <1>1 DEF Fine, Replacements!Relation
<1>2. CASE f \in DOMAIN candidate /\ f = "qualifications"
  <2>1. Replacements!Relation(f, original, candidate) =
          Replacements!CompareQualifications(original[f], candidate[f])
    BY <1>2 DEF Replacements!Relation
  <2>2. Replacements!CompareQualifications(original[f], candidate[f]) \notin {"worse", "unknown"}
          <=> original[f] \subseteq candidate[f]
    BY DEF Replacements!CompareQualifications
  <2>3. Fine(f, original, candidate) <=> original[f] \subseteq candidate[f]
    BY <1>2 DEF Fine
  <2> QED
    BY <2>1, <2>2, <2>3
<1>3. CASE f \in DOMAIN candidate /\ f # "qualifications"
  <2> DEFINE o == original[f]
             c == candidate[f]
             better == \/ f \in Replacements!AtMost /\ c < o
                       \/ f \in Replacements!AtLeast /\ c > o
  <2>1. Replacements!Relation(f, original, candidate) =
          IF c = o THEN "equal" ELSE IF better THEN "better" ELSE "worse"
    BY <1>3 DEF Replacements!Relation
  <2>2. Fine(f, original, candidate) <=> c = o \/ better
    BY <1>3 DEF Fine
  <2> HIDE DEF o, c, better
  <2> QED
    BY <2>1, <2>2
<1> QED
  BY <1>1, <1>2, <1>3

(* Of a valid request, the fields compared are those the original states.  *)
LEMMA ComparedMeans ==
  ASSUME Replacements!ValidRequest(question)
  PROVE  Replacements!ComparedFields(question.kind, question.original.fields) =
           {f \in DOMAIN question.original.fields :
              f = "qualifications" => question.original.fields[f] # {}}
<1> DEFINE kind == question.kind
           original == question.original.fields
           demanded == Replacements!RequiredFields(kind)
           optional == Replacements!OptionalFields(kind)
<1>1. /\ demanded \subseteq DOMAIN original
      /\ DOMAIN original \subseteq demanded \cup optional
  BY DEF Replacements!ValidRequest, Replacements!ValidPart
<1>2. "qualifications" \notin demanded
  <2>1. kind \in {"resistor", "capacitor", "inductor"}
    BY DEF Replacements!ValidRequest, Replacements!Kinds
  <2>2. "qualifications" \notin Replacements!CommonFields
    BY DEF Replacements!CommonFields
  <2>3. "qualifications" \notin Replacements!KindFields(kind)
    BY <2>1 DEF Replacements!KindFields
  <2> QED
    BY <2>2, <2>3 DEF Replacements!RequiredFields
<1>3. Replacements!ComparedFields(kind, original) =
        demanded \cup {f \in optional \cap DOMAIN original :
                         f = "qualifications" => original[f] # {}}
  BY DEF Replacements!ComparedFields
<1> HIDE DEF kind, original, demanded, optional
<1>4. Replacements!ComparedFields(kind, original) =
        {f \in DOMAIN original : f = "qualifications" => original[f] # {}}
  BY <1>1, <1>2, <1>3
<1> QED
  BY <1>4 DEF kind, original

(* The rules of the comparison and the sentence of the property agree.     *)
LEMMA CompatibleMeans ==
  ASSUME Replacements!ValidRequest(question), NEW candidate
  PROVE  Replacements!AsGood(candidate) <=>
           Replacements!Compatibility(question.kind, question.original.fields, candidate)
             = "compatible"
<1> DEFINE original == question.original.fields
           F == Replacements!ComparedFields(question.kind, original)
           relations == {Replacements!Relation(f, original, candidate) : f \in F}
<1>1. F = {f \in DOMAIN original : f = "qualifications" => original[f] # {}}
  BY ComparedMeans
<1>2. Replacements!Compatibility(question.kind, original, candidate) = "compatible" <=>
        "worse" \notin relations /\ "unknown" \notin relations
  BY DEF Replacements!Compatibility
<1>3. Replacements!AsGood(candidate) <=>
        \A f \in DOMAIN original : Fine(f, original, candidate)
  BY DEF Replacements!AsGood, Fine
<1> HIDE DEF original, F
<1>4. "worse" \notin relations /\ "unknown" \notin relations <=>
        \A f \in F : Replacements!Relation(f, original, candidate) \notin {"worse", "unknown"}
  OBVIOUS
<1>5. \A f \in F : Fine(f, original, candidate) <=>
                     Replacements!Relation(f, original, candidate) \notin {"worse", "unknown"}
  BY <1>1, RelationMeans
<1>6. \A f \in DOMAIN original : f \notin F => Fine(f, original, candidate)
  BY <1>1 DEF Fine
<1>7. F \subseteq DOMAIN original
  BY <1>1
<1> HIDE DEF relations
<1> QED
  BY <1>2, <1>3, <1>4, <1>5, <1>6, <1>7 DEF original

(* The candidates of a valid request differ in their keys.                 *)
LEMMA KeysDiffer ==
  ASSUME Replacements!ValidRequest(question), Replacements!IsQuestion(question),
         NEW i \in DOMAIN question.candidates, NEW j \in DOMAIN question.candidates,
         question.candidates[i].key = question.candidates[j].key
  PROVE  i = j
<1> DEFINE c == question.candidates
           n == Len(c)
           keys == {c[k].key : k \in DOMAIN c}
           f == [k \in 1 .. n |-> c[k].key]
<1>1. n \in Nat /\ DOMAIN c = 1 .. n
  BY DEF Replacements!IsQuestion
<1>2. Cardinality(keys) = n
  BY CardinalityOfReplacements DEF Replacements!ValidRequest
<1> HIDE DEF n, c
<1>3. IsFiniteSet(1 .. n) /\ Cardinality(1 .. n) = n
  BY <1>1, FS_Interval
<1>4. f \in Surjection(1 .. n, keys)
  BY <1>1 DEF Surjection
<1> HIDE DEF f, keys
<1>5. f \in Injection(1 .. n, keys)
  BY <1>2, <1>3, <1>4, FS_Surjection
<1>6. \A k, l \in 1 .. n : f[k] = f[l] => k = l
  BY <1>5 DEF Injection, IsInjective
<1>7. f[i] = f[j] /\ i \in 1 .. n /\ j \in 1 .. n
  BY <1>1 DEF f, c
<1> QED
  BY <1>6, <1>7

(* What is asked back of a key is what the candidate with that key has.    *)
LEMMA OfTheKey ==
  ASSUME Replacements!ValidRequest(question), Replacements!IsQuestion(question),
         NEW i \in DOMAIN question.candidates
  PROVE  /\ Replacements!CandidateOf(question.candidates[i].key) = question.candidates[i].fields
         /\ Replacements!SourcingOf(question.candidates[i].key) = question.sourcing[i]
<1> DEFINE D == DOMAIN question.candidates
           key == question.candidates[i].key
           at == CHOOSE j \in D : question.candidates[j].key = key
<1>1. at \in D /\ question.candidates[at].key = key
  OBVIOUS
<1>2. Replacements!CandidateOf(key) = question.candidates[at].fields
  BY DEF Replacements!CandidateOf
<1>3. Replacements!SourcingOf(key) = question.sourcing[at]
  BY DEF Replacements!SourcingOf
<1> HIDE DEF at
<1>4. at = i
  BY <1>1, KeysDiffer
<1> QED
  BY <1>2, <1>3, <1>4

(* A result that may be recommended, and a key that is safe to recommend,  *)
(* are the same, unless the original's own plan sufficed.                  *)
LEMMA ResultMeans ==
  ASSUME Replacements!ValidRequest(question), Replacements!IsQuestion(question),
         NEW i \in DOMAIN question.candidates,
         NEW e, e = Replacements!Evaluated(question)[i]
  PROVE  /\ IsResult(e)
         /\ e.key = question.candidates[i].key
         /\ e.sourcing # Nil => e.sourcing = question.sourcing[i]
         /\ Buyable(e) <=> /\ e.key \in Replacements!SafeKeys
                           /\ ~Replacements!OriginalSufficient(question)
         /\ Replacements!OriginalSufficient(question) => e.sourcing = Nil
<1> DEFINE q == question
           compatibility ==
             Replacements!Compatibility(q.kind, q.original.fields, q.candidates[i].fields)
           spared == \/ Replacements!OriginalSufficient(q)
                     \/ compatibility = "incompatible"
<1>1. e = [key |-> q.candidates[i].key, compatibility |-> compatibility,
           sourcing |-> IF spared THEN Nil ELSE q.sourcing[i]]
  BY DEF Replacements!Evaluated
<1>2. compatibility \in {"compatible", "unknown", "incompatible"}
  BY DEF Replacements!Compatibility
<1>3. /\ q.candidates[i].key \in Int
      /\ Replacements!IsOutcome(q.sourcing[i])
  BY DEF Replacements!IsQuestion
<1>4. Replacements!AsGood(q.candidates[i].fields) <=> compatibility = "compatible"
  BY CompatibleMeans
<1>5. /\ q.sourcing[i] # Nil
      /\ q.sourcing[i].status = "priced" <=> q.sourcing[i].plan # Nil
  BY <1>3 DEF Replacements!IsOutcome
<1> HIDE DEF compatibility, spared
<1>6. /\ e.key = q.candidates[i].key
      /\ e.compatibility = compatibility
      /\ e.sourcing = IF spared THEN Nil ELSE q.sourcing[i]
  BY <1>1
<1>7. IsResult(e)
  BY <1>2, <1>3, <1>6 DEF IsResult
<1>8. e.key \in Replacements!SafeKeys <=>
        compatibility = "compatible" /\ q.sourcing[i].status = "priced"
  BY <1>4, <1>6, OfTheKey DEF Replacements!SafeKeys
<1>9. Buyable(e) <=> /\ compatibility = "compatible" /\ q.sourcing[i].status = "priced"
                     /\ ~Replacements!OriginalSufficient(q)
  BY <1>2, <1>5, <1>6 DEF Buyable, Replacements!HasPlan, spared
<1>10. Replacements!OriginalSufficient(q) => e.sourcing = Nil
  BY <1>6 DEF spared
<1>11. e.sourcing # Nil => e.sourcing = q.sourcing[i]
  BY <1>6
<1> QED
  BY <1>6, <1>7, <1>8, <1>9, <1>10, <1>11

(* At most one currency: any two are the same.                             *)
LEMMA AtMostOne ==
  ASSUME NEW T, IsFiniteSet(T)
  PROVE  Cardinality(T) > 1 <=> \E x, y \in T : x # y
<1>1. Cardinality(T) \in Nat
  BY FS_CardinalityType
<1>2. ASSUME NEW x \in T, NEW y \in T, x # y PROVE Cardinality(T) > 1
  <2>1. IsFiniteSet({x}) /\ Cardinality({x}) = 1
    BY FS_Singleton
  <2>2. Cardinality({x}) <= Cardinality(T)
    BY FS_Subset
  <2>3. T # {x}
    BY <1>2
  <2>4. Cardinality(T) # 1
    <3>1. SUFFICES ASSUME Cardinality(T) = 1 PROVE FALSE
      OBVIOUS
    <3>2. T = {x}
      BY <2>1, <3>1, FS_Subset
    <3> QED
      BY <2>3, <3>2
  <2> QED
    BY <1>1, <2>1, <2>2, <2>4
<1>3. ASSUME \A x, y \in T : x = y PROVE ~(Cardinality(T) > 1)
  <2>1. CASE T = {}
    BY <2>1, FS_EmptySet
  <2>2. CASE T # {}
    <3>1. PICK x \in T : TRUE
      BY <2>2
    <3>2. T = {x}
      BY <1>3, <3>1
    <3>3. Cardinality({x}) = 1
      BY FS_Singleton
    <3> QED
      BY <3>2, <3>3
  <2> QED
    BY <2>1, <2>2
<1> QED
  BY <1>2, <1>3

(* What is recommended of the results: the first that may be, of one       *)
(* currency.                                                               *)
LEMMA RecommendedMeans ==
  ASSUME NEW S, \A r \in S : IsResult(r), NEW R \in Seq(S)
  PROVE  LET k == Replacements!Recommended(R)
             B == {i \in 1 .. Len(R) : Buyable(R[i])}
             Same == \A i, j \in B : R[i].sourcing.plan.currency = R[j].sourcing.plan.currency
         IN /\ k # 0 <=> B # {} /\ Same
            /\ k # 0 => k \in B /\ \A i \in B : k <= i
<1> DEFINE k == Replacements!Recommended(R)
           n == Len(R)
           B == {i \in 1 .. n : Buyable(R[i])}
           currency == [i \in B |-> R[i].sourcing.plan.currency]
           Same == \A i, j \in B : R[i].sourcing.plan.currency = R[j].sourcing.plan.currency
           C == Replacements!PlanCurrencies(R)
<1>1. n \in Nat /\ DOMAIN R = 1 .. n /\ \A i \in 1 .. n : R[i] \in S
  OBVIOUS
<1>2. B = {i \in DOMAIN R : /\ R[i].compatibility = "compatible"
                            /\ Replacements!HasPlan(R[i])
                            /\ R[i].sourcing.status = "priced"}
  <2>1. \A i \in 1 .. n : Replacements!HasPlan(R[i]) => R[i].sourcing.status = "priced"
    BY <1>1 DEF IsResult, Replacements!HasPlan, Replacements!IsOutcome
  <2> QED
    BY <1>1, <2>1 DEF Buyable
<1>3. C = {currency[i] : i \in B}
  <2>1. {j \in DOMAIN R : R[j].compatibility = "compatible" /\ Replacements!HasPlan(R[j])} = B
    BY <1>1 DEF Buyable
  <2>2. C = {R[i].sourcing.plan.currency : i \in B}
    BY <2>1 DEF Replacements!PlanCurrencies
  <2> HIDE DEF B, C
  <2> QED
    BY <2>2
<1>4. k = IF Cardinality(C) > 1 \/ B = {} THEN 0 ELSE Replacements!Min(B)
  BY <1>2, CardinalityOfReplacements DEF Replacements!Recommended
<1>5. B \subseteq 1 .. n
  OBVIOUS
<1>6. Same <=> \A x, y \in C : x = y
  BY <1>3
<1> HIDE DEF n, k, C
<1>7. IsFiniteSet(B)
  <2>1. IsFiniteSet(1 .. n)
    BY <1>1, FS_Interval
  <2> QED
    BY <1>5, <2>1, FS_Subset
<1>8. IsFiniteSet(C)
  <2>1. currency \in Surjection(B, C)
    BY <1>3 DEF Surjection
  <2> HIDE DEF B, currency
  <2> QED
    BY <1>7, <2>1, FS_Surjection
<1> HIDE DEF B, Same
<1>9. Cardinality(C) > 1 <=> ~Same
  BY <1>6, <1>8, AtMostOne
<1>10. ASSUME B # {}
       PROVE  Replacements!Min(B) \in B /\ \A i \in B : Replacements!Min(B) <= i
  <2>1. B \subseteq Nat
    BY <1>1, <1>5
  <2>2. PICK m \in B : \A i \in B : m <= i
    BY <1>10, <2>1, LeastNat
  <2>3. Replacements!Min(B) = CHOOSE x \in B : \A y \in B : x =< y
    BY DEF Replacements!Min
  <2> QED
    BY <2>2, <2>3
<1>11. k # 0 <=> B # {} /\ Same
  <2>1. CASE B = {}
    BY <1>4, <2>1
  <2>2. CASE ~Same
    BY <1>4, <1>9, <2>2
  <2>3. CASE B # {} /\ Same
    <3>1. Replacements!Min(B) \in 1 .. n
      BY <1>5, <1>10, <2>3
    <3>2. Replacements!Min(B) # 0
      BY <1>1, <3>1
    <3> QED
      BY <1>4, <1>9, <2>3, <3>2
  <2> QED
    BY <2>1, <2>2, <2>3
<1>12. k # 0 => k \in B /\ \A i \in B : k <= i
  BY <1>4, <1>10
<1> QED
  BY <1>11, <1>12 DEF k, B, Same, n

(* The ranked results are those of the candidates, one of each.            *)
Ranks(R) ==
  /\ Len(R) \in Nat \ {0} /\ DOMAIN R = 1 .. Len(R)
  /\ R \in Seq({Replacements!Evaluated(question)[i] : i \in DOMAIN question.candidates})
  /\ \A p \in DOMAIN R : \E i \in DOMAIN question.candidates :
       R[p] = Replacements!Evaluated(question)[i]
  /\ \A i \in DOMAIN question.candidates : \E p \in DOMAIN R :
       R[p] = Replacements!Evaluated(question)[i]

(* Sorting ranks the evaluated candidates of a valid request.              *)
LEMMA SortingRanks ==
  ASSUME Replacements!ValidRequest(question), Replacements!IsQuestion(question),
         NEW R, R = Replacements!Sorted(Replacements!Evaluated(question))
  PROVE  /\ Ranks(R)
         /\ OnePrice({R[p] : p \in DOMAIN R}) => Ranked(R)
<1> DEFINE D == DOMAIN question.candidates
           E == Replacements!Evaluated(question)
           S == {E[i] : i \in D}
           n == Len(question.candidates)
<1>1. n \in Nat \ {0} /\ D = 1 .. n
  <2>1. question.candidates # << >>
    BY DEF Replacements!ValidRequest
  <2>2. question.candidates \in Seq({question.candidates[i] : i \in DOMAIN question.candidates})
    BY DEF Replacements!IsQuestion
  <2> QED
    BY <2>1, <2>2
<1>2. DOMAIN E = D
  BY DEF Replacements!Evaluated
<1>3. \A r \in S : IsResult(r)
  BY ResultMeans
<1>4. E = [i \in D |-> E[i]]
  BY DEF Replacements!Evaluated
<1> HIDE DEF D, E, n
<1>5. E \in Seq(S) /\ Len(E) = n
  <2>1. E \in [1 .. n -> S]
    BY <1>1, <1>4
  <2> HIDE DEF S
  <2> QED
    BY <1>1, <2>1
<1>6. /\ R \in Seq(S)
      /\ Holds(R, E, n)
      /\ OnePrice(S) => Ranked(R)
  <2> HIDE DEF S
  <2>1. LET s == Replacements!Sorted(E)
        IN s \in Seq(S) /\ Holds(s, E, Len(E)) /\ (OnePrice(S) => Ranked(s))
    BY <1>3, <1>5, SortedMeans
  <2>2. R = Replacements!Sorted(E)
    BY DEF E
  <2> QED
    BY <1>5, <2>1, <2>2
<1>7. Len(R) = n /\ DOMAIN R = D
  BY <1>1, <1>6 DEF Holds
<1>8. \A p \in D : \E i \in D : R[p] = E[i]
  BY <1>1, <1>6 DEF Holds
<1>9. \A i \in D : \E p \in D : R[p] = E[i]
  BY <1>1, <1>6 DEF Holds
<1>10. {R[p] : p \in DOMAIN R} = S
  <2>1. ASSUME NEW p \in DOMAIN R PROVE R[p] \in S
    BY <1>7, <1>8
  <2>2. ASSUME NEW r \in S PROVE \E p \in DOMAIN R : R[p] = r
    BY <1>7, <1>9
  <2> HIDE DEF S
  <2> QED
    BY <2>1, <2>2
<1>11. Ranks(R)
  BY <1>1, <1>6, <1>7, <1>8, <1>9 DEF Ranks, D, E
<1> QED
  BY <1>6, <1>10, <1>11

(* Between the results that may be recommended and the keys that are safe. *)
LEMMA BuyableKeys ==
  ASSUME Replacements!ValidRequest(question), Replacements!IsQuestion(question),
         NEW R, Ranks(R)
  PROVE  /\ \A p \in DOMAIN R :
              /\ IsResult(R[p])
              /\ R[p].sourcing # Nil => Replacements!SourcingOf(R[p].key) = R[p].sourcing
              /\ Buyable(R[p]) => /\ R[p].key \in Replacements!SafeKeys
                                  /\ ~Replacements!OriginalSufficient(question)
                                  /\ R[p].sourcing # Nil
         /\ ~Replacements!OriginalSufficient(question) =>
              \A k \in Replacements!SafeKeys : \E p \in DOMAIN R : Buyable(R[p]) /\ R[p].key = k
<1>1. ASSUME NEW p \in DOMAIN R
      PROVE  /\ IsResult(R[p])
             /\ R[p].sourcing # Nil => Replacements!SourcingOf(R[p].key) = R[p].sourcing
             /\ Buyable(R[p]) => /\ R[p].key \in Replacements!SafeKeys
                                 /\ ~Replacements!OriginalSufficient(question)
                                 /\ R[p].sourcing # Nil
  <2>1. PICK i \in DOMAIN question.candidates : R[p] = Replacements!Evaluated(question)[i]
    BY DEF Ranks
  <2>2. /\ IsResult(R[p])
        /\ R[p].key = question.candidates[i].key
        /\ R[p].sourcing # Nil => R[p].sourcing = question.sourcing[i]
        /\ Buyable(R[p]) <=> /\ R[p].key \in Replacements!SafeKeys
                             /\ ~Replacements!OriginalSufficient(question)
    BY <2>1, ResultMeans
  <2>3. Replacements!SourcingOf(question.candidates[i].key) = question.sourcing[i]
    BY OfTheKey
  <2> QED
    BY <2>2, <2>3 DEF Buyable, Replacements!HasPlan
<1>2. ASSUME ~Replacements!OriginalSufficient(question), NEW k \in Replacements!SafeKeys
      PROVE  \E p \in DOMAIN R : Buyable(R[p]) /\ R[p].key = k
  <2>1. PICK i \in DOMAIN question.candidates : question.candidates[i].key = k
    BY DEF Replacements!SafeKeys
  <2>2. PICK p \in DOMAIN R : R[p] = Replacements!Evaluated(question)[i]
    BY DEF Ranks
  <2>3. /\ R[p].key = question.candidates[i].key
        /\ Buyable(R[p]) <=> /\ R[p].key \in Replacements!SafeKeys
                             /\ ~Replacements!OriginalSufficient(question)
    BY <2>2, ResultMeans
  <2> QED
    BY <1>2, <2>1, <2>3
<1> QED
  BY <1>1, <1>2

(* The recommendation of the ranked results.                               *)
LEMMA RecommendationMeans ==
  ASSUME Replacements!ValidRequest(question), Replacements!IsQuestion(question),
         NEW R, R = Replacements!Sorted(Replacements!Evaluated(question)),
         NEW k, k = Replacements!Recommended(R)
  PROVE  /\ k # 0 =>
              /\ k = 1 /\ R[1].key \in Replacements!SafeKeys
              /\ Replacements!OneCurrency
              /\ \A l \in Replacements!SafeKeys :
                   Replacements!SourcingOf(R[1].key).plan.price
                     <= Replacements!SourcingOf(l).plan.price
              /\ ~Replacements!OriginalSufficient(question)
              /\ 1 \in DOMAIN R /\ R[1].sourcing # Nil /\ R[1].sourcing.status = "priced"
         /\ k = 0 => \/ Replacements!SafeKeys = {}
                     \/ ~Replacements!OneCurrency
                     \/ Replacements!OriginalSufficient(question)
<1> DEFINE B == {i \in 1 .. Len(R) : Buyable(R[i])}
           Same == \A i, j \in B : R[i].sourcing.plan.currency = R[j].sourcing.plan.currency
           S == {Replacements!Evaluated(question)[i] : i \in DOMAIN question.candidates}
<1>1. Ranks(R) /\ (OnePrice({R[p] : p \in DOMAIN R}) => Ranked(R))
  BY SortingRanks
<1>2. DOMAIN R = 1 .. Len(R) /\ Len(R) \in Nat \ {0} /\ R \in Seq(S)
  BY <1>1 DEF Ranks
<1>3. \A p \in DOMAIN R :
        /\ IsResult(R[p])
        /\ R[p].sourcing # Nil => Replacements!SourcingOf(R[p].key) = R[p].sourcing
        /\ Buyable(R[p]) => /\ R[p].key \in Replacements!SafeKeys
                            /\ ~Replacements!OriginalSufficient(question)
                            /\ R[p].sourcing # Nil
  BY <1>1, BuyableKeys
<1>4. \A p \in B : /\ R[p].key \in Replacements!SafeKeys
                   /\ ~Replacements!OriginalSufficient(question)
                   /\ Replacements!SourcingOf(R[p].key) = R[p].sourcing
                   /\ R[p].sourcing # Nil /\ R[p].sourcing.status = "priced"
  <2>1. SUFFICES ASSUME NEW p \in B
                 PROVE  R[p].sourcing.status = "priced"
    BY <1>2, <1>3
  <2>2. IsResult(R[p]) /\ Buyable(R[p])
    BY <1>2, <1>3
  <2> QED
    BY <2>2 DEF IsResult, Buyable, Replacements!HasPlan, Replacements!IsOutcome
<1>5. ~Replacements!OriginalSufficient(question) =>
        \A l \in Replacements!SafeKeys : \E p \in B : R[p].key = l
  BY <1>1, <1>2, BuyableKeys
<1>6. /\ k # 0 <=> B # {} /\ Same
      /\ k # 0 => k \in B /\ \A i \in B : k <= i
  <2>1. \A r \in S : IsResult(r)
    BY ResultMeans
  <2> HIDE DEF S
  <2> QED
    BY <1>2, <2>1, RecommendedMeans
<1>7. Same => OnePrice({R[p] : p \in DOMAIN R})
  BY <1>2 DEF OnePrice
<1>8. \A i, j \in 1 .. Len(R) :
        i < j /\ j \in B /\ Same => i \in B /\ Price(R[i]) <= Price(R[j])
  BY <1>1, <1>7 DEF Ranked
<1>9. B \subseteq 1 .. Len(R)
  OBVIOUS
<1> HIDE DEF B
<1>10. ASSUME k # 0
       PROVE  /\ k = 1 /\ R[1].key \in Replacements!SafeKeys
              /\ Replacements!OneCurrency
              /\ \A l \in Replacements!SafeKeys :
                   Replacements!SourcingOf(R[1].key).plan.price
                     <= Replacements!SourcingOf(l).plan.price
              /\ ~Replacements!OriginalSufficient(question)
              /\ 1 \in DOMAIN R /\ R[1].sourcing # Nil /\ R[1].sourcing.status = "priced"
  <2>1. k \in B /\ Same /\ \A i \in B : k <= i
    BY <1>6, <1>10
  <2>2. k \in 1 .. Len(R) /\ 1 \in 1 .. Len(R)
    BY <1>2, <1>9, <2>1
  <2>3. k = 1
    <3>1. CASE 1 < k
      <4>1. 1 \in B
        BY <1>8, <2>1, <2>2, <3>1
      <4>2. k <= 1
        BY <2>1, <4>1
      <4> QED
        BY <2>2, <3>1, <4>2
    <3> QED
      BY <2>2, <3>1
  <2>4. 1 \in B
    BY <2>1, <2>3
  <2>5. ~Replacements!OriginalSufficient(question)
    BY <1>4, <2>4
  <2>6. ASSUME NEW l \in Replacements!SafeKeys
        PROVE  \E p \in B : Replacements!SourcingOf(l) = R[p].sourcing
    BY <1>4, <1>5, <2>5
  <2>7. Replacements!OneCurrency
    BY <2>1, <2>6 DEF Replacements!OneCurrency
  <2>8. ASSUME NEW l \in Replacements!SafeKeys
        PROVE  Replacements!SourcingOf(R[1].key).plan.price
                 <= Replacements!SourcingOf(l).plan.price
    <3>1. PICK p \in B : Replacements!SourcingOf(l) = R[p].sourcing
      BY <2>6
    <3>2. Replacements!SourcingOf(R[1].key) = R[1].sourcing
      BY <1>4, <2>4
    <3>3. p \in 1 .. Len(R)
      BY <1>9
    <3>4. CASE p = 1
      <4>1. IsResult(R[1]) /\ Buyable(R[1])
        BY <1>2, <1>3, <2>2, <2>4 DEF B
      <4>2. R[1].sourcing.plan.price \in Nat
        BY <4>1 DEF IsResult, Buyable, Replacements!HasPlan, Replacements!IsOutcome
      <4> QED
        BY <3>1, <3>2, <3>4, <4>2
    <3>5. CASE p # 1
      <4>1. 1 < p
        BY <1>2, <3>3, <3>5
      <4>2. Price(R[1]) <= Price(R[p])
        BY <1>8, <2>1, <2>2, <3>3, <4>1
      <4> QED
        BY <3>1, <3>2, <4>2 DEF Price
    <3> QED
      BY <3>4, <3>5
  <2>9. 1 \in DOMAIN R
    BY <1>2, <2>2
  <2> QED
    BY <1>4, <2>3, <2>4, <2>5, <2>7, <2>8, <2>9
<1>11. ASSUME k = 0, Replacements!SafeKeys # {}, Replacements!OneCurrency,
              ~Replacements!OriginalSufficient(question)
       PROVE  FALSE
  <2>1. B # {}
    BY <1>5, <1>11
  <2>2. Same
    BY <1>4, <1>11 DEF Replacements!OneCurrency
  <2> QED
    BY <1>6, <1>11, <2>1, <2>2
<1> QED
  BY <1>10, <1>11

(* Everything asked for failed: as many lookups failed as were made.       *)
LEMMA FailureMeans ==
  ASSUME Replacements!ValidRequest(question), Replacements!IsQuestion(question),
         NEW R, Ranks(R)
  PROVE  Replacements!Failed(question, R) = Replacements!Asked(question, R) <=>
           /\ question.originalSourcing.status = "provider_error"
           /\ \A p \in DOMAIN R :
                R[p].sourcing # Nil =>
                  Replacements!SourcingOf(R[p].key).status = "provider_error"
<1> DEFINE A == {p \in DOMAIN R : R[p].sourcing # Nil}
           F == {p \in DOMAIN R : /\ R[p].sourcing # Nil
                                  /\ Replacements!SourcingRank(R[p]) = 7}
           b == question.originalSourcing.status = "provider_error"
           one == IF b THEN 1 ELSE 0
<1>1. Len(Replacements!Statuses) = 7
  BY DEF Replacements!Statuses
<1>2. Replacements!Failed(question, R) = one + Cardinality(F)
  BY <1>1, CardinalityOfReplacements DEF Replacements!Failed
<1>3. Replacements!Asked(question, R) = 1 + Cardinality(A)
  BY CardinalityOfReplacements DEF Replacements!Asked
<1>4. \A p \in DOMAIN R :
        /\ IsResult(R[p])
        /\ R[p].sourcing # Nil => Replacements!SourcingOf(R[p].key) = R[p].sourcing
  BY BuyableKeys
<1>5. F = {p \in A : Replacements!SourcingOf(R[p].key).status = "provider_error"}
  BY <1>4, RanksMean
<1>6. IsFiniteSet(A)
  <2>1. IsFiniteSet(1 .. Len(R))
    BY FS_Interval DEF Ranks
  <2>2. A \subseteq 1 .. Len(R)
    BY DEF Ranks
  <2> QED
    BY <2>1, <2>2, FS_Subset
<1>7. \A p \in DOMAIN R : p \in A <=> R[p].sourcing # Nil
  OBVIOUS
<1>8. A \subseteq DOMAIN R
  OBVIOUS
<1> HIDE DEF A, F, b
<1>9. /\ F \subseteq A /\ Cardinality(F) \in Nat /\ Cardinality(A) \in Nat
      /\ Cardinality(F) <= Cardinality(A)
      /\ Cardinality(F) = Cardinality(A) => F = A
  <2>1. F \subseteq A
    BY <1>5
  <2>2. /\ IsFiniteSet(F) /\ Cardinality(F) <= Cardinality(A)
        /\ Cardinality(A) = Cardinality(F) => A = F
    BY <1>6, <2>1, FS_Subset
  <2> QED
    BY <1>6, <2>1, <2>2, FS_CardinalityType
<1>10. one + Cardinality(F) = 1 + Cardinality(A) <=> b /\ F = A
  <2>1. CASE b
    BY <1>9, <2>1
  <2>2. CASE ~b
    BY <1>9, <2>2
  <2> QED
    BY <2>1, <2>2
<1>11. F = A <=> \A p \in DOMAIN R :
                   R[p].sourcing # Nil =>
                     Replacements!SourcingOf(R[p].key).status = "provider_error"
  BY <1>5, <1>7, <1>8
<1> QED
  BY <1>2, <1>3, <1>10, <1>11 DEF b

(* The command's step, from any request.                                   *)
LEMMA ReplaceStep ==
  ASSUME question \in AlternativesQuestions, Replacements!Next
  PROVE  /\ Replacements!RecommendedIsSafeAndCheapest'
         /\ Replacements!SilenceHasAReason'
<1>1. question' = question /\ Replacements!IsQuestion(question)
  BY AlgorithmsAssumption DEF Replacements!Next
<1>2. answer' = IF Replacements!ValidRequest(question) THEN Replacements!Envelope(question)
                ELSE Replacements!Refusal
  BY DEF Replacements!Next, Replacements!RunAlternatives
<1>3. CASE ~Replacements!ValidRequest(question)
  <2>1. answer' = Replacements!Refusal
    BY <1>2, <1>3
  <2>2. answer'.recommended = 0 /\ answer'.status = "invalid"
    BY <2>1 DEF Replacements!Refusal
  <2> QED
    BY <2>2 DEF Replacements!RecommendedIsSafeAndCheapest, Replacements!SilenceHasAReason
<1>4. CASE Replacements!ValidRequest(question)
  <2> DEFINE R == Replacements!Sorted(Replacements!Evaluated(question))
             k == Replacements!Recommended(R)
             sufficient == Replacements!OriginalSufficient(question)
  <2>1. answer' = Replacements!Envelope(question)
    BY <1>2, <1>4
  <2>2. /\ answer'.status = Replacements!Status(question, R)
        /\ answer'.results = R
        /\ answer'.recommended = k
        /\ answer'.named = R[1].key
    BY <2>1 DEF Replacements!Envelope
  <2> HIDE DEF R, k
  <2>3. /\ k # 0 =>
              /\ k = 1 /\ R[1].key \in Replacements!SafeKeys
              /\ Replacements!OneCurrency
              /\ \A l \in Replacements!SafeKeys :
                   Replacements!SourcingOf(R[1].key).plan.price
                     <= Replacements!SourcingOf(l).plan.price
              /\ ~sufficient
              /\ 1 \in DOMAIN R /\ R[1].sourcing # Nil /\ R[1].sourcing.status = "priced"
        /\ k = 0 => \/ Replacements!SafeKeys = {}
                    \/ ~Replacements!OneCurrency
                    \/ sufficient
    BY <1>1, <1>4, RecommendationMeans DEF R, k
  <2>4. Ranks(R)
    BY <1>1, <1>4, SortingRanks DEF R
  <2> DEFINE f == Replacements!Failed(question, R) = Replacements!Asked(question, R)
             allFailed == \A p \in DOMAIN R :
                R[p].sourcing # Nil =>
                  Replacements!SourcingOf(R[p].key).status = "provider_error"
             o == question.originalSourcing.status
  <2>5. f <=> o = "provider_error" /\ allFailed
    BY <1>1, <1>4, <2>4, FailureMeans
  <2>6. k # 0 => ~allFailed
    <3>1. SUFFICES ASSUME k # 0, allFailed PROVE FALSE
      OBVIOUS
    <3>2. 1 \in DOMAIN R /\ R[1].sourcing # Nil /\ R[1].sourcing.status = "priced"
      BY <2>3, <3>1
    <3>3. Replacements!SourcingOf(R[1].key) = R[1].sourcing
      BY <1>1, <1>4, <2>4, <3>2, BuyableKeys
    <3> QED
      BY <3>1, <3>2, <3>3
  <2>7. answer'.status = IF sufficient THEN "not_needed" ELSE IF f THEN "failed"
                         ELSE IF k # 0 THEN "review_required" ELSE "incomplete"
    BY <2>2 DEF Replacements!Status, k
  <2>8. sufficient <=> question.onlyIfShortage /\ o = "priced"
    BY DEF Replacements!OriginalSufficient
  <2> HIDE DEF f, sufficient
  <2>9. answer'.status = "review_required" <=> k # 0
    BY <2>3, <2>5, <2>6, <2>7
  <2>10. answer'.status = "failed" <=> o = "provider_error" /\ allFailed
    BY <2>5, <2>7, <2>8
  <2>11. k # 0 => answer'.status # "failed"
    BY <2>6, <2>10
  <2> HIDE DEF allFailed, o
  <2>12. Replacements!SafeKeys' = Replacements!SafeKeys
    BY <1>1 DEF Replacements!SafeKeys, Replacements!AsGood, Replacements!CandidateOf,
                Replacements!SourcingOf
  <2>13. Replacements!OneCurrency' <=> Replacements!OneCurrency
    BY <1>1, <2>12 DEF Replacements!OneCurrency, Replacements!SourcingOf
  <2>14. Replacements!RecommendedIsSafeAndCheapest'
    <3>1. SUFFICES ASSUME k # 0 PROVE Replacements!RecommendedIsSafeAndCheapest'
      BY <2>2 DEF Replacements!RecommendedIsSafeAndCheapest
    <3>2. answer'.results[answer'.recommended].key = R[1].key
      BY <2>2, <2>3, <3>1
    <3>3. /\ R[1].key \in Replacements!SafeKeys'
          /\ Replacements!OneCurrency'
          /\ \A l \in Replacements!SafeKeys' :
               Replacements!SourcingOf(R[1].key).plan.price
                 <= Replacements!SourcingOf(l).plan.price
          /\ answer'.status # "failed"
          /\ answer'.named = R[1].key
      BY <2>2, <2>3, <2>11, <2>12, <2>13, <3>1
    <3>4. \A l \in Replacements!SafeKeys' :
            Replacements!SourcingOf(answer'.results[answer'.recommended].key).plan.price
              <= Replacements!SourcingOf(l).plan.price
      BY <3>2, <3>3
    <3> HIDE DEF R
    <3> QED
      BY <1>1, <3>2, <3>3, <3>4 DEF Replacements!RecommendedIsSafeAndCheapest,
                              Replacements!SourcingOf
  <2>15. Replacements!SilenceHasAReason'
    <3>1. answer'.recommended = 0 =>
            \/ Replacements!SafeKeys' = {}
            \/ ~Replacements!OneCurrency'
            \/ question'.onlyIfShortage /\ question'.originalSourcing.status = "priced"
      BY <1>1, <2>2, <2>3, <2>8, <2>12, <2>13 DEF o
    <3>2. answer'.status = "review_required" <=> answer'.recommended # 0
      BY <2>2, <2>9
    <3>3. answer'.status = "failed" <=>
            /\ question'.originalSourcing.status = "provider_error"
            /\ \A i \in DOMAIN answer'.results :
                 answer'.results[i].sourcing # Nil =>
                   Replacements!SourcingOf(answer'.results[i].key).status = "provider_error"
      BY <1>1, <2>2, <2>10 DEF o, allFailed
    <3> QED
      BY <1>1, <3>1, <3>2, <3>3 DEF Replacements!SilenceHasAReason, Replacements!SourcingOf
  <2> QED
    BY <2>14, <2>15
<1> QED
  BY <1>3, <1>4

-----------------------------------------------------------------------------
(* All of the algorithms.                                                  *)

(* What is proved of the lookups.                                          *)
LookupsAreRight == PricedOnlyWhenSafe /\ UnknownIsNotShortage /\ NothingBetterIsPassedOver

(* What is proved of the prices, the demands and the replacements.         *)
TheOthersAreRight ==
  /\ ConversionIsNearest
  /\ PriceIsNeverMisread
  /\ RequiredQuantityIsExact
  /\ RecommendedIsSafeAndCheapest
  /\ SilenceHasAReason

(* The inductive invariant: the algorithm that is asked answers right, and *)
(* the question is one of its own; the optimizer has nothing to say when   *)
(* another is asked.                                                       *)
AnswersInv ==
  /\ IF call = "purchase" THEN OptimizerInv ELSE result.kind = "pending"
  /\ call = "money" => question \in MoneyQuestions
  /\ call = "resolve" => question \in LookupQuestions
  /\ call = "replace" => question \in AlternativesQuestions
  /\ call = "aggregate" => question \in DemandsQuestions
  /\ TheOthersAreRight
  /\ LookupsAreRight

(* Nothing is answered at first.                                           *)
LEMMA AskedInv == AskAny => AnswersInv
<1> SUFFICES ASSUME AskAny PROVE AnswersInv
  OBVIOUS
<1>1. answer = Nil
  BY DEF AskAny, Ask
<1>2. TheOthersAreRight
  BY <1>1 DEF TheOthersAreRight, ConversionIsNearest, PriceIsNeverMisread,
              RequiredQuantityIsExact, RecommendedIsSafeAndCheapest, SilenceHasAReason,
              Prices!ConversionIsNearest, Prices!PriceIsNeverMisread,
              Boms!RequiredQuantityIsExact, Replacements!RecommendedIsSafeAndCheapest,
              Replacements!SilenceHasAReason
<1>3. LookupsAreRight
  BY <1>1 DEF LookupsAreRight, PricedOnlyWhenSafe, UnknownIsNotShortage,
              NothingBetterIsPassedOver, Resolvers!PricedOnlyWhenSafe,
              Resolvers!UnknownIsNotShortage, Resolvers!NothingBetterIsPassedOver
<1>4. CASE call = "purchase"
  <2>1. Init
    BY <1>4 DEF AskAny, Ask
  <2> QED
    BY <1>2, <1>3, <1>4, <2>1, OptimizerInduction DEF AnswersInv
<1>5. CASE call # "purchase"
  BY <1>2, <1>3, <1>5 DEF AskAny, Ask, NoPurchase, AnswersInv
<1> QED
  BY <1>4, <1>5

(* What is right stays so as long as question and answer do.               *)
LEMMA LookupsStay ==
  LookupsAreRight /\ UNCHANGED <<call, question, answer>> => LookupsAreRight'
<1> SUFFICES ASSUME LookupsAreRight, UNCHANGED <<call, question, answer>> PROVE LookupsAreRight'
  OBVIOUS
<1>1. call' = call /\ question' = question /\ answer' = answer
  OBVIOUS
<1>2. PricedOnlyWhenSafe'
  BY <1>1 DEF LookupsAreRight, PricedOnlyWhenSafe, Resolvers!PricedOnlyWhenSafe,
              Resolvers!Allowed, Resolvers!ArticlesOf, Resolvers!Searched
<1>3. UnknownIsNotShortage'
  BY <1>1 DEF LookupsAreRight, UnknownIsNotShortage, Resolvers!UnknownIsNotShortage,
              Resolvers!Needed, Resolvers!Searched
<1>4. NothingBetterIsPassedOver'
  BY <1>1 DEF LookupsAreRight, NothingBetterIsPassedOver, Resolvers!NothingBetterIsPassedOver,
              Resolvers!Buyable, Resolvers!BoughtAt, Resolvers!Needed, Resolvers!Complete,
              Resolvers!Searched
<1> QED
  BY <1>2, <1>3, <1>4 DEF LookupsAreRight

(* The demands stay right.                                                 *)
LEMMA ExactnessStays ==
  ASSUME RequiredQuantityIsExact, call' = call, question' = question, answer' = answer
  PROVE  RequiredQuantityIsExact'
<1> DEFINE LinesOf(lines, k) == {i \in DOMAIN lines : lines[i].key = k}
           Exact(a, q, lines) ==
             a # Nil /\ a.kind = "demands" =>
               /\ {a.demands[i].key : i \in DOMAIN a.demands}
                    = {lines[i].key : i \in DOMAIN lines}
               /\ \A i \in DOMAIN a.demands :
                    LET d == a.demands[i]
                        details == {lines[l].detail : l \in LinesOf(lines, d.key)} \ {Nil}
                    IN /\ d.perUnit = Boms!SumFunctionOnSet(
                            [l \in DOMAIN lines |-> lines[l].quantity], LinesOf(lines, d.key))
                       /\ d.required \in 1 .. MaxInt
                       /\ Boms!IsLeastCover(d.required, d.perUnit * q.units * (Scale + q.attrition))
                       /\ d.warnings > 0 <=> Boms!Cardinality(details) > 1
                       /\ d.detail \in IF details = {} THEN {Nil} ELSE details
                       /\ \A j \in 1 .. i - 1 : a.demands[j].key < d.key
<1>1. Boms!RequiredQuantityIsExact <=> Exact(answer, question, Boms!AllLines)
  BY Zenon DEF Boms!RequiredQuantityIsExact, Boms!LinesOf, Boms!Listed
<1>2. Boms!RequiredQuantityIsExact' <=> Exact(answer', question', Boms!AllLines')
  BY Zenon DEF Boms!RequiredQuantityIsExact, Boms!LinesOf, Boms!Listed
<1>3. Boms!AllLines' = Boms!AllLines
  BY DEF Boms!AllLines
<1> HIDE DEF Exact
<1> QED
  BY <1>1, <1>2, <1>3 DEF RequiredQuantityIsExact

(* The same of the others.                                                 *)
LEMMA TheOthersStay ==
  TheOthersAreRight /\ UNCHANGED <<call, question, answer>> => TheOthersAreRight'
<1> SUFFICES ASSUME TheOthersAreRight, UNCHANGED <<call, question, answer>>
             PROVE  TheOthersAreRight'
  OBVIOUS
<1>1. call' = call /\ question' = question /\ answer' = answer
  OBVIOUS
<1>2. ConversionIsNearest' /\ PriceIsNeverMisread'
  BY <1>1 DEF TheOthersAreRight, ConversionIsNearest, PriceIsNeverMisread,
              Prices!ConversionIsNearest, Prices!PriceIsNeverMisread
<1>3. RequiredQuantityIsExact'
  BY <1>1, ExactnessStays DEF TheOthersAreRight
<1>4. Replacements!SafeKeys' = Replacements!SafeKeys
  BY <1>1 DEF Replacements!SafeKeys, Replacements!AsGood, Replacements!CandidateOf,
              Replacements!SourcingOf
<1>5. Replacements!OneCurrency' <=> Replacements!OneCurrency
  BY <1>1, <1>4 DEF Replacements!OneCurrency, Replacements!SourcingOf
<1>6. RecommendedIsSafeAndCheapest'
  BY <1>1, <1>4, <1>5 DEF TheOthersAreRight, RecommendedIsSafeAndCheapest,
              Replacements!RecommendedIsSafeAndCheapest, Replacements!SourcingOf
<1>7. SilenceHasAReason'
  BY <1>1, <1>4, <1>5 DEF TheOthersAreRight, SilenceHasAReason,
              Replacements!SilenceHasAReason, Replacements!SourcingOf
<1> QED
  BY <1>2, <1>3, <1>6, <1>7 DEF TheOthersAreRight

(* What is said of the other calls holds of none of them.                  *)
LEMMA OfTheCall ==
  /\ call # "resolve" => LookupsAreRight
  /\ call # "money" => ConversionIsNearest /\ PriceIsNeverMisread
  /\ call # "aggregate" => RequiredQuantityIsExact
  /\ call # "replace" => RecommendedIsSafeAndCheapest /\ SilenceHasAReason
BY DEF LookupsAreRight, PricedOnlyWhenSafe, UnknownIsNotShortage, NothingBetterIsPassedOver,
       ConversionIsNearest, PriceIsNeverMisread, RequiredQuantityIsExact,
       RecommendedIsSafeAndCheapest, SilenceHasAReason

(* The same of the state after a step.                                     *)
LEMMA OfTheNextCall ==
  /\ call' # "resolve" => LookupsAreRight'
  /\ call' # "money" => ConversionIsNearest' /\ PriceIsNeverMisread'
  /\ call' # "aggregate" => RequiredQuantityIsExact'
  /\ call' # "replace" => RecommendedIsSafeAndCheapest' /\ SilenceHasAReason'
BY DEF LookupsAreRight, PricedOnlyWhenSafe, UnknownIsNotShortage, NothingBetterIsPassedOver,
       ConversionIsNearest, PriceIsNeverMisread, RequiredQuantityIsExact,
       RecommendedIsSafeAndCheapest, SilenceHasAReason

(* A step of the algorithm that is asked, or of none.                      *)
LEMMA AnswersStep == AnswersInv /\ [Answers]_<<vars, Asked>> => AnswersInv'
<1> SUFFICES ASSUME AnswersInv, [Answers]_<<vars, Asked>> PROVE AnswersInv'
  OBVIOUS
<1>1. CASE call = "purchase" /\ [Next]_vars /\ UNCHANGED Asked
  <2>1. OptimizerInv'
    BY <1>1, OptimizerInduction DEF AnswersInv
  <2>2. LookupsAreRight' /\ TheOthersAreRight'
    BY <1>1, LookupsStay, TheOthersStay DEF AnswersInv, Asked
  <2> QED
    BY <1>1, <2>1, <2>2 DEF AnswersInv, Asked
<1>2. CASE call # "purchase" /\ UNCHANGED <<call, vars>>
  <2>1. call' = call /\ result' = result
    BY <1>2 DEF vars
  <2>2. CASE UNCHANGED <<question, answer>>
    <3>1. LookupsAreRight' /\ TheOthersAreRight'
      BY <2>1, <2>2, LookupsStay, TheOthersStay DEF AnswersInv
    <3> QED
      BY <1>2, <2>1, <2>2, <3>1 DEF AnswersInv
  <2>3. CASE call = "money" /\ Prices!Next
    <3>1. question \in MoneyQuestions /\ question' = question
      BY <2>3 DEF AnswersInv, Prices!Next
    <3>2. Prices!ConversionIsNearest' /\ Prices!PriceIsNeverMisread'
      BY <2>3, <3>1, ConvertStep, PriceStep
    <3>3. LookupsAreRight' /\ TheOthersAreRight'
      BY <2>1, <2>3, <3>2, OfTheNextCall
      DEF TheOthersAreRight, ConversionIsNearest, PriceIsNeverMisread
    <3> QED
      BY <1>2, <2>1, <2>3, <3>1, <3>3 DEF AnswersInv
  <2>4. CASE call = "resolve" /\ Resolvers!Next
    <3>1. question \in LookupQuestions
      BY <2>4 DEF AnswersInv
    <3>2. /\ Resolvers!PricedOnlyWhenSafe' /\ Resolvers!UnknownIsNotShortage'
          /\ Resolvers!NothingBetterIsPassedOver' /\ question' = question
      BY <2>4, <3>1, LookupStep
    <3>3. LookupsAreRight'
      BY <3>2 DEF LookupsAreRight, PricedOnlyWhenSafe, UnknownIsNotShortage,
                  NothingBetterIsPassedOver
    <3>4. TheOthersAreRight'
      BY <2>1, <2>4, OfTheNextCall DEF TheOthersAreRight
    <3> QED
      BY <1>2, <2>1, <2>4, <3>1, <3>2, <3>3, <3>4 DEF AnswersInv
  <2>5. CASE call = "replace" /\ Replacements!Next
    <3>1. question \in AlternativesQuestions /\ question' = question
      BY <2>5 DEF AnswersInv, Replacements!Next
    <3>2. /\ Replacements!RecommendedIsSafeAndCheapest'
          /\ Replacements!SilenceHasAReason'
      BY <2>5, <3>1, ReplaceStep
    <3>3. LookupsAreRight' /\ TheOthersAreRight'
      BY <2>1, <2>5, <3>2, OfTheNextCall
      DEF TheOthersAreRight, RecommendedIsSafeAndCheapest, SilenceHasAReason
    <3> QED
      BY <1>2, <2>1, <2>5, <3>1, <3>3 DEF AnswersInv
  <2>6. CASE call = "aggregate" /\ Boms!Next
    <3>1. question \in DemandsQuestions /\ question' = question
      BY <2>6 DEF AnswersInv, Boms!Next
    <3>2. Boms!RequiredQuantityIsExact'
      BY <2>6, <3>1, AggregateStep
    <3>3. LookupsAreRight' /\ TheOthersAreRight'
      BY <2>1, <2>6, <3>2, OfTheNextCall DEF TheOthersAreRight, RequiredQuantityIsExact
    <3> QED
      BY <1>2, <2>1, <2>6, <3>1, <3>3 DEF AnswersInv
  <2> QED
    BY <1>2, <2>2, <2>3, <2>4, <2>5, <2>6 DEF Answers, Asked
<1> QED
  BY <1>1, <1>2 DEF Answers, Asked, AnswersInv

(* Every plan covers the requirement without overflow and consists of      *)
(* orders that the distributor accepts, at the prices it charges for them. *)
THEOREM PlansAreOrderable == Algorithms => []PlanIsOrderable
<1>1. AnswersInv => PlanIsOrderable
  BY AnsweredMeans DEF AnswersInv, PlanIsOrderable
<1> QED
  BY <1>1, AskedInv, AnswersStep, PTL DEF Algorithms

(* No order of one family, and no mix with a plain remainder, is cheaper   *)
(* than the plan by more than the preference allows.                       *)
THEOREM NoOrderIsPassedOver == Algorithms => []NothingCheaperIsPassedOver
<1>1. AnswersInv => NothingCheaperIsPassedOver
  BY AnsweredMeans DEF AnswersInv, NothingCheaperIsPassedOver
<1> QED
  BY <1>1, AskedInv, AnswersStep, PTL DEF Algorithms

(* Every amount that is converted is the nearest one, the even one of two. *)
THEOREM ConversionsAreNearest == Algorithms => []ConversionIsNearest
<1>1. AnswersInv => ConversionIsNearest
  BY DEF AnswersInv, TheOthersAreRight
<1> QED
  BY <1>1, AskedInv, AnswersStep, PTL DEF Algorithms

(* An adapter prices only the exact part of the demand's maker, and only   *)
(* what reported stock and every limit cover.                              *)
THEOREM OnlyTheSafeIsPriced == Algorithms => []PricedOnlyWhenSafe
<1>1. AnswersInv => PricedOnlyWhenSafe
  BY DEF AnswersInv, LookupsAreRight
<1> QED
  BY <1>1, AskedInv, AnswersStep, PTL DEF Algorithms

(* No adapter takes stock that was not reported for none.                  *)
THEOREM UnknownStockIsSaid == Algorithms => []UnknownIsNotShortage
<1>1. AnswersInv => UnknownIsNotShortage
  BY DEF AnswersInv, LookupsAreRight
<1> QED
  BY <1>1, AskedInv, AnswersStep, PTL DEF Algorithms

(* No adapter passes over an article, or an option, that can be bought and *)
(* is cheaper, or says "not found" of a part it was shown.                 *)
THEOREM NoBetterOfferIsPassedOver == Algorithms => []NothingBetterIsPassedOver
<1>1. AnswersInv => NothingBetterIsPassedOver
  BY DEF AnswersInv, LookupsAreRight
<1> QED
  BY <1>1, AskedInv, AnswersStep, PTL DEF Algorithms

(* A price that is read is one its text can be read as, the only one but   *)
(* for a lone dot, and a scaled number is exact or refused.                *)
THEOREM PricesAreRead == Algorithms => []PriceIsNeverMisread
<1>1. AnswersInv => PriceIsNeverMisread
  BY DEF AnswersInv, TheOthersAreRight
<1> QED
  BY <1>1, AskedInv, AnswersStep, PTL DEF Algorithms

(* The demands are those of the lines, each the sum of its lines, and what *)
(* is required of it the least that covers units and attrition.            *)
THEOREM RequirementsAreExact == Algorithms => []RequiredQuantityIsExact
<1>1. AnswersInv => RequiredQuantityIsExact
  BY DEF AnswersInv, TheOthersAreRight
<1> QED
  BY <1>1, AskedInv, AnswersStep, PTL DEF Algorithms

(* A part that is recommended is as good as the original in all it states, *)
(* has a plan, is the cheapest such candidate, and is the one named.       *)
THEOREM ReplacementsAreSafe == Algorithms => []RecommendedIsSafeAndCheapest
<1>1. AnswersInv => RecommendedIsSafeAndCheapest
  BY DEF AnswersInv, TheOthersAreRight
<1> QED
  BY <1>1, AskedInv, AnswersStep, PTL DEF Algorithms

(* Nothing is recommended only for a reason, and the command fails exactly *)
(* when all that it asked for failed.                                      *)
THEOREM SilenceIsJustified == Algorithms => []SilenceHasAReason
<1>1. AnswersInv => SilenceHasAReason
  BY DEF AnswersInv, TheOthersAreRight
<1> QED
  BY <1>1, AskedInv, AnswersStep, PTL DEF Algorithms
=============================================================================
