--------------------------- MODULE SourcingProofs ---------------------------
(***************************************************************************)
(* Proofs about Sourcing: whatever the providers answer and whichever      *)
(* approvals are found, a part is priced only on a safe plan, the one that *)
(* nothing comparable undercuts, and a total is the sum over all of the    *)
(* priced lines or is not printed.                                         *)
(*                                                                         *)
(* A part is judged when it is appended and never changes, so most of the  *)
(* argument is about the operators that choose it. What the loop adds is   *)
(* the bookkeeping between the parts, the counts and the running total.    *)
(***************************************************************************)
EXTENDS Sourcing, NaturalsLemmas

Part == [status : Status, offer : Offer \cup {None}, offers : Seq(Offer \cup {None}),
         resolution : Approvals \cup {None}, lifted : BOOLEAN, heard : Seq(Answer)]

(* OnlyTheChosenPlanIsSelected, PricedPartsAreSafe and                     *)
(* ChosenPlanIsCheapest, each of one part.                                 *)
Selecting(part) == {i \in DOMAIN part.offers :
                      part.offers[i] # None /\ part.offers[i].plan # None}

SelectsOnePlan(part) ==
  IF part.status = "priced"
    THEN \E i \in Selecting(part) : Selecting(part) = {i} /\ part.offers[i] = part.offer
    ELSE Selecting(part) = {} /\ (part.offer = None \/ part.offer.plan = None)

Approved(part, answer) ==
  /\ part.lifted
  /\ part.resolution # None
  /\ answer.offer # None
  /\ answer.offer.provider = part.resolution.provider
  /\ answer.offer.sku = part.resolution.sku
  /\ answer.offer.candidate = part.offer.plan

IsSafe(part, required) ==
  part.status = "priced" =>
    /\ SafeOffer(part.offer, required)
    /\ \E i \in DOMAIN part.heard :
         \/ part.heard[i] = [status |-> "priced", offer |-> part.offer]
         \/ Approved(part, part.heard[i])

IsCheapest(part, required) ==
  part.status = "priced" /\ ~part.lifted =>
    \A i \in DOMAIN part.heard :
      part.heard[i].status = "priced" /\ SafeOffer(part.heard[i].offer, required)
        => NotDearer(part.offer.plan, part.heard[i].offer.plan)

Sound(part, required) ==
  /\ part \in Part
  /\ SelectsOnePlan(part)
  /\ IsSafe(part, required)
  /\ IsCheapest(part, required)

-----------------------------------------------------------------------------
(* The inductive invariant.                                                *)

Counts == [priced : Nat, shortage : Nat, review : Nat, notFound : Nat,
           notApplicable : Nat, errors : Nat]

TypeOK ==
  /\ target \in Currency \cup {None}
  /\ pc \in {"resolve", "ask", "done"}
  /\ applied \in Approvals \cup {None}
  /\ heard \in Seq(Answer)
  /\ parts \in Seq(Part)
  /\ summary \in Counts
  /\ sum.total \in Nat
  /\ sum.currency \in Currency \cup {None}

(* Every part is sound for its line.                                       *)
PartsInv ==
  /\ Len(parts) <= NumLines
  /\ pc = "ask" => Len(parts) < NumLines
  /\ Len(heard) <= Len(Order)
  /\ \A n \in DOMAIN parts : Sound(parts[n], Required[n])

(* The counts know whether all lines are priced, and whether one failed.   *)
CountsInv ==
  /\ summary.priced <= Len(parts)
  /\ summary.priced = Len(parts) <=> Priced = DOMAIN parts
  /\ summary.errors = 0 => \A n \in DOMAIN parts : parts[n].status # "provider_error"

(* Without a target the running total is of one currency unless it is      *)
(* marked as mixed; with one, every priced plan is quoted or the total is  *)
(* marked as unquoted, which is an error.                                  *)
CurrencyInv ==
  /\ target = None /\ sum.currency = None => Priced = {}
  /\ target = None /\ ~sum.mixed =>
       \A n \in Priced : parts[n].offer.plan.currency = sum.currency
  /\ target # None => ~sum.mixed
  /\ summary.errors = 0 => ~sum.unquoted
  /\ target # None /\ ~sum.unquoted =>
       \A n \in Priced : Quoted(parts[n].offer.plan.currency)

(* Adds(f, n): f holds the sums of the first lines, up to n.               *)
Adds(f, n) ==
  /\ f \in [0 .. n -> Nat]
  /\ f[0] = 0
  /\ \A k \in 1 .. n : f[k] = f[k - 1] + (IF k \in Priced THEN InTotal(k) ELSE 0)

(* The running total is the sum, as long as nothing spoiled it.            *)
TotalInv ==
  summary.errors = 0 => \E f : Adds(f, Len(parts)) /\ f[Len(parts)] = sum.total

(* Before the end there is no outcome; at the end it is the promised one.  *)
TotalIsAdded ==
  outcome.total # None =>
    /\ \A n \in DOMAIN parts : parts[n].status # "provider_error"
    /\ \A n \in Priced :
         LET c == parts[n].offer.plan.currency
         IN IF target = None THEN c = outcome.currency ELSE Quoted(c)
    /\ \E f : Adds(f, NumLines) /\ f[NumLines] = outcome.total

OutcomeInv ==
  IF pc = "done" THEN TotalIsAdded /\ StatusTellsTheOutcome
                 ELSE outcome = NoOutcome

Running == PartsInv /\ (pc # "done" => CountsInv /\ CurrencyInv /\ TotalInv)

IInv == TypeOK /\ Running /\ OutcomeInv
-----------------------------------------------------------------------------
(* The answers to one line, and the plans they offer.                      *)

Heard(h) == h \in Seq(Answer) /\ Len(h) = Len(Order)

LEMMA ProductIsNatural ==
  ASSUME NEW x \in Nat, NEW y \in Nat
  PROVE  x * y \in Nat
OBVIOUS

LEMMA ConvertedIsNatural ==
  ASSUME SourcingAssumption, NEW price \in Nat, NEW c, Quoted(c)
  PROVE  Converted(price, c) \in Nat
<1>1. CASE c = target
  BY <1>1 DEF Converted
<1>2. CASE c # target
  <2>1. Rate[c] \in Nat
    BY <1>2 DEF Quoted, SourcingAssumption
  <2> QED
    BY <1>2, <2>1, ProductIsNatural DEF Converted
<1> QED
  BY <1>1, <1>2

(* A rate keeps the order of prices.                                       *)
LEMMA ConvertedKeepsOrder ==
  ASSUME SourcingAssumption, NEW a \in Nat, NEW b \in Nat, NEW c, Quoted(c),
         Converted(a, c) <= Converted(b, c)
  PROVE  a <= b
<1>1. CASE c = target
  BY <1>1 DEF Converted
<1>2. CASE c # target
  <2>1. Rate[c] \in Nat \ {0}
    BY <1>2 DEF Quoted, SourcingAssumption
  <2>2. ASSUME NEW r \in Nat \ {0}, a * r <= b * r PROVE a <= b
    <3>1. SUFFICES ASSUME b + 1 <= a PROVE FALSE
      OBVIOUS
    <3>2. (b + 1) * r <= a * r
      <4>1. PICK d \in Nat : a = (b + 1) + d
        BY <3>1
      <4>2. a * r = (b + 1) * r + d * r
        BY <4>1
      <4>3. d * r \in Nat /\ (b + 1) * r \in Nat
        BY <4>1, ProductIsNatural
      <4> QED
        BY <4>2, <4>3
    <3>3. (b + 1) * r = b * r + r
      OBVIOUS
    <3> QED
      BY <2>2, <3>2, <3>3, ProductIsNatural
  <2> QED
    BY <1>2, <2>1, <2>2 DEF Converted
<1> QED
  BY <1>1, <1>2

LEMMA SafePlanType ==
  ASSUME SourcingAssumption, NEW h, Heard(h), NEW required,
         NEW i \in DOMAIN h, SafeOffer(h[i].offer, required)
  PROVE  h[i].offer \in Offer /\ PlanOf(h, i) \in PurchasePlan
<1>1. h[i] \in Answer
  BY DEF Heard
<1>2. h[i].offer \in Offer
  BY <1>1 DEF SafeOffer, Answer
<1> QED
  BY <1>2 DEF SafeOffer, Offer, PlanOf

(* The safe answers are the priced ones that keep the contract.            *)
LEMMA SafeMembers ==
  ASSUME NEW h, NEW required, NEW i
  PROVE  i \in Safe(h, required) <=>
           /\ i \in DOMAIN h
           /\ h[i].status = "priced"
           /\ SafeOffer(h[i].offer, required)
BY DEF Safe, Degraded, Unsafe, Fault

LEMMA ValueIsNatural ==
  ASSUME SourcingAssumption, NEW h, Heard(h), NEW required,
         NEW S, S = Safe(h, required), Comparable(h, S), NEW i \in S
  PROVE  Value(h, S, i) \in Nat
<1>1. PlanOf(h, i) \in PurchasePlan
  BY SafeMembers, SafePlanType
<1>2. PlanOf(h, i).price \in Nat
  BY <1>1 DEF PurchasePlan
<1>3. CASE OneCurrency(h, S)
  BY <1>2, <1>3 DEF Value
<1>4. CASE ~OneCurrency(h, S)
  <2>1. Quoted(PlanOf(h, i).currency)
    BY <1>4 DEF Comparable, Convertible
  <2> QED
    BY <1>2, <1>4, <2>1, ConvertedIsNatural DEF Value
<1> QED
  BY <1>3, <1>4

(* Among comparable safe answers one ranks before all the others.          *)
LEMMA BestIsFirst ==
  ASSUME SourcingAssumption, NEW h, Heard(h), NEW required,
         NEW S, S = Safe(h, required), S # {}, Comparable(h, S)
  PROVE  /\ Best(h, S) \in S
         /\ \A j \in S \ {Best(h, S)} : RanksBefore(h, S, Best(h, S), j)
<1> DEFINE V(i) == Value(h, S, i)
           U(i) == PlanOf(h, i).surplus
           Values == {V(i) : i \in S}
<1>1. \A i \in S : V(i) \in Nat
  BY ValueIsNatural
<1>2. \A i \in S : U(i) \in Nat /\ i \in DOMAIN h
  <2>1. ASSUME NEW i \in S PROVE U(i) \in Nat /\ i \in DOMAIN h
    <3>1. i \in DOMAIN h /\ PlanOf(h, i) \in PurchasePlan
      BY SafeMembers, SafePlanType
    <3> QED
      BY <3>1 DEF PurchasePlan
  <2> QED
    BY <2>1
<1>3. \A i \in S : Order[i] \in Nat
  <2>1. \A i \in S : i \in DOMAIN Order
    BY <1>2 DEF Heard, SourcingAssumption
  <2>2. Order \in Seq(Provider) /\ Provider \subseteq Nat
    BY DEF SourcingAssumption
  <2>3. \A i \in DOMAIN Order : Order[i] \in Provider
    BY <2>2
  <2> QED
    BY <2>1, <2>2, <2>3
<1> HIDE DEF V, U
<1>4. PICK a \in S : \A k \in S : V(a) <= V(k)
  <2>1. Values \subseteq Nat /\ Values # {}
    BY <1>1
  <2>2. PICK v \in Values : \A w \in Values : v <= w
    BY <2>1, LeastNat
  <2> QED
    BY <2>2
<1> DEFINE S1 == {i \in S : V(i) = V(a)}
           Surpluses == {U(i) : i \in S1}
<1>5. PICK b \in S1 : \A k \in S1 : U(b) <= U(k)
  <2>1. Surpluses \subseteq Nat /\ Surpluses # {}
    BY <1>2
  <2>2. PICK u \in Surpluses : \A w \in Surpluses : u <= w
    BY <2>1, LeastNat
  <2> QED
    BY <2>2
<1> DEFINE S2 == {i \in S1 : U(i) = U(b)}
           Names == {Order[i] : i \in S2}
<1>6. PICK c \in S2 : \A k \in S2 : Order[c] <= Order[k]
  <2>1. Names \subseteq Nat /\ Names # {}
    BY <1>3
  <2>2. PICK o \in Names : \A w \in Names : o <= w
    BY <2>1, LeastNat
  <2> QED
    BY <2>2
<1>7. ASSUME NEW j \in S \ {c} PROVE RanksBefore(h, S, c, j)
  <2>1. Order[c] # Order[j]
    BY <1>2, <1>6, <1>7 DEF Heard, SourcingAssumption
  <2>2. V(c) <= V(j) /\ (V(c) = V(j) => U(c) <= U(j))
    BY <1>4, <1>5, <1>6
  <2>3. V(c) = V(j) /\ U(c) = U(j) => Order[c] <= Order[j]
    BY <1>6
  <2> QED
    BY <1>1, <1>2, <1>3, <2>1, <2>2, <2>3 DEF RanksBefore, V, U
<1>8. \E i \in S : \A j \in S \ {i} : RanksBefore(h, S, i, j)
  BY <1>7
<1> QED
  BY <1>8 DEF Best

(* Likewise one of the failures is the most telling.                       *)
LEMMA MostTellingIsOne ==
  ASSUME NEW h, NEW S, S \subseteq Nat, S # {}
  PROVE  MostTelling(h, S) \in S
<1> DEFINE K(i) == FallbackRank(h[i].status)
           Ranks == {K(i) : i \in S}
<1>1. \A i \in S : K(i) \in Nat
  BY DEF FallbackRank
<1> HIDE DEF K
<1>2. PICK a \in S : \A k \in S : K(a) <= K(k)
  <2>1. Ranks \subseteq Nat /\ Ranks # {}
    BY <1>1
  <2>2. PICK v \in Ranks : \A w \in Ranks : v <= w
    BY <2>1, LeastNat
  <2> QED
    BY <2>2
<1> DEFINE S1 == {i \in S : K(i) = K(a)}
<1>3. PICK c \in S1 : \A k \in S1 : c <= k
  BY LeastNat
<1>4. ASSUME NEW j \in S \ {c} PROVE K(c) < K(j) \/ (K(c) = K(j) /\ c < j)
  <2>1. K(c) = K(a) /\ K(a) <= K(j) /\ c \in Nat /\ j \in Nat
    BY <1>2, <1>3
  <2>2. K(j) = K(a) => c <= j
    BY <1>3
  <2>3. K(c) \in Nat /\ K(j) \in Nat /\ c # j
    BY <1>1, <1>3
  <2> QED
    BY <2>1, <2>2, <2>3
<1> QED
  BY <1>4 DEF MostTelling, K
-----------------------------------------------------------------------------
(* The part made of the answers is sound.                                  *)

PartOf(status, offer, winner, h, required, approval) ==
  [status |-> status, offer |-> offer, offers |-> OffersOf(h, required, winner),
   resolution |-> approval, lifted |-> FALSE, heard |-> h]

NoSelection(offer) == offer = None \/ offer.plan = None

LEMMA WithoutPlanType ==
  ASSUME NEW offer \in Offer \cup {None}
  PROVE  /\ WithoutPlan(offer) \in Offer \cup {None}
         /\ NoSelection(WithoutPlan(offer))
<1>1. CASE offer = None
  BY <1>1 DEF WithoutPlan, NoSelection
<1>2. CASE offer # None
  <2>1. WithoutPlan(offer) = [offer EXCEPT !.plan = None] /\ offer \in Offer
    BY <1>2 DEF WithoutPlan
  <2> QED
    BY <2>1 DEF Offer, NoSelection
<1> QED
  BY <1>1, <1>2

LEMMA OffersOfType ==
  ASSUME NEW h, Heard(h), NEW required, NEW winner
  PROVE  /\ OffersOf(h, required, winner) \in Seq(Offer \cup {None})
         /\ DOMAIN OffersOf(h, required, winner) = DOMAIN h
         /\ \A i \in DOMAIN h \ {winner} : NoSelection(OffersOf(h, required, winner)[i])
<1>1. \A i \in DOMAIN h : h[i].offer \in Offer \cup {None}
  <2>1. \A i \in DOMAIN h : h[i] \in Answer
    BY DEF Heard
  <2> QED
    BY <2>1 DEF Answer
<1>2. DOMAIN h = 1 .. Len(h) /\ Len(h) \in Nat
  BY DEF Heard
<1>3. \A i \in DOMAIN h : OffersOf(h, required, winner)[i] =
        IF i \in Degraded(h, required) THEN None
        ELSE IF i = winner THEN h[i].offer ELSE WithoutPlan(h[i].offer)
  BY DEF OffersOf
<1>4. \A i \in DOMAIN h : OffersOf(h, required, winner)[i] \in Offer \cup {None}
  BY <1>1, <1>3, WithoutPlanType
<1>5. DOMAIN OffersOf(h, required, winner) = DOMAIN h
  BY DEF OffersOf
<1>6. OffersOf(h, required, winner) \in [1 .. Len(h) -> Offer \cup {None}]
  BY <1>2, <1>4, <1>5 DEF OffersOf
<1>7. OffersOf(h, required, winner) \in Seq(Offer \cup {None})
  BY <1>2, <1>6
<1>8. \A i \in DOMAIN h \ {winner} : NoSelection(OffersOf(h, required, winner)[i])
  BY <1>1, <1>3, WithoutPlanType DEF NoSelection
<1> QED
  BY <1>5, <1>7, <1>8

LEMMA PartOfType ==
  ASSUME NEW h, Heard(h), NEW required, NEW approval \in Approvals \cup {None},
         NEW status \in Status, NEW offer \in Offer \cup {None}, NEW winner
  PROVE  PartOf(status, offer, winner, h, required, approval) \in Part
<1>1. h \in Seq(Answer) /\ OffersOf(h, required, winner) \in Seq(Offer \cup {None})
  BY OffersOfType DEF Heard
<1> QED
  BY <1>1 DEF PartOf, Part

(* A part that is not priced is sound when it selects no plan.             *)
LEMMA UnpricedIsSound ==
  ASSUME NEW h, Heard(h), NEW required, NEW approval \in Approvals \cup {None},
         NEW status \in Status, status # "priced",
         NEW offer \in Offer \cup {None}, NoSelection(offer)
  PROVE  Sound(PartOf(status, offer, 0, h, required, approval), required)
<1> DEFINE part == PartOf(status, offer, 0, h, required, approval)
<1>1. part \in Part
  BY PartOfType
<1>2. part.status = status /\ part.offer = offer /\ part.offers = OffersOf(h, required, 0)
  BY DEF PartOf
<1> HIDE DEF part
<1>3. 0 \notin DOMAIN h
  BY DEF Heard
<1>4. Selecting(part) = {}
  BY <1>2, <1>3, OffersOfType DEF Selecting, NoSelection
<1> QED
  BY <1>1, <1>2, <1>4 DEF Sound, SelectsOnePlan, IsSafe, IsCheapest, NoSelection, part

(* Nothing comparable and safe undercuts the best.                         *)
LEMMA BestIsNotDearer ==
  ASSUME SourcingAssumption, NEW h, Heard(h), NEW required,
         NEW S, S = Safe(h, required), S # {}, Comparable(h, S),
         NEW i \in DOMAIN h, h[i].status = "priced", SafeOffer(h[i].offer, required)
  PROVE  NotDearer(PlanOf(h, Best(h, S)), PlanOf(h, i))
<1> DEFINE b == Best(h, S)
<1>1. b \in S /\ i \in S
  BY BestIsFirst, SafeMembers
<1>2. Value(h, S, b) \in Nat /\ Value(h, S, i) \in Nat
  BY <1>1, ValueIsNatural
<1>3. Value(h, S, b) <= Value(h, S, i)
  <2>1. i # b => RanksBefore(h, S, b, i)
    BY <1>1, BestIsFirst
  <2> QED
    BY <1>2, <2>1 DEF RanksBefore
<1>4. PlanOf(h, b).price \in Nat /\ PlanOf(h, i).price \in Nat
  <2>1. PlanOf(h, b) \in PurchasePlan /\ PlanOf(h, i) \in PurchasePlan
    BY <1>1, SafeMembers, SafePlanType
  <2> QED
    BY <2>1 DEF PurchasePlan
<1> HIDE DEF b
<1>5. CASE OneCurrency(h, S)
  <2>1. PlanOf(h, b).currency = PlanOf(h, i).currency
    BY <1>1, <1>5 DEF OneCurrency
  <2> QED
    BY <1>3, <1>5, <2>1 DEF NotDearer, Value, b
<1>6. CASE ~OneCurrency(h, S)
  <2>1. Quoted(PlanOf(h, b).currency) /\ Quoted(PlanOf(h, i).currency)
    BY <1>1, <1>6 DEF Comparable, Convertible
  <2>2. Converted(PlanOf(h, b).price, PlanOf(h, b).currency)
          <= Converted(PlanOf(h, i).price, PlanOf(h, i).currency)
    BY <1>3, <1>6 DEF Value
  <2>3. PlanOf(h, b).currency = PlanOf(h, i).currency =>
          PlanOf(h, b).price <= PlanOf(h, i).price
    BY <1>4, <2>1, <2>2, ConvertedKeepsOrder
  <2> QED
    BY <2>1, <2>2, <2>3 DEF NotDearer, b
<1> QED
  BY <1>5, <1>6

LEMMA BestIsSound ==
  ASSUME SourcingAssumption, NEW h, Heard(h), NEW required,
         NEW approval \in Approvals \cup {None},
         NEW S, S = Safe(h, required), S # {}, Comparable(h, S),
         NEW b, b = Best(h, S)
  PROVE  Sound(PartOf("priced", h[b].offer, b, h, required, approval), required)
<1> DEFINE part == PartOf("priced", h[b].offer, b, h, required, approval)
<1>1. b \in DOMAIN h /\ h[b].status = "priced" /\ SafeOffer(h[b].offer, required)
  BY BestIsFirst, SafeMembers
<1>2. h[b].offer \in Offer
  BY <1>1, SafePlanType
<1>3. part \in Part
  <2>1. "priced" \in Status
    BY DEF SourcingAssumption, Statuses
  <2> QED
    BY <1>2, <2>1, PartOfType
<1>4. /\ part.status = "priced" /\ part.offer = h[b].offer /\ part.heard = h
      /\ part.offers = OffersOf(h, required, b) /\ part.lifted = FALSE
  BY DEF PartOf
<1> HIDE DEF part
<1>5. SelectsOnePlan(part)
  <2>1. b \notin Degraded(h, required)
    <3>1. b \in Safe(h, required)
      BY BestIsFirst
    <3> QED
      BY <3>1 DEF Safe
  <2>2. part.offers[b] = h[b].offer
    BY <1>1, <1>4, <2>1 DEF OffersOf
  <2>3. h[b].offer # None /\ h[b].offer.plan # None
    BY <1>1 DEF SafeOffer
  <2>4. \A i \in DOMAIN h \ {b} : NoSelection(part.offers[i])
    BY <1>4, OffersOfType
  <2>5. DOMAIN part.offers = DOMAIN h
    BY <1>4, OffersOfType
  <2>6. Selecting(part) = {b}
    BY <1>1, <2>2, <2>3, <2>4, <2>5 DEF Selecting, NoSelection
  <2> QED
    BY <1>4, <2>2, <2>6 DEF SelectsOnePlan
<1>6. IsSafe(part, required)
  <2>1. h[b] \in Answer
    BY <1>1 DEF Heard
  <2>2. h[b] = [status |-> "priced", offer |-> part.offer]
    BY <1>1, <1>4, <2>1 DEF Answer
  <2> QED
    BY <1>1, <1>4, <2>2 DEF IsSafe
<1>7. IsCheapest(part, required)
  <2>1. ASSUME NEW i \in DOMAIN part.heard, part.heard[i].status = "priced",
               SafeOffer(part.heard[i].offer, required)
        PROVE  NotDearer(part.offer.plan, part.heard[i].offer.plan)
    BY <1>4, <2>1, BestIsNotDearer DEF PlanOf
  <2> QED
    BY <2>1 DEF IsCheapest
<1> QED
  BY <1>3, <1>5, <1>6, <1>7 DEF Sound, part
-----------------------------------------------------------------------------
(* MultiPart, case by case.                                                *)

(* Parts with the same fields are the same; NoPart is one of them too.     *)
Like == [status : Status \cup {"none"}, offer : Offer \cup {None},
         offers : Seq(Offer \cup {None}), resolution : Approvals \cup {None},
         lifted : BOOLEAN, heard : Seq(Answer)]

LEMMA SameFields ==
  ASSUME NEW r \in Like, NEW q \in Like,
         r.status = q.status, r.offer = q.offer, r.offers = q.offers,
         r.resolution = q.resolution, r.lifted = q.lifted, r.heard = q.heard
  PROVE  r = q
BY DEF Like

(* The updates of a part, by name: the provers do not recognize them when  *)
(* they are written out.                                                   *)
Made(status, offer, h, offers) ==
  [NoPart EXCEPT !.status = status, !.offer = offer, !.heard = h, !.offers = offers]

Resolved(part, approval) == [part EXCEPT !.resolution = approval]

LEMMA MadeOfNoPart ==
  ASSUME NEW h, Heard(h), NEW required, NEW winner, NEW status \in Status,
         NEW offer \in Offer \cup {None}
  PROVE  Made(status, offer, h, OffersOf(h, required, winner))
           = PartOf(status, offer, winner, h, required, None)
<1> DEFINE o == OffersOf(h, required, winner)
<1>1. o \in Seq(Offer \cup {None}) /\ h \in Seq(Answer)
  BY OffersOfType DEF Heard
<1> HIDE DEF o
<1> DEFINE r == [NoPart EXCEPT !.status = status, !.offer = offer, !.heard = h, !.offers = o]
           q == PartOf(status, offer, winner, h, required, None)
<1>2. NoPart \in Like
  BY DEF NoPart, Like
<1>3. r \in Like
  BY <1>1, <1>2 DEF Like
<1>4. q \in Like
  <2>1. q \in Part
    BY PartOfType
  <2> QED
    BY <2>1 DEF Part, Like
<1>5. /\ r.status = status /\ r.offer = offer /\ r.offers = o /\ r.heard = h
      /\ r.resolution = None /\ r.lifted = FALSE
  BY DEF NoPart
<1>6. /\ q.status = status /\ q.offer = offer /\ q.offers = o /\ q.heard = h
      /\ q.resolution = None /\ q.lifted = FALSE
  BY DEF PartOf, o
<1> HIDE DEF r, q
<1>7. r = q
  BY <1>3, <1>4, <1>5, <1>6, SameFields
<1> QED
  BY <1>7 DEF Made, r, q, o

LEMMA MultiPartCases ==
  ASSUME SourcingAssumption, NEW h, Heard(h), NEW required
  PROVE  \/ /\ Safe(h, required) # {} /\ Comparable(h, Safe(h, required))
            /\ LET b == Best(h, Safe(h, required))
               IN MultiPart(h, required) =
                    PartOf("priced", h[b].offer, b, h, required, None)
         \/ \E status \in Status \ {"priced"}, offer \in Offer \cup {None} :
              /\ NoSelection(offer)
              /\ MultiPart(h, required) = PartOf(status, offer, 0, h, required, None)
<1> DEFINE safe == Safe(h, required)
           fallbacks == Fallbacks(h, required)
           b == Best(h, safe)
           told == MostTelling(h, fallbacks)
<1>1. \A status \in Status, offer \in Offer \cup {None} : \A winner :
        Made(status, offer, h, OffersOf(h, required, winner))
          = PartOf(status, offer, winner, h, required, None)
  BY MadeOfNoPart
<1>2. CASE safe # {} /\ Comparable(h, safe)
  <2>1. MultiPart(h, required) = PartOf("priced", h[b].offer, b, h, required, None)
    <3>1. "priced" \in Status
      BY DEF SourcingAssumption, Statuses
    <3>2. h[b].offer \in Offer
      BY <1>2, BestIsFirst, SafeMembers, SafePlanType
    <3> QED
      BY <1>1, <1>2, <3>1, <3>2 DEF MultiPart, Made
  <2> QED
    BY <1>2, <2>1
<1>3. CASE safe # {} /\ ~Comparable(h, safe)
  <2>1. "unavailable" \in Status \ {"priced"} /\ NoSelection(None)
    BY DEF SourcingAssumption, Statuses, NoSelection
  <2>2. MultiPart(h, required) = PartOf("unavailable", None, 0, h, required, None)
    BY <1>1, <1>3, <2>1 DEF MultiPart, Made
  <2> QED
    BY <2>1, <2>2
<1>4. CASE safe = {} /\ fallbacks # {}
  <2>1. told \in fallbacks
    <3>1. fallbacks \subseteq Nat
      BY DEF Fallbacks, Heard
    <3> QED
      BY <1>4, <3>1, MostTellingIsOne
  <2>2. told \in DOMAIN h /\ h[told].status # "priced"
    BY <2>1 DEF Fallbacks
  <2>3. h[told] \in Answer
    BY <2>2 DEF Heard
  <2>4. h[told].status \in Status \ {"priced"} /\ h[told].offer \in Offer \cup {None}
    BY <2>2, <2>3 DEF Answer
  <2>5. WithoutPlan(h[told].offer) \in Offer \cup {None}
    BY <2>4, WithoutPlanType
  <2>6. MultiPart(h, required) =
          PartOf(h[told].status, WithoutPlan(h[told].offer), 0, h, required, None)
    BY <1>1, <1>4, <2>4, <2>5 DEF MultiPart, Made
  <2> HIDE DEF told
  <2> QED
    BY <2>4, <2>5, <2>6, WithoutPlanType
<1>5. CASE safe = {} /\ fallbacks = {}
  <2>1. "provider_error" \in Status \ {"priced"} /\ NoSelection(None)
    BY DEF SourcingAssumption, Statuses, NoSelection
  <2>2. MultiPart(h, required) = PartOf("provider_error", None, 0, h, required, None)
    BY <1>1, <1>5, <2>1 DEF MultiPart, Made
  <2> QED
    BY <2>1, <2>2
<1> QED
  BY <1>2, <1>3, <1>4, <1>5

LEMMA WithResolution ==
  ASSUME NEW h, Heard(h), NEW required, NEW winner, NEW status \in Status,
         NEW offer \in Offer \cup {None}, NEW approval \in Approvals \cup {None}
  PROVE  Resolved(PartOf(status, offer, winner, h, required, None), approval)
           = PartOf(status, offer, winner, h, required, approval)
<1> DEFINE p == PartOf(status, offer, winner, h, required, None)
           r == [p EXCEPT !.resolution = approval]
           q == PartOf(status, offer, winner, h, required, approval)
<1>1. p \in Like /\ q \in Like
  BY PartOfType DEF Part, Like
<1>2. /\ q.status = p.status /\ q.offer = p.offer /\ q.offers = p.offers
      /\ q.resolution = approval /\ q.lifted = p.lifted /\ q.heard = p.heard
  BY DEF PartOf
<1> HIDE DEF p, q
<1>3. /\ r \in Like
      /\ r.status = p.status /\ r.offer = p.offer /\ r.offers = p.offers
      /\ r.resolution = approval /\ r.lifted = p.lifted /\ r.heard = p.heard
  BY <1>1 DEF Like
<1> HIDE DEF r
<1>4. r = q
  BY <1>1, <1>2, <1>3, SameFields
<1> QED
  BY <1>4 DEF Resolved, p, q, r

(* A part whose review is lifted is priced on the approved candidate.      *)
LEMMA LiftedIsSound ==
  ASSUME SourcingAssumption, NEW h, Heard(h), NEW required,
         NEW approval \in Approvals \cup {None},
         NEW status \in Status, status # "priced",
         NEW offer \in Offer \cup {None}, NoSelection(offer),
         MayLift(PartOf(status, offer, 0, h, required, approval), approval, required)
  PROVE  Sound(LiftPinnedReview(PartOf(status, offer, 0, h, required, approval),
                                approval, required), required)
<1> DEFINE part == PartOf(status, offer, 0, h, required, approval)
           pinned == Pinned(part, approval)
           i == Min(pinned)
           old == part.offers[i]
           new == [old EXCEPT !.review = FALSE, !.plan = old.candidate]
           lifted == [part EXCEPT !.status = "priced", !.offer = new,
                                  !.offers[i] = new, !.lifted = TRUE]
<1>1. LiftPinnedReview(part, approval, required) = lifted
  BY DEF LiftPinnedReview
<1>2. /\ part.offers = OffersOf(h, required, 0) /\ part.heard = h
      /\ part.resolution = approval /\ part.lifted = FALSE
  BY DEF PartOf
<1>3. part \in Part
  BY PartOfType
<1>4. part.offers \in Seq(Offer \cup {None}) /\ DOMAIN part.offers = DOMAIN h
  BY <1>2, OffersOfType
<1>5. MayLift(part, approval, required)
  OBVIOUS
<1> HIDE DEF part
<1>6. i \in pinned
  <2>1. pinned \subseteq Nat /\ pinned # {}
    BY <1>4, <1>5 DEF Pinned, MayLift
  <2> QED
    BY <2>1, LeastNat DEF Min
<1>7. i \in DOMAIN h /\ IsPinned(old, approval)
  BY <1>4, <1>6 DEF Pinned
<1>8. Covers(old.candidate, required) /\ approval # None
  BY <1>5 DEF MayLift
<1> HIDE DEF i
<1>9. old \in Offer
  BY <1>4, <1>7 DEF IsPinned
<1>10. old = WithoutPlan(h[i].offer)
  <2>1. i # 0
    BY <1>7 DEF Heard
  <2> QED
    BY <1>2, <1>7, <2>1 DEF OffersOf, IsPinned
<1> HIDE DEF old
<1>11. /\ new \in Offer /\ new.review = FALSE /\ new.plan = old.candidate
       /\ new.plan \in PurchasePlan
  BY <1>8, <1>9 DEF Offer, Covers
<1> HIDE DEF new
<1>12. /\ lifted.status = "priced" /\ lifted.offer = new /\ lifted.lifted = TRUE
       /\ lifted.offers = [part.offers EXCEPT ![i] = new]
       /\ lifted.heard = h /\ lifted.resolution = approval
  BY <1>2, <1>3 DEF Part
<1>13. lifted \in Part
  <2>1. "priced" \in Status
    BY DEF SourcingAssumption, Statuses
  <2>2. [part.offers EXCEPT ![i] = new] \in Seq(Offer \cup {None})
    BY <1>4, <1>7, <1>11
  <2> QED
    BY <1>3, <1>11, <2>1, <2>2 DEF Part
<1> HIDE DEF lifted
<1>14. SafeOffer(new, required)
  BY <1>8, <1>11 DEF SafeOffer, Covers, SourcingAssumption
<1>15. SelectsOnePlan(lifted)
  <2>1. lifted.offers[i] = new /\ DOMAIN lifted.offers = DOMAIN h
    BY <1>4, <1>7, <1>12
  <2>2. \A j \in DOMAIN h \ {i} : NoSelection(lifted.offers[j])
    <3>1. \A j \in DOMAIN h : NoSelection(part.offers[j])
      <4>1. 0 \notin DOMAIN h
        BY DEF Heard
      <4> QED
        BY <1>2, <4>1, OffersOfType
    <3> QED
      BY <1>4, <1>12, <3>1
  <2>3. new # None /\ new.plan # None
    BY <1>14 DEF SafeOffer
  <2>4. Selecting(lifted) = {i}
    BY <1>7, <2>1, <2>2, <2>3 DEF Selecting, NoSelection
  <2> QED
    BY <1>12, <2>1, <2>4 DEF SelectsOnePlan
<1>16. IsSafe(lifted, required)
  <2>1. /\ h[i].offer # None /\ h[i].offer.provider = old.provider
        /\ h[i].offer.sku = old.sku /\ h[i].offer.candidate = old.candidate
    <3>1. h[i].offer # None
      BY <1>7, <1>10 DEF WithoutPlan, IsPinned
    <3>2. h[i].offer \in Offer
      <4>1. h[i] \in Answer
        BY <1>7 DEF Heard
      <4> QED
        BY <3>1, <4>1 DEF Answer
    <3>3. old = [h[i].offer EXCEPT !.plan = None]
      BY <1>10, <3>1 DEF WithoutPlan
    <3> QED
      BY <3>1, <3>2, <3>3 DEF Offer
  <2>2. Approved(lifted, h[i])
    BY <1>7, <1>8, <1>11, <1>12, <2>1 DEF Approved, IsPinned
  <2> QED
    BY <1>7, <1>12, <1>14, <2>2 DEF IsSafe
<1>17. IsCheapest(lifted, required)
  BY <1>12 DEF IsCheapest
<1> QED
  BY <1>1, <1>13, <1>15, <1>16, <1>17 DEF Sound, part

LEMMA CheckedIsSound ==
  ASSUME SourcingAssumption, NEW part, NEW required, Sound(part, required)
  PROVE  /\ Sound(Checked(part, required), required)
         /\ Checked(part, required).status \in Statuses
<1>1. ~Unsafe(part, required)
  BY DEF Sound, IsSafe, Unsafe
<1>2. CASE Counter(part.status) = "errors"
  <2>1. part.status # "priced"
    BY <1>2 DEF Counter
  <2>2. Checked(part, required) = [part EXCEPT !.status = "provider_error"]
    BY <1>2 DEF Checked
  <2> DEFINE c == [part EXCEPT !.status = "provider_error"]
  <2>3. part \in Part /\ "provider_error" \in Status
    BY DEF Sound, SourcingAssumption, Statuses
  <2>4. c \in Part
    BY <2>3 DEF Part
  <2>5. c.status = "provider_error" /\ c.offer = part.offer /\ c.offers = part.offers
    BY <2>3 DEF Part
  <2> HIDE DEF c
  <2>6. SelectsOnePlan(c)
    BY <2>1, <2>5 DEF Sound, SelectsOnePlan, Selecting
  <2>7. IsSafe(c, required) /\ IsCheapest(c, required)
    BY <2>5 DEF IsSafe, IsCheapest
  <2> QED
    BY <2>2, <2>4, <2>5, <2>6, <2>7 DEF Sound, Statuses, c
<1>3. CASE Counter(part.status) # "errors"
  <2>1. Checked(part, required) = part
    BY <1>1, <1>3 DEF Checked
  <2>2. part.status \in Statuses
    BY <1>3 DEF Counter, Statuses
  <2> QED
    BY <2>1, <2>2
<1> QED
  BY <1>2, <1>3

(* Whatever the providers answered, and whatever approval was found.       *)
LEMMA ChosenIsSound ==
  ASSUME SourcingAssumption, NEW h, Heard(h), NEW required,
         NEW approval \in Approvals \cup {None}
  PROVE  Sound(ResolvedPart(h, approval, required), required)
<1> DEFINE safe == Safe(h, required)
           b == Best(h, safe)
<1>1. ASSUME safe # {}, Comparable(h, safe),
             MultiPart(h, required) = PartOf("priced", h[b].offer, b, h, required, None)
      PROVE  Sound(ResolvedPart(h, approval, required), required)
  <2> DEFINE part == PartOf("priced", h[b].offer, b, h, required, approval)
  <2>1. Degraded(h, required) # DOMAIN h
    BY <1>1, BestIsFirst DEF Safe
  <2>2. ResolvedPart(h, approval, required) = LiftPinnedReview(part, approval, required)
    <3>1. "priced" \in Status
      BY DEF SourcingAssumption, Statuses
    <3>2. h[b].offer \in Offer
      BY <1>1, BestIsFirst, SafeMembers, SafePlanType
    <3>3. Resolved(MultiPart(h, required), approval) = part
      BY <1>1, <3>1, <3>2, WithResolution
    <3> QED
      BY <2>1, <3>3 DEF ResolvedPart, Resolved
  <2>3. part.status = "priced"
    BY DEF PartOf
  <2>4. LiftPinnedReview(part, approval, required) = part
    BY <2>3 DEF LiftPinnedReview, MayLift
  <2> QED
    BY <1>1, <2>2, <2>4, BestIsSound
<1>2. ASSUME NEW status \in Status \ {"priced"}, NEW offer \in Offer \cup {None},
             NoSelection(offer),
             MultiPart(h, required) = PartOf(status, offer, 0, h, required, None)
      PROVE  Sound(ResolvedPart(h, approval, required), required)
  <2> DEFINE part == PartOf(status, offer, 0, h, required, approval)
  <2>1. CASE Degraded(h, required) = DOMAIN h
    <3>1. ResolvedPart(h, approval, required) = PartOf(status, offer, 0, h, required, None)
      BY <1>2, <2>1 DEF ResolvedPart
    <3> QED
      BY <1>2, <3>1, UnpricedIsSound
  <2>2. CASE Degraded(h, required) # DOMAIN h
    <3>1. ResolvedPart(h, approval, required) = LiftPinnedReview(part, approval, required)
      <4>1. Resolved(MultiPart(h, required), approval) = part
        BY <1>2, WithResolution
      <4> QED
        BY <2>2, <4>1 DEF ResolvedPart, Resolved
    <3>2. CASE MayLift(part, approval, required)
      BY <1>2, <3>1, <3>2, LiftedIsSound
    <3>3. CASE ~MayLift(part, approval, required)
      <4>1. LiftPinnedReview(part, approval, required) = part
        BY <3>3 DEF LiftPinnedReview
      <4> QED
        BY <1>2, <3>1, <4>1, UnpricedIsSound
    <3> QED
      BY <3>2, <3>3
  <2> QED
    BY <2>1, <2>2
<1> QED
  BY <1>1, <1>2, MultiPartCases
-----------------------------------------------------------------------------
(* What one line does to the counts and to the running total.              *)

Counters == {"priced", "shortage", "review", "notFound", "notApplicable", "errors"}

LEMMA CounterType ==
  ASSUME NEW status
  PROVE  /\ Counter(status) \in Counters
         /\ Counter(status) = "priced" <=> status = "priced"
         /\ status = "provider_error" => Counter(status) = "errors"
BY DEF Counter, Counters

LEMMA CountedOnce ==
  ASSUME NEW s \in Counts, NEW c \in Counters
  PROVE  /\ [s EXCEPT ![c] = @ + 1] \in Counts
         /\ c = "priced" => /\ [s EXCEPT ![c] = @ + 1].priced = s.priced + 1
                            /\ [s EXCEPT ![c] = @ + 1].errors = s.errors
         /\ c = "errors" => /\ [s EXCEPT ![c] = @ + 1].priced = s.priced
                            /\ [s EXCEPT ![c] = @ + 1].errors = s.errors + 1
         /\ c \notin {"priced", "errors"} =>
              /\ [s EXCEPT ![c] = @ + 1].priced = s.priced
              /\ [s EXCEPT ![c] = @ + 1].errors = s.errors
BY DEF Counts, Counters

WithErrors(s, k) == [s EXCEPT !.errors = @ + k]

LEMMA MoreErrors ==
  ASSUME NEW s \in Counts, NEW k \in Nat
  PROVE  /\ WithErrors(s, k) \in Counts
         /\ WithErrors(s, k).priced = s.priced
         /\ WithErrors(s, k).errors = s.errors + k
BY DEF Counts, WithErrors

Price(plan) == IF target = None THEN plan.price ELSE Converted(plan.price, plan.currency)

LEMMA AccountedFacts ==
  ASSUME SourcingAssumption, NEW s, s.total \in Nat, s.currency \in Currency \cup {None},
         NEW plan \in PurchasePlan
  PROVE  LET a == Accounted(s, plan)
         IN /\ a.spoiled \in Nat
            /\ a.sum.total \in Nat
            /\ a.sum.currency = IF target = None /\ s.currency = None
                                  THEN plan.currency ELSE s.currency
            /\ a.sum.mixed <=> (s.mixed \/ (/\ target = None
                                            /\ s.currency \notin {None, plan.currency}))
            /\ ~a.sum.unquoted => /\ ~s.unquoted
                                  /\ target # None => Quoted(plan.currency)
            /\ a.spoiled = 0 =>
                 /\ a.sum.unquoted => s.unquoted
                 /\ Price(plan) \in Nat
                 /\ a.sum.total = s.total + Price(plan)
<1> DEFINE a == Accounted(s, plan)
           price == Price(plan)
           unquoted == target # None /\ ~Convertible(plan.price, plan.currency)
           overflow == ~unquoted /\ s.total + price > MaxMoney
<1>1. plan.price \in Nat /\ plan.currency \in Currency
  BY DEF PurchasePlan
<1>2. ~unquoted => price \in Nat /\ (target # None => Quoted(plan.currency))
  BY <1>1, ConvertedIsNatural DEF Convertible, Price
<1>3. /\ a.sum.total = IF unquoted THEN s.total
                       ELSE IF overflow THEN 0 ELSE s.total + price
      /\ a.sum.currency = IF target = None /\ s.currency = None
                            THEN plan.currency ELSE s.currency
  BY DEF Accounted, Price
<1>4. a.sum.mixed <=> (s.mixed \/ (/\ target = None
                                   /\ s.currency \notin {None, plan.currency}))
  BY DEF Accounted
<1>5. a.sum.unquoted <=> (s.unquoted \/ unquoted)
  BY DEF Accounted
<1>6. a.spoiled = IF unquoted \/ overflow THEN 1 ELSE 0
  BY DEF Accounted, Price
<1> HIDE DEF a, price, unquoted
<1>7. a.spoiled \in Nat
  BY <1>6
<1>8. a.sum.total \in Nat
  BY <1>2, <1>3
<1>9. ~a.sum.unquoted => ~s.unquoted /\ (target # None => Quoted(plan.currency))
  BY <1>2, <1>5
<1>10. a.spoiled = 0 => /\ a.sum.unquoted => s.unquoted
                        /\ price \in Nat
                        /\ a.sum.total = s.total + price
  BY <1>2, <1>3, <1>5, <1>6
<1> QED
  BY <1>3, <1>4, <1>7, <1>8, <1>9, <1>10 DEF a, price
-----------------------------------------------------------------------------
(* One line: a sound part is checked, appended, counted and added.         *)

(* What Account does, in the words of the invariant.                       *)
Accounts(part) ==
  /\ parts' = Append(parts, part)
  /\ summary' \in Counts
  /\ pc' = "resolve" /\ applied' = None /\ heard' = <<>>
  /\ target' = target /\ outcome' = outcome
  /\ IF part.status = "priced"
       THEN LET a == Accounted(sum, part.offer.plan)
            IN /\ sum' = a.sum
               /\ summary'.priced = summary.priced + 1
               /\ summary'.errors = summary.errors + a.spoiled
       ELSE /\ sum' = sum
            /\ summary'.priced = summary.priced
            /\ summary'.errors = summary.errors
                 + (IF part.status = "provider_error" THEN 1 ELSE 0)

LEMMA AccountAccounts ==
  ASSUME SourcingAssumption, TypeOK, Current \in Line, NEW part,
         Sound(part, Required[Current]), Account(part)
  PROVE  LET checked == Checked(part, Required[Current])
         IN Accounts(checked) /\ Sound(checked, Required[Current])
<1> DEFINE checked == Checked(part, Required[Current])
           c == Counter(checked.status)
           counted == [summary EXCEPT ![c] = @ + 1]
           a == Accounted(sum, checked.offer.plan)
<1>1. Sound(checked, Required[Current]) /\ checked.status \in Statuses
  BY CheckedIsSound
<1>2. /\ parts' = Append(parts, checked)
      /\ pc' = "resolve" /\ applied' = None /\ heard' = <<>>
      /\ target' = target /\ outcome' = outcome
  BY DEF Account
<1>3. checked.status = "priced" =>
        sum' = a.sum /\ summary' = WithErrors(counted, a.spoiled)
  BY DEF Account, WithErrors
<1>4. checked.status # "priced" => sum' = sum /\ summary' = counted
  BY DEF Account
<1> HIDE DEF checked
<1>5. summary \in Counts /\ c \in Counters
  BY CounterType DEF TypeOK
<1>6. counted \in Counts
  BY <1>5, CountedOnce
<1>7. CASE checked.status = "priced"
  <2>1. checked.offer.plan \in PurchasePlan
    <3>1. SafeOffer(checked.offer, Required[Current]) /\ checked \in Part
      BY <1>1, <1>7 DEF Sound, IsSafe
    <3>2. checked.offer \in Offer
      BY <3>1 DEF Part, SafeOffer
    <3> QED
      BY <3>1, <3>2 DEF Offer, SafeOffer
  <2>2. a.spoiled \in Nat
    BY <2>1, AccountedFacts DEF TypeOK
  <2>3. counted.priced = summary.priced + 1 /\ counted.errors = summary.errors
    BY <1>5, <1>7, CounterType, CountedOnce
  <2> HIDE DEF a, counted
  <2>4. /\ summary' \in Counts
        /\ summary'.priced = summary.priced + 1
        /\ summary'.errors = summary.errors + a.spoiled
    <3>1. summary' = WithErrors(counted, a.spoiled)
      BY <1>3, <1>7
    <3>2. /\ WithErrors(counted, a.spoiled) \in Counts
          /\ WithErrors(counted, a.spoiled).priced = counted.priced
          /\ WithErrors(counted, a.spoiled).errors = counted.errors + a.spoiled
      BY <1>6, <2>2, MoreErrors
    <3> QED
      BY <2>3, <3>1, <3>2
  <2> QED
    BY <1>1, <1>2, <1>3, <1>7, <2>4 DEF Accounts, checked, a
<1>8. CASE checked.status # "priced"
  <2>1. c # "priced"
    BY <1>8, CounterType
  <2>2. c = "errors" <=> checked.status = "provider_error"
    BY <1>1 DEF Counter, Statuses
  <2>3. /\ counted.priced = summary.priced
        /\ counted.errors = summary.errors + (IF c = "errors" THEN 1 ELSE 0)
    <3>1. CASE c = "errors"
      BY <1>5, <3>1, CountedOnce
    <3>2. CASE c # "errors"
      <4>1. counted.priced = summary.priced /\ counted.errors = summary.errors
        BY <1>5, <2>1, <3>2, CountedOnce
      <4>2. summary.errors \in Nat
        BY <1>5 DEF Counts
      <4> QED
        BY <3>2, <4>1, <4>2
    <3> QED
      BY <3>1, <3>2
  <2> HIDE DEF counted, c
  <2> QED
    BY <1>1, <1>2, <1>4, <1>6, <1>8, <2>2, <2>3 DEF Accounts, checked
<1> QED
  BY <1>7, <1>8

(* The parts before the new one stay as they are.                          *)
LEMMA AppendedParts ==
  ASSUME TypeOK, NEW part \in Part, Accounts(part)
  PROVE  /\ parts' \in Seq(Part)
         /\ Len(parts) \in Nat
         /\ Len(parts') = Len(parts) + 1
         /\ DOMAIN parts = 1 .. Len(parts)
         /\ DOMAIN parts' = 1 .. Len(parts) + 1
         /\ \A k \in 1 .. Len(parts) : parts'[k] = parts[k]
         /\ parts'[Len(parts) + 1] = part
         /\ \A k \in 1 .. Len(parts) : k \in Priced' <=> k \in Priced
         /\ Len(parts) + 1 \in Priced' <=> part.status = "priced"
<1>1. /\ parts \in Seq(Part) /\ Len(parts) \in Nat /\ DOMAIN parts = 1 .. Len(parts)
      /\ parts' = Append(parts, part)
  BY DEF TypeOK, Accounts
<1>2. /\ parts' \in Seq(Part) /\ Len(parts') = Len(parts) + 1
      /\ DOMAIN parts' = 1 .. Len(parts) + 1
      /\ \A k \in 1 .. Len(parts) : parts'[k] = parts[k]
      /\ parts'[Len(parts) + 1] = part
  BY <1>1
<1> QED
  BY <1>1, <1>2 DEF Priced

LEMMA AccountsKeepsType ==
  ASSUME SourcingAssumption, TypeOK, NEW part \in Part, Accounts(part),
         part.status = "priced" => part.offer.plan \in PurchasePlan
  PROVE  TypeOK'
<1>1. parts' \in Seq(Part)
  BY AppendedParts
<1>2. sum'.total \in Nat /\ sum'.currency \in Currency \cup {None}
  <2>1. CASE part.status = "priced"
    <3> DEFINE a == Accounted(sum, part.offer.plan)
    <3>1. part.offer.plan \in PurchasePlan /\ sum' = a.sum
      BY <2>1 DEF Accounts
    <3>2. /\ a.sum.total \in Nat
          /\ a.sum.currency = IF target = None /\ sum.currency = None
                                THEN part.offer.plan.currency ELSE sum.currency
      BY <3>1, AccountedFacts DEF TypeOK
    <3>3. part.offer.plan.currency \in Currency
      BY <3>1 DEF PurchasePlan
    <3> HIDE DEF a
    <3> QED
      BY <3>1, <3>2, <3>3 DEF TypeOK
  <2>2. CASE part.status # "priced"
    BY <2>2 DEF TypeOK, Accounts
  <2> QED
    BY <2>1, <2>2
<1>3. /\ summary' \in Counts /\ pc' = "resolve" /\ applied' = None
      /\ heard' = <<>> /\ target' = target
  BY DEF Accounts
<1>4. heard' \in Seq(Answer)
  BY <1>3
<1> QED
  BY <1>1, <1>2, <1>3, <1>4 DEF TypeOK

LEMMA AccountsKeepsParts ==
  ASSUME SourcingAssumption, TypeOK, PartsInv, Current \in Line,
         NEW part, Sound(part, Required[Current]), Accounts(part)
  PROVE  PartsInv'
<1>1. part \in Part /\ target' = target /\ pc' = "resolve" /\ heard' = <<>>
  BY DEF Sound, Accounts
<1>2. Len(parts) + 1 <= NumLines
  BY <1>1, AppendedParts DEF Current, Line
<1>3. ASSUME NEW n \in DOMAIN parts' PROVE Sound(parts[n], Required[n])'
  <2>1. CASE n \in 1 .. Len(parts)
    <3>1. parts'[n] = parts[n] /\ Sound(parts[n], Required[n])
      BY <1>1, <2>1, AppendedParts DEF PartsInv
    <3> QED
      BY <1>1, <3>1 DEF Sound, IsCheapest, NotDearer, Quoted, Converted
  <2>2. CASE n = Len(parts) + 1
    <3>1. parts'[n] = part /\ Sound(part, Required[n])
      BY <1>1, <2>2, AppendedParts DEF Current
    <3> QED
      BY <1>1, <3>1 DEF Sound, IsCheapest, NotDearer, Quoted, Converted
  <2> QED
    BY <1>1, <2>1, <2>2, AppendedParts
<1>4. Len(heard') = 0 /\ Len(Order) \in Nat
  BY <1>1 DEF SourcingAssumption
<1> QED
  BY <1>1, <1>2, <1>3, <1>4, AppendedParts DEF PartsInv

LEMMA AccountsKeepsCounts ==
  ASSUME TypeOK, CountsInv, NEW part \in Part, Accounts(part),
         part.status = "priced" => Accounted(sum, part.offer.plan).spoiled \in Nat
  PROVE  CountsInv'
<1>1. /\ summary.priced \in Nat /\ summary.errors \in Nat
      /\ summary'.priced = summary.priced + (IF part.status = "priced" THEN 1 ELSE 0)
      /\ summary'.errors = 0 => summary.errors = 0 /\ part.status # "provider_error"
  <2>1. summary.priced \in Nat /\ summary.errors \in Nat
    BY DEF TypeOK, Counts
  <2>2. CASE part.status = "priced"
    <3> DEFINE a == Accounted(sum, part.offer.plan)
    <3>1. /\ summary'.priced = summary.priced + 1
          /\ summary'.errors = summary.errors + a.spoiled /\ a.spoiled \in Nat
      BY <2>2 DEF Accounts
    <3> HIDE DEF a
    <3> QED
      BY <2>1, <2>2, <3>1
  <2>3. CASE part.status # "priced"
    BY <2>1, <2>3 DEF Accounts
  <2> QED
    BY <2>1, <2>2, <2>3
<1>2. summary.priced = Len(parts) <=> \A k \in 1 .. Len(parts) : k \in Priced
  BY AppendedParts DEF CountsInv, Priced
<1>3. summary'.priced <= Len(parts')
  BY <1>1, AppendedParts DEF CountsInv
<1>4. summary'.priced = Len(parts') <=>
        part.status = "priced" /\ summary.priced = Len(parts)
  BY <1>1, AppendedParts DEF CountsInv
<1>5. summary'.priced = Len(parts') <=> \A k \in 1 .. Len(parts) + 1 : k \in Priced'
  BY <1>2, <1>4, AppendedParts
<1>6. Priced' = DOMAIN parts' <=> \A k \in 1 .. Len(parts) + 1 : k \in Priced'
  BY AppendedParts DEF Priced
<1>7. summary'.errors = 0 => \A n \in DOMAIN parts' : parts'[n].status # "provider_error"
  <2> SUFFICES ASSUME summary'.errors = 0, NEW n \in DOMAIN parts'
               PROVE  parts'[n].status # "provider_error"
    OBVIOUS
  <2>1. summary.errors = 0 /\ part.status # "provider_error"
    BY <1>1
  <2> QED
    BY <2>1, AppendedParts DEF CountsInv
<1> QED
  BY <1>3, <1>5, <1>6, <1>7 DEF CountsInv

LEMMA AccountsKeepsCurrency ==
  ASSUME SourcingAssumption, TypeOK, CurrencyInv, NEW part \in Part, Accounts(part),
         part.status = "priced" => part.offer.plan \in PurchasePlan
  PROVE  CurrencyInv'
<1>1. target' = target /\ summary.errors \in Nat
  BY DEF Accounts, TypeOK, Counts
<1>2. CASE part.status # "priced"
  <2>1. sum' = sum /\ (summary'.errors = 0 => summary.errors = 0)
    BY <1>1, <1>2 DEF Accounts
  <2>2. \A n \in Priced' : n \in Priced /\ parts'[n] = parts[n]
    <3>1. \A n \in Priced' : n \in 1 .. Len(parts) + 1
      BY AppendedParts DEF Priced
    <3>2. Len(parts) + 1 \notin Priced'
      BY <1>2, AppendedParts
    <3> QED
      BY <3>1, <3>2, AppendedParts
  <2> QED
    BY <1>1, <2>1, <2>2 DEF CurrencyInv, Quoted
<1>3. CASE part.status = "priced"
  <2> DEFINE plan == part.offer.plan
             a == Accounted(sum, plan)
             new == Len(parts) + 1
  <2>1. /\ sum' = a.sum /\ plan \in PurchasePlan
        /\ summary'.errors = summary.errors + a.spoiled
    BY <1>3 DEF Accounts
  <2>2. /\ a.spoiled \in Nat
        /\ a.sum.currency = IF target = None /\ sum.currency = None
                              THEN plan.currency ELSE sum.currency
        /\ a.sum.mixed <=> (sum.mixed \/ (/\ target = None
                                          /\ sum.currency \notin {None, plan.currency}))
        /\ ~a.sum.unquoted => /\ ~sum.unquoted
                              /\ target # None => Quoted(plan.currency)
        /\ a.spoiled = 0 => (a.sum.unquoted => sum.unquoted)
    BY <2>1, AccountedFacts DEF TypeOK
  <2>3. \A n \in Priced' : n = new \/ (n \in Priced /\ parts'[n] = parts[n])
    <3>1. \A n \in Priced' : n \in 1 .. Len(parts) + 1
      BY AppendedParts DEF Priced
    <3> QED
      BY <3>1, AppendedParts
  <2>4. parts'[new] = part /\ new \in Priced'
    BY <1>3, AppendedParts
  <2>5. plan.currency \in Currency /\ None \notin Currency
    BY <2>1 DEF PurchasePlan, SourcingAssumption
  <2> HIDE DEF a, new
  <2>6. target = None => sum'.currency # None
    BY <2>1, <2>2, <2>5
  <2>7. ASSUME target = None, ~sum'.mixed, NEW n \in Priced'
        PROVE  parts'[n].offer.plan.currency = sum'.currency
    <3>1. ~sum.mixed /\ sum.currency \in {None, plan.currency}
      BY <2>1, <2>2, <2>7
    <3>2. sum'.currency = plan.currency
      BY <2>1, <2>2, <2>7, <3>1
    <3>3. CASE n = new
      BY <2>4, <3>2, <3>3
    <3>4. CASE n \in Priced /\ parts'[n] = parts[n]
      <4>1. sum.currency # None /\ parts[n].offer.plan.currency = sum.currency
        BY <2>7, <3>1, <3>4 DEF CurrencyInv
      <4> QED
        BY <3>1, <3>2, <3>4, <4>1
    <3> QED
      BY <2>3, <3>3, <3>4
  <2>8. target # None => ~sum'.mixed
    BY <2>1, <2>2 DEF CurrencyInv
  <2>9. summary'.errors = 0 => ~sum'.unquoted
    BY <1>1, <2>1, <2>2 DEF CurrencyInv
  <2>10. ASSUME target # None, ~sum'.unquoted, NEW n \in Priced'
         PROVE  Quoted(parts'[n].offer.plan.currency)
    <3>1. ~sum.unquoted /\ Quoted(plan.currency)
      BY <2>1, <2>2, <2>10
    <3> QED
      BY <2>3, <2>4, <2>10, <3>1 DEF CurrencyInv
  <2> QED
    BY <1>1, <2>6, <2>7, <2>8, <2>9, <2>10 DEF CurrencyInv, Quoted
<1> QED
  BY <1>2, <1>3

LEMMA AccountsKeepsTotal ==
  ASSUME SourcingAssumption, TypeOK, TotalInv, NEW part \in Part, Accounts(part),
         part.status = "priced" => part.offer.plan \in PurchasePlan
  PROVE  TotalInv'
<1> SUFFICES ASSUME summary'.errors = 0
             PROVE  (\E f : Adds(f, Len(parts)) /\ f[Len(parts)] = sum.total)'
  BY DEF TotalInv
<1>0. PICK L \in Nat : L = Len(parts)
  BY AppendedParts
<1> DEFINE cost == IF part.status = "priced" THEN Price(part.offer.plan) ELSE 0
<1>1. target' = target /\ summary.errors \in Nat
  BY DEF Accounts, TypeOK, Counts
<1>2. summary.errors = 0 /\ cost \in Nat /\ sum'.total = sum.total + cost
  <2>1. CASE part.status = "priced"
    <3> DEFINE a == Accounted(sum, part.offer.plan)
    <3>1. /\ sum' = a.sum /\ part.offer.plan \in PurchasePlan
          /\ summary'.errors = summary.errors + a.spoiled
      BY <2>1 DEF Accounts
    <3>2. /\ a.spoiled \in Nat
          /\ a.spoiled = 0 => /\ Price(part.offer.plan) \in Nat
                              /\ a.sum.total = sum.total + Price(part.offer.plan)
      BY <3>1, AccountedFacts DEF TypeOK
    <3> HIDE DEF a
    <3> QED
      BY <1>1, <2>1, <3>1, <3>2
  <2>2. CASE part.status # "priced"
    BY <1>1, <2>2 DEF Accounts, TypeOK
  <2> QED
    BY <2>1, <2>2
<1>3. PICK f : Adds(f, L) /\ f[L] = sum.total
  BY <1>0, <1>2 DEF TotalInv
<1>4. L \in Nat
  OBVIOUS
<1>5. \A k \in 1 .. L : /\ k \in Priced' <=> k \in Priced
                        /\ InTotal(k)' = InTotal(k)
  BY <1>0, <1>1, AppendedParts DEF InTotal, Converted
<1>6. ASSUME NEW k, k = L + 1
      PROVE  (IF k \in Priced' THEN InTotal(k)' ELSE 0) = cost
  <2>1. parts'[k] = part /\ (k \in Priced' <=> part.status = "priced")
    BY <1>0, <1>6, AppendedParts
  <2>2. InTotal(k)' = Price(part.offer.plan)
    BY <1>1, <2>1 DEF InTotal, Converted, Price
  <2> QED
    BY <2>1, <2>2
<1> HIDE DEF cost
<1>7. f \in [0 .. L -> Nat] /\ f[0] = 0
  BY <1>3 DEF Adds
<1> PICK g : g = [k \in 0 .. L + 1 |-> IF k = L + 1 THEN f[L] + cost ELSE f[k]]
  OBVIOUS
<1>8. g \in [0 .. L + 1 -> Nat] /\ g[0] = 0 /\ g[L + 1] = sum'.total
  BY <1>2, <1>3, <1>4, <1>7
<1>9. ASSUME NEW k \in 1 .. L + 1
      PROVE  g[k] = g[k - 1] + (IF k \in Priced' THEN InTotal(k)' ELSE 0)
  <2>1. CASE k = L + 1
    <3>1. g[k] = f[L] + cost /\ g[k - 1] = f[L]
      BY <1>4, <2>1
    <3> QED
      BY <1>6, <2>1, <3>1
  <2>2. CASE k # L + 1
    <3>1. k \in 1 .. L /\ k - 1 \in 0 .. L /\ k \in 0 .. L + 1 /\ k - 1 \in 0 .. L + 1
      BY <1>4, <2>2
    <3>2. g[k] = f[k] /\ g[k - 1] = f[k - 1]
      BY <1>4, <2>2, <3>1
    <3>3. f[k] = f[k - 1] + (IF k \in Priced THEN InTotal(k) ELSE 0)
      BY <1>3, <3>1 DEF Adds
    <3> QED
      BY <1>5, <3>1, <3>2, <3>3
  <2> QED
    BY <2>1, <2>2
<1>10. Len(parts') = L + 1
  BY <1>0, AppendedParts
<1>11. Adds(g, L + 1)'
  BY <1>8, <1>9 DEF Adds
<1> QED
  BY <1>8, <1>10, <1>11
-----------------------------------------------------------------------------
(* The invariant holds initially, and every step keeps it.                 *)

LEMMA AccountKeepsAll ==
  ASSUME SourcingAssumption, IInv, pc # "done", Current \in Line,
         NEW part, Sound(part, Required[Current]), Account(part)
  PROVE  IInv'
<1>1. TypeOK /\ PartsInv /\ CountsInv /\ CurrencyInv /\ TotalInv /\ outcome = NoOutcome
  BY DEF IInv, Running, OutcomeInv
<1> DEFINE checked == Checked(part, Required[Current])
<1>2. Accounts(checked) /\ Sound(checked, Required[Current])
  BY <1>1, AccountAccounts
<1> HIDE DEF checked
<1>3. checked \in Part /\ pc' = "resolve" /\ outcome' = outcome
  BY <1>2 DEF Sound, Accounts
<1>4. checked.status = "priced" => checked.offer.plan \in PurchasePlan
  <2> SUFFICES ASSUME checked.status = "priced"
               PROVE  checked.offer.plan \in PurchasePlan
    OBVIOUS
  <2>1. SafeOffer(checked.offer, Required[Current])
    BY <1>2 DEF Sound, IsSafe
  <2>2. checked.offer \in Offer
    BY <1>3, <2>1 DEF Part, SafeOffer
  <2> QED
    BY <2>1, <2>2 DEF Offer, SafeOffer
<1>5. checked.status = "priced" => Accounted(sum, checked.offer.plan).spoiled \in Nat
  BY <1>1, <1>4, AccountedFacts DEF TypeOK
<1>6. TypeOK'
  BY <1>1, <1>2, <1>3, <1>4, AccountsKeepsType
<1>7. PartsInv'
  BY <1>1, <1>2, AccountsKeepsParts
<1>8. CountsInv'
  BY <1>1, <1>2, <1>3, <1>5, AccountsKeepsCounts
<1>9. CurrencyInv'
  BY <1>1, <1>2, <1>3, <1>4, AccountsKeepsCurrency
<1>10. TotalInv'
  BY <1>1, <1>2, <1>3, <1>4, AccountsKeepsTotal
<1>11. OutcomeInv'
  BY <1>1, <1>3 DEF OutcomeInv
<1> QED
  BY <1>6, <1>7, <1>8, <1>9, <1>10, <1>11 DEF IInv, Running

(* Parts, counts and total are left alone.                                 *)
LEMMA BooksStay ==
  ASSUME UNCHANGED <<target, parts, summary, sum>>, CountsInv, CurrencyInv, TotalInv
  PROVE  CountsInv' /\ CurrencyInv' /\ TotalInv'
<1>1. Priced' = Priced
  BY DEF Priced
<1>2. CountsInv'
  BY <1>1 DEF CountsInv
<1>3. CurrencyInv'
  BY <1>1 DEF CurrencyInv, Quoted
<1>4. \A f, n : Adds(f, n) => Adds(f, n)'
  BY <1>1 DEF Adds, InTotal, Converted
<1>5. TotalInv'
  <2> SUFFICES ASSUME summary.errors = 0
               PROVE  (\E f : Adds(f, Len(parts)) /\ f[Len(parts)] = sum.total)'
    BY DEF TotalInv
  <2>1. PICK f : Adds(f, Len(parts)) /\ f[Len(parts)] = sum.total
    BY DEF TotalInv
  <2>2. PICK n : n = Len(parts)
    OBVIOUS
  <2>3. Adds(f, n)'
    BY <1>4, <2>1, <2>2
  <2> QED
    BY <2>1, <2>2, <2>3
<1> QED
  BY <1>2, <1>3, <1>5

LEMMA PartsStay ==
  ASSUME UNCHANGED <<target, parts>>, PartsInv
  PROVE  \A n \in DOMAIN parts' : Sound(parts[n], Required[n])'
<1> TAKE n \in DOMAIN parts'
<1>1. parts'[n] = parts[n] /\ Sound(parts[n], Required[n])
  BY DEF PartsInv
<1> QED
  BY <1>1 DEF Sound, IsCheapest, NotDearer, Quoted, Converted

LEMMA InitEstablishes == SourcingAssumption /\ Init => IInv
<1> SUFFICES ASSUME SourcingAssumption, Init PROVE IInv
  OBVIOUS
<1>1. /\ target \in Currency \cup {None} /\ pc = "resolve" /\ applied = None
      /\ heard = <<>> /\ parts = <<>> /\ summary = NoSummary /\ outcome = NoOutcome
      /\ sum.total = 0 /\ sum.currency = None /\ sum.mixed = FALSE /\ sum.unquoted = FALSE
  BY DEF Init, SourcingAssumption
<1>2. /\ heard \in Seq(Answer) /\ parts \in Seq(Part) /\ Len(heard) = 0 /\ Len(parts) = 0
      /\ DOMAIN parts = {}
  BY <1>1
<1>3. summary \in Counts /\ summary.priced = 0
  BY <1>1 DEF NoSummary, Counts
<1>4. TypeOK
  BY <1>1, <1>2, <1>3 DEF TypeOK
<1>5. PartsInv
  <2>1. Len(Order) \in Nat
    BY DEF SourcingAssumption
  <2> QED
    BY <1>1, <1>2, <2>1 DEF PartsInv, SourcingAssumption
<1>6. Priced = {}
  BY <1>2 DEF Priced
<1>7. CountsInv /\ CurrencyInv
  BY <1>1, <1>2, <1>3, <1>6 DEF CountsInv, CurrencyInv
<1>8. TotalInv
  <2>1. Adds([k \in 0 .. 0 |-> 0], 0)
    BY DEF Adds
  <2> QED
    BY <1>1, <1>2, <2>1 DEF TotalInv
<1> QED
  BY <1>1, <1>4, <1>5, <1>7, <1>8 DEF IInv, Running, OutcomeInv

LEMMA ReadResolutionKeeps ==
  ASSUME SourcingAssumption, IInv, ReadResolution
  PROVE  IInv'
<1>1. /\ UNCHANGED <<target, heard, parts, summary, sum, outcome>>
      /\ pc = "resolve" /\ pc' = "ask" /\ applied' \in Approvals \cup {None}
      /\ Current \in Line
  BY DEF ReadResolution
<1>2. TypeOK'
  BY <1>1 DEF IInv, TypeOK
<1>3. PartsInv'
  <2>1. Len(parts) < NumLines
    BY <1>1 DEF Current, Line, IInv, TypeOK
  <2>2. \A n \in DOMAIN parts' : Sound(parts[n], Required[n])'
    BY <1>1, PartsStay DEF IInv, Running
  <2> QED
    BY <1>1, <2>1, <2>2 DEF IInv, Running, PartsInv
<1>4. CountsInv' /\ CurrencyInv' /\ TotalInv'
  BY <1>1, BooksStay DEF IInv, Running
<1>5. OutcomeInv'
  BY <1>1 DEF IInv, OutcomeInv
<1> QED
  BY <1>2, <1>3, <1>4, <1>5 DEF IInv, Running

LEMMA AskKeeps ==
  ASSUME SourcingAssumption, IInv, Ask
  PROVE  IInv'
<1>1. /\ UNCHANGED <<target, pc, applied, parts, summary, sum, outcome>>
      /\ pc = "ask" /\ Len(heard) < Len(Order)
  BY DEF Ask
<1>2. PICK r \in Answers[Order[Len(heard) + 1]] : heard' = Append(heard, r)
  BY DEF Ask
<1>3. heard \in Seq(Answer) /\ Len(heard) \in Nat
  BY DEF IInv, TypeOK
<1>4. r \in Answer
  <2>1. Order \in Seq(Provider) /\ Len(Order) \in Nat
    BY DEF SourcingAssumption
  <2>2. Order[Len(heard) + 1] \in Provider
    BY <1>1, <1>3, <2>1
  <2> QED
    BY <1>2, <2>2 DEF SourcingAssumption
<1>5. heard' \in Seq(Answer) /\ Len(heard') = Len(heard) + 1
  BY <1>2, <1>3, <1>4
<1>6. TypeOK'
  BY <1>1, <1>5 DEF IInv, TypeOK
<1>7. PartsInv'
  <2>1. Len(Order) \in Nat
    BY DEF SourcingAssumption
  <2>2. \A n \in DOMAIN parts' : Sound(parts[n], Required[n])'
    BY <1>1, PartsStay DEF IInv, Running
  <2> QED
    BY <1>1, <1>3, <1>5, <2>1, <2>2 DEF IInv, Running, PartsInv
<1>8. CountsInv' /\ CurrencyInv' /\ TotalInv'
  BY <1>1, BooksStay DEF IInv, Running
<1>9. OutcomeInv'
  BY <1>1 DEF IInv, OutcomeInv
<1> QED
  BY <1>6, <1>7, <1>8, <1>9 DEF IInv, Running

LEMMA StoreFailsKeeps ==
  ASSUME SourcingAssumption, IInv, StoreFails
  PROVE  IInv'
<1> DEFINE part == [NoPart EXCEPT !.status = "provider_error"]
<1>1. pc = "resolve" /\ Current \in Line /\ Account(part)
  BY DEF StoreFails
<1>2. /\ part.status = "provider_error" /\ part.offer = None /\ part.offers = <<>>
      /\ part.heard = <<>> /\ part.lifted = FALSE
  BY DEF NoPart
<1>3. part \in Part
  <2>1. "provider_error" \in Status
    BY DEF SourcingAssumption, Statuses
  <2>2. NoPart \in Like
    BY DEF NoPart, Like
  <2>3. part \in Part
    BY <2>1, <2>2 DEF Like, Part
  <2> QED
    BY <2>3
<1> HIDE DEF part
<1>4. Sound(part, Required[Current])
  BY <1>2, <1>3 DEF Sound, SelectsOnePlan, Selecting, IsSafe, IsCheapest
<1> QED
  BY <1>1, <1>4, AccountKeepsAll

LEMMA ChooseKeeps ==
  ASSUME SourcingAssumption, IInv, Choose
  PROVE  IInv'
<1> DEFINE part == ResolvedPart(heard, applied, Required[Current])
<1>1. pc = "ask" /\ Len(heard) = Len(Order) /\ Account(part)
  BY DEF Choose
<1>2. Heard(heard) /\ applied \in Approvals \cup {None}
  BY <1>1 DEF Heard, IInv, TypeOK
<1>3. Sound(part, Required[Current])
  BY <1>2, ChosenIsSound
<1>4. Current \in Line
  <2>1. Len(parts) \in Nat /\ Len(parts) < NumLines
    BY <1>1 DEF IInv, TypeOK, Running, PartsInv
  <2> QED
    BY <2>1 DEF Current, Line, SourcingAssumption
<1> HIDE DEF part
<1> QED
  BY <1>1, <1>3, <1>4, AccountKeepsAll

LEMMA FinishKeeps ==
  ASSUME SourcingAssumption, IInv, Finish
  PROVE  IInv'
<1> DEFINE mixed == target = None /\ sum.mixed
           errors == summary.errors + (IF mixed THEN 1 ELSE 0)
           totalled == /\ ~mixed
                       /\ ~sum.unquoted
                       /\ summary.priced > 0
                       /\ summary.errors = 0
<1>1. /\ pc = "resolve" /\ Current \notin Line /\ pc' = "done"
      /\ UNCHANGED <<target, applied, heard, parts, sum>>
  BY DEF Finish
<1>2. /\ summary' = [summary EXCEPT !.errors = errors]
      /\ outcome' =
           [status |-> IF errors > 0
                         THEN IF summary.priced > 0 THEN "partial" ELSE "failed"
                         ELSE IF summary.priced # NumLines THEN "incomplete"
                              ELSE "complete",
            total |-> IF totalled THEN sum.total ELSE None,
            currency |-> IF ~totalled THEN None
                         ELSE IF target # None THEN target ELSE sum.currency]
  BY DEF Finish
<1>3. /\ outcome'.status = IF errors > 0
                             THEN IF summary.priced > 0 THEN "partial" ELSE "failed"
                             ELSE IF summary.priced # NumLines THEN "incomplete"
                                  ELSE "complete"
      /\ outcome'.total = IF totalled THEN sum.total ELSE None
      /\ outcome'.currency = IF ~totalled THEN None
                             ELSE IF target # None THEN target ELSE sum.currency
  BY <1>2
<1>4. /\ TypeOK /\ PartsInv /\ CountsInv /\ CurrencyInv /\ TotalInv
      /\ summary \in Counts /\ summary.errors \in Nat /\ summary.priced \in Nat
      /\ sum.total \in Nat /\ None \notin Nat /\ NumLines \in Nat \ {0}
  BY <1>1 DEF IInv, Running, TypeOK, Counts, SourcingAssumption
<1>5. errors \in Nat
  BY <1>4
<1>6. TypeOK'
  <2> HIDE DEF errors
  <2>1. summary' \in Counts
    BY <1>2, <1>4, <1>5 DEF Counts
  <2> QED
    BY <1>1, <1>4, <2>1 DEF TypeOK
<1>7. Len(parts) = NumLines /\ DOMAIN parts = Line /\ Len(parts) \in Nat
  <2>1. /\ Len(parts) \in Nat /\ Len(parts) <= NumLines /\ DOMAIN parts = 1 .. Len(parts)
        /\ NumLines \in Nat
    BY <1>4 DEF TypeOK, PartsInv, SourcingAssumption
  <2> QED
    BY <1>1, <2>1 DEF Current, Line
<1>8. PartsInv'
  <2>1. \A n \in DOMAIN parts' : Sound(parts[n], Required[n])'
    BY <1>1, <1>4, PartsStay
  <2> QED
    BY <1>1, <1>4, <2>1 DEF PartsInv
<1>9. Priced' = Priced
  BY <1>1 DEF Priced
<1>10. totalled =>
         /\ errors = 0
         /\ \A n \in DOMAIN parts : parts[n].status # "provider_error"
         /\ \A n \in Priced :
              IF target = None THEN parts[n].offer.plan.currency = sum.currency
                               ELSE Quoted(parts[n].offer.plan.currency)
         /\ \E f : Adds(f, NumLines) /\ f[NumLines] = sum.total
  BY <1>4, <1>7 DEF CountsInv, CurrencyInv, TotalInv
<1>11. errors = 0 /\ summary.priced > 0 => totalled
  BY <1>4 DEF CurrencyInv
<1>12. errors = 0 => \A n \in DOMAIN parts : parts[n].status # "provider_error"
  BY <1>4 DEF CountsInv
<1>13. summary.priced = NumLines <=> Priced = Line
  BY <1>4, <1>7 DEF CountsInv
<1> HIDE DEF errors, totalled
<1>14. TotalIsAdded'
  <2> SUFFICES ASSUME outcome'.total # None
               PROVE  /\ \A n \in DOMAIN parts' : parts'[n].status # "provider_error"
                      /\ \A n \in Priced' :
                           IF target' = None
                             THEN parts'[n].offer.plan.currency = outcome'.currency
                             ELSE Quoted(parts[n].offer.plan.currency)'
                      /\ (\E f : Adds(f, NumLines) /\ f[NumLines] = outcome.total)'
    BY DEF TotalIsAdded
  <2>1. totalled
    BY <1>3
  <2>2. PICK f : Adds(f, NumLines) /\ f[NumLines] = outcome'.total
    BY <1>3, <1>10, <2>1
  <2>3. Adds(f, NumLines)'
    BY <1>1, <1>9, <2>2 DEF Adds, InTotal, Converted
  <2>4. \A n \in Priced' :
          IF target' = None THEN parts'[n].offer.plan.currency = outcome'.currency
                            ELSE Quoted(parts[n].offer.plan.currency)'
    BY <1>1, <1>3, <1>9, <1>10, <2>1 DEF Quoted
  <2> QED
    BY <1>1, <1>10, <2>1, <2>2, <2>3, <2>4
<1>15. StatusTellsTheOutcome'
  <2>1. outcome'.status = "complete" => Priced' = Line /\ outcome'.total # None
    <3> SUFFICES ASSUME outcome'.status = "complete"
                 PROVE  Priced' = Line /\ outcome'.total # None
      OBVIOUS
    <3>1. errors = 0 /\ summary.priced = NumLines
      BY <1>3, <1>5
    <3>2. totalled
      BY <1>4, <1>11, <3>1
    <3> QED
      BY <1>3, <1>4, <1>9, <1>13, <3>1, <3>2
  <2>2. outcome'.status = "incomplete" =>
          /\ ~ \E n \in DOMAIN parts' : parts'[n].status = "provider_error"
          /\ Priced' # Line
    BY <1>1, <1>3, <1>5, <1>9, <1>12, <1>13
  <2>3. (\E n \in DOMAIN parts' : parts'[n].status = "provider_error") =>
          outcome'.status \in {"failed", "partial"}
    BY <1>1, <1>3, <1>5, <1>12
  <2>4. outcome'.status \in {"failed", "partial"} => outcome'.total = None
    BY <1>3, <1>5, <1>10
  <2> QED
    BY <2>1, <2>2, <2>3, <2>4 DEF StatusTellsTheOutcome
<1> QED
  BY <1>1, <1>6, <1>8, <1>14, <1>15 DEF IInv, Running, OutcomeInv

LEMMA StutterKeeps ==
  ASSUME IInv, UNCHANGED vars
  PROVE  IInv'
<1>1. UNCHANGED <<target, pc, applied, heard, parts, summary, sum, outcome>>
  BY DEF vars
<1>2. TypeOK'
  BY <1>1 DEF IInv, TypeOK
<1>3. PartsInv'
  <2>1. \A n \in DOMAIN parts' : Sound(parts[n], Required[n])'
    BY <1>1, PartsStay DEF IInv, Running
  <2> QED
    BY <1>1, <2>1 DEF IInv, Running, PartsInv
<1>4. pc' # "done" => CountsInv' /\ CurrencyInv' /\ TotalInv'
  BY <1>1, BooksStay DEF IInv, Running
<1>5. OutcomeInv'
  <2>1. Priced' = Priced
    BY <1>1 DEF Priced
  <2>2. \A f, n : Adds(f, n) => Adds(f, n)'
    BY <1>1, <2>1 DEF Adds, InTotal, Converted
  <2>3. TotalIsAdded => TotalIsAdded'
    BY <1>1, <2>1, <2>2 DEF TotalIsAdded, Quoted
  <2>4. StatusTellsTheOutcome => StatusTellsTheOutcome'
    BY <1>1, <2>1 DEF StatusTellsTheOutcome
  <2> QED
    BY <1>1, <2>3, <2>4 DEF IInv, OutcomeInv
<1> QED
  BY <1>2, <1>3, <1>4, <1>5 DEF IInv, Running

LEMMA SourcingInvariant == Spec => []IInv
<1>1. Init => IInv
  BY SourcingAssumption, InitEstablishes
<1>2. IInv /\ [Next]_vars => IInv'
  BY SourcingAssumption, ReadResolutionKeeps, StoreFailsKeeps, AskKeeps, ChooseKeeps,
     FinishKeeps, StutterKeeps DEF Next
<1> QED
  BY <1>1, <1>2, PTL DEF Spec

-----------------------------------------------------------------------------
(* What the invariant says of the properties.                              *)

(* Every priced part has exactly one selected plan, the one it was priced  *)
(* on; that plan is verified, sufficient and needs no review that an       *)
(* approval of its very SKU has not settled (MultiResolver.Lookup,         *)
(* liftPinnedReview and SourceWithFX together).                            *)
THEOREM PricedIsSafe == Spec => []PricedPartsAreSafe
<1>1. IInv => PricedPartsAreSafe
  <2> SUFFICES ASSUME IInv PROVE PricedPartsAreSafe
    OBVIOUS
  <2>1. \A n \in DOMAIN parts : SelectsOnePlan(parts[n]) /\ IsSafe(parts[n], Required[n])
    BY DEF IInv, Running, PartsInv, Sound
  <2>2. OnlyTheChosenPlanIsSelected
    BY <2>1 DEF OnlyTheChosenPlanIsSelected, SelectsOnePlan, Selecting, Priced
  <2>3. ASSUME NEW n \in Priced
        PROVE  /\ SafeOffer(parts[n].offer, Required[n])
               /\ \E i \in DOMAIN parts[n].heard :
                    \/ parts[n].heard[i] = [status |-> "priced", offer |-> parts[n].offer]
                    \/ Approved(parts[n], parts[n].heard[i])
    BY <2>1 DEF IsSafe, Priced
  <2> QED
    BY <2>2, <2>3 DEF PricedPartsAreSafe, Approved
<1> QED
  BY <1>1, SourcingInvariant, PTL

(* No provider offered a safe plan for the line that is provably cheaper   *)
(* than the chosen one, or that cannot be compared with it.                *)
THEOREM ChosenIsCheapest == Spec => []ChosenPlanIsCheapest
<1>1. IInv => ChosenPlanIsCheapest
  <2> SUFFICES ASSUME IInv PROVE ChosenPlanIsCheapest
    OBVIOUS
  <2>1. \A n \in DOMAIN parts : IsCheapest(parts[n], Required[n])
    BY DEF IInv, Running, PartsInv, Sound
  <2> QED
    BY <2>1 DEF ChosenPlanIsCheapest, IsCheapest, Priced
<1> QED
  BY <1>1, SourcingInvariant, PTL
(* SumOfPriced adds what the priced lines cost, when that is known.        *)
LEMMA SumOfPricedAdds ==
  ASSUME \A n \in Priced : InTotal(n) \in Nat,
         NEW N \in Nat, NEW f, Adds(f, N)
  PROVE  SumOfPriced[N] = f[N]
<1> DEFINE cost(n) == IF n \in Priced THEN InTotal(n) ELSE 0
           a == [n \in Nat |-> cost(n)]
<1>1. a \in [Nat -> Nat]
  OBVIOUS
<1>2. \E g : g = [n \in Nat |-> IF n = 0 THEN 0 ELSE g[n - 1] + a[n]]
  <2> HIDE DEF a
  <2> QED
    BY <1>1, SumsExist
<1>3. \A g : [n \in Nat |-> IF n = 0 THEN 0 ELSE g[n - 1] + a[n]]
              = [n \in Nat |-> IF n = 0 THEN 0 ELSE g[n - 1] + cost(n)]
  OBVIOUS
<1>4. \E g : g = [n \in Nat |-> IF n = 0 THEN 0 ELSE g[n - 1] + cost(n)]
  BY <1>2, <1>3
<1>5. SumOfPriced = [n \in Nat |-> IF n = 0 THEN 0 ELSE SumOfPriced[n - 1] + cost(n)]
  BY <1>4 DEF SumOfPriced
<1> HIDE DEF a
<1>6. /\ SumOfPriced[0] = 0
      /\ \A n \in Nat \ {0} : SumOfPriced[n] = SumOfPriced[n - 1] + cost(n)
  <2>1. \A n \in Nat :
          SumOfPriced[n] = IF n = 0 THEN 0 ELSE SumOfPriced[n - 1] + cost(n)
    <3> HIDE DEF cost
    <3> QED
      BY <1>5
  <2> QED
    BY <2>1
<1>7. f[0] = 0 /\ \A n \in 1 .. N : f[n] = f[n - 1] + cost(n)
  BY DEF Adds
<1> HIDE DEF cost
<1> DEFINE Bad == {n \in 0 .. N : SumOfPriced[n] # f[n]}
<1> SUFFICES ASSUME Bad # {} PROVE FALSE
  OBVIOUS
<1>8. PICK n \in Bad : \A k \in Bad : n <= k
  <2>1. Bad \subseteq Nat
    OBVIOUS
  <2> HIDE DEF Bad
  <2> QED
    BY <2>1, LeastNat
<1>9. n # 0
  BY <1>6, <1>7, <1>8
<1>10. n - 1 \in 0 .. N /\ n - 1 \notin Bad /\ n \in 1 .. N /\ n \in Nat \ {0}
  BY <1>8, <1>9
<1> QED
  BY <1>6, <1>7, <1>8, <1>10

(* A caller may rely on the total and on the status: a total is the sum    *)
(* over all the priced lines, in one currency, of a run in which nothing   *)
(* failed; and the status says which of the outcomes it is (SourceWithFX). *)
THEOREM ResultIsReliable == Spec => []ResultAddsUp
<1>1. IInv => ResultAddsUp
  <2> SUFFICES ASSUME IInv PROVE ResultAddsUp
    OBVIOUS
  <2>1. pc # "done" => TotalIsSumOfPricedLines /\ StatusTellsTheOutcome
    BY DEF IInv, OutcomeInv, NoOutcome, TotalIsSumOfPricedLines, StatusTellsTheOutcome
  <2>2. ASSUME pc = "done" PROVE TotalIsSumOfPricedLines
    <3> SUFFICES ASSUME outcome.total # None
                 PROVE  /\ \A n \in DOMAIN parts : parts[n].status # "provider_error"
                        /\ \A n \in Priced :
                             LET c == parts[n].offer.plan.currency
                             IN IF target = None THEN c = outcome.currency ELSE Quoted(c)
                        /\ outcome.total = SumOfPriced[NumLines]
      BY DEF TotalIsSumOfPricedLines
    <3>1. TotalIsAdded
      BY <2>2 DEF IInv, OutcomeInv
    <3>2. PICK f : Adds(f, NumLines) /\ f[NumLines] = outcome.total
      BY <3>1 DEF TotalIsAdded
    <3>3. ASSUME NEW n \in Priced PROVE InTotal(n) \in Nat
      <4>1. Sound(parts[n], Required[n]) /\ parts[n].status = "priced"
        BY <3>3 DEF Priced, IInv, Running, PartsInv
      <4>2. SafeOffer(parts[n].offer, Required[n]) /\ parts[n].offer \in Offer \cup {None}
        BY <4>1 DEF Sound, IsSafe, Part
      <4>3. parts[n].offer.plan \in PurchasePlan
        BY <4>2 DEF SafeOffer, Offer
      <4>4. parts[n].offer.plan.price \in Nat
        BY <4>3 DEF PurchasePlan
      <4>5. target # None => Quoted(parts[n].offer.plan.currency)
        BY <3>1, <3>3 DEF TotalIsAdded
      <4> QED
        BY <4>4, <4>5, SourcingAssumption, ConvertedIsNatural DEF InTotal
    <3>4. NumLines \in Nat
      BY SourcingAssumption DEF SourcingAssumption
    <3>5. outcome.total = SumOfPriced[NumLines]
      BY <3>2, <3>3, <3>4, SumOfPricedAdds
    <3> QED
      BY <3>1, <3>5 DEF TotalIsAdded
  <2>3. pc = "done" => StatusTellsTheOutcome
    BY DEF IInv, OutcomeInv
  <2> QED
    BY <2>1, <2>2, <2>3 DEF ResultAddsUp
<1> QED
  BY <1>1, SourcingInvariant, PTL
=============================================================================
