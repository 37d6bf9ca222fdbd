-------------------------- MODULE PurchaseOptimizer --------------------------
(***************************************************************************)
(* internal/procurement/optimizer.go: the purchase plan of one demand, out *)
(* of the packaging families (cut tape, reel, tray...) a provider offers   *)
(* it in. The algorithm tries one quantity per price break, and for two    *)
(* families that may be mixed a handful of bulk quantities; the properties *)
(* compare its choice with every order the families allow.                 *)
(*                                                                         *)
(* Prices are numbers of the smallest unit. The last tie-break, the        *)
(* rendered order plan, is left out: any of the plans that tie up to there *)
(* may be chosen. The width of an int and of a money.Decimal are MaxInt    *)
(* and MaxMoney.                                                           *)
(***************************************************************************)
EXTENDS Integers, Sequences, FiniteSets, FiniteSetsExt

CONSTANTS
  Requirement,  \* required quantities asked for
  Offered,      \* sequences of families that may be offered together
  Currency,     \* well-formed currency codes
  Preference,   \* basis points the manufacturing preference may cost
  MaxInt,       \* the largest int
  MaxMoney,     \* the largest money.Decimal
  None

(* What a family says; Valid below is what the optimizer checks of it.     *)
IsFamily(f) ==
  /\ {f.moq, f.multiple, f.reel, f.mix} \subseteq Int
  /\ f.available \in Int \cup {None}
  /\ \A i \in DOMAIN f.breaks : f.breaks[i].quantity \in Int /\ f.breaks[i].price \in Int

(* Families offered together are told apart by their IDs.                  *)
ASSUME OptimizerAssumption ==
  /\ Requirement \subseteq Int
  /\ Preference \subseteq Int
  /\ MaxInt \in Nat
  /\ MaxMoney \in Nat
  /\ \A offered \in Offered :
       /\ \A i \in DOMAIN offered : IsFamily(offered[i])
       /\ \A i, j \in DOMAIN offered : offered[i].id = offered[j].id => i = j

VARIABLES
  required,     \* the arguments of OptimizePurchaseFamiliesWithPreference
  families,
  preference,
  result        \* "pending", an "error", "none" or the plan

vars == <<required, families, preference, result>>

Init ==
  /\ required \in Requirement
  /\ families \in Offered
  /\ preference \in Preference
  /\ result = [kind |-> "pending", plan |-> None]

-----------------------------------------------------------------------------
(* Orders by several criteria: the first difference decides.               *)
Precedes(a, b) ==
  \E i \in DOMAIN a : a[i] < b[i] /\ \A j \in 1 .. i - 1 : a[j] = b[j]

(* The elements no other precedes.                                         *)
Firsts(S, key(_)) == {x \in S : \A y \in S : ~Precedes(key(y), key(x))}

Breaks(f) == {f.breaks[i] : i \in DOMAIN f.breaks}

(* validateFamily.                                                         *)
Valid(f) ==
  /\ f.id # ""
  /\ f.moq >= 0 /\ f.multiple >= 0 /\ f.reel >= 0 /\ f.mix >= 0
  /\ f.available # None => f.available >= 0
  /\ \A b \in Breaks(f) : b.quantity >= 1 /\ b.price >= 0 /\ b.currency \in Currency
  /\ \A b, c \in Breaks(f) : b.currency = c.currency

(* Families without prices are skipped before they are validated.          *)
PricedFamilies == {families[i] : i \in {j \in DOMAIN families : Breaks(families[j]) # {}}}

Currencies == {f.breaks[1].currency : f \in PricedFamilies}

-----------------------------------------------------------------------------
(* purchaseLegFromFamily.                                                  *)

Multiple(f) == IF f.reel > 0 THEN f.reel ELSE f.multiple

RoundUpToMultiple(quantity, multiple) ==
  IF multiple <= 1 \/ quantity % multiple = 0
    THEN quantity ELSE quantity + (multiple - (quantity % multiple))

(* Fault: the quantity of the price break is forgotten.                    *)
QuantityAtIgnoringBreak(f, b, quantity) ==
  RoundUpToMultiple(Max({quantity, f.moq}), Multiple(f))

QuantityAt(f, b, quantity) ==
  RoundUpToMultiple(Max({quantity, b.quantity, f.moq}), Multiple(f))

InStock(f, purchased) == f.available # None => purchased <= f.available

(* An overflow at any price break gives up the whole optimization; the     *)
(* price is computed only of a quantity that is in stock.                  *)
LegOverflows(f, quantity) ==
  \E b \in Breaks(f) :
    LET purchased == QuantityAt(f, b, quantity)
    IN \/ purchased > MaxInt
       \/ InStock(f, purchased) /\ b.price * purchased > MaxMoney

Candidates(f, quantity) ==
  {[family |-> f.id, kind |-> f.kind, purchased |-> QuantityAt(f, b, quantity),
    unit |-> b.price, extended |-> b.price * QuantityAt(f, b, quantity),
    break |-> b.quantity, verified |-> f.available # None] :
     b \in {x \in Breaks(f) : InStock(f, QuantityAt(f, x, quantity))}}

CostOfLeg(leg) == <<leg.extended, leg.purchased, leg.break>>

(* The cheapest candidate, as a set of at most one leg.                    *)
Leg(f, quantity) == Firsts(Candidates(f, quantity), CostOfLeg)

-----------------------------------------------------------------------------
(* candidateBulkQuantities: whole reels (or multiples) around the          *)
(* requirement, the price breaks and the stock.                            *)

MixOf(f) == IF f.mix > 0 THEN f.mix ELSE IF f.reel > 0 THEN f.reel ELSE f.multiple

Around(count) == {n \in {count - 1, count, count + 1} : n > 0}

(* Fault: the price breaks of the remainder are not considered.            *)
BulkQuantitiesAroundNeed(bulk, remainder) ==
  {n * MixOf(bulk) : n \in {m \in Around(required \div Max({1, MixOf(bulk)})) :
                              m * MixOf(bulk) < required /\ MixOf(bulk) > 1}}

BulkQuantities(bulk, remainder) ==
  LET mix == MixOf(bulk)
      counts ==
        UNION ({Around(required \div mix)}
          \cup {Around(b.quantity \div mix) : b \in Breaks(bulk)}
          \cup {Around((required - b.quantity) \div mix) :
                  b \in {x \in Breaks(remainder) : required > x.quantity}}
          \cup IF bulk.available = None THEN {}
               ELSE {Around(bulk.available \div mix)})
  IN IF mix <= 1 THEN {}
     ELSE {n * mix : n \in {m \in counts : m <= MaxInt \div mix /\ m * mix < required}}

(* The pairs the second loop visits, each with the quantity asked of bulk. *)
Mixes ==
  UNION {{<<p[1], p[2], q>> : q \in BulkQuantities(p[1], p[2])} :
    p \in {x \in PricedFamilies \X PricedFamilies :
             x[1].asBulk /\ x[2].asRemainder /\ x[1].id # x[2].id}}

Rest(m, bulkLeg) == required - bulkLeg.purchased

(* What is bought in bulk leaves something to buy.                         *)
BulkLegs(m) == {leg \in Leg(m[1], m[3]) : leg.purchased < required}

LegsOfMix(m) ==
  {<<bulkLeg, restLeg>> : bulkLeg \in BulkLegs(m),
     restLeg \in UNION {Leg(m[2], Rest(m, b)) : b \in BulkLegs(m)}}

MixOverflows(m) ==
  \/ LegOverflows(m[1], m[3])
  \/ \E bulkLeg \in BulkLegs(m) :
       \/ LegOverflows(m[2], Rest(m, bulkLeg))
       \/ \E restLeg \in Leg(m[2], Rest(m, bulkLeg)) :
            \/ bulkLeg.extended + restLeg.extended > MaxMoney
            \/ bulkLeg.purchased + restLeg.purchased > MaxInt

-----------------------------------------------------------------------------
(* composePurchasePlan.                                                    *)

(* money.DivInt: half up.                                                  *)
DivInt(value, divisor) ==
  (value \div divisor) + (IF (value % divisor) >= (divisor + 1) \div 2 THEN 1 ELSE 0)

Purchased(legs) == IF Len(legs) = 1 THEN legs[1].purchased
                                    ELSE legs[1].purchased + legs[2].purchased

Extended(legs) == IF Len(legs) = 1 THEN legs[1].extended
                                   ELSE legs[1].extended + legs[2].extended

PlanOf(legs) ==
  [legs |-> legs,
   purchased |-> Purchased(legs),
   surplus |-> Purchased(legs) - required,
   price |-> Extended(legs),
   effective |-> DivInt(Extended(legs), Purchased(legs)),
   verified |-> \A i \in DOMAIN legs : legs[i].verified]

Plans ==
  {PlanOf(<<leg>>) : leg \in UNION {Leg(f, required) : f \in PricedFamilies}}
    \cup {PlanOf(legs) : legs \in UNION {LegsOfMix(m) : m \in Mixes}}

Fails ==
  \/ \E f \in PricedFamilies : LegOverflows(f, required)
  \/ \E m \in Mixes : MixOverflows(m)
  \/ \E p \in Plans : p.purchased < required

-----------------------------------------------------------------------------
(* selectBestPlan.                                                         *)

CostOfPlan(p) == <<p.price, p.surplus, p.purchased, Len(p.legs)>>

(* withinBasisPoints, of the cheapest plan.                                *)
Within(p, plans, points) ==
  p.price * 10000 <= Min({q.price : q \in plans}) * (10000 + points)

QuantityIn(p, kinds) ==
  MapThenSumSet(LAMBDA i : IF p.legs[i].kind \in kinds
                             THEN p.legs[i].purchased ELSE 0, DOMAIN p.legs)

(* Most on reels, most in stable packaging, least on cut tape, then cost.  *)
PreferenceOfPlan(p) ==
  <<-QuantityIn(p, {"reel"}), -QuantityIn(p, {"reel", "stable"}),
    QuantityIn(p, {"cut"})>> \o CostOfPlan(p)

BestPlans(plans, points) ==
  Firsts({p \in plans : Within(p, plans, points)}, PreferenceOfPlan)

Refused ==
  \/ required < 1
  \/ preference < 0
  \/ \E f \in PricedFamilies : ~Valid(f)
  \/ Cardinality(Currencies) > 1

Optimize ==
  /\ result.kind = "pending"
  /\ IF Refused \/ Fails
       THEN result' = [kind |-> "error", plan |-> None]
       ELSE IF Plans = {}
         THEN result' = [kind |-> "none", plan |-> None]
         ELSE \E p \in BestPlans(Plans, preference) :
                result' = [kind |-> "plan", plan |-> p]
  /\ UNCHANGED <<required, families, preference>>

Next == Optimize

Spec == Init /\ [][Next]_vars

-----------------------------------------------------------------------------
(* What a family lets a customer buy, whatever the algorithm tries.        *)

Orderable(f, quantity) ==
  /\ quantity >= f.moq
  /\ Multiple(f) > 1 => quantity % Multiple(f) = 0
  /\ f.available # None => quantity <= f.available
  /\ \E b \in Breaks(f) : b.quantity <= quantity

(* The distributor charges the price of the highest break reached.         *)
Charge(f, quantity) ==
  LET reached == {b \in Breaks(f) : b.quantity <= quantity}
      top == CHOOSE b \in reached : \A c \in reached : c.quantity <= b.quantity
  IN top.price * quantity

(* A larger break is not dearer, and no break is listed twice.             *)
PricesFall(f) ==
  \A b, c \in Breaks(f) :
    /\ b.quantity < c.quantity => b.price >= c.price
    /\ b.quantity = c.quantity => b = c

Usable == {f \in PricedFamilies : PricesFall(f)}

(* The price of every order of one family that covers the requirement.     *)
SinglePrices ==
  {Charge(o[1], o[2]) :
     o \in {x \in Usable \X (required .. MaxInt) : Orderable(x[1], x[2])}}

(* A remainder in any quantity of which there is enough.                   *)
Plain(f) ==
  /\ f.moq <= 1 /\ Multiple(f) <= 1
  /\ f.available # None => f.available >= required

Pairs ==
  {p \in Usable \X Usable :
     /\ p[1].id # p[2].id
     /\ p[1].asBulk /\ MixOf(p[1]) > 1 /\ MixOf(p[1]) = Multiple(p[1])
     /\ p[2].asRemainder /\ Plain(p[2])}

(* The price of every order in bulk that needs a remainder, with every     *)
(* remainder that completes it.                                            *)
MixedPrices ==
  UNION {{Charge(p[1], o[1]) + Charge(p[2], o[2]) :
            o \in {x \in (1 .. required - 1) \X (1 .. required) :
                     /\ x[1] + x[2] >= required
                     /\ Orderable(p[1], x[1]) /\ Orderable(p[2], x[2])}} :
         p \in Pairs}

FamilyOf(leg) == CHOOSE f \in PricedFamilies : f.id = leg.family

(* Properties.                                                             *)

(* The plan covers the requirement, a mix buys less than that in bulk, and *)
(* the effective unit price is the one nearest to the exact quotient.      *)
PlanCovers ==
  LET p == result.plan
  IN /\ p.purchased \in required .. MaxInt
     /\ p.price \in 0 .. MaxMoney
     /\ Len(p.legs) = 2 => p.legs[1].purchased < required
     /\ 2 * (p.effective * p.purchased - p.price) \in -p.purchased .. p.purchased

(* The plan covers without overflow, and every leg of it is an order its   *)
(* family accepts, at the price the distributor charges for that quantity: *)
(* stock, minimum and multiple are respected after every rounding, and a   *)
(* break's price is used only for a quantity that reaches it.              *)
PlanIsOrderable ==
  result.kind = "plan" =>
    /\ PlanCovers
    /\ \A i \in DOMAIN result.plan.legs :
         LET leg == result.plan.legs[i]
             f == FamilyOf(leg)
         IN f \in Usable =>
              /\ Orderable(f, leg.purchased)
              /\ leg.extended = Charge(f, leg.purchased)

(* No order of a single family beats the plan by more than the preference  *)
(* allows, although only one quantity per price break was tried; nor does  *)
(* any mix, although only bulk quantities around the requirement, the      *)
(* price breaks and the stock were tried. (For a remainder that has a      *)
(* minimum, a multiple or too little stock the quantities are a heuristic: *)
(* a cheaper mix may exist.) The algorithm gives up only when no single    *)
(* family can be ordered.                                                  *)
NothingCheaperIsPassedOver ==
  /\ result.kind = "plan" =>
       \A price \in SinglePrices \cup MixedPrices :
         result.plan.price * 10000 <= price * (10000 + preference)
  /\ result.kind = "none" => SinglePrices = {}
=============================================================================
