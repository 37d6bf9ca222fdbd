-------------------------- MODULE ProviderResolvers --------------------------
(***************************************************************************)
(* internal/provider/{mouser,farnell,digikey,ti,microchip}/resolver.go:    *)
(* what one distributor's adapter concludes about one demand from what the *)
(* distributor answered.                                                   *)
(*                                                                         *)
(* A conclusion is a function of the demand and of the answers, so a       *)
(* lookup is one step. The text the adapters compare is reduced to what    *)
(* the comparison says: a part number is the "same", a "related" or an     *)
(* "other" one than the demand's, the maker is the demand's or not, the    *)
(* article is a kit or not. The purchase plan of one packaging family at   *)
(* one price stands for the optimizer's (module PurchaseOptimizer). Prices *)
(* of one answer are in one currency.                                      *)
(***************************************************************************)
EXTENDS Integers, Sequences, FiniteSets, FiniteSetsExt

CONSTANTS
  Nil,   \* no value, not reported
  Bad    \* prices the optimizer refuses

VARIABLES
  question,   \* the demand, and everything the distributor would answer
  answer      \* the conclusion, or Nil

vars == <<question, answer>>

-----------------------------------------------------------------------------
(* Conclusions.                                                            *)

(* An offer: its SKU, whether it needs a review, the stock shown with it,  *)
(* the plan found and the plan chosen for the purchase.                    *)
Offer(sku, review, stock, plan, selected) ==
  [sku |-> sku, review |-> review, stock |-> stock, plan |-> plan,
   selected |-> selected]

(* The adapter's answer, and how often the distributor was asked.          *)
Result(status, offer, asked) ==
  [status |-> status, offer |-> offer, asked |-> asked]

(* A chain of tests, the last of them TRUE: the first that holds decides.  *)
FirstThat(cases) == cases[Min({i \in DOMAIN cases : cases[i][1]})][2]

(* Orders by several criteria: the first difference decides.               *)
Precedes(a, b) ==
  \E i \in DOMAIN a : a[i] < b[i] /\ \A j \in 1 .. i - 1 : a[j] = b[j]

(* The elements no other precedes.                                         *)
Firsts(S, key(_)) == {x \in S : \A y \in S : ~Precedes(key(y), key(x))}

(* The plan of one family: the minimum is bought if less is required, and  *)
(* known stock must cover it. (No stock limit gives no reason for Nil.)   *)
PlanOf(required, minimum, price, stock) ==
  LET bought == IF minimum > required THEN minimum ELSE required
  IN IF stock # Nil /\ stock < bought
       THEN Nil
       ELSE [purchased |-> bought, price |-> bought * price,
             verified |-> stock # Nil]

-----------------------------------------------------------------------------
(* Mouser and Farnell: a search by number, then one by keyword.            *)

(* What the adapter reads of an article. A stock or a price that does not  *)
(* parse is Nil, like one that is not there; no SKU is 0.                  *)
Article ==
  [number : {"same", "related", "other"}, maker : BOOLEAN, kit : BOOLEAN,
   sku : Nat, stock : Nat \cup {Nil}, price : Nat \cup {Nil, Bad}, minimum : Nat,
   retired : BOOLEAN]

(* The number without case and punctuation is the demand's, or shares a    *)
(* long enough prefix with it.                                             *)
NumberMatches(p, exact) == p.number \in IF exact THEN {"same"} ELSE {"same", "related"}

(* One canonical name, or a long enough one within the other.              *)
ManufacturersMatch(p) == p.maker

IsNonComponent(p) == p.kit

(* An article of the catalogue the adapter may consider for a search.      *)
Eligible(p, exact) ==
  NumberMatches(p, exact) /\ ManufacturersMatch(p) /\ ~IsNonComponent(p)

(* Farnell alone refuses an article that is no longer made and out of      *)
(* stock, or of unknown stock.                                             *)
RetiredWithoutStock(p) == question.provider = "farnell" /\ p.retired /\ p.stock \in {Nil, 0}

Priceable(p) == p.price \notin {Nil, Bad}

CataloguePlan(p) ==
  IF Priceable(p)
    THEN PlanOf(question.required, p.minimum, p.price, p.stock) ELSE Nil

(* normalizeOffer: the first obstacle is the status.                       *)
CatalogueStatus(p, exact) ==
  LET plan == CataloguePlan(p)
  IN FirstThat(<<
       <<p.sku = 0 \/ RetiredWithoutStock(p) \/ ~Priceable(p), "unavailable">>,
       <<plan = Nil /\ p.stock # Nil, "shortage">>,
       <<plan = Nil, "unavailable">>,
       <<plan # Nil => ~plan.verified, "stock_unknown">>,
       <<~exact, "review">>,
       <<TRUE, "priced">> >>)

CatalogueOffer(p, exact) ==
  LET orderable == p.sku # 0 /\ ~RetiredWithoutStock(p)
      plan == IF orderable THEN CataloguePlan(p) ELSE Nil
  IN Offer(p.sku, ~exact, p.stock, plan,
           IF CatalogueStatus(p, exact) = "priced" THEN plan ELSE Nil)

StatusRank(status) ==
  CASE status = "priced" -> 0
    [] status = "review" -> 1
    [] status = "shortage" -> 2
    [] status = "stock_unknown" -> 3
    [] OTHER -> 4

(* compareNormalizedCandidates: status, price, stock (unknown below none), *)
(* SKU. Candidates of one status all have a plan, or none has.             *)
CandidateKey(p, exact) ==
  LET plan == CatalogueOffer(p, exact).plan
  IN <<StatusRank(CatalogueStatus(p, exact)),
       IF plan = Nil THEN 0 ELSE plan.price,
       IF p.stock = Nil THEN 1 ELSE 0,
       IF p.stock = Nil THEN 0 ELSE -p.stock,
       p.sku>>

(* Fault: the status of a candidate is not looked at.                      *)
SelectedByPrice(candidates, exact) ==
  LET key(p) == Tail(CandidateKey(p, exact)) IN CHOOSE p \in Firsts(candidates, key) : TRUE

(* sourceCandidates: the first of the sorted candidates. Two that tie have *)
(* one SKU and one price.                                                  *)
Selected(candidates, exact) ==
  LET key(p) == CandidateKey(p, exact) IN CHOOSE p \in Firsts(candidates, key) : TRUE

Concluded(candidates, exact, asked) ==
  LET p == Selected(candidates, exact)
  IN Result(CatalogueStatus(p, exact), CatalogueOffer(p, exact), asked)

Candidates(found, exact) == {p \in found : Eligible(p, exact)}

(* A failing request fails the lookup; only when the exact search leaves   *)
(* no candidate is the broad one made, and what it finds needs a review.   *)
CatalogueLookup ==
  LET exact == Candidates(question.exact, TRUE)
      broad == Candidates(question.broad, FALSE)
  IN IF question.fails = 1 THEN Result("error", Nil, 1)
     ELSE IF exact # {} THEN Concluded(exact, TRUE, 1)
     ELSE IF question.fails = 2 THEN Result("error", Nil, 2)
     ELSE IF broad = {} THEN Result("not_found", Nil, 2)
     ELSE Concluded(broad, FALSE, 2)

MouserLookup  == question.provider = "mouser" /\ answer' = CatalogueLookup
FarnellLookup == question.provider = "farnell" /\ answer' = CatalogueLookup

-----------------------------------------------------------------------------
(* DigiKey: pricing options, with the stock from a second request.         *)

(* The sum of a sequence of amounts.                                       *)
Sum(amounts) ==
  LET upTo[n \in 0 .. Len(amounts)] == IF n = 0 THEN 0 ELSE upTo[n - 1] + amounts[n]
  IN upTo[Len(amounts)]

(* The product priced is one the demand may mean.                          *)
OfTheDemand == question.maker /\ question.number # "other"

(* The quantity of one SKU that legs buy together.                         *)
QuantityOf(legs, sku) ==
  Sum([i \in DOMAIN legs |-> IF legs[i].sku = sku THEN legs[i].quantity ELSE 0])

Bought(option, sku) == QuantityOf(option.legs, sku)

Skus(option) == {option.legs[i].sku : i \in DOMAIN option.legs}

(* normalizePlan accepts an option whose legs add up to its totals and     *)
(* that covers the demand.                                                 *)
Complete(option) ==
  /\ question.currency
  /\ option.total >= question.required /\ option.total >= 1
  /\ option.price > 0
  /\ option.legs # <<>>
  /\ \A i \in DOMAIN option.legs :
       /\ option.legs[i].quantity >= 1
       /\ option.legs[i].minimum >= 1
       /\ option.legs[i].price > 0
  /\ Sum([i \in DOMAIN option.legs |-> option.legs[i].quantity]) = option.total
  /\ Sum([i \in DOMAIN option.legs |-> option.legs[i].price]) = option.price

(* Fault: stock that was not reported counts as none.                      *)
LimitingStockOrZero(option) ==
  Min({IF sku \in DOMAIN question.reported THEN question.reported[sku] ELSE 0 :
         sku \in Skus(option)})

(* applyStock: what limits the option, Nil as soon as one SKU's stock was *)
(* not reported; without the second answer none was.                       *)
LimitingStock(option) ==
  IF Skus(option) \subseteq DOMAIN question.reported
    THEN Min({question.reported[sku] : sku \in Skus(option)})
    ELSE Nil

ApplyStock(option) ==
  /\ Skus(option) \subseteq DOMAIN question.reported
  /\ \A sku \in Skus(option) : Bought(option, sku) <= question.reported[sku]

(* The plan of an option; its SKUs are those of its legs.                  *)
PricingPlan(option) ==
  [purchased |-> option.total, price |-> option.price,
   verified |-> ApplyStock(option)]

(* In stock, price, surplus; the text of the plan breaks the last tie, and *)
(* is left out: any option that ties may be the one.                       *)
OptionKey(option) ==
  <<IF ApplyStock(option) THEN 0 ELSE 1, option.price, option.total>>

PricingStatus(option) ==
  FirstThat(<<
    <<question.number # "same", "review">>,
    <<ApplyStock(option), "priced">>,
    <<LimitingStock(option) = Nil, "stock_unknown">>,
    <<TRUE, "shortage">> >>)

PricingOffer(option) ==
  Offer(option.legs, question.number # "same", LimitingStock(option),
        PricingPlan(option),
        IF PricingStatus(option) = "priced" THEN PricingPlan(option) ELSE Nil)

DigiKeyLookup ==
  LET options == {question.options[i] : i \in DOMAIN question.options}
      complete == {o \in options : Complete(o)}
      refused(status) == answer' = Result(status, Nil, 1)
  IN /\ question.provider = "digikey"
     /\ \/ question.fails = "error" /\ refused("error")
        \/ question.fails = "not_found" /\ refused("not_found")
        \/ /\ question.fails = "none"
           /\ ~OfTheDemand
           /\ refused("not_found")
        \/ /\ question.fails = "none"
           /\ OfTheDemand
           /\ IF complete = {}
                THEN refused("unavailable")
                ELSE \E o \in Firsts(complete, OptionKey) :
                       answer' = Result(PricingStatus(o), PricingOffer(o), 2)

-----------------------------------------------------------------------------
(* TI: its own store, with a limit per order, for its own parts.           *)

(* TI, under its present or its full name; Microchip below asks the same   *)
(* of its own and of Atmel's.                                              *)
SupportsManufacturer == question.maker

(* The orderable or the generic number is, or resembles, the demand's.     *)
Related(q) == q.number # "other"

(* Fault: the order limit is not part of what the plan may buy.            *)
StoreStockUnlimited(q) == q.stock

(* What the plan may buy: known stock, but never more than the limit.      *)
StoreStock(q) ==
  IF q.stock # Nil /\ q.limit # Nil /\ q.limit < q.stock THEN q.limit ELSE q.stock

OverLimit(q) == q.limit # Nil /\ q.required > q.limit

(* A plan is sought when there are prices in the currency and the limit    *)
(* allows the demand.                                                      *)
Planned(q) == q.schedule /\ q.price \notin {Nil, Bad} /\ ~OverLimit(q)

StorePlan(q) ==
  IF Planned(q) THEN PlanOf(q.required, q.minimum, q.price, StoreStock(q)) ELSE Nil

StoreStatus(q) ==
  LET plan == StorePlan(q)
  IN FirstThat(<<
       <<~q.schedule \/ q.price = Nil, "unavailable">>,
       <<OverLimit(q), "shortage">>,
       <<q.price = Bad, "unavailable">>,
       <<plan = Nil, "shortage">>,
       <<q.number # "same" \/ q.lifecycle = "retired", "review">>,
       <<plan # Nil => ~plan.verified, "stock_unknown">>,
       <<TRUE, "priced">> >>)

StoreOffer(q) ==
  LET status == StoreStatus(q)
  IN Offer(1, q.number # "same" \/ status = "review", q.stock, StorePlan(q),
           IF status = "priced" THEN StorePlan(q) ELSE Nil)

TILookup ==
  /\ question.provider = "ti"
  /\ answer' =
       FirstThat(<<
         <<~SupportsManufacturer, Result("not_applicable", Nil, 0)>>,
         <<question.fails # "none", Result(question.fails, Nil, 1)>>,
         <<~Related(question), Result("not_found", Nil, 1)>>,
         <<TRUE, Result(StoreStatus(question), StoreOffer(question), 1)>> >>)

-----------------------------------------------------------------------------
(* Microchip: stock and lifecycle as evidence, never a price.              *)

(* The first exact match of the answer that counts.                        *)
ExactMatch(products) ==
  IF \E i \in DOMAIN products : products[i].number = "same"
    THEN products[CHOOSE i \in DOMAIN products :
                    /\ products[i].number = "same"
                    /\ \A j \in 1 .. i - 1 : products[j].number # "same"]
    ELSE Nil

EvidenceStatus(p) ==
  FirstThat(<<
    <<p.ended, "review">>,
    <<p.stock = Nil, "stock_unknown">>,
    <<p.stock # Nil => p.stock >= question.required, "review">>,
    <<TRUE, "shortage">> >>)

(* An empty answer is followed by a search for the base part number, when  *)
(* there is one that differs.                                              *)
MicrochipLookup ==
  LET again == question.first = <<>> /\ question.fallback
      products == IF again THEN question.second ELSE question.first
      asked == IF again THEN 2 ELSE 1
      p == ExactMatch(products)
  IN /\ question.provider = "microchip"
     /\ answer' =
          IF ~SupportsManufacturer THEN Result("not_applicable", Nil, 0)
          ELSE IF question.fails \in 1 .. asked THEN Result("error", Nil, question.fails)
          ELSE IF p = Nil THEN Result("not_found", Nil, asked)
          ELSE Result(EvidenceStatus(p), Offer(1, TRUE, p.stock, Nil, Nil), asked)

-----------------------------------------------------------------------------
(* What a distributor may answer to a demand, which is for one part at     *)
(* least. The totals and legs of DigiKey's options are checked only by     *)
(* Complete.                                                               *)

QuotedLeg == [sku : Nat, quantity : Int, price : Int, minimum : Int]

Product == [number : {"same", "other"}, ended : BOOLEAN, stock : Nat \cup {Nil}]

Plan == [purchased : Nat, price : Nat, verified : BOOLEAN]

Offers ==
  [sku : Nat \cup Seq(QuotedLeg), review : BOOLEAN, stock : Int \cup {Nil},
   plan : Plan \cup {Nil}, selected : Plan \cup {Nil}]

IsQuestion(q) ==
  /\ q.required \in Nat \ {0}
  /\ q.provider \in {"mouser", "farnell", "digikey", "ti", "microchip"}
  /\ q.provider \in {"mouser", "farnell"} =>
       IsFiniteSet(q.exact) /\ IsFiniteSet(q.broad) /\ q.exact \cup q.broad \subseteq Article
  /\ q.provider = "digikey" =>
       /\ \A i \in DOMAIN q.options :
            LET o == q.options[i]
            IN o.total \in Int /\ o.price \in Int /\ o.legs \in Seq(QuotedLeg)
       /\ \A sku \in DOMAIN q.reported : q.reported[sku] \in Int
  /\ q.provider = "ti" =>
       /\ q.fails \in {"none", "error", "not_found"}
       /\ q.price \in Nat \cup {Nil, Bad} /\ q.minimum \in Nat
       /\ q.stock \in Nat \cup {Nil} /\ q.limit \in Nat \cup {Nil}
       /\ q.lifecycle \in {"active", "retired"}
  /\ q.provider = "microchip" =>
       q.first \in Seq(Product) /\ q.second \in Seq(Product)

-----------------------------------------------------------------------------
Next ==
  /\ answer = Nil
  /\ \/ MouserLookup \/ FarnellLookup \/ DigiKeyLookup \/ TILookup \/ MicrochipLookup
  /\ UNCHANGED question

-----------------------------------------------------------------------------
(* Properties.                                                             *)

Searched == question.provider \in {"mouser", "farnell"}

(* The exact articles of the two searches that carry a SKU.                *)
ArticlesOf(sku) == {p \in question.exact : p.sku = sku /\ sku # 0}

(* What the distributor itself said allows this purchase: it is the        *)
(* demand's own article, and what is bought is in stock, SKU by SKU, and   *)
(* within every limit.                                                     *)
Allowed(offer) ==
  LET plan == offer.selected
  IN /\ plan.purchased >= question.required
     /\ Searched =>
          \E p \in ArticlesOf(offer.sku) :
            /\ p.number = "same" /\ p.maker /\ ~p.kit
            /\ p.stock # Nil /\ p.stock >= plan.purchased
            /\ plan.purchased >= p.minimum
            /\ plan.price = plan.purchased * p.price
     /\ question.provider = "digikey" =>
          /\ question.maker /\ question.number = "same"
          /\ \A i \in DOMAIN offer.sku :
               LET sku == offer.sku[i].sku
               IN /\ sku \in DOMAIN question.reported
                  /\ QuantityOf(offer.sku, sku) <= question.reported[sku]
     /\ question.provider = "ti" =>
          /\ question.maker /\ question.number = "same"
          /\ question.lifecycle = "active"
          /\ question.stock # Nil /\ question.stock >= plan.purchased
          /\ question.limit # Nil => question.limit >= plan.purchased

(* A plan is selected exactly in a priced answer, and only for the exact   *)
(* part, of the demand's maker, that reported stock and order limits       *)
(* cover, whichever distributor answered; the evidence of Microchip is     *)
(* never a price (README: "An offer becomes selected_plan only when the    *)
(* MPN is exact and reported stock covers the purchase quantity").         *)
PricedOnlyWhenSafe ==
  answer # Nil =>
    /\ answer.status = "priced" <=> (answer.offer # Nil /\ answer.offer.selected # Nil)
    /\ answer.status = "priced" =>
         /\ question.provider # "microchip"
         /\ ~answer.offer.review
         /\ Allowed(answer.offer)

Needed(minimum) == IF minimum > question.required THEN minimum ELSE question.required

(* Missing stock is unknown, never zero: an answer is a shortage only if a *)
(* reported number, stock or limit, is too small, and unknown only if one  *)
(* was not reported; a review of a searched article hides neither, because *)
(* its stock was reported and covers the plan.                             *)
UnknownIsNotShortage ==
  answer # Nil /\ answer.offer # Nil =>
    LET offer == answer.offer
    IN /\ answer.status = "shortage" =>
            \/ Searched /\ \E p \in question.exact \cup question.broad :
                 p.sku = offer.sku /\ p.stock # Nil /\ p.stock < Needed(p.minimum)
            \/ question.provider = "ti" /\ \E n \in {question.stock, question.limit} :
                 n # Nil /\ n < Needed(question.minimum)
            \/ question.provider = "digikey" /\ \E i \in DOMAIN offer.sku :
                 /\ offer.sku[i].sku \in DOMAIN question.reported
                 /\ question.reported[offer.sku[i].sku] < offer.plan.purchased
            \/ question.provider = "microchip" /\ offer.stock # Nil
                 /\ offer.stock < question.required
       /\ answer.status = "stock_unknown" => offer.stock = Nil
       /\ Searched /\ answer.status = "review" =>
            offer.stock # Nil /\ offer.plan.purchased <= offer.stock

(* Articles that could be bought, exact or to be reviewed.                 *)
Buyable(found) ==
  {p \in found :
     /\ p.maker /\ ~p.kit /\ p.sku # 0
     /\ p.price \notin {Nil, Bad}
     /\ p.stock # Nil /\ p.stock >= p.minimum /\ p.stock >= question.required}

BoughtAt(p) == p.price * Needed(p.minimum)

(* Nothing better is passed over. When an exact article can be bought, the *)
(* answer is priced and no such article is cheaper; without any exact      *)
(* article, one that is related and can be bought is offered for review;   *)
(* "not found" means that neither search had a match. Of the options of    *)
(* DigiKey the cheapest fully stocked one is chosen, when there is one.    *)
NothingBetterIsPassedOver ==
  answer # Nil /\ answer.status # "error" =>
    /\ Searched =>
         LET exact == {p \in Buyable(question.exact) : p.number = "same"}
             loose == {p \in Buyable(question.broad) : p.number # "other"}
         IN /\ exact # {} =>
                 /\ answer.status = "priced"
                 /\ \A p \in exact : answer.offer.selected.price <= BoughtAt(p)
            /\ answer.asked = 2 /\ loose # {} =>
                 /\ answer.status = "review"
                 /\ \A p \in loose : answer.offer.plan.price <= BoughtAt(p)
            /\ answer.status = "not_found" =>
                 /\ \A p \in question.exact : p.number # "same" \/ ~p.maker \/ p.kit
                 /\ \A p \in question.broad : p.number = "other" \/ ~p.maker \/ p.kit
    /\ question.provider = "digikey" /\ answer.offer # Nil =>
         \A i \in DOMAIN question.options :
           LET o == question.options[i]
           IN Complete(o) /\ (\A sku \in Skus(o) :
                                /\ sku \in DOMAIN question.reported
                                /\ Bought(o, sku) <= question.reported[sku]) =>
                answer.offer.plan.verified /\ answer.offer.plan.price <= o.price
    /\ question.provider = "microchip" /\ answer.status = "not_found" =>
         \A i \in DOMAIN question.first : question.first[i].number # "same"
=============================================================================
