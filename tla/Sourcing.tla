------------------------------ MODULE Sourcing ------------------------------
(***************************************************************************)
(* internal/sourcing: one pricing run. The lines of the BOM are sourced    *)
(* one after the other. For each, the resolution in force is read from the *)
(* store (ResolutionsStore.tla: other processes change it meanwhile, so    *)
(* any approval may be found), every selected provider is asked in turn,   *)
(* the answers are reduced to one part, and the part is added to the       *)
(* summary. When the lines are done the run decides whether it may print a *)
(* total, and its status.                                                  *)
(*                                                                         *)
(* Currencies are converted by an integer rate; the rounding of            *)
(* fx.Table.Convert is not modelled here. Offers carry what the choice     *)
(* between them depends on.                                                *)
(***************************************************************************)
EXTENDS Naturals, Sequences, FiniteSetsExt

CONSTANTS
  NumLines,   \* lines of the BOM
  Provider,   \* providers, as numbers in the order of their names
  Currency,   \* currency codes of plans and quotes
  Sku,        \* distributor part numbers
  Status,     \* statuses of results: the known ones, and any other string
  Order,      \* the sequence in which the run asks them
  Required,   \* Required[l]: the quantity line l needs
  Answers,    \* Answers[p]: what provider p may answer (results, or Fault)
  Approvals,  \* resolutions that may be in force for a line
  Targets,    \* what --currency may be: currencies, or None
  Rate,       \* Rate[c]: units of target for one unit of c; a partial function
  MaxMoney,   \* the largest amount money.Decimal holds
  None

(* Of a plan, an offer and a result, what the choice between them and the  *)
(* total depend on. An offer carries the plan selected for the purchase,   *)
(* and, for review, the candidate that an approval would select.           *)
PurchasePlan == [price : Nat, currency : Currency, verified : BOOLEAN,
                 purchased : Nat, surplus : Nat]

Offer == [provider : Provider, sku : Sku, review : BOOLEAN,
          plan : PurchasePlan \cup {None}, candidate : PurchasePlan \cup {None}]

Answer == [status : Status, offer : Offer \cup {None}]

Statuses == {"priced", "shortage", "stock_unknown", "unavailable", "review",
             "not_found", "not_applicable", "provider_error"}

(* A design without parts is refused before it is priced; adapters and the *)
(* optimizer keep malformed currencies out; and rates are positive.        *)
ASSUME SourcingAssumption ==
  /\ NumLines \in Nat \ {0}
  /\ Provider \subseteq Nat
  /\ Order \in Seq(Provider) \ {<<>>}
  /\ \A i, j \in DOMAIN Order : Order[i] = Order[j] => i = j
  /\ Required \in [1 .. NumLines -> Nat \ {0}]
  /\ Statuses \cup {"error"} \subseteq Status
  /\ \A p \in Provider : Answers[p] \subseteq Answer
  /\ Approvals \subseteq [provider : Provider \cup {None}, sku : Sku \cup {None}]
  /\ Targets \subseteq Currency \cup {None}
  /\ \A c \in DOMAIN Rate : Rate[c] \in Nat \ {0}
  /\ MaxMoney \in Nat
  /\ None \notin Nat \cup Currency \cup Sku \cup PurchasePlan \cup Offer \cup Approvals

Line == 1 .. NumLines

(* A provider's resolver returned an error.                                *)
Fault == [status |-> "error", offer |-> None]

NoPart == [status |-> "none", offer |-> None, offers |-> <<>>,
           resolution |-> None, lifted |-> FALSE, heard |-> <<>>]

NoSummary == [priced |-> 0, shortage |-> 0, review |-> 0, notFound |-> 0,
              notApplicable |-> 0, errors |-> 0]

VARIABLES
  target,     \* the currency of --currency, or None
  pc,         \* "resolve", "ask" or "done"
  applied,    \* the resolution read for the current line, or None
  heard,      \* the answers to the current line, in Order
  parts,      \* the sourced parts so far
  summary,    \* the counts of PricingSummary
  sum,        \* the running total, its currency, and what spoils it
  outcome     \* status, total and currency of the finished run

vars == <<target, pc, applied, heard, parts, summary, sum, outcome>>

NoOutcome == [status |-> "running", total |-> None, currency |-> None]

Init ==
  /\ target \in Targets
  /\ pc = "resolve"
  /\ applied = None
  /\ heard = <<>>
  /\ parts = <<>>
  /\ summary = NoSummary
  /\ sum = [total |-> 0, currency |-> None, mixed |-> FALSE, unquoted |-> FALSE]
  /\ outcome = NoOutcome

Current == Len(parts) + 1

-----------------------------------------------------------------------------
(* MultiResolver.Lookup: one part out of the answers of all providers.     *)

(* A plan that may be bought without anybody looking at it.                *)
SafeOffer(offer, required) ==
  /\ offer # None
  /\ ~offer.review
  /\ offer.plan # None
  /\ offer.plan.verified
  /\ offer.plan.purchased >= required

Unsafe(r, required) == r.status = "priced" /\ ~SafeOffer(r.offer, required)

(* Answers that are errors, or break the contract of a priced result.      *)
Degraded(h, required) ==
  {i \in DOMAIN h : h[i] = Fault \/ Unsafe(h[i], required)}

Safe(h, required) ==
  {i \in DOMAIN h \ Degraded(h, required) : h[i].status = "priced"}

Fallbacks(h, required) ==
  {i \in DOMAIN h \ Degraded(h, required) : h[i].status # "priced"}

Quoted(c) == target # None /\ (c = target \/ c \in DOMAIN Rate)

Converted(price, c) == IF c = target THEN price ELSE price * Rate[c]

Convertible(price, c) == Quoted(c) /\ Converted(price, c) <= MaxMoney

PlanOf(h, i) == h[i].offer.plan

OneCurrency(h, S) == \A i, j \in S : PlanOf(h, i).currency = PlanOf(h, j).currency

Comparable(h, S) ==
  \/ OneCurrency(h, S)
  \/ \A i \in S : Convertible(PlanOf(h, i).price, PlanOf(h, i).currency)

(* Fault: prices of different currencies are compared as numbers.          *)
ValueUnconverted(h, S, i) == PlanOf(h, i).price

(* What comparablePlans ranks by: the price itself when all plans share a  *)
(* currency, its value in the target currency otherwise.                   *)
Value(h, S, i) ==
  IF OneCurrency(h, S) THEN PlanOf(h, i).price
                       ELSE Converted(PlanOf(h, i).price, PlanOf(h, i).currency)

(* Cheapest, then least surplus, then the provider's name.                 *)
RanksBefore(h, S, i, j) ==
  \/ Value(h, S, i) < Value(h, S, j)
  \/ /\ Value(h, S, i) = Value(h, S, j)
     /\ \/ PlanOf(h, i).surplus < PlanOf(h, j).surplus
        \/ /\ PlanOf(h, i).surplus = PlanOf(h, j).surplus
           /\ Order[i] < Order[j]

Best(h, S) == CHOOSE i \in S : \A j \in S \ {i} : RanksBefore(h, S, i, j)

FallbackRank(status) ==
  CASE status = "review" -> 0
    [] status = "shortage" -> 1
    [] status = "stock_unknown" -> 2
    [] status = "unavailable" -> 3
    [] status = "not_found" -> 4
    [] status = "not_applicable" -> 5
    [] OTHER -> 6

(* The most telling failure; among equals the provider asked first.        *)
MostTelling(h, S) ==
  CHOOSE i \in S : \A j \in S \ {i} :
    \/ FallbackRank(h[i].status) < FallbackRank(h[j].status)
    \/ FallbackRank(h[i].status) = FallbackRank(h[j].status) /\ i < j

WithoutPlan(offer) == IF offer = None THEN None ELSE [offer EXCEPT !.plan = None]

(* The offers of the answers that count, all without a plan but `winner`s. *)
OffersOf(h, required, winner) ==
  [i \in DOMAIN h |->
     IF i \in Degraded(h, required) THEN None
     ELSE IF i = winner THEN h[i].offer ELSE WithoutPlan(h[i].offer)]

MultiPart(h, required) ==
  LET safe == Safe(h, required)
      fallbacks == Fallbacks(h, required)
      Part(status, offer, winner) ==
        [NoPart EXCEPT !.status = status, !.offer = offer, !.heard = h,
                       !.offers = OffersOf(h, required, winner)]
  IN CASE safe # {} /\ Comparable(h, safe) ->
            LET best == Best(h, safe) IN Part("priced", h[best].offer, best)
       [] safe # {} /\ ~Comparable(h, safe) -> Part("unavailable", None, 0)
       [] safe = {} /\ fallbacks # {} ->
            LET told == MostTelling(h, fallbacks)
            IN Part(h[told].status, WithoutPlan(h[told].offer), 0)
       [] OTHER -> Part("provider_error", None, 0)

-----------------------------------------------------------------------------
(* ResolutionAwareResolver.Lookup: the resolution is attached to the part, *)
(* and a review that the approval has settled is lifted.                   *)

(* Fault: any SKU of the approved provider counts as approved.             *)
IsPinnedToProvider(offer, approval) ==
  offer # None /\ offer.review /\ offer.provider = approval.provider

(* The offer of the very SKU that was approved.                            *)
IsPinned(offer, approval) ==
  /\ offer # None
  /\ offer.review
  /\ offer.provider = approval.provider
  /\ offer.sku = approval.sku

Covers(plan, required) ==
  plan # None /\ plan.verified /\ plan.purchased >= required

Pinned(part, approval) ==
  {i \in DOMAIN part.offers : IsPinned(part.offers[i], approval)}

MayLift(part, approval, required) ==
  /\ approval # None
  /\ approval.provider # None
  /\ approval.sku # None
  /\ part.status = "review"
  /\ part.offer = None \/ part.offer.plan = None \/ part.offer.review
  /\ Pinned(part, approval) # {}
  /\ Covers(part.offers[Min(Pinned(part, approval))].candidate, required)

LiftPinnedReview(part, approval, required) ==
  IF MayLift(part, approval, required)
    THEN LET i == Min(Pinned(part, approval))
             offer == [part.offers[i] EXCEPT !.review = FALSE,
                                             !.plan = part.offers[i].candidate]
         IN [part EXCEPT !.status = "priced", !.offer = offer,
                         !.offers[i] = offer, !.lifted = TRUE]
    ELSE part

(* When every provider failed the error is passed on, without resolution.  *)
ResolvedPart(h, approval, required) ==
  IF Degraded(h, required) = DOMAIN h
    THEN MultiPart(h, required)
    ELSE LiftPinnedReview([MultiPart(h, required) EXCEPT !.resolution = approval],
                          approval, required)

-----------------------------------------------------------------------------
(* SourceWithFX: the loop over the lines.                                  *)

Counter(status) ==
  CASE status = "priced" -> "priced"
    [] status \in {"shortage", "stock_unknown", "unavailable"} -> "shortage"
    [] status = "review" -> "review"
    [] status = "not_found" -> "notFound"
    [] status = "not_applicable" -> "notApplicable"
    [] OTHER -> "errors"

(* A priced part without a safe plan, and a status nobody knows, are       *)
(* errors of the contract: the part is reported as provider_error.         *)
Checked(part, required) ==
  IF Counter(part.status) = "errors" \/ Unsafe(part, required)
    THEN [part EXCEPT !.status = "provider_error"] ELSE part

(* Fault: the currency is taken for granted.                               *)
AccountedAnyCurrency(s, plan) ==
  IF s.total + plan.price > MaxMoney
    THEN [sum |-> [s EXCEPT !.total = 0], spoiled |-> 1]
    ELSE [sum |-> [s EXCEPT !.total = @ + plan.price, !.currency = plan.currency],
          spoiled |-> 0]

(* What a priced line does to the running total. `spoiled` counts the      *)
(* amounts that could not be added, each one a provider error more.        *)
Accounted(s, plan) ==
  LET price == IF target = None THEN plan.price
                                ELSE Converted(plan.price, plan.currency)
      unquoted == target # None /\ ~Convertible(plan.price, plan.currency)
      overflow == ~unquoted /\ s.total + price > MaxMoney
  IN [sum |-> [total |-> IF unquoted THEN s.total
                         ELSE IF overflow THEN 0 ELSE s.total + price,
               currency |-> IF target = None /\ s.currency = None
                              THEN plan.currency ELSE s.currency,
               mixed |-> s.mixed \/ (/\ target = None
                                     /\ s.currency \notin {None, plan.currency}),
               unquoted |-> s.unquoted \/ unquoted],
      spoiled |-> IF unquoted \/ overflow THEN 1 ELSE 0]

Account(part) ==
  LET checked == Checked(part, Required[Current])
      counted == [summary EXCEPT ![Counter(checked.status)] = @ + 1]
  IN /\ parts' = Append(parts, checked)
     /\ IF checked.status = "priced"
          THEN LET added == Accounted(sum, checked.offer.plan)
               IN /\ sum' = added.sum
                  /\ summary' = [counted EXCEPT !.errors = @ + added.spoiled]
          ELSE UNCHANGED sum /\ summary' = counted
     /\ pc' = "resolve"
     /\ applied' = None
     /\ heard' = <<>>
     /\ UNCHANGED <<target, outcome>>

(* ActiveResolution answers: the providers will be asked for the approved  *)
(* replacement, or for the part itself.                                    *)
ReadResolution ==
  /\ pc = "resolve"
  /\ Current \in Line
  /\ applied' \in Approvals \cup {None}
  /\ pc' = "ask"
  /\ UNCHANGED <<target, heard, parts, summary, sum, outcome>>

(* The store cannot be read: the line fails, no provider is asked.         *)
StoreFails ==
  /\ pc = "resolve"
  /\ Current \in Line
  /\ Account([NoPart EXCEPT !.status = "provider_error"])

(* The next provider answers, or fails.                                    *)
Ask ==
  /\ pc = "ask"
  /\ Len(heard) < Len(Order)
  /\ \E r \in Answers[Order[Len(heard) + 1]] : heard' = Append(heard, r)
  /\ UNCHANGED <<target, pc, applied, parts, summary, sum, outcome>>

Choose ==
  /\ pc = "ask"
  /\ Len(heard) = Len(Order)
  /\ Account(ResolvedPart(heard, applied, Required[Current]))

(* The end of SourceWithFX: whether there is a total, and the status.      *)
Finish ==
  LET mixed == target = None /\ sum.mixed
      errors == summary.errors + (IF mixed THEN 1 ELSE 0)
      totalled == /\ ~mixed
                  /\ ~sum.unquoted
                  /\ summary.priced > 0
                  /\ summary.errors = 0
  IN /\ pc = "resolve"
     /\ Current \notin Line
     /\ pc' = "done"
     /\ summary' = [summary EXCEPT !.errors = errors]
     /\ outcome' =
          [status |-> IF errors > 0
                        THEN IF summary.priced > 0 THEN "partial" ELSE "failed"
                        ELSE IF summary.priced # NumLines THEN "incomplete"
                             ELSE "complete",
           total |-> IF totalled THEN sum.total ELSE None,
           currency |-> IF ~totalled THEN None
                        ELSE IF target # None THEN target ELSE sum.currency]
     /\ UNCHANGED <<target, applied, heard, parts, sum>>

Next ==
  \/ ReadResolution
  \/ StoreFails
  \/ Ask
  \/ Choose
  \/ Finish

Spec == Init /\ [][Next]_vars

-----------------------------------------------------------------------------
(* Properties.                                                             *)

Priced == {n \in DOMAIN parts : parts[n].status = "priced"}

(* Readers of the offers take any selected plan for the purchase: a priced *)
(* part has exactly one, in the offer it selects, any other part none,     *)
(* whatever the adapters attached (the comment in MultiResolver.Lookup).   *)
OnlyTheChosenPlanIsSelected ==
  \A n \in DOMAIN parts :
    LET part == parts[n]
        selecting == {i \in DOMAIN part.offers :
                        part.offers[i] # None /\ part.offers[i].plan # None}
    IN IF n \in Priced
         THEN \E i \in selecting : selecting = {i} /\ part.offers[i] = part.offer
         ELSE selecting = {} /\ (part.offer = None \/ part.offer.plan = None)

(* A part is reported as priced only on a plan that can be bought: stock   *)
(* verified, enough of it, and engineering review not required, or settled *)
(* by an approval of that provider's very SKU; and no reader finds another *)
(* plan selected.                                                          *)
PricedPartsAreSafe ==
  /\ OnlyTheChosenPlanIsSelected
  /\ \A n \in Priced :
       LET part == parts[n]
       IN /\ SafeOffer(part.offer, Required[n])
          /\ \E i \in DOMAIN part.heard :
               \/ part.heard[i] = [status |-> "priced", offer |-> part.offer]
               \/ /\ part.lifted
                  /\ part.resolution # None
                  /\ part.heard[i].offer # None
                  /\ part.heard[i].offer.provider = part.resolution.provider
                  /\ part.heard[i].offer.sku = part.resolution.sku
                  /\ part.heard[i].offer.candidate = part.offer.plan

NotDearer(a, b) ==
  IF a.currency = b.currency
    THEN a.price <= b.price
    ELSE /\ Quoted(a.currency) /\ Quoted(b.currency)
         /\ Converted(a.price, a.currency) <= Converted(b.price, b.currency)

(* No provider asked for the line offered a safe plan that is provably     *)
(* cheaper, or that cannot be compared with the chosen one: no quote, no   *)
(* choice (comparablePlans: "could quietly pick a worse plan").            *)
ChosenPlanIsCheapest ==
  \A n \in Priced :
    LET part == parts[n]
    IN ~part.lifted =>
         \A i \in DOMAIN part.heard :
           part.heard[i].status = "priced" /\ SafeOffer(part.heard[i].offer, Required[n])
             => NotDearer(part.offer.plan, part.heard[i].offer.plan)

InTotal(n) ==
  LET plan == parts[n].offer.plan
  IN IF target = None THEN plan.price ELSE Converted(plan.price, plan.currency)

(* The sum of what the priced ones of the first n lines cost.              *)
SumOfPriced[n \in Nat] ==
  IF n = 0 THEN 0
           ELSE SumOfPriced[n - 1] + (IF n \in Priced THEN InTotal(n) ELSE 0)

(* A total is printed only when it is the sum over all the priced lines,   *)
(* in one currency, and nothing failed: never a sum of some of them.       *)
TotalIsSumOfPricedLines ==
  outcome.total # None =>
    /\ \A n \in DOMAIN parts : parts[n].status # "provider_error"
    /\ \A n \in Priced :
         LET c == parts[n].offer.plan.currency
         IN IF target = None THEN c = outcome.currency ELSE Quoted(c)
    /\ outcome.total = SumOfPriced[NumLines]

(* The status tells the caller what it may rely on: complete means that    *)
(* every line is priced and totalled; incomplete, that no line failed and  *)
(* at least one is unresolved; anything that failed has no total.          *)
StatusTellsTheOutcome ==
  pc = "done" =>
    LET failed == \E n \in DOMAIN parts : parts[n].status = "provider_error"
        allPriced == Priced = Line
    IN /\ outcome.status = "complete" => allPriced /\ outcome.total # None
       /\ outcome.status = "incomplete" => ~failed /\ ~allPriced
       /\ failed => outcome.status \in {"failed", "partial"}
       /\ outcome.status \in {"failed", "partial"} => outcome.total = None

(* A caller may rely on the total and the status, whatever failed or       *)
(* overflowed in any of the lines.                                         *)
ResultAddsUp == TotalIsSumOfPricedLines /\ StatusTellsTheOutcome

(* The comment in SourceWithFX and TestSourceCountsUnknownStatus...: the   *)
(* counts of the summary add up to the line count. (A line that is priced  *)
(* but cannot be converted or added counts as priced and as an error.)     *)
CountsAddUpToLineCount ==
  pc = "done" =>
    summary.priced + summary.shortage + summary.review + summary.notFound
      + summary.notApplicable + summary.errors = NumLines
=============================================================================
