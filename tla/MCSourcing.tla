----------------------------- MODULE MCSourcing -----------------------------
(* Small instances of Sourcing for TLC.                                    *)
EXTENDS Sourcing

CONSTANTS eur, usd, gbp, skuA, skuB

(* The provider that comes second in name order is asked first.            *)
Reversed == <<2, 1>>

SomeStatuses == Statuses \cup {"error", "backordered"}

TwoEach == [l \in 1 .. NumLines |-> 2]

(* Pounds are not quoted.                                                  *)
Quotes == [c \in {usd} |-> 2]

Plan(price, currency, verified, purchased) ==
  [price |-> price, currency |-> currency, verified |-> verified,
   purchased |-> purchased, surplus |-> purchased - 1]

OfferOf(p, sku, review, plan, candidate) ==
  [provider |-> p, sku |-> sku, review |-> review, plan |-> plan,
   candidate |-> candidate]

Good(p, price, currency, purchased) ==
  [status |-> "priced",
   offer |-> OfferOf(p, skuA, FALSE, Plan(price, currency, TRUE, purchased), None)]

ForReview(p, sku, candidate) ==
  [status |-> "review", offer |-> OfferOf(p, sku, TRUE, None, candidate)]

(* Answers that keep the adapters' contract: safe plans, offers to review  *)
(* with a sufficient, unverified, short or other candidate, other statuses. *)
Regular(p) ==
  {Good(p, 3, eur, 2), Good(p, 2, eur, 3), Good(p, 2, usd, 2), Good(p, 2, gbp, 2),
   ForReview(p, skuA, Plan(2, eur, TRUE, 2)),
   ForReview(p, skuA, Plan(2, eur, FALSE, 2)),
   ForReview(p, skuA, Plan(2, eur, TRUE, 1)),
   ForReview(p, skuB, Plan(2, eur, TRUE, 2)),
   [status |-> "shortage", offer |-> None],
   [status |-> "not_found", offer |-> None],
   Fault}

(* Answers that break it: a priced result that is not safe, a plan on a    *)
(* result that is not priced, a status nobody knows.                       *)
Irregular(p) ==
  {[status |-> "priced",
    offer |-> OfferOf(p, skuA, FALSE, Plan(1, eur, FALSE, 2), None)],
   [status |-> "review",
    offer |-> OfferOf(p, skuA, FALSE, Plan(1, eur, TRUE, 2), None)],
   [status |-> "backordered", offer |-> None]}

SomeAnswers == [p \in Provider |-> Regular(p) \cup Irregular(p)]

(* An approval of one SKU, and one of a part without an SKU.               *)
SomeApprovals ==
  {[provider |-> 1, sku |-> skuA], [provider |-> None, sku |-> None]}
=============================================================================
