----------------------------- MODULE Algorithms -----------------------------
(***************************************************************************)
(* The algorithms of the program that are functions of their inputs: one   *)
(* question, one step, one answer. The purchase optimizer has variables of *)
(* its own; the others share question and answer.                          *)
(***************************************************************************)
EXTENDS PurchaseOptimizer

CONSTANTS
  Nil,                     \* no value, not reported
  Bad,                     \* what does not parse
  Scale,                   \* money.Scale
  LookupQuestions,         \* what is asked of ProviderResolvers
  AlternativesQuestions,   \* of Alternatives
  MoneyQuestions,          \* of Money
  DemandsQuestions         \* of Demands

VARIABLES
  call,       \* which algorithm is asked
  question,
  answer

Resolvers == INSTANCE ProviderResolvers
Replacements == INSTANCE Alternatives
Prices == INSTANCE Money
Boms == INSTANCE Demands

(* Amounts are not negative: the table refuses to convert one that is.     *)
(* Rates are read without a sign, those that are zero too. A distributor   *)
(* answers what its adapter can read, and no value is an absent one.       *)
ASSUME AlgorithmsAssumption ==
  /\ Scale \in Nat \ {0}
  /\ \A q \in AlternativesQuestions : Replacements!IsQuestion(q)
  /\ \A q \in MoneyQuestions : Prices!IsQuestion(q)
  /\ \A q \in DemandsQuestions : Boms!IsQuestion(q)
  /\ \A q \in LookupQuestions : Resolvers!IsQuestion(q)
  /\ Nil \notin Resolvers!Plan /\ Nil \notin Resolvers!Offers /\ Nil \notin Resolvers!Product

Asked == <<call, question, answer>>

(* The optimizer's variables while another algorithm is asked.             *)
NoPurchase ==
  /\ required = 0
  /\ families = <<>>
  /\ preference = 0
  /\ result = [kind |-> "pending", plan |-> None]

Ask(name, questions) ==
  /\ call = name
  /\ question \in questions
  /\ answer = Nil
  /\ NoPurchase

AskAny ==
  \/ Ask("resolve", LookupQuestions)
  \/ Ask("replace", AlternativesQuestions)
  \/ Ask("money", MoneyQuestions)
  \/ Ask("aggregate", DemandsQuestions)
  \/ call = "purchase" /\ question = Nil /\ answer = Nil /\ Init

Answers ==
  \/ call = "purchase" /\ Next /\ UNCHANGED Asked
  \/ call = "resolve" /\ Resolvers!Next /\ UNCHANGED <<call, vars>>
  \/ call = "replace" /\ Replacements!Next /\ UNCHANGED <<call, vars>>
  \/ call = "money" /\ Prices!Next /\ UNCHANGED <<call, vars>>
  \/ call = "aggregate" /\ Boms!Next /\ UNCHANGED <<call, vars>>

Algorithms == AskAny /\ [][Answers]_<<vars, Asked>>

-----------------------------------------------------------------------------
(* The properties, each of the calls it is about.                          *)

(* See ProviderResolvers.                                                  *)
PricedOnlyWhenSafe        == call = "resolve" => Resolvers!PricedOnlyWhenSafe
UnknownIsNotShortage      == call = "resolve" => Resolvers!UnknownIsNotShortage
NothingBetterIsPassedOver == call = "resolve" => Resolvers!NothingBetterIsPassedOver

(* See Alternatives.                                                       *)
RecommendedIsSafeAndCheapest ==
  call = "replace" => Replacements!RecommendedIsSafeAndCheapest
SilenceHasAReason == call = "replace" => Replacements!SilenceHasAReason

(* See Money.                                                              *)
PriceIsNeverMisread == call = "money" => Prices!PriceIsNeverMisread
ConversionIsNearest == call = "money" => Prices!ConversionIsNearest

(* See Demands.                                                            *)
RequiredQuantityIsExact == call = "aggregate" => Boms!RequiredQuantityIsExact
=============================================================================
