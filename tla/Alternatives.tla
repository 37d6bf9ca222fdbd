----------------------------- MODULE Alternatives -----------------------------
(***************************************************************************)
(* internal/alternatives/{load,evaluate}.go, internal/cli/alternatives.go: *)
(* which candidate, if any, the command recommends in place of a part.     *)
(*                                                                         *)
(* A part specification is a key (manufacturer and part number) and the    *)
(* fields it states. Values are numbers, compared after the normalisation  *)
(* the code applies to their text; qualifications are a set. What the      *)
(* providers answer (module Sourcing) is part of the question. One lookup  *)
(* per part, in order, is folded into the step: nothing else can change a  *)
(* result in between.                                                      *)
(***************************************************************************)
EXTENDS Integers, Sequences, FiniteSets, FiniteSetsExt, SequencesExt

CONSTANT Nil   \* no value

VARIABLES
  question,   \* the request, the flag, and what sourcing would answer
  answer      \* the envelope, or Nil

vars == <<question, answer>>

(* The statuses of procurement, in the order they rank.                    *)
Statuses ==
  <<"priced", "review", "shortage", "stock_unknown", "unavailable", "not_found",
    "provider_error">>

(* What a lookup ends with: sourcing.Multi leaves a plan selected exactly  *)
(* when it says "priced".                                                  *)
IsOutcome(s) ==
  /\ s # Nil
  /\ s.status \in {Statuses[i] : i \in DOMAIN Statuses}
  /\ (s.status = "priced") <=> (s.plan # Nil)
  /\ s.plan # Nil => s.plan.price \in Nat
  /\ s.stock \in Nat \cup {Nil}

(* A request, with an outcome for every candidate.                         *)
IsQuestion(q) ==
  /\ q.candidates \in Seq({q.candidates[i] : i \in DOMAIN q.candidates})
  /\ \A i \in DOMAIN q.candidates : q.candidates[i].key \in Int
  /\ DOMAIN q.sourcing = DOMAIN q.candidates
  /\ IsOutcome(q.originalSourcing) /\ \A i \in DOMAIN q.sourcing : IsOutcome(q.sourcing[i])
  /\ q.onlyIfShortage \in BOOLEAN

-----------------------------------------------------------------------------
(* Fields.                                                                 *)

Dimensions == {"length_mm", "width_mm", "height_mm"}

CommonFields == {"package", "temperature_min_c", "temperature_max_c"}

(* The fields compared for each kind, next to the common ones.             *)
KindFields(kind) ==
  CASE kind = "resistor"  -> {"resistance_ohms", "tolerance_percent", "power_watts",
                              "voltage_volts", "technology"}
    [] kind = "capacitor" -> {"capacitance_farads", "tolerance_percent", "voltage_volts",
                              "dielectric", "polarized"}
    [] kind = "inductor"  -> {"inductance_henries", "tolerance_percent",
                              "rated_current_amps", "saturation_current_amps",
                              "dc_resistance_ohms", "shielded"}
    [] OTHER -> {}

(* Compared only when the original states them.                            *)
OptionalFields(kind) ==
  Dimensions \cup {"qualifications"} \cup IF kind = "capacitor" THEN {"esr_ohms"} ELSE {}

RequiredFields(kind) == CommonFields \cup KindFields(kind)

(* The candidate may have less, or more, than the original.                *)
AtMost ==
  Dimensions \cup {"temperature_min_c", "tolerance_percent", "esr_ohms", "dc_resistance_ohms"}

AtLeast ==
  {"temperature_max_c", "power_watts", "voltage_volts", "rated_current_amps",
   "saturation_current_amps"}

Positive ==
  Dimensions \cup {"resistance_ohms", "capacitance_farads", "inductance_henries",
    "power_watts", "voltage_volts", "rated_current_amps", "saturation_current_amps"}

-----------------------------------------------------------------------------
(* alternatives.Load: the requests that are compared at all.               *)

Kinds == {"resistor", "capacitor", "inductor"}

MaxCandidates == 25

(* Fields of another kind are refused, and ranges and signs checked.       *)
ValidPart(part, kind) ==
  LET stated == DOMAIN part.fields
  IN /\ stated \subseteq RequiredFields(kind) \cup OptionalFields(kind)
     /\ \A f \in stated \cap Positive : part.fields[f] > 0
     /\ {"temperature_min_c", "temperature_max_c"} \subseteq stated =>
          part.fields["temperature_min_c"] <= part.fields["temperature_max_c"]

ValidRequest(q) ==
  LET keys == {q.candidates[i].key : i \in DOMAIN q.candidates}
  IN /\ q.kind \in Kinds
     /\ q.quantity >= 1
     /\ q.candidates # <<>> /\ Len(q.candidates) <= MaxCandidates
     /\ ValidPart(q.original, q.kind)
     /\ \A i \in DOMAIN q.candidates : ValidPart(q.candidates[i], q.kind)
     /\ RequiredFields(q.kind) \subseteq DOMAIN q.original.fields
     /\ q.original.key \notin keys
     /\ Cardinality(keys) = Len(q.candidates)

-----------------------------------------------------------------------------
(* Evaluate.                                                               *)

(* Fault: a field the candidate does not state is taken as met.            *)
RelationIgnoringUnknown(field, original, candidate) ==
  IF field \notin DOMAIN candidate THEN "equal"
  ELSE IF original[field] = candidate[field] THEN "equal"
  ELSE "worse"

CompareQualifications(required, available) ==
  IF ~(required \subseteq available) THEN "worse"
  ELSE IF Cardinality(available) > Cardinality(required) THEN "better" ELSE "equal"

(* A field either of the two does not state is unknown.                    *)
Relation(field, original, candidate) ==
  IF field \notin DOMAIN original \cap DOMAIN candidate THEN "unknown"
  ELSE LET o == original[field]
           c == candidate[field]
       IN IF field = "qualifications" THEN CompareQualifications(o, c)
          ELSE IF c = o THEN "equal"
          ELSE IF (field \in AtMost /\ c < o) \/ (field \in AtLeast /\ c > o) THEN "better"
          ELSE "worse"

(* An original without qualifications, or with none, requires none.        *)
ComparedFields(kind, original) ==
  RequiredFields(kind) \cup
    {f \in OptionalFields(kind) \cap DOMAIN original :
       f = "qualifications" => original[f] # {}}

Compatibility(kind, original, candidate) ==
  LET relations == {Relation(f, original, candidate) : f \in ComparedFields(kind, original)}
  IN IF "worse" \in relations THEN "incompatible"
     ELSE IF "unknown" \in relations THEN "unknown"
     ELSE "compatible"

-----------------------------------------------------------------------------
(* Sourcing: the outcome of a lookup; an error becomes provider_error.     *)

HasPlan(result) == result.sourcing # Nil /\ result.sourcing.plan # Nil

(* The results before ranking; the original is sourced first, and with the *)
(* flag its own safe plan makes the candidates unnecessary.                *)
OriginalSufficient(q) == q.onlyIfShortage /\ q.originalSourcing.status = "priced"

Evaluated(q) ==
  [i \in DOMAIN q.candidates |->
     LET compatibility ==
           Compatibility(q.kind, q.original.fields, q.candidates[i].fields)
     IN [key |-> q.candidates[i].key, compatibility |-> compatibility,
         sourcing |-> IF OriginalSufficient(q) \/ compatibility = "incompatible"
                        THEN Nil ELSE q.sourcing[i]]]

-----------------------------------------------------------------------------
(* Rank.                                                                   *)

CompatibilityRank(result) ==
  CASE result.compatibility = "compatible" -> 0
    [] result.compatibility = "unknown" -> 1
    [] OTHER -> 2

SourcingRank(result) ==
  IF result.sourcing = Nil THEN 9
  ELSE CHOOSE i \in DOMAIN Statuses : Statuses[i] = result.sourcing.status

AvailableStock(result) ==
  IF result.sourcing = Nil THEN -1
  ELSE IF result.sourcing.stock = Nil THEN -1 ELSE result.sourcing.stock

Precedes(a, b) ==
  \E i \in DOMAIN a : a[i] < b[i] /\ \A j \in 1 .. i - 1 : a[j] = b[j]

(* compareResults < 0. Prices count only between plans of one currency, so *)
(* the order need not be transitive when there are several.                *)
Less(left, right) ==
  LET comparable ==
        /\ HasPlan(left) /\ HasPlan(right)
        /\ left.sourcing.plan.currency = right.sourcing.plan.currency
      Criteria(r) ==
        <<CompatibilityRank(r), SourcingRank(r),
          IF comparable THEN r.sourcing.plan.price ELSE 0, -AvailableStock(r), r.key>>
  IN Precedes(Criteria(left), Criteria(right))

(* A result goes after the last that it is not less than.                  *)
Inserted(sorted, r) ==
  InsertAt(sorted, 1 + Max({0} \cup {j \in DOMAIN sorted : ~Less(r, sorted[j])}), r)

(* sort.SliceStable, which inserts up to twenty elements one by one. Of    *)
(* more it merges two blocks sorted so, with the same result but for the   *)
(* order of equal ranks in several currencies: of compatible results none  *)
(* is then recommended, and the order of the others is not looked at.      *)
Sorted(results) ==
  LET first[n \in 0 .. Len(results)] ==
        IF n = 0 THEN <<>> ELSE Inserted(first[n - 1], results[n])
  IN first[Len(results)]

(* The currencies of the plans of the compatible candidates.               *)
PlanCurrencies(results) ==
  {results[i].sourcing.plan.currency :
     i \in {j \in DOMAIN results :
              results[j].compatibility = "compatible" /\ HasPlan(results[j])}}

(* The position recommended, 0 when none is.                               *)
Recommended(results) ==
  LET safe == {i \in DOMAIN results :
                 /\ results[i].compatibility = "compatible"
                 /\ HasPlan(results[i])
                 /\ results[i].sourcing.status = "priced"}
  IN IF Cardinality(PlanCurrencies(results)) > 1 \/ safe = {} THEN 0 ELSE Min(safe)

-----------------------------------------------------------------------------
(* runAlternatives.                                                        *)

(* The lookups made, and how many of them failed.                          *)
Asked(q, results) == 1 + Cardinality({i \in DOMAIN results : results[i].sourcing # Nil})

Failed(q, results) ==
  (IF q.originalSourcing.status = "provider_error" THEN 1 ELSE 0)
    + Cardinality({i \in DOMAIN results :
                     /\ results[i].sourcing # Nil
                     /\ SourcingRank(results[i]) = Len(Statuses)})

(* Fault: one failed lookup is reported as a failed command.               *)
StatusOfAnyFailure(q, results) ==
  CASE OriginalSufficient(q) -> "not_needed"
    [] Failed(q, results) > 0 -> "failed"
    [] Recommended(results) # 0 -> "review_required"
    [] OTHER -> "incomplete"

Status(q, results) ==
  IF OriginalSufficient(q) THEN "not_needed"
  ELSE IF Failed(q, results) = Asked(q, results) THEN "failed"
  ELSE IF Recommended(results) # 0 THEN "review_required"
  ELSE "incomplete"

(* The envelope: the part number its message names is the first result's.  *)
Envelope(q) ==
  LET results == Sorted(Evaluated(q))
  IN [status |-> Status(q, results), results |-> results,
      recommended |-> Recommended(results), named |-> results[1].key,
      asked |-> Asked(q, results)]

Refusal == [status |-> "invalid", results |-> <<>>, recommended |-> 0, named |-> 0, asked |-> 0]

RunAlternatives ==
  answer' = IF ValidRequest(question) THEN Envelope(question) ELSE Refusal

Next == answer = Nil /\ RunAlternatives /\ UNCHANGED question

-----------------------------------------------------------------------------
(* Properties.                                                             *)

CandidateOf(key) ==
  question.candidates[CHOOSE i \in DOMAIN question.candidates :
                        question.candidates[i].key = key].fields

SourcingOf(key) ==
  question.sourcing[CHOOSE i \in DOMAIN question.candidates :
                      question.candidates[i].key = key]

(* Everything the original states is stated of the candidate and at least  *)
(* as good; what the code compares is not asked.                           *)
AsGood(candidate) ==
  LET original == question.original.fields
  IN \A f \in DOMAIN original :
       IF f = "qualifications"
         THEN original[f] = {} \/ (f \in DOMAIN candidate /\ original[f] \subseteq candidate[f])
         ELSE /\ f \in DOMAIN candidate
              /\ \/ candidate[f] = original[f]
                 \/ f \in AtMost /\ candidate[f] < original[f]
                 \/ f \in AtLeast /\ candidate[f] > original[f]

(* The keys of the candidates that could be recommended.                   *)
SafeKeys ==
  {k \in {question.candidates[i].key : i \in DOMAIN question.candidates} :
     AsGood(CandidateOf(k)) /\ SourcingOf(k).status = "priced"}

OneCurrency == \A k, l \in SafeKeys :
  SourcingOf(k).plan.currency = SourcingOf(l).plan.currency

(* What is recommended is at least as good as the original in everything   *)
(* the original states, has a safe plan, is the cheapest such candidate in *)
(* the one currency they share, and is the part the message names, through *)
(* a sort that mixes currencies, ranks and stock.                          *)
RecommendedIsSafeAndCheapest ==
  answer # Nil /\ answer.recommended # 0 =>
    LET key == answer.results[answer.recommended].key
    IN /\ key \in SafeKeys
       /\ OneCurrency
       /\ \A k \in SafeKeys : SourcingOf(key).plan.price <= SourcingOf(k).plan.price
       /\ answer.status # "failed"
       /\ answer.named = key

(* The command recommends nothing for a reason: the original's own plan    *)
(* was enough, no candidate is safe, or the safe ones have several         *)
(* currencies; it fails only if everything it asked for failed, and never  *)
(* for a part that was not asked for.                                      *)
SilenceHasAReason ==
  answer # Nil /\ answer.status # "invalid" =>
    /\ answer.recommended = 0 =>
         \/ SafeKeys = {}
         \/ ~OneCurrency
         \/ question.onlyIfShortage /\ question.originalSourcing.status = "priced"
    /\ answer.status = "review_required" <=> answer.recommended # 0
    /\ answer.status = "failed" <=>
         /\ question.originalSourcing.status = "provider_error"
         /\ \A i \in DOMAIN answer.results :
              answer.results[i].sourcing # Nil =>
                SourcingOf(answer.results[i].key).status = "provider_error"
=============================================================================
