------------------------------- MODULE Demands -------------------------------
(***************************************************************************)
(* internal/design/load.go and internal/bom/aggregate.go: from the design  *)
(* documents of a command to the demands it sources.                       *)
(*                                                                         *)
(* A source is a readable document or Bad (not there, too large, not       *)
(* JSON, of another shape, trailing text); a document is a sequence of     *)
(* designs, a design one of parts. A part is its key (manufacturer and     *)
(* number without case and blanks), its quantity, and one field, "detail", *)
(* for the description, package and pins the lines may disagree on.        *)
(* MaxInt is the largest int, Scale the attrition that doubles a quantity. *)
(***************************************************************************)
EXTENDS Integers, Sequences, FiniteSets, Functions, SequencesExt

CONSTANTS
  Nil,
  Bad,
  Scale,    \* money.Scale
  MaxInt    \* math.MaxInt

VARIABLES question, answer

vars == <<question, answer>>

(* A line's part; Nil is what its document does not state.                *)
Part == [key : Int \cup {Nil}, quantity : Int, detail : Int \cup {Nil}]

(* Every source is a document that reads, or not.                          *)
IsQuestion(q) ==
  /\ q.sources \in Seq([stdin : BOOLEAN, document : Seq(Seq(Part)) \cup {Bad}])
  /\ q.units \in Int /\ q.attrition \in Int

-----------------------------------------------------------------------------
(* design.LoadSources.                                                     *)

(* "-" at most once, every source readable and with at least one design.   *)
Readable(sources) ==
  /\ sources # <<>>
  /\ \A i, j \in DOMAIN sources : sources[i].stdin /\ sources[j].stdin => i = j
  /\ \A i \in DOMAIN sources : sources[i].document \notin {Bad, <<>>}

ValidDesign(parts) ==
  /\ parts # <<>>
  /\ \A i \in DOMAIN parts : parts[i].key # Nil /\ parts[i].quantity >= 1

DesignsOf(sources) == FlattenSeq([i \in DOMAIN sources |-> sources[i].document])

Loads(sources) ==
  Readable(sources) /\ \A i \in DOMAIN DesignsOf(sources) : ValidDesign(DesignsOf(sources)[i])

-----------------------------------------------------------------------------
(* bom.Aggregate.                                                          *)

(* One line of a part, met after "demand" has been built of the others.    *)
Merged(demand, part) ==
  [demand EXCEPT
     !.quantity = @ + part.quantity,
     !.detail = IF @ = Nil THEN part.detail ELSE @,
     !.warnings = @ + IF Nil \notin {part.detail, demand.detail} /\ part.detail # demand.detail
                        THEN 1 ELSE 0]

Lines(sources) == FlattenSeq(DesignsOf(sources))

(* Fault: a line of a part that is there already replaces it.              *)
DemandOfLast(lines, key) ==
  LET i == CHOOSE n \in DOMAIN lines :
             lines[n].key = key /\ \A m \in n + 1 .. Len(lines) : lines[m].key # key
  IN [key |-> key, quantity |-> lines[i].quantity, detail |-> lines[i].detail, warnings |-> 0]

DemandOf(lines, key) ==
  LET after[n \in 0 .. Len(lines)] ==
        IF n = 0 THEN [key |-> key, quantity |-> 0, detail |-> Nil, warnings |-> 0]
        ELSE IF lines[n].key = key THEN Merged(after[n - 1], lines[n])
        ELSE after[n - 1]
  IN after[Len(lines)]

(* scaledQuantity: Nil where an intermediate value would not fit.          *)
Scaled(perUnit, units, attrition) ==
  LET base  == perUnit * units
      extra == (base * attrition + Scale - 1) \div Scale
  IN IF perUnit > MaxInt \div units THEN Nil
     ELSE IF base = 0 \/ attrition = 0 THEN base
     ELSE IF base > MaxInt \div attrition THEN Nil
     ELSE IF base * attrition > MaxInt - (Scale - 1) THEN Nil
     ELSE IF extra > MaxInt - base THEN Nil
     ELSE base + extra

Refusal == [kind |-> "error", demands |-> <<>>]

(* The keys in their order.                                                *)
Ascending(keys) ==
  CHOOSE s \in [1 .. Cardinality(keys) -> keys] :
    Range(s) = keys /\ \A i, j \in DOMAIN s : i < j => s[i] < s[j]

(* The demands in the order of their keys.                                 *)
Aggregate ==
  LET lines == Lines(question.sources)
      keys  == {lines[i].key : i \in DOMAIN lines}
      Required(d) == Scaled(d.quantity, question.units, question.attrition)
      Reported(d) == [key |-> d.key, perUnit |-> d.quantity, required |-> Required(d),
                      detail |-> d.detail, warnings |-> d.warnings]
      refused ==
        \/ question.units < 1
        \/ question.attrition \notin 0 .. Scale
        \/ \E k \in keys : \/ DemandOf(lines, k).quantity > MaxInt
                           \/ Required(DemandOf(lines, k)) = Nil
  IN IF refused THEN Refusal
     ELSE [kind |-> "demands",
           demands |-> [i \in 1 .. Cardinality(keys) |->
                          Reported(DemandOf(lines, Ascending(keys)[i]))]]

LoadAndAggregate == answer' = IF Loads(question.sources) THEN Aggregate ELSE Refusal

Next == answer = Nil /\ LoadAndAggregate /\ UNCHANGED question

-----------------------------------------------------------------------------
(* Properties.                                                             *)

AllLines == Lines(question.sources)

LinesOf(key) == {i \in DOMAIN AllLines : AllLines[i].key = key}

Listed(key) ==
  SumFunctionOnSet([i \in DOMAIN AllLines |-> AllLines[i].quantity], LinesOf(key))

(* The least whole quantity that covers the units and the attrition.       *)
IsLeastCover(n, exact) == Scale * n >= exact /\ Scale * (n - 1) < exact

(* Every part of every line of every document becomes one demand, of the   *)
(* quantities of all its lines, in order of the keys; what is required is  *)
(* the least quantity that covers the units and the attrition, never one   *)
(* short of it and never wrapped around; and a disagreement between lines  *)
(* about a part is warned of, never dropped silently.                      *)
RequiredQuantityIsExact ==
  answer # Nil /\ answer.kind = "demands" =>
    /\ {answer.demands[i].key : i \in DOMAIN answer.demands}
         = {AllLines[i].key : i \in DOMAIN AllLines}
    /\ \A i \in DOMAIN answer.demands :
         LET d == answer.demands[i]
             details == {AllLines[l].detail : l \in LinesOf(d.key)} \ {Nil}
         IN /\ d.perUnit = Listed(d.key)
            /\ d.required \in 1 .. MaxInt
            /\ IsLeastCover(d.required,
                            d.perUnit * question.units * (Scale + question.attrition))
            /\ d.warnings > 0 <=> Cardinality(details) > 1
            /\ d.detail \in IF details = {} THEN {Nil} ELSE details
            /\ \A j \in 1 .. i - 1 : answer.demands[j].key < d.key
=============================================================================
