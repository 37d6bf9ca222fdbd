---------------------------- MODULE MCAlgorithms ----------------------------
(* The questions put to the algorithms, next to the price lists of         *)
(* MCPurchaseOptimizer.                                                    *)
EXTENDS Algorithms, MCPurchaseOptimizer

-----------------------------------------------------------------------------
(* ProviderResolvers: a demand of 5, and what a distributor may answer.    *)

AnArticle(number, sku, stock, price, minimum) ==
  [number |-> number, maker |-> TRUE, kit |-> FALSE, sku |-> sku, stock |-> stock,
   price |-> price, minimum |-> minimum, retired |-> FALSE]

Ordinary == AnArticle("same", 1, 9, 3, 0)

(* Articles of every number, stock, price and minimum, and some that are   *)
(* not to be considered, at a price nobody else has.                       *)
Articles ==
  {AnArticle(number, 1, stock, price, minimum) :
     number \in {"same", "related"}, stock \in {Nil, 5, 9},
     price \in {Nil, Bad, 2, 3}, minimum \in {0, 7}}

Excluded ==
  {AnArticle("other", 1, 9, 1, 0),
   [AnArticle("same", 1, 9, 1, 0) EXCEPT !.maker = FALSE],
   [AnArticle("related", 1, 9, 1, 0) EXCEPT !.kit = TRUE],
   [AnArticle("same", 1, 9, 1, 0) EXCEPT !.kit = TRUE]}

Special ==
  {AnArticle("same", 0, 9, 1, 0), AnArticle("related", 0, 9, 1, 0), AnArticle("same", 1, 0, 1, 0)}
    \cup {[AnArticle("same", 1, stock, 1, 0) EXCEPT !.retired = TRUE] : stock \in {Nil, 0, 9}}

(* The second of two articles has a SKU of its own.                        *)
Second ==
  {[a EXCEPT !.sku = 2] : a \in {x \in Articles : x.number = "same" \/ x.minimum = 0}}

Found ==
  {{}} \cup {{a} : a \in Articles}
    \cup {{a, b} : a \in Articles \cup Excluded \cup Special, b \in Second}

Search(provider, fails, exact, broad) ==
  [provider |-> provider, required |-> 5, fails |-> fails, exact |-> exact, broad |-> broad]

Searches ==
  {Search(provider, 0, exact, {Ordinary}) :
     provider \in {"mouser", "farnell"}, exact \in Found}
    \cup
  {Search(provider, 0, exact, broad) :
     provider \in {"mouser", "farnell"}, exact \in {{}, Excluded}, broad \in Found}
    \cup
  {Search(provider, fails, exact, {Ordinary}) :
     provider \in {"mouser", "farnell"}, fails \in {1, 2}, exact \in {{}, {Ordinary}}}

(* Pricing options of one or two legs, of two SKUs or twice the same, some *)
(* with sums that do not agree, and each stock reported or not.            *)
QuotedLeg(sku, quantity, price) ==
  [sku |-> sku, quantity |-> quantity, price |-> price, minimum |-> 1]

Option(total, price, legs) == [total |-> total, price |-> price, legs |-> legs]

Options ==
  {Option(5, 9, <<QuotedLeg(1, 5, 9)>>), Option(6, 8, <<QuotedLeg(1, 4, 5), QuotedLeg(2, 2, 3)>>),
   Option(6, 7, <<QuotedLeg(1, 3, 4), QuotedLeg(1, 3, 3)>>), Option(8, 7, <<QuotedLeg(2, 8, 7)>>),
   Option(7, 7, <<QuotedLeg(1, 5, 7)>>), Option(5, 6, <<QuotedLeg(1, 5, 7)>>),
   Option(4, 3, <<QuotedLeg(1, 4, 3)>>), Option(5, 0, <<QuotedLeg(1, 5, 0)>>), Option(5, 4, <<>>)}

(* Three together: those that are not refused for their price alone.       *)
Three == {o \in Options : o.price \in 7 .. 9}

OptionLists ==
  {<<>>} \cup {<<o>> : o \in Options} \cup (Options \X Options) \cup (Three \X Three \X Three)

Reports ==
  UNION {[skus -> {0, 3, 5, 9}] : skus \in SUBSET {1, 2}}

Pricings ==
  {[provider |-> "digikey", required |-> 5, fails |-> "none", maker |-> TRUE,
    number |-> number, currency |-> TRUE, options |-> options, reported |-> reported] :
     number \in {"same", "related"}, options \in OptionLists, reported \in Reports}
    \cup
  {[provider |-> "digikey", required |-> 5, fails |-> fails, maker |-> maker,
    number |-> number, currency |-> currency, options |-> <<Option(5, 9, <<QuotedLeg(1, 5, 9)>>)>>,
    reported |-> [sku \in {1} |-> 9]] :
     fails \in {"none", "error", "not_found"}, maker \in BOOLEAN,
     number \in {"same", "other"}, currency \in BOOLEAN}

StoreAnswers ==
  [provider : {"ti"}, required : {5}, fails : {"none"}, maker : BOOLEAN,
   number : {"same", "related", "other"}, schedule : BOOLEAN,
   price : {Nil, Bad, 3}, stock : {Nil, 0, 5, 9}, limit : {Nil, 4, 5, 6, 9},
   minimum : {0, 7}, lifecycle : {"active", "retired"}]
    \cup
  [provider : {"ti"}, required : {5}, fails : {"error", "not_found"}, maker : {TRUE},
   number : {"same"}, schedule : {TRUE}, price : {3}, stock : {9}, limit : {9},
   minimum : {0}, lifecycle : {"active"}]

Product(number, ended, stock) == [number |-> number, ended |-> ended, stock |-> stock]

Products ==
  {Product("same", ended, stock) : ended \in BOOLEAN, stock \in {Nil, 0, 5}}
    \cup {Product("other", FALSE, 9)}

ProductLists == {<<>>} \cup {<<p>> : p \in Products} \cup (Products \X Products)

Evidences ==
  [provider : {"microchip"}, required : {5}, fails : {0, 1, 2}, maker : BOOLEAN,
   fallback : BOOLEAN, first : ProductLists,
   second : {<<>>} \cup {<<p>> : p \in Products}]

SomeLookupQuestions == Searches \cup Pricings \cup StoreAnswers \cup Evidences
-----------------------------------------------------------------------------
(* Alternatives: originals that state every field at 2, candidates that    *)
(* differ in up to two fields or leave them out.                           *)

FieldsOf(kind) ==
  {"package", "temperature_min_c", "temperature_max_c", "length_mm", "tolerance_percent"} \cup
    CASE kind = "resistor"  -> {"resistance_ohms", "power_watts", "voltage_volts", "technology"}
      [] kind = "capacitor" -> {"capacitance_farads", "voltage_volts", "dielectric",
                                "polarized", "esr_ohms"}
      [] kind = "inductor"  -> {"inductance_henries", "rated_current_amps",
                                "saturation_current_amps", "dc_resistance_ohms", "shielded"}

(* Every field at 2, but for those of "different", and without "missing".  *)
Stating(kind, different, missing) ==
  [f \in FieldsOf(kind) \ missing |-> IF f \in DOMAIN different THEN different[f] ELSE 2]

Qualified(fields, qualifications) ==
  [f \in DOMAIN fields \cup {"qualifications"} |->
     IF f = "qualifications" THEN qualifications ELSE fields[f]]

APart(key, fields) == [key |-> key, fields |-> fields]

(* What sourcing may answer.                                               *)
Sourced(status, plan, stock) == [status |-> status, plan |-> plan, stock |-> stock]

PricedAt(price, currency, stock) ==
  Sourced("priced", [price |-> price, currency |-> currency], stock)

Replacement(kind, original, candidates, flag, originalSourcing, sourcing) ==
  [kind |-> kind, quantity |-> 5, original |-> APart(0, original),
   candidates |-> candidates, onlyIfShortage |-> flag,
   originalSourcing |-> originalSourcing, sourcing |-> sourcing]

NoStock == Sourced("shortage", Nil, 0)

(* One candidate that can be bought, compared with the original: two       *)
(* fields that differ, or one and another left out.                        *)
Compared(kind, missing) ==
  {Replacement(kind, Stating(kind, <<>>, {}), <<APart(1, Stating(kind, different, missing))>>,
               FALSE, NoStock, <<PricedAt(3, 1, 9)>>) :
     different \in UNION {[fields -> {1, 3}] :
       fields \in {s \in SUBSET FieldsOf(kind) : Cardinality(s \cup missing) <= 2}}}

Comparisons ==
  UNION {UNION {Compared(kind, missing) : missing \in {{}} \cup {{f} : f \in FieldsOf(kind)}} :
         kind \in {"resistor", "capacitor", "inductor"}}
    \cup
  {Replacement("resistor", Qualified(Stating("resistor", <<>>, {"length_mm"}), asked),
               <<APart(1, candidate)>>, FALSE, NoStock, <<PricedAt(3, 1, 9)>>) :
     asked \in SUBSET {1, 2},
     candidate \in {Stating("resistor", <<>>, {})}
                     \cup {Qualified(Stating("resistor", <<>>, {}), q) : q \in SUBSET {1, 2}}}

(* Requests that are refused: a field of another kind, a zero, an original *)
(* that leaves a field out, a candidate that is the original.              *)
Mistakes ==
  {Replacement("inductor", Stating(kind, different, missing), <<APart(key, Stating("inductor", <<>>, {}))>>,
               FALSE, NoStock, <<PricedAt(3, 1, 9)>>) :
     kind \in {"inductor", "capacitor"}, key \in {0, 1},
     different \in {<<>>, [f \in {"length_mm"} |-> 0]}, missing \in {{}, {"shielded"}}}

(* Up to three candidates that meet the original, do not say, or do not.   *)
Meeting == <<Stating("resistor", <<>>, {}), Stating("resistor", <<>>, {"power_watts"}),
             Stating("resistor", [f \in {"power_watts"} |-> 1], {})>>

Outcomes ==
  {PricedAt(3, 1, 9), PricedAt(4, 1, 9), PricedAt(2, 2, 9), Sourced("review", Nil, 7),
   Sourced("stock_unknown", Nil, Nil), Sourced("provider_error", Nil, Nil)}

OriginalOutcomes == {NoStock, PricedAt(3, 1, 9), Sourced("provider_error", Nil, Nil)}

Rankings ==
  UNION {{Replacement("resistor", Stating("resistor", <<>>, {}),
            [i \in 1 .. n |-> APart(i, Meeting[classes[i]])], flag, original, outcomes) :
              classes \in [1 .. n -> 1 .. 3], flag \in BOOLEAN,
              original \in OriginalOutcomes, outcomes \in [1 .. n -> Outcomes]} :
         n \in {1, 2}}
    \cup
  {Replacement("resistor", Stating("resistor", <<>>, {}),
     [i \in 1 .. 3 |-> APart(i, Meeting[classes[i]])], FALSE, NoStock, outcomes) :
       classes \in [1 .. 3 -> 1 .. 2], outcomes \in [1 .. 3 -> Outcomes]}

SomeAlternativesQuestions == Comparisons \cup Mistakes \cup Rankings
-----------------------------------------------------------------------------
(* Money: texts of up to three runs of digits, values around the largest,  *)
(* and conversions between the base, two quoted currencies and another.    *)

Marks == {".", ",", "letter", "other"}

Texts ==
  UNION {[sign : {"none", "plus", "minus", "late"}, zero : {FALSE},
          runs : [1 .. n -> 0 .. 4], marks : [1 .. n - 1 -> Marks]] : n \in 1 .. 3}
    \cup
  [sign : {"none"}, zero : {FALSE}, runs : [1 .. 4 -> {1, 3}], marks : [1 .. 3 -> {".", ","}]]
    \cup
  UNION {[sign : {"none"}, zero : {TRUE}, runs : {<<1>> \o r : r \in [1 .. n -> 0 .. 4]},
          marks : [1 .. n -> Marks]] : n \in 1 .. 2}

Documents ==
  UNION {[base : {"EUR"}, dated : {TRUE}, rates : [quoted -> {1, 3, 4, 6}]] :
           quoted \in SUBSET {"USD", "GBP"}}
    \cup
  {[base |-> "EUR", dated |-> dated, rates |-> [c \in {"USD", "GBP"} |-> IF c = "USD" THEN rate ELSE 3]] :
     dated \in BOOLEAN, rate \in {Bad, 0, 5}}
    \cup
  {[base |-> "EUR", dated |-> TRUE, rates |-> [c \in {"USD", "EUR"} |-> 3]]}

SomeMoneyQuestions ==
  [kind : {"text"}, text : Texts]
    \cup
  [kind : {"scale"}, whole : 0 .. 30, fraction : 0 .. 3, roundUp : BOOLEAN]
    \cup
  [kind : {"convert"}, document : Documents, amount : {0, 1, 2, 3, 5, 6, 7, 90, 100},
   from : {"EUR", "USD", "GBP", "CHF"}, to : {"EUR", "USD", "GBP", "CHF"}]

-----------------------------------------------------------------------------
(* Demands: up to two sources of up to two designs of up to two lines.     *)

ALine(key, quantity, detail) == [key |-> key, quantity |-> quantity, detail |-> detail]

SomeLines ==
  {ALine(key, quantity, detail) : key \in {1, 2}, quantity \in {1, 4}, detail \in {Nil, 1, 2}}

WrongLines == {ALine(Nil, 1, Nil), ALine(1, 0, Nil), ALine(1, 19, Nil)}

SomeDesigns == {<<>>} \cup {<<l>> : l \in SomeLines \cup WrongLines}

ASource(stdin, document) == [stdin |-> stdin, document |-> document]

SourceLists ==
  {<<>>} \cup {<<ASource(FALSE, document)>> : document \in
      {Bad, <<>>} \cup {<<d>> : d \in SomeDesigns \cup (SomeLines \X SomeLines)}
        \cup (SomeDesigns \X SomeDesigns)}
    \cup
  {<<ASource(first, <<<<ALine(2, 4, 1)>>>>), ASource(second, document)>> :
     first \in BOOLEAN, second \in BOOLEAN,
     document \in {Bad, <<>>} \cup {<<d>> : d \in SomeLines \X SomeLines}}

SomeDemandsQuestions ==
  [sources : SourceLists, units : {0, 1, 2, 3}, attrition : {-1, 0, 1, 2, 4, 5}]
=============================================================================
