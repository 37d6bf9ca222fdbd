-------------------------------- MODULE Money --------------------------------
(***************************************************************************)
(* internal/money/decimal.go and internal/fx: reading a price text, its    *)
(* scaled value, and conversion between quoted currencies.                 *)
(*                                                                         *)
(* A price text is the lengths of its runs of digits and what stands       *)
(* between them; its reading is the number of digits after the decimal     *)
(* point. Amounts and rates are numbers of the smallest unit, Scale of     *)
(* them to one; MaxMoney is the largest a Decimal holds, past which it     *)
(* turns negative.                                                         *)
(***************************************************************************)
EXTENDS Integers, Sequences, FiniteSets, FiniteSetsExt

CONSTANTS
  Nil,
  Bad,       \* a rate that does not parse
  Scale,     \* money.Scale
  MaxMoney   \* math.MaxInt64

VARIABLES question, answer

vars == <<question, answer>>

Value(v) == [ok |-> TRUE, value |-> v]

Error == [ok |-> FALSE, value |-> 0]

(* A text has a run of digits more than it has marks; a conversion is of   *)
(* an amount that is not negative, by rates that are read without a sign.  *)
IsQuestion(q) ==
  CASE q.kind = "text" ->
         /\ q.text.runs \in Seq(Nat) /\ q.text.runs # <<>>
         /\ q.text.marks = [i \in 1 .. Len(q.text.runs) - 1 |-> q.text.marks[i]]
    [] q.kind = "scale" -> q.whole \in Nat /\ q.fraction \in Nat /\ q.roundUp \in BOOLEAN
    [] q.kind = "convert" ->
         /\ q.amount \in Nat
         /\ \A c \in DOMAIN q.document.rates : q.document.rates[c] \in Nat \cup {Bad}
    [] OTHER -> FALSE

-----------------------------------------------------------------------------
(* normalize.                                                              *)

(* The digits of the runs from one position to another.                    *)
DigitsIn(text, from, to) ==
  FoldSet(LAMBDA i, n : n + text.runs[i], 0, from .. to)

Digits(text) == DigitsIn(text, 1, Len(text.runs))

MarksOf(text, kind) == {i \in DOMAIN text.marks : text.marks[i] = kind}

(* Letters between digits.                                                 *)
MixesTextAndDigits(text) ==
  \E i \in MarksOf(text, "letter") :
    DigitsIn(text, 1, i) > 0 /\ DigitsIn(text, i + 1, Len(text.runs)) > 0

Fraction(text, separator) == DigitsIn(text, separator + 1, Len(text.runs))

(* Fault: a lone comma is always a decimal separator.                      *)
NeverAmbiguous(text, comma) == FALSE

(* A lone comma before three digits, unless nothing or one 0 precedes it.  *)
Ambiguous(text, comma) ==
  /\ Fraction(text, comma) = 3
  /\ DigitsIn(text, 1, comma) > 0
  /\ ~(text.zero /\ DigitsIn(text, 1, comma) = 1)

(* With both separators the last is the decimal one; signs other than a    *)
(* leading plus, and several separators of one kind, are refused. Every    *)
(* other character is skipped.                                             *)
Normalize(text) ==
  LET dots   == MarksOf(text, ".")
      commas == MarksOf(text, ",")
      last   == Max(dots \cup commas)
  IN IF MixesTextAndDigits(text) \/ Digits(text) = 0 \/ text.sign \in {"minus", "late"}
       THEN Error
     ELSE IF dots \cup commas = {} THEN Value(0)
     ELSE IF dots # {} /\ commas # {} THEN Value(Fraction(text, last))
     ELSE IF Cardinality(dots \cup commas) > 1 THEN Error
     ELSE IF commas # {} /\ Ambiguous(text, last) THEN Error
     ELSE Value(Fraction(text, last))

ReadPrice ==
  /\ question.kind = "text"
  /\ answer' = Normalize(question.text)

(* Parse: the scaled value of the two parts, rounded up when a seventh     *)
(* fractional digit says so; "fraction" has six digits at most.            *)
ScalePrice ==
  /\ question.kind = "scale"
  /\ LET scaled == question.whole * Scale + question.fraction
     IN answer' =
          IF question.whole > (MaxMoney - question.fraction) \div Scale THEN Error
          ELSE IF ~question.roundUp THEN Value(scaled)
          ELSE IF scaled = MaxMoney THEN Error
          ELSE Value(scaled + 1)

-----------------------------------------------------------------------------
(* The quote table.                                                        *)

(* FetchDaily and NewTable: one rate that does not parse or is not         *)
(* positive, or no rate at all, and there is no table.                     *)
TableBuilt(document) ==
  /\ document.dated
  /\ DOMAIN document.rates # {}
  /\ \A c \in DOMAIN document.rates : document.rates[c] \notin {Bad, 0}

HasQuote(document, currency) == currency = document.base \/ currency \in DOMAIN document.rates

(* rateMicros: the base is quoted at one, whatever the document says.      *)
Rate(document, currency) ==
  IF currency = document.base THEN Scale ELSE document.rates[currency]

(* Fault: halves are rounded up.                                           *)
DivideHalfUp(numerator, denominator) == (2 * numerator + denominator) \div (2 * denominator)

DivideHalfEven(numerator, denominator) ==
  LET quotient  == numerator \div denominator
      remainder == 2 * (numerator % denominator)
      up        == remainder > denominator \/ (remainder = denominator /\ (quotient % 2) = 1)
  IN quotient + IF up THEN 1 ELSE 0

(* The product is exact, the quotient is rounded once.                     *)
ConvertAmount(document, amount, from, to) ==
  IF from = to THEN Value(amount)
  ELSE IF ~HasQuote(document, from) \/ ~HasQuote(document, to) THEN Error
  ELSE LET converted == DivideHalfEven(amount * Rate(document, to), Rate(document, from))
       IN IF converted > MaxMoney THEN Error ELSE Value(converted)

Convert ==
  /\ question.kind = "convert"
  /\ answer' =
       IF TableBuilt(question.document)
         THEN ConvertAmount(question.document, question.amount, question.from, question.to)
         ELSE Error

-----------------------------------------------------------------------------
Next ==
  /\ answer = Nil
  /\ ReadPrice \/ ScalePrice \/ Convert
  /\ UNCHANGED question

-----------------------------------------------------------------------------
(* Properties.                                                             *)

(* How a text reads when one separator groups thousands and the other      *)
(* marks the decimals: as a set of no or one number of fractional digits.  *)
Reads(text, grouping, decimal) ==
  LET points == MarksOf(text, decimal)
      groups == MarksOf(text, grouping)
      whole  == IF points = {} THEN Len(text.runs) ELSE Min(points)
      grouped ==
        /\ ~text.zero /\ text.runs[1] \in 1 .. 3
        /\ \A i \in 2 .. whole : text.runs[i] = 3
  IN IF /\ Cardinality(points) <= 1
        /\ \A i \in DOMAIN text.marks : i \in points \cup groups
        /\ \A i \in groups : i < whole
        /\ groups = {} \/ grouped
     THEN {DigitsIn(text, whole + 1, Len(text.runs))}
     ELSE {}

Readings(text) == Reads(text, ",", ".") \cup Reads(text, ".", ",")

LoneDot(text) == text.marks = <<".">>

(* A price is never misread: a text that follows the American or the       *)
(* European convention is read by it or refused, and refused if the two    *)
(* disagree (but for a lone dot, which is a decimal point); and its value  *)
(* is exact up to the last that a Decimal holds, and refused beyond.       *)
PriceIsNeverMisread ==
  answer # Nil =>
    /\ question.kind = "text" /\ answer.ok =>
         LET readings == Readings(question.text)
         IN /\ readings # {} => answer.value \in readings
            /\ Cardinality(readings) > 1 =>
                 LoneDot(question.text) /\ answer.value = question.text.runs[2]
    /\ question.kind = "scale" =>
         LET exact == question.whole * Scale + question.fraction
                        + IF question.roundUp THEN 1 ELSE 0
         IN answer = IF exact > MaxMoney THEN Error ELSE Value(exact)

(* A converted amount is the number nearest to the exact quotient of the   *)
(* two quotes, the even one of two; the same currency is not touched, and  *)
(* nothing is converted by a table with a bad rate or by a missing quote.  *)
ConversionIsNearest ==
  answer # Nil /\ question.kind = "convert" /\ answer.ok =>
    LET d == question.document
    IN /\ \A c \in DOMAIN d.rates : d.rates[c] \notin {Bad, 0}
       /\ question.from = question.to => answer.value = question.amount
       /\ question.from # question.to =>
            /\ {question.from, question.to} \subseteq DOMAIN d.rates \cup {d.base}
            /\ LET from == Rate(d, question.from)
                   off == 2 * (answer.value * from - question.amount * Rate(d, question.to))
               IN /\ off \in -from .. from
                  /\ off \in {-from, from} => (answer.value % 2) = 0
=============================================================================
