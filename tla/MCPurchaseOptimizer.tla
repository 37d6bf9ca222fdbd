------------------------ MODULE MCPurchaseOptimizer ------------------------
(* Small price lists for PurchaseOptimizer.                                *)
EXTENDS PurchaseOptimizer

Break(quantity, price) == [quantity |-> quantity, price |-> price, currency |-> "EUR"]

(* One price; two; a gap below the first; a first break above small needs. *)
PriceLists ==
  {<<Break(1, 3)>>,
   <<Break(1, 3), Break(4, 2)>>,
   <<Break(2, 4), Break(5, 3), Break(8, 1)>>}

Cut(breaks, available) ==
  [id |-> "cut", kind |-> "cut", moq |-> 0, multiple |-> 0, reel |-> 0,
   mix |-> 0, asBulk |-> FALSE, asRemainder |-> TRUE,
   available |-> available, breaks |-> breaks]

Reel(size, breaks, available) ==
  [id |-> "reel", kind |-> "reel", moq |-> size, multiple |-> size, reel |-> size,
   mix |-> size, asBulk |-> TRUE, asRemainder |-> FALSE,
   available |-> available, breaks |-> breaks]

Tray(moq, multiple, breaks, available) ==
  [id |-> "tray", kind |-> "stable", moq |-> moq, multiple |-> multiple, reel |-> 0,
   mix |-> 0, asBulk |-> TRUE, asRemainder |-> TRUE,
   available |-> available, breaks |-> breaks]

Stocks == {None, 0, 5, 9}

Families ==
  {Cut(breaks, available) : breaks \in PriceLists, available \in Stocks}
    \cup {Reel(size, breaks, available) :
            size \in {3, 4}, breaks \in PriceLists, available \in Stocks}
    \cup {Tray(moq, multiple, breaks, available) :
            moq \in {0, 5}, multiple \in {1, 2}, breaks \in PriceLists,
            available \in {None, 9}}

(* Lists the optimizer refuses or skips.                                   *)
Odd ==
  {Cut(<<>>, None),
   Cut(<<Break(1, 3), [Break(4, 2) EXCEPT !.currency = "USD"]>>, None),
   Cut(<<[Break(1, 3) EXCEPT !.currency = "USD"]>>, None),
   Cut(<<[Break(1, 3) EXCEPT !.currency = "euro"]>>, None),
   [Cut(<<Break(1, 3)>>, None) EXCEPT !.id = ""],
   Cut(<<Break(0, 3)>>, None),
   Tray(5, 1, <<Break(1, 3)>>, -1)}

ShortLists ==
  {<<f>> : f \in Families \cup Odd}
    \cup {p \in Families \X Families : p[1].id # p[2].id}
    \cup {p \in Odd \X Families : p[1].id # p[2].id}

Preferences == {-1, 0, 2500}

(* Longer lists for mixes: a cheap reel, a dear one, one of limited stock. *)
MixLists ==
  {<<Break(1, 5)>>, <<Break(1, 5), Break(6, 3)>>,
   <<Break(1, 5), Break(4, 4), Break(12, 2)>>, <<Break(1, 3)>>,
   <<Break(10, 4), Break(18, 2)>>}

LongLists ==
  {<<Cut(c, None), Reel(size, r, available)>> :
     c \in MixLists, r \in MixLists, size \in {2, 3, 5}, available \in {None, 7, 16}}

PriceListsOffered == ShortLists \cup LongLists

WellFormed == {"EUR", "USD"}

(* Every small requirement, and some up to the largest int.                *)
Requirements == 0 .. 12 \cup {15, 17, 20, 23, 24, 25}
=============================================================================
