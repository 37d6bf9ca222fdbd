--------------------------- MODULE MCLookupCache ---------------------------
(* Small instances of LookupCache for TLC: lookups of every policy beside  *)
(* one prune, or two prunes beside a single refresh.                       *)
EXTENDS LookupCache, TLC

CONSTANTS s1, p1, p2, k1, k2, good, unsafe, error

VARIABLE focus

OnOnePrune == pruner'[p2] = NoPrune

OnTwoPrunes ==
  /\ clock' <= 1
  /\ \A s \in Session :
       /\ session'[s].policy \in {None, "refresh"}
       /\ session'[s].answer \in {None, good}
       /\ counts'[s]["lookups"] <= 1
  /\ \A k \in Key : entries'[k] # None => entries'[k].intact

Start == Init /\ focus \in {"lookups", "prunes"}

Focused ==
  /\ Next
  /\ UNCHANGED focus
  /\ focus = "lookups" => OnOnePrune
  /\ focus = "prunes" => OnTwoPrunes

Instance == Start /\ [][Focused]_<<vars, focus>>

(* Nothing tells the keys apart.                                           *)
Interchangeable == Permutations(Key)
=============================================================================
