---------------------------- MODULE DecisionTable ----------------------------
(***************************************************************************)
(* The store of approved resolutions as one of its interfaces sees it: a   *)
(* call takes effect at one instant, or fails and has no effect (module    *)
(* ResolutionsStore has the transactions, ResolutionsRegistry says what    *)
(* they promise). Other processes decide at the same time.                 *)
(*                                                                         *)
(* A resolution's id is its position in the order of the approvals, its    *)
(* demand a number. An active record never changes, so the checksum that   *)
(* is the other half of an apply token adds nothing to the id.             *)
(*                                                                         *)
(* A stamp is the time of an approval and, where times are equal, the      *)
(* digest that is its id in the code: what lists of one demand are sorted  *)
(* by. The time is read before the transaction waits for its turn, so the  *)
(* stamps need not follow the order of the approvals.                      *)
(***************************************************************************)
EXTENDS Naturals, Sequences, SequencesExt

Active(demand, stamp) == [demand |-> demand, status |-> "active", stamp |-> stamp]

(* No two approvals of a demand have the same time and the same digest.    *)
Unused(records, demand, stamps) ==
  {s \in stamps : \A i \in DOMAIN records :
     records[i].demand = demand => records[i].stamp # s}

(* Approve: the active record of the same demand is superseded.            *)
WithApproval(records, demand, stamp) ==
  Append([i \in DOMAIN records |->
            IF records[i].demand = demand /\ records[i].status = "active"
              THEN [records[i] EXCEPT !.status = "superseded"]
              ELSE records[i]],
         Active(demand, stamp))

(* Revoke: what is not active is refused before any token is looked at.    *)
Revocable(records, id) == id \in DOMAIN records /\ records[id].status = "active"

(* Fault: the token is not compared with the record's.                     *)
AnyTokenFits(id, token) == TRUE

TokenFits(id, token) == token = id

WithRevocation(records, id) == [records EXCEPT ![id].status = "revoked"]

(* List: by demand, the latest approval first, so many and no more.        *)
RowOf(records, i) ==
  [id |-> i, demand |-> records[i].demand, status |-> records[i].status,
   stamp |-> records[i].stamp]

Rows(records, includeInactive) ==
  {RowOf(records, i) :
     i \in {k \in DOMAIN records : includeInactive \/ records[k].status = "active"}}

RowBefore(a, b) == a.demand < b.demand \/ (a.demand = b.demand /\ a.stamp > b.stamp)

InOrder(rows, s) ==
  /\ Range(s) = rows
  /\ \A i, j \in DOMAIN s : i < j => RowBefore(s[i], s[j])

Listed(records, includeInactive, limit) ==
  LET rows == Rows(records, includeInactive)
      ordered == CHOOSE s \in [1 .. Cardinality(rows) -> rows] : InOrder(rows, s)
  IN IF Len(ordered) > limit THEN SubSeq(ordered, 1, limit) ELSE ordered

-----------------------------------------------------------------------------
(* What a person may expect of a list read after an approval: its row, or  *)
(* so many others that come before it; or it has been retired since.       *)
Reflects(listed, limit, records, id) ==
  \/ \E row \in Range(listed) : row.id = id
  \/ /\ Len(listed) = limit
     /\ \A row \in Range(listed) : RowBefore(row, records[id])
  \/ records[id].status # "active"

(* The steps of ResolutionsRegistry, of a table and without their entries  *)
(* in the history: a resolution is adopted, one takes the place of the one *)
(* in force for its demand, or one is withdrawn. No other is touched.      *)
InForce(records) == {i \in DOMAIN records : records[i].status = "active"}

Adopts(before, after, i) ==
  /\ i \notin DOMAIN before
  /\ \A j \in InForce(before) : before[j].demand # after[i].demand
  /\ InForce(after) = InForce(before) \cup {i}

Replaces(before, after, p, i) ==
  /\ i \notin DOMAIN before
  /\ p \in InForce(before)
  /\ before[p].demand = after[i].demand
  /\ InForce(after) = (InForce(before) \ {p}) \cup {i}

Withdraws(before, after, i) ==
  /\ i \in InForce(before)
  /\ InForce(after) = InForce(before) \ {i}

IsDecision(before, after) ==
  /\ \A i \in DOMAIN before : after[i].demand = before[i].demand
  /\ \/ \E i \in DOMAIN after : \/ Adopts(before, after, i)
                               \/ \E p \in DOMAIN before : Replaces(before, after, p, i)
     \/ \E i \in DOMAIN before : Withdraws(before, after, i)
=============================================================================
