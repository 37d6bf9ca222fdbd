------------------------ MODULE ResolutionsRegistry ------------------------
(***************************************************************************)
(* What the approved-resolution store promises its users, without          *)
(* transactions, locks, processes or crashes: a register of decisions, in  *)
(* which every decision takes effect at one instant and is written to an   *)
(* audit history in the order the decisions were taken.                    *)
(*                                                                         *)
(* ResolutionsStore.tla implements this specification.                     *)
(***************************************************************************)
EXTENDS Naturals, Sequences

CONSTANTS
  Demand,     \* demand identities (demandKey of manufacturer and part)
  Request,    \* approval requests: demand, replacement, approver, evidence
  DemandOf,   \* DemandOf[q]: the demand that request q decides
  Time,       \* instants
  None        \* "no resolution"

(* A resolution id is a digest of the request and of the instant of the    *)
(* approval; it is modelled as that pair, so it is injective.              *)
Id == [request : Request, at : Time]

DemandOfId(i) == DemandOf[i.request]

(* One audit entry: which resolution, what happened to it, the approval    *)
(* that caused it (None for a revocation), and when.                       *)
Event == [id : Id, action : {"approved", "superseded", "revoked"},
          by : Id \cup {None}, at : Time]

Approved(i)      == [id |-> i, action |-> "approved",   by |-> i, at |-> i.at]
Superseded(p, i) == [id |-> p, action |-> "superseded", by |-> i, at |-> i.at]
Revoked(i, t)    == [id |-> i, action |-> "revoked",    by |-> None, at |-> t]

VARIABLES
  inForce,    \* the resolutions that are in force
  decisions   \* the audit history, oldest first

vars == <<inForce, decisions>>

Recorded(i) == \E n \in DOMAIN decisions : decisions[n].id = i

Init ==
  /\ inForce = {}
  /\ decisions = <<>>

(* The first approval of a demand that has no resolution in force.         *)
Adopt(i) ==
  /\ ~Recorded(i)
  /\ \A j \in inForce : DemandOfId(j) # DemandOfId(i)
  /\ inForce' = inForce \cup {i}
  /\ decisions' = Append(decisions, Approved(i))

(* An approval that takes the place of the resolution in force: both       *)
(* changes and both audit entries are one instant.                         *)
Replace(p, i) ==
  /\ ~Recorded(i)
  /\ p \in inForce
  /\ DemandOfId(p) = DemandOfId(i)
  /\ inForce' = (inForce \ {p}) \cup {i}
  /\ decisions' = Append(Append(decisions, Superseded(p, i)), Approved(i))

(* A revocation.                                                           *)
Withdraw(i, t) ==
  /\ i \in inForce
  /\ inForce' = inForce \ {i}
  /\ decisions' = Append(decisions, Revoked(i, t))

Next ==
  \E i \in Id :
    \/ Adopt(i)
    \/ \E p \in Id : Replace(p, i)
    \/ \E t \in Time : Withdraw(i, t)

Spec == Init /\ [][Next]_vars
=============================================================================
