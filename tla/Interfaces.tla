------------------------------ MODULE Interfaces ------------------------------
(* The two interfaces, one at a time: a behaviour is either of the terminal *)
(* or of the page, and the variables of the other one keep their values.    *)
EXTENDS TerminalSession

CONSTANTS
  PageDemands,   \* of the page: the demands a person may name
  PageLimit,     \* rows it gets
  MaxStarted,    \* bounds, see WebPage
  MaxTasks

VARIABLES
  interface,   \* which of the two it is
  selected,    \* of the page
  revokeToken,
  tasks,
  started

Page == INSTANCE WebPage WITH Demands <- PageDemands, ListLimit <- PageLimit,
                              token <- revokeToken

(* Demands are numbers, so that the list has an order; no value is one.    *)
ASSUME InterfacesAssumption ==
  /\ Demands \cup PageDemands \subseteq Nat
  /\ ListLimit \in Nat \ {0}
  /\ PageLimit \in Nat \ {0}
  /\ Stamps \subseteq Nat
  /\ Approved \in Nat
  /\ MaxTasks \in Nat
  /\ Nil \notin Nat
  /\ Nil \notin [kind : {"approved", "revoked"}, id : Nat]

allVars == <<vars, interface, selected, revokeToken, tasks, started>>

PageOnly == <<selected, revokeToken, tasks, started>>
TerminalOnly == <<screen, inactive, cursor, form, seq, running, candidates, pending, asked,
                  typed>>

Start ==
  \/ interface = "terminal" /\ Init /\ Page!InitOwn
  \/ interface = "page" /\ Page!Init /\ InitOwn

Step ==
  /\ \/ interface = "terminal" /\ Next /\ UNCHANGED PageOnly
     \/ interface = "page" /\ Page!Next /\ UNCHANGED TerminalOnly
  /\ UNCHANGED interface

Interfaces == Start /\ [][Step]_allVars /\ Fairness

-----------------------------------------------------------------------------
(* What either interface may never do; see TerminalSession and WebPage.    *)

(* A revocation is of the record that was shown, whatever happened since.  *)
OnlyWhatWasShownIsRevoked ==
  [][/\ interface = "terminal" => RetiresTheRowShown
     /\ interface = "page" => Page!RetiresWhatWasPreviewed]_allVars

(* A decision is announced only with the rows that show it, unless as many *)
(* as are ever shown come before.                                          *)
DecisionIsVisible ==
  [][/\ interface = "terminal" => SaysWhatTheListShows
     /\ interface = "page" => Page!SaysWhatTheTableShows]_allVars

(* Whoever changes the store, and however stale what they saw: a change is *)
(* one step of the register, and no demand has two resolutions in force.   *)
EachChangeIsOneDecision == [][IsDecision(records, records')]_records
=============================================================================
