--------------------------- MODULE TerminalSession ---------------------------
(***************************************************************************)
(* internal/tui: the full-screen interface to the approved resolutions.    *)
(* Update handles one key or message at a time and calls the store while   *)
(* it does; a provider lookup runs beside it and sends its answer as a     *)
(* message. Other processes use the store between any two calls, those of  *)
(* one Update included: the two of a revocation, and the two of the reload *)
(* after a decision.                                                       *)
(*                                                                         *)
(* Left out: the text of the forms' fields but for the demand and for      *)
(* whether the person deciding is named, the focus among them, which of    *)
(* the candidates the cursor is on, and what the detail and the history    *)
(* screen show. What only one screen shows (a form, the candidates) is     *)
(* forgotten when that screen is left: every way back fills it again.      *)
(***************************************************************************)
EXTENDS DecisionTable

CONSTANTS
  Demands,      \* demands a person may name
  ListLimit,    \* listLimit: rows that are read
  Stamps,       \* of approvals, see DecisionTable
  Approved,     \* the number of resolutions approved at the start
  MaxRecords,   \* bound: resolutions ever approved
  MaxLookups,   \* bound: lookup sequence numbers
  Nil

VARIABLES
  records,      \* the store
  screen,       \* model.state, or "ended"
  list,         \* model.records: the rows as they were when last read
  cursor,       \* model.cursor, from 1
  inactive,     \* model.includeInactive
  form,         \* the demand and the name in the open form
  message,      \* the outcome shown
  seq,          \* model.lookupSeq
  running,      \* lookups whose answer has not been handled
  candidates,   \* the answer shown: its demand and whether it has offers
  pending,      \* the call Update makes next while it handles a key, or Nil
  asked,        \* the demand the person last submitted for a lookup
  typed         \* whether the name was typed since the form was filled

vars == <<records, screen, list, cursor, inactive, form, message, seq, running,
          candidates, pending, asked, typed>>

lookupVars == <<seq, running, candidates, asked>>
listVars == <<list, cursor, inactive>>

Message(kind, id) == [kind |-> kind, id |-> id]
NoMessage == Message("none", 0)
Failure == Message("error", 0)
EmptyForm == [demand |-> Nil, named |-> FALSE]

(* All but the store, the rows and the message.                           *)
InitOwn ==
  /\ screen = "list"
  /\ cursor = 1
  /\ inactive = FALSE
  /\ form = EmptyForm
  /\ seq = 0
  /\ running = {}
  /\ candidates = Nil
  /\ pending = Nil
  /\ asked = Nil
  /\ typed = FALSE

Init ==
  /\ \E s \in Stamps : records = [i \in 1 .. Approved |-> Active(i, s)]
  /\ list = Listed(records, FALSE, ListLimit)
  /\ message = NoMessage
  /\ InitOwn

-----------------------------------------------------------------------------
(* Update handles the next key or message only when the last is done.      *)
At(name) == screen = name /\ pending = Nil

Goto(name) == screen' = name

(* The calls after the first of one Update: the revocation, with the token *)
(* of its preview; and the two of reload, List and StoreStatus, with the   *)
(* message to end with, if any.                                            *)
Apply(token) == [call |-> "apply", token |-> token]
List(say) == [call |-> "list", say |-> say]
StoreStatus(say, rows) == [call |-> "status", say |-> say, rows |-> rows]

Calls(name) == pending # Nil /\ pending.call = name

AtMostOf(n, rows) == IF n > Len(rows) THEN Len(rows) ELSE n

(* A call fails: Update ends with that message.                            *)
CallFails ==
  /\ pending' = Nil
  /\ message' = Failure

(* reload: the rows are read, by themselves.                               *)
ReadRows ==
  /\ Calls("list")
  /\ \/ CallFails
     \/ /\ pending' = StoreStatus(pending.say, Listed(records, inactive, ListLimit))
        /\ UNCHANGED message
  /\ UNCHANGED <<records, screen, listVars, form, lookupVars, typed>>

(* The rest of reload, when the numbers in the heading have been read too: *)
(* the rows are replaced and the cursor is kept within them.               *)
ShowRows ==
  /\ Calls("status")
  /\ \/ CallFails /\ UNCHANGED <<list, cursor>>
     \/ /\ pending' = Nil
        /\ list' = pending.rows
        /\ cursor' = IF list' = <<>> THEN 1 ELSE AtMostOf(cursor, list')
        /\ message' = IF pending.say = Nil THEN message ELSE pending.say
  /\ UNCHANGED <<records, screen, inactive, form, lookupVars, typed>>

(* selectedRecord, of which there is none in an empty list.                *)
HasSelection == cursor \in DOMAIN list
Selected == list[cursor]

OpenForm(name, contents) ==
  /\ form' = contents
  /\ typed' = FALSE
  /\ message' = NoMessage
  /\ Goto(name)

-----------------------------------------------------------------------------
(* updateList, updateDetail, updateHistory.                                *)

MoveCursor ==
  /\ At("list")
  /\ cursor' \in {cursor - 1, cursor + 1} \cap DOMAIN list
  /\ UNCHANGED <<records, screen, list, inactive, form, message, lookupVars, pending, typed>>

ToggleInactive ==
  /\ At("list")
  /\ inactive' = ~inactive
  /\ pending' = List(Nil)
  /\ UNCHANGED <<records, screen, list, cursor, form, message, lookupVars, typed>>

(* The detail of the selected row, or its history if that can be read.     *)
OpenView ==
  /\ At("list")
  /\ HasSelection
  /\ \/ Goto("detail") /\ UNCHANGED message
     \/ Goto("history") /\ UNCHANGED message
     \/ message' = Failure /\ UNCHANGED screen
  /\ UNCHANGED <<records, listVars, form, lookupVars, pending, typed>>

OpenApprove ==
  /\ At("list")
  /\ OpenForm("approve", EmptyForm)
  /\ UNCHANGED <<records, listVars, lookupVars, pending>>

OpenRevoke ==
  /\ At("list")
  /\ HasSelection
  /\ Selected.status = "active"
  /\ OpenForm("revoke", EmptyForm)
  /\ UNCHANGED <<records, listVars, lookupVars, pending>>

OpenLookup ==
  /\ At("list")
  /\ OpenForm("lookup", EmptyForm)
  /\ UNCHANGED <<records, listVars, lookupVars, pending>>

BackToList ==
  /\ Goto("list")
  /\ form' = EmptyForm
  /\ typed' = FALSE
  /\ candidates' = Nil
  /\ asked' = Nil

(* esc, or whatever else leaves a screen for the list.                     *)
Leave ==
  /\ \E s \in {"detail", "history", "approve", "revoke", "lookup", "candidates"} : At(s)
  /\ BackToList
  /\ UNCHANGED <<records, listVars, message, seq, running, pending>>

(* ctrl+c anywhere, q in the list.                                         *)
Quit ==
  /\ screen # "ended" /\ pending = Nil
  /\ Goto("ended")
  /\ UNCHANGED <<records, listVars, form, message, lookupVars, pending, typed>>

-----------------------------------------------------------------------------
(* Forms.                                                                  *)

Type ==
  /\ At("approve") \/ At("revoke") \/ At("lookup")
  /\ \/ \E d \in Demands : form' = [form EXCEPT !.demand = d] /\ UNCHANGED typed
     \/ screen # "lookup" /\ form' = [form EXCEPT !.named = TRUE] /\ typed' = TRUE
  /\ UNCHANGED <<records, screen, listVars, message, lookupVars, pending>>

(* A call of the store fails, or it refuses the form; the form stays.      *)
Refuse ==
  /\ message' = Failure
  /\ UNCHANGED <<records, screen, listVars, form, lookupVars, pending, typed>>

(* submitApprove: after the approval the list is read again.               *)
SubmitApprove ==
  /\ At("approve")
  /\ \/ Refuse
     \/ /\ form.named /\ form.demand # Nil
        /\ Len(records) < MaxRecords
        /\ \E s \in Unused(records, form.demand, Stamps) :
             records' = WithApproval(records, form.demand, s)
        /\ BackToList
        /\ pending' = List(Message("approved", Len(records')))
        /\ UNCHANGED <<listVars, message, seq, running>>

(* submitRevoke, its first call: the preview of the selected record.       *)
PreviewRevoke ==
  /\ At("revoke")
  /\ \/ Refuse
     \/ /\ form.named
        /\ Revocable(records, Selected.id)
        /\ pending' = Apply(Selected.id)
        /\ UNCHANGED <<records, screen, listVars, form, message, lookupVars, typed>>

(* Its second call, with the token of the preview.                         *)
ApplyRevoke ==
  /\ Calls("apply")
  /\ \/ CallFails /\ UNCHANGED <<records, screen, form, typed, candidates, asked>>
     \/ /\ Revocable(records, Selected.id)
        /\ TokenFits(Selected.id, pending.token)
        /\ records' = WithRevocation(records, Selected.id)
        /\ BackToList
        /\ pending' = List(Message("revoked", Selected.id))
        /\ UNCHANGED message
  /\ UNCHANGED <<listVars, seq, running>>

-----------------------------------------------------------------------------
(* Lookups.                                                                *)

(* submitLookup: a number is missing or wrong, or the lookup is started.   *)
SubmitLookup ==
  /\ At("lookup")
  /\ \/ Refuse
     \/ /\ form.demand # Nil
        /\ seq < MaxLookups
        /\ message' = NoMessage
        /\ seq' = seq + 1
        /\ asked' = form.demand
        /\ running' = running \cup {[seq |-> seq + 1, demand |-> form.demand]}
        /\ Goto("wait")
        /\ UNCHANGED <<records, listVars, form, candidates, pending, typed>>

(* esc while waiting: the lookup goes on, and its number is passed over.   *)
AbandonLookup ==
  /\ At("wait")
  /\ seq < MaxLookups
  /\ seq' = seq + 1
  /\ Goto("lookup")
  /\ UNCHANGED <<records, listVars, form, message, running, candidates, pending, asked,
                 typed>>

(* Fault: only the screen is compared, not the number.                     *)
AwaitedByScreen(l) == screen = "wait"

Awaited(l) == l.seq = seq /\ screen = "wait"

(* Fault: a failed lookup leaves the screen as it is.                      *)
LookupFailedStaying == message' = Failure /\ UNCHANGED <<screen, candidates>>

LookupFailed == message' = Failure /\ Goto("lookup") /\ UNCHANGED candidates

LookupAnswered(l) ==
  /\ \E offers \in BOOLEAN : candidates' = [demand |-> l.demand, offers |-> offers]
  /\ Goto("candidates")
  /\ UNCHANGED message

(* applyLookupResult: a lookup ends and its message is handled.            *)
LookupEnds(n) ==
  \E l \in running :
    /\ l.seq = n
    /\ pending = Nil
    /\ running' = running \ {l}
    /\ IF Awaited(l) THEN LookupFailed \/ LookupAnswered(l)
                     ELSE UNCHANGED <<screen, message, candidates>>
    /\ UNCHANGED <<records, listVars, form, seq, asked, pending, typed>>

(* prefillApproveFromOffer: every field is set, the name to nothing.       *)
Prefill == [demand |-> candidates.demand, named |-> FALSE]

ChooseOffer ==
  /\ At("candidates")
  /\ candidates.offers
  /\ OpenForm("approve", Prefill)
  /\ candidates' = Nil
  /\ asked' = Nil
  /\ UNCHANGED <<records, listVars, seq, running, pending>>

-----------------------------------------------------------------------------
(* Another process approves or revokes.                                    *)
Others ==
  /\ \/ \E d \in Demands : \E s \in Unused(records, d, Stamps) :
          Len(records) < MaxRecords /\ records' = WithApproval(records, d, s)
     \/ \E i \in DOMAIN records :
          Revocable(records, i) /\ records' = WithRevocation(records, i)
  /\ UNCHANGED <<screen, listVars, form, message, lookupVars, pending, typed>>

Key ==
  \/ MoveCursor \/ ToggleInactive \/ OpenView \/ OpenApprove \/ OpenRevoke \/ OpenLookup
  \/ Leave \/ Quit \/ Type \/ SubmitApprove \/ PreviewRevoke \/ SubmitLookup
  \/ AbandonLookup \/ ChooseOffer

Next ==
  \/ Key
  \/ ApplyRevoke \/ ReadRows \/ ShowRows
  \/ \E n \in 1 .. MaxLookups : LookupEnds(n)
  \/ Others

(* A lookup ends: its deadline is two minutes, and the program reads every *)
(* message. Update itself does not stop half way.                          *)
Fairness ==
  /\ WF_vars(ApplyRevoke \/ ReadRows \/ ShowRows)
  /\ \A n \in 1 .. MaxLookups : WF_vars(LookupEnds(n))

Spec == Init /\ [][Next]_vars /\ Fairness

-----------------------------------------------------------------------------
(* A revocation retires the record of the row that was selected and shown  *)
(* as active, if that is what it still is, and nobody else's decision.     *)
RetiresTheRowShown ==
  (Calls("apply") /\ pending' # pending /\ records' # records)
  => /\ Selected.status = "active"
     /\ records[Selected.id] = Active(Selected.demand, Selected.stamp)
     /\ records' = WithRevocation(records, Selected.id)

(* The candidates shown answer the last question asked, and choosing one   *)
(* leaves the name of the person approving to be typed (resolver.go:178).  *)
CandidatesClearNoReview ==
  /\ screen = "candidates" => candidates.demand = asked
  /\ form.named => typed

(* The message of a decision comes with a list that shows it, or shows     *)
(* what another process has made of it by then.                            *)
SaysWhatTheListShows ==
  message' # message =>
    /\ message'.kind = "approved" => Reflects(list', ListLimit, records', message'.id)
    /\ message'.kind = "revoked" =>
         \A row \in Range(list') : row.id = message'.id => row.status = "revoked"

(* A person who waits for a lookup is released, by its answer or its      *)
(* deadline if not by their own hand.                                      *)
WaitEnds == screen = "wait" ~> screen # "wait"
=============================================================================
