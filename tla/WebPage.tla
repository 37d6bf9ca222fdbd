------------------------------- MODULE WebPage -------------------------------
(***************************************************************************)
(* internal/webui: the browser page (static/app.js) and the server behind  *)
(* it. The page is one thread that is never interrupted, but every         *)
(* operation awaits one or more requests, and anything may happen while it *)
(* does: other operations are started, answers come in any order, the      *)
(* server serves requests in any order, other processes use the store. A   *)
(* request may fail, or be served and its answer be lost.                  *)
(*                                                                         *)
(* An operation under way is a task: the request it awaits, what that      *)
(* request says, and the message it ends with. A refresh is its request    *)
(* for the list: the status before it, and the history before the refresh  *)
(* of a detail, change nothing that is modelled. The box that includes the *)
(* inactive records is read some time before the list is, so either        *)
(* setting may be asked for. Left out: the lookup form, whose candidates   *)
(* only fill the approve form (TerminalSession has the same steps), and    *)
(* what the forms say besides the demand.                                  *)
(***************************************************************************)
EXTENDS DecisionTable

CONSTANTS
  Demands,      \* demands a person may name
  ListLimit,    \* queryLimit's default: rows the page gets
  Stamps,       \* of approvals, see DecisionTable
  Approved,     \* the number of resolutions approved at the start
  MaxRecords,   \* bound: resolutions ever approved
  MaxStarted,   \* bound: operations ever started
  MaxTasks,     \* bound: operations under way at a time
  Nil

VARIABLES
  records,      \* the store
  list,         \* the rows of the table
  selected,     \* selectedRecord
  token,        \* revokeToken
  message,      \* the message shown
  tasks,        \* the operations under way
  started       \* operations ever started

vars == <<records, list, selected, token, message, tasks, started>>

detailVars == <<selected, token>>

Message(kind, id) == [kind |-> kind, id |-> id]
NoMessage == Message("none", 0)
Failure == Message("error", 0)

(* All but the store, the rows and the message.                           *)
InitOwn ==
  /\ selected = Nil
  /\ token = Nil
  /\ tasks = {}
  /\ started = 0

(* The page refreshes when it is loaded.                                   *)
Init ==
  /\ \E s \in Stamps : records = [i \in 1 .. Approved |-> Active(i, s)]
  /\ list = Listed(records, FALSE, ListLimit)
  /\ message = NoMessage
  /\ InitOwn

-----------------------------------------------------------------------------
(* Tasks.                                                                  *)

(* A request is "sent", then "served" with what the server answered.       *)
Task(n, at, arg, say) ==
  [n |-> n, at |-> at, arg |-> arg, say |-> say, state |-> "sent", answer |-> Nil]

Start(at, arg) ==
  /\ started < MaxStarted
  /\ started' = started + 1
  /\ \E n \in 1 .. MaxTasks :
       /\ {t.n : t \in tasks} \cap 1 .. n = 1 .. n - 1
       /\ tasks' = tasks \cup {Task(n, at, arg, Nil)}

(* refresh, as the rest of an operation that then shows a message.         *)
ThenRefresh(t, say) == tasks' = (tasks \ {t}) \cup {Task(t.n, "list", Nil, say)}

Ended(t) == tasks' = tasks \ {t}

-----------------------------------------------------------------------------
(* What the person does.                                                   *)

(* The refresh button, or the box.                                         *)
RefreshTable ==
  /\ Start("list", Nil)
  /\ UNCHANGED <<records, list, detailVars, message>>

(* showDetail.                                                             *)
ShowDetail ==
  /\ \E row \in Range(list) : selected' = row
  /\ token' = Nil
  /\ Start("list", Nil)
  /\ UNCHANGED <<records, list, message>>

(* The approve form, as the person filled it in.                           *)
SubmitApprove ==
  /\ \E d \in Demands : Start("approve", d)
  /\ UNCHANGED <<records, list, detailVars, message>>

(* The revoke form of the selected record: a preview, or with a token the  *)
(* revocation itself. The form is hidden when the record is not active.    *)
SubmitRevoke ==
  /\ selected # Nil
  /\ selected.status = "active"
  /\ Start("revoke", [id |-> selected.id, token |-> token])
  /\ UNCHANGED <<records, list, detailVars, message>>

-----------------------------------------------------------------------------
(* What the server does: one call of the store.                            *)

Answered(t, answer) ==
  tasks' = (tasks \ {t}) \cup {[t EXCEPT !.state = "served", !.answer = answer]}

(* handleApprove: the new record, whose superseded predecessor is left out. *)
HandleApprove(t) ==
  /\ t.at = "approve"
  /\ Len(records) < MaxRecords
  /\ \E s \in Unused(records, t.arg, Stamps) : records' = WithApproval(records, t.arg, s)
  /\ Answered(t, Len(records'))

(* handleRevoke: the store previews when there is no token.                *)
HandleRevoke(t) ==
  /\ t.at = "revoke"
  /\ Revocable(records, t.arg.id)
  /\ \/ /\ t.arg.token = Nil
        /\ UNCHANGED records
     \/ /\ t.arg.token # Nil
        /\ TokenFits(t.arg.id, t.arg.token)
        /\ records' = WithRevocation(records, t.arg.id)
  /\ Answered(t, t.arg.id)

(* handleList.                                                             *)
HandleList(t) ==
  /\ t.at = "list"
  /\ \E include \in BOOLEAN : Answered(t, Listed(records, include, ListLimit))
  /\ UNCHANGED records

Serve(n) ==
  \E t \in tasks :
    /\ t.n = n
    /\ t.state = "sent"
    /\ HandleApprove(t) \/ HandleRevoke(t) \/ HandleList(t)
    /\ UNCHANGED <<list, detailVars, message, started>>

-----------------------------------------------------------------------------
(* What the page does with an answer.                                      *)

(* The rest of refresh: the table, and then the message of the operation. *)
ListArrives(t) ==
  /\ t.at = "list"
  /\ t.state = "served"
  /\ list' = t.answer
  /\ message' = IF t.say = Nil THEN message ELSE t.say
  /\ Ended(t)
  /\ UNCHANGED detailVars

(* Fault: the message is shown at once, and the table refreshed after it.  *)
ApprovalArrivesAtOnce(t) ==
  /\ t.at = "approve"
  /\ t.state = "served"
  /\ message' = Message("approved", t.answer)
  /\ ThenRefresh(t, Nil)
  /\ UNCHANGED <<list, detailVars>>

ApprovalArrives(t) ==
  /\ t.at = "approve"
  /\ t.state = "served"
  /\ ThenRefresh(t, Message("approved", t.answer))
  /\ UNCHANGED <<list, detailVars, message>>

(* A preview leaves its token, a revocation closes the detail, whichever   *)
(* record is selected by now.                                              *)
RevocationArrives(t) ==
  /\ t.at = "revoke"
  /\ t.state = "served"
  /\ \/ /\ t.arg.token = Nil
        /\ token' = t.answer
        /\ Ended(t)
        /\ UNCHANGED selected
     \/ /\ t.arg.token # Nil
        /\ token' = Nil
        /\ selected' = Nil
        /\ ThenRefresh(t, Message("revoked", t.answer))
  /\ UNCHANGED <<list, message>>

(* A request fails or its answer is lost. The failure is shown, but for    *)
(* that of a history, of which a refresh without a message may be part; a  *)
(* failed revocation forgets the token.                                    *)
FailureArrives(t) ==
  /\ token' = IF t.at = "revoke" \/ (t.say # Nil /\ t.say.kind = "revoked")
                THEN Nil ELSE token
  /\ \/ message' = Failure
     \/ t.at = "list" /\ t.say = Nil /\ UNCHANGED message
  /\ Ended(t)
  /\ UNCHANGED <<list, selected>>

Arrive(n) ==
  \E t \in tasks :
    /\ t.n = n
    /\ \/ ListArrives(t) \/ ApprovalArrives(t)
       \/ RevocationArrives(t) \/ FailureArrives(t)
    /\ UNCHANGED <<records, started>>

-----------------------------------------------------------------------------
(* Another process approves or revokes.                                    *)
Others ==
  /\ \/ \E d \in Demands : \E s \in Unused(records, d, Stamps) :
          Len(records) < MaxRecords /\ records' = WithApproval(records, d, s)
     \/ \E i \in DOMAIN records :
          Revocable(records, i) /\ records' = WithRevocation(records, i)
  /\ UNCHANGED <<list, detailVars, message, tasks, started>>

Next ==
  \/ RefreshTable \/ ShowDetail \/ SubmitApprove \/ SubmitRevoke
  \/ \E n \in 1 .. MaxTasks : Serve(n) \/ Arrive(n)
  \/ Others

-----------------------------------------------------------------------------
(* A revocation the page asks for retires the record that was previewed    *)
(* and selected when the person confirmed, and nobody else's decision.     *)
RetiresWhatWasPreviewed ==
  \A t \in tasks :
    (records' # records /\ tasks' # tasks /\ t \notin tasks' /\ t.at = "revoke")
    => /\ t.arg.token = t.arg.id
       /\ records[t.arg.id].status = "active"
       /\ records' = WithRevocation(records, t.arg.id)

(* The message of an approval appears after the table that reflects it,    *)
(* and so does that of a revocation.                                       *)
SaysWhatTheTableShows ==
  message' # message =>
    \/ /\ message'.kind = "approved"
       /\ Reflects(list', ListLimit, records', message'.id)
    \/ /\ message'.kind = "revoked"
       /\ \A row \in Range(list') : row.id = message'.id => row.status = "revoked"
    \/ message'.kind = "error"
=============================================================================
