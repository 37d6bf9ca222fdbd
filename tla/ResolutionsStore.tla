-------------------------- MODULE ResolutionsStore --------------------------
(***************************************************************************)
(* internal/resolutions/store.go: the SQLite store of approved             *)
(* resolutions, used at the same time by several callers.                  *)
(*                                                                         *)
(* A handle is one opened Store: a process (a CLI command, the terminal    *)
(* interface, the web server) has one, and its pool holds exactly one      *)
(* connection (SetMaxOpenConns(1)), so the callers of one handle queue for *)
(* it. Callers of different handles are different processes; SQLite        *)
(* coordinates them. Every transaction is a plain deferred BEGIN: its      *)
(* first SELECT fixes the snapshot it reads, its first INSERT or UPDATE    *)
(* asks for the database's only write lock, and SQLite refuses that at     *)
(* once (without the busy timeout) when another process holds the lock or  *)
(* has committed since the snapshot was taken.                             *)
(*                                                                         *)
(* The times are instants of a clock that never runs backwards. Each call  *)
(* reads it BEFORE its transaction begins, as the callers of Approve and   *)
(* Revoke do, so calls may commit out of the order of their times.         *)
(***************************************************************************)
EXTENDS Naturals, Sequences

CONSTANTS
  Client,     \* goroutines and processes that call the store
  Handle,     \* opened stores, one per process
  HandleOf,   \* HandleOf[c]: the handle client c calls
  Demand,     \* demand identities
  Request,    \* valid approval requests
  DemandOf,   \* DemandOf[q]: the demand key of request q
  MaxTime,    \* bound: the last instant of the clock
  None        \* no id, no client, no token

Time == 0 .. MaxTime

(* newResolutionID digests the demand key, the replacement, the approver   *)
(* and the nanosecond of the approval: the same request approved in the    *)
(* same instant gets the same id, anything else a different one.           *)
Id == [request : Request, at : Time]

ASSUME StoreAssumption ==
  /\ HandleOf \in [Client -> Handle]
  /\ DemandOf \in [Request -> Demand]
  /\ MaxTime \in Nat
  /\ None \notin Client
  /\ None \notin Id

DemandOfId(i) == DemandOf[i.request]

Retired == {"superseded", "revoked"}

(* What of a stored record changes; the id determines the rest.            *)
Row == [status : {"absent", "active"} \cup Retired, updatedAt : Time]

Rows == [Id -> Row]

Absent == [status |-> "absent", updatedAt |-> 0]

Event == [id : Id, action : {"approved"} \cup Retired,
          by : Id \cup {None}, at : Time]

(* revokeToken digests the id and the checksum of the stored record.       *)
Token == [id : Id, row : Row]

VARIABLES
  rows,      \* table resolution_records, as committed
  log,       \* table resolution_events, as committed, in event_id order
  writer,    \* the client whose transaction holds SQLite's write lock
  conn,      \* conn[h]: the client that has handle h's only connection
  clock,     \* the wall clock
  pc,        \* pc[c]: where client c is in the call it makes
  call,      \* call[c]: the arguments of that call, and its time
  tx,        \* tx[c]: what its transaction sees, its own writes included
  reply,     \* reply[c]: the answer of its last call
  held       \* held[c]: the apply token of the last preview it was shown

vars == <<rows, log, writer, conn, clock, pc, call, tx, reply, held>>

Activated(i)     == [status |-> "active", updatedAt |-> i.at]
RetiredAs(s, t)  == [status |-> s, updatedAt |-> t]
RevokeToken(i, r) == [id |-> i, row |-> r]

ApprovedEvent(i) == [id |-> i, action |-> "approved", by |-> i, at |-> i.at]
(* Fault: the entry records the old status where the action belongs.       *)
SupersededEventOldStatus(p, i) ==
  [id |-> p, action |-> "active", by |-> i, at |-> i.at]

(* Fault: the entry names the retired record as its own successor.         *)
SupersededEventSelf(p, i) ==
  [id |-> p, action |-> "superseded", by |-> p, at |-> i.at]

SupersededEvent(p, i) ==
  [id |-> p, action |-> "superseded", by |-> i, at |-> i.at]
RevokedEvent(i, t) == [id |-> i, action |-> "revoked", by |-> None, at |-> t]

(* Fault: the demand key keeps the spelling of the request, so the record  *)
(* approved under another spelling is not found.                           *)
ActiveForSpelling(r, d) == {}

ActiveFor(r, d) == {i \in Id : r[i].status = "active" /\ DemandOfId(i) = d}

(* activeRecordForKey: the active record of a demand, or none.             *)
ActiveRecordForKey(r, d) ==
  IF ActiveFor(r, d) = {} THEN {None} ELSE ActiveFor(r, d)

NoCall == [kind |-> "none", id |-> None, token |-> None, at |-> 0]
NoTx   == [rows |-> [i \in Id |-> Absent], log |-> <<>>, prev |-> None]
NoReply == [outcome |-> "none", id |-> None]

Calls == [kind : {"none", "approve", "revoke"}, id : Id \cup {None},
          token : Token \cup {None}, at : Time]
Txs   == [rows : Rows, log : Seq(Event), prev : Id \cup {None}]

PcStates == {"idle", "called", "begun", "read", "superseded", "written",
             "committed"}
Failures == {"input", "collides", "refused", "busy", "cancelled",
             "not_found", "not_active", "stale_preview"}
Outcomes == {"none", "approved", "revoked", "preview"} \cup Failures

TypeOK ==
  /\ rows \in Rows
  /\ log \in Seq(Event)
  /\ writer \in Client \cup {None}
  /\ conn \in [Handle -> Client \cup {None}]
  /\ clock \in Time
  /\ pc \in [Client -> PcStates]
  /\ call \in [Client -> Calls]
  /\ tx \in [Client -> Txs]
  /\ reply \in [Client -> [outcome : Outcomes, id : Id \cup {None}]]
  /\ held \in [Client -> Token \cup {None}]

Init ==
  /\ rows = [i \in Id |-> Absent]
  /\ log = <<>>
  /\ writer = None
  /\ conn = [h \in Handle |-> None]
  /\ clock = 0
  /\ pc = [c \in Client |-> "idle"]
  /\ call = [c \in Client |-> NoCall]
  /\ tx = [c \in Client |-> NoTx]
  /\ reply = [c \in Client |-> NoReply]
  /\ held = [c \in Client |-> None]

-----------------------------------------------------------------------------
(* Calls.                                                                  *)

(* Fault: an early return without Rollback keeps the connection.           *)
FinishLeaking(c, outcome) ==
  /\ pc' = [pc EXCEPT ![c] = "idle"]
  /\ reply' = [reply EXCEPT ![c] = [outcome |-> outcome, id |-> call[c].id]]
  /\ call' = [call EXCEPT ![c] = NoCall]
  /\ tx' = [tx EXCEPT ![c] = NoTx]
  /\ writer' = IF writer = c THEN None ELSE writer
  /\ UNCHANGED <<rows, log, conn, clock>>

(* The call returns: a transaction still open is rolled back by the        *)
(* deferred Rollback, which gives back the lock and the connection.        *)
Finish(c, outcome) ==
  /\ pc' = [pc EXCEPT ![c] = "idle"]
  /\ reply' = [reply EXCEPT ![c] = [outcome |-> outcome, id |-> call[c].id]]
  /\ call' = [call EXCEPT ![c] = NoCall]
  /\ tx' = [tx EXCEPT ![c] = NoTx]
  /\ writer' = IF writer = c THEN None ELSE writer
  /\ conn' = IF conn[HandleOf[c]] = c
               THEN [conn EXCEPT ![HandleOf[c]] = None] ELSE conn
  /\ UNCHANGED <<rows, log, clock>>

Enter(c, arguments) ==
  /\ pc[c] = "idle"
  /\ pc' = [pc EXCEPT ![c] = "called"]
  /\ call' = [call EXCEPT ![c] = arguments]
  /\ reply' = [reply EXCEPT ![c] = NoReply]
  /\ UNCHANGED <<rows, log, writer, conn, clock, tx, held>>

CallApprove(c, q) ==
  Enter(c, [kind |-> "approve", id |-> [request |-> q, at |-> clock],
            token |-> None, at |-> clock])

(* Revoke without a token asks for a preview, with one it applies it.      *)
CallRevoke(c, i, token) ==
  Enter(c, [kind |-> "revoke", id |-> i, token |-> token, at |-> clock])

(* ValidateRequest, or Revoke's checks of its arguments, refuse the call.  *)
CallInvalid(c) ==
  /\ pc[c] = "idle"
  /\ Finish(c, "input")
  /\ UNCHANGED held

(* Fault: the pool is not limited to one connection.                       *)
BeginUnpooled(c) ==
  /\ pc[c] = "called"
  /\ pc' = [pc EXCEPT ![c] = "begun"]
  /\ UNCHANGED <<rows, log, writer, conn, clock, call, tx, reply, held>>

(* BeginTx: wait for the handle's connection. BEGIN itself takes no lock.  *)
Begin(c) ==
  /\ pc[c] = "called"
  /\ conn[HandleOf[c]] = None
  /\ conn' = [conn EXCEPT ![HandleOf[c]] = c]
  /\ pc' = [pc EXCEPT ![c] = "begun"]
  /\ UNCHANGED <<rows, log, writer, clock, call, tx, reply, held>>

TakeSnapshot(c, previous) ==
  /\ tx' = [tx EXCEPT ![c] = [rows |-> rows, log |-> log, prev |-> previous]]
  /\ pc' = [pc EXCEPT ![c] = "read"]
  /\ UNCHANGED <<rows, log, writer, conn, clock, call, reply, held>>

(* Fault: what was read is written back without regard to later commits.   *)
CanUpgradeUnversioned(c) == writer = None

(* The write lock is granted to a transaction that has read only when no   *)
(* other process writes and the snapshot is still the newest state. Every  *)
(* transaction that commits appends to the log, so its length tells.       *)
CanUpgrade(c) ==
  /\ writer = None
  /\ Len(log) = Len(tx[c].log)

WriteLockRefused(c) ==
  /\ pc[c] = "read"
  /\ ~CanUpgrade(c)
  /\ Finish(c, "busy")
  /\ UNCHANGED held

(* Write statements of the transaction: the database itself is unchanged   *)
(* until the commit.                                                       *)
Write(c, newRows, newLog, label) ==
  /\ writer' = c
  /\ tx' = [tx EXCEPT ![c] =
               [rows |-> newRows, log |-> newLog, prev |-> tx[c].prev]]
  /\ pc' = [pc EXCEPT ![c] = label]
  /\ UNCHANGED <<rows, log, conn, clock, call, reply, held>>

Commit(c) ==
  /\ pc[c] = "written"
  /\ rows' = tx[c].rows
  /\ log' = tx[c].log
  /\ writer' = None
  /\ conn' = [conn EXCEPT ![HandleOf[c]] = None]
  /\ tx' = [tx EXCEPT ![c] = NoTx]
  /\ pc' = [pc EXCEPT ![c] = "committed"]
  /\ UNCHANGED <<clock, call, reply, held>>

(* The caller learns of the commit in a step of its own: a crash may come  *)
(* first, and leaves a decision recorded that nobody was told of.          *)
Return(c) ==
  /\ pc[c] = "committed"
  /\ Finish(c, IF call[c].kind = "approve" THEN "approved" ELSE "revoked")
  /\ UNCHANGED held

-----------------------------------------------------------------------------
(* Approve.                                                                *)

ApproveRead(c) ==
  /\ pc[c] = "begun"
  /\ call[c].kind = "approve"
  /\ \E previous \in ActiveRecordForKey(rows, DemandOfId(call[c].id)) :
       /\ previous # call[c].id
       /\ TakeSnapshot(c, previous)

(* The active record already has this id: same request, same instant.      *)
ApproveCollides(c) ==
  /\ pc[c] = "begun"
  /\ call[c].kind = "approve"
  /\ call[c].id \in ActiveRecordForKey(rows, DemandOfId(call[c].id))
  /\ Finish(c, "collides")
  /\ UNCHANGED held

(* updateRecord and appendEvent for the record that is replaced.           *)
ApproveSupersede(c) ==
  LET previous == tx[c].prev
      new == call[c].id
  IN /\ pc[c] = "read"
     /\ call[c].kind = "approve"
     /\ previous # None
     /\ CanUpgrade(c)
     /\ Write(c, [tx[c].rows EXCEPT ![previous] = RetiredAs("superseded", new.at)],
                 Append(tx[c].log, SupersededEvent(previous, new)),
                 "superseded")

(* Where Approve inserts: after the supersession, or at once when the      *)
(* demand had no active record (then the INSERT asks for the lock).        *)
AtInsert(c) ==
  /\ call[c].kind = "approve"
  /\ \/ pc[c] = "superseded"
     \/ pc[c] = "read" /\ tx[c].prev = None /\ CanUpgrade(c)

(* Fault: the INSERT replaces a record of the same id.                     *)
ViolatesConstraintUpsert(r, i) == ActiveFor(r, DemandOfId(i)) # {}

(* The primary key, and the unique index of active demand keys.            *)
ViolatesConstraint(r, i) ==
  \/ r[i].status # "absent"
  \/ ActiveFor(r, DemandOfId(i)) # {}

(* insertRecord and appendEvent for the new record.                        *)
ApproveInsert(c) ==
  LET new == call[c].id
  IN /\ AtInsert(c)
     /\ ~ViolatesConstraint(tx[c].rows, new)
     /\ Write(c, [tx[c].rows EXCEPT ![new] = Activated(new)],
                 Append(tx[c].log, ApprovedEvent(new)),
                 "written")

ApproveInsertRefused(c) ==
  /\ AtInsert(c)
  /\ ViolatesConstraint(tx[c].rows, call[c].id)
  /\ Finish(c, "refused")
  /\ UNCHANGED held

-----------------------------------------------------------------------------
(* Revoke. The checks come in this order: the record exists, it is active, *)
(* a token was given, the token is the one of the record as it is now.     *)

AtRevokeRead(c) ==
  /\ pc[c] = "begun"
  /\ call[c].kind = "revoke"

RevokeNotFound(c) ==
  /\ AtRevokeRead(c)
  /\ rows[call[c].id].status = "absent"
  /\ Finish(c, "not_found")
  /\ UNCHANGED held

RevokeNotActive(c) ==
  /\ AtRevokeRead(c)
  /\ rows[call[c].id].status \in Retired
  /\ Finish(c, "not_active")
  /\ UNCHANGED held

RevokePreview(c) ==
  LET i == call[c].id
  IN /\ AtRevokeRead(c)
     /\ rows[i].status = "active"
     /\ call[c].token = None
     /\ held' = [held EXCEPT ![c] = RevokeToken(i, rows[i])]
     /\ Finish(c, "preview")

RevokeStalePreview(c) ==
  LET i == call[c].id
  IN /\ AtRevokeRead(c)
     /\ rows[i].status = "active"
     /\ call[c].token \notin {None, RevokeToken(i, rows[i])}
     /\ Finish(c, "stale_preview")
     /\ UNCHANGED held

(* Fault: the token is not compared.                                       *)
RevokeReadUnchecked(c) ==
  /\ AtRevokeRead(c)
  /\ rows[call[c].id].status = "active"
  /\ TakeSnapshot(c, call[c].id)

RevokeRead(c) ==
  LET i == call[c].id
  IN /\ AtRevokeRead(c)
     /\ rows[i].status = "active"
     /\ call[c].token = RevokeToken(i, rows[i])
     /\ TakeSnapshot(c, i)

(* updateRecord and appendEvent.                                           *)
RevokeWrite(c) ==
  LET i == call[c].id
  IN /\ pc[c] = "read"
     /\ call[c].kind = "revoke"
     /\ CanUpgrade(c)
     /\ Write(c, [tx[c].rows EXCEPT ![i] = RetiredAs("revoked", call[c].at)],
                 Append(tx[c].log, RevokedEvent(i, call[c].at)),
                 "written")

-----------------------------------------------------------------------------
(* What may happen to a call, to a process and to the clock.               *)

(* The request's context is cancelled, or a statement fails: the           *)
(* transaction is rolled back.                                             *)
Abort(c) ==
  /\ pc[c] \in {"called", "begun", "read", "superseded", "written"}
  /\ Finish(c, "cancelled")
  /\ UNCHANGED held

(* The process dies: its calls are gone, SQLite drops what was not         *)
(* committed, and a new process opens the store. People keep their tokens. *)
Crash(h) ==
  LET Gone == {c \in Client : HandleOf[c] = h}
  IN /\ pc' = [c \in Client |-> IF c \in Gone THEN "idle" ELSE pc[c]]
     /\ call' = [c \in Client |-> IF c \in Gone THEN NoCall ELSE call[c]]
     /\ tx' = [c \in Client |-> IF c \in Gone THEN NoTx ELSE tx[c]]
     /\ reply' = [c \in Client |-> IF c \in Gone THEN NoReply ELSE reply[c]]
     /\ writer' = IF writer \in Gone THEN None ELSE writer
     /\ conn' = [conn EXCEPT ![h] = None]
     /\ UNCHANGED <<rows, log, clock, held>>

Tick ==
  /\ clock < MaxTime
  /\ clock' = clock + 1
  /\ UNCHANGED <<rows, log, writer, conn, pc, call, tx, reply, held>>

(* The steps a call takes once it has its connection.                      *)
Step(c) ==
  \/ ApproveRead(c) \/ ApproveCollides(c) \/ ApproveSupersede(c)
  \/ ApproveInsert(c) \/ ApproveInsertRefused(c)
  \/ RevokeNotFound(c) \/ RevokeNotActive(c) \/ RevokePreview(c)
  \/ RevokeStalePreview(c) \/ RevokeRead(c) \/ RevokeWrite(c)
  \/ WriteLockRefused(c) \/ Commit(c) \/ Return(c)

Next ==
  \/ \E c \in Client :
       \/ \E q \in Request : CallApprove(c, q)
       \/ \E i \in Id : \E token \in {None, held[c]} : CallRevoke(c, i, token)
       \/ CallInvalid(c)
       \/ Begin(c)
       \/ Step(c)
       \/ Abort(c)
  \/ \E h \in Handle : Crash(h)
  \/ Tick

Spec == Init /\ [][Next]_vars

(* A goroutine that can take a step takes it; database/sql hands a freed   *)
(* connection to a random waiter, so no waiter is passed over for ever.    *)
Fairness ==
  \A c \in Client : WF_vars(Step(c)) /\ SF_vars(Begin(c))

FairSpec == Spec /\ Fairness

-----------------------------------------------------------------------------
(* Properties.                                                             *)

OneActive(r) ==
  \A i, j \in Id :
    /\ r[i].status = "active"
    /\ r[j].status = "active"
    /\ DemandOfId(i) = DemandOfId(j)
    => i = j

(* At any time each demand has at most one active resolution, whatever the *)
(* processes approving and revoking at once (types.go: "Exactly one record *)
(* per demand key may be active").                                         *)
OneActivePerDemand == OneActive(rows)

Logged(l, i, action) ==
  \E n \in DOMAIN l : l[n].id = i /\ l[n].action = action

StatusIsLogged(r, l) ==
  \A i \in Id :
    /\ r[i].status # "absent" <=> Logged(l, i, "approved")
    /\ \A s \in Retired : r[i].status = s <=> Logged(l, i, s)

LoggedOnce(l) ==
  \A m, n \in DOMAIN l :
    l[m].id = l[n].id /\ l[m].action = l[n].action => m = n

TimesAgree(r, l) ==
  \A n \in DOMAIN l :
    l[n].action \in Retired => r[l[n].id].updatedAt = l[n].at

(* The audit history explains the records: a record exists if and only if  *)
(* its approval is logged, it is superseded or revoked if and only if that *)
(* is logged, the time of its retirement is that of the entry, and no      *)
(* decision is logged twice. A commit that carried a record without its    *)
(* event, or a retirement that happened twice, would break it.             *)
AuditExplainsRecords ==
  StatusIsLogged(rows, log) /\ LoggedOnce(log) /\ TimesAgree(rows, log)

SuccessorFollows(l) ==
  \A n \in DOMAIN l :
    l[n].action = "superseded" =>
      /\ n + 1 \in DOMAIN l
      /\ l[n].by \in Id \ {l[n].id}
      /\ DemandOfId(l[n].by) = DemandOfId(l[n].id)
      /\ l[n + 1] = ApprovedEvent(l[n].by)

(* A supersession is logged together with the approval that caused it, of  *)
(* the same demand: the very next entry (Approve: "both changes land in    *)
(* the audit history").                                                    *)
SupersededBySuccessor == SuccessorFollows(log)

(* What a caller was told has happened and stays so: an approval that was  *)
(* acknowledged is in the audit history even after its process has         *)
(* crashed, an acknowledged revocation has retired its record, and no two  *)
(* callers were told that the same approval is theirs.                     *)
AcknowledgedDecisionsStand ==
  /\ \A c \in Client :
       /\ reply[c].outcome = "approved" => Logged(log, reply[c].id, "approved")
       /\ reply[c].outcome = "revoked" => rows[reply[c].id].status = "revoked"
  /\ \A c, d \in Client :
       /\ reply[c].outcome = "approved" /\ reply[d].outcome = "approved"
       /\ reply[c].id = reply[d].id
       => c = d

(* Callers that share one process queue for its connection and never meet  *)
(* SQLite's lock: while there is one process, no call fails as busy        *)
(* (store_test.go: eight concurrent approvals of one store all succeed).   *)
NoBusyWithinOneProcess ==
  (\A c, d \in Client : HandleOf[c] = HandleOf[d])
    => \A c \in Client : reply[c].outcome # "busy"

(* A decision is never rewritten: the audit history only grows, and a      *)
(* superseded or revoked record never changes again. Two processes that    *)
(* retire the same record from snapshots of the same state would.          *)
DecisionsAreFinal ==
  [][/\ Len(log) <= Len(log')
     /\ \A n \in DOMAIN log : log'[n] = log[n]
     /\ \A i \in Id : rows[i].status \in Retired => rows'[i] = rows[i]]_vars

(* A revocation retires exactly the record its caller was shown: the       *)
(* record that becomes revoked is, at that instant, still the one bound by *)
(* the token of the call that revokes it (Revoke: "any concurrent change   *)
(* invalidates the token instead of being silently revoked").              *)
RevokesWhatWasPreviewed ==
  [][\A i \in Id :
       rows[i].status # "revoked" /\ rows'[i].status = "revoked" =>
         \E c \in Client :
           /\ pc[c] = "written" /\ pc'[c] = "committed"
           /\ call[c].kind = "revoke" /\ call[c].id = i
           /\ call[c].token = RevokeToken(i, rows[i])]_vars

(* The store implements the register of decisions: every commit is one     *)
(* decision taken at one instant, everything else is invisible.            *)
Registry == INSTANCE ResolutionsRegistry WITH
  inForce <- {i \in Id : rows[i].status = "active"},
  decisions <- log

ImplementsRegistry == Registry!Spec

(* Every call is answered: waiting for the pool, the write lock and the    *)
(* refusals never block each other for ever.                               *)
EveryCallReturns ==
  \A c \in Client : pc[c] # "idle" ~> pc[c] = "idle"

(* Another caller was told that it decided what retired resolution i.      *)
RetiredByAnother(c, i) ==
  \E d \in Client \ {c} :
    \/ reply[d] = [outcome |-> "revoked", id |-> i]
    \/ \E n \in DOMAIN log :
         /\ log[n].id = i /\ log[n].action = "superseded"
         /\ reply[d] = [outcome |-> "approved", id |-> log[n].by]

(* The two-step revoke of the terminal interface and of the web page, as   *)
(* tui/model.go and LOGBOOK.md describe it: a change that another process  *)
(* makes between preview and apply is answered as a stale preview. (The    *)
(* status check of Revoke comes before its token check, so the code says   *)
(* that the resolution is not active, kind "input", instead.)              *)
ConcurrentChangeIsStalePreview ==
  [][\A c \in Client :
       /\ pc[c] = "begun" /\ pc'[c] = "idle"
       /\ call[c].kind = "revoke"
       /\ call[c].token # None
       /\ call[c].token = RevokeToken(call[c].id, Activated(call[c].id))
       /\ RetiredByAnother(c, call[c].id)
       => reply'[c].outcome \in {"none", "cancelled", "stale_preview"}]_vars

(* The comment on the session pragmas (store.go:82): with busy_timeout set *)
(* on the connection, contention between processes does not become an      *)
(* immediate SQLITE_BUSY failure.                                          *)
ContentionIsNotBusy == \A c \in Client : reply[c].outcome # "busy"
=============================================================================
