----------------------- MODULE ResolutionsStoreProofs -----------------------
(***************************************************************************)
(* Proofs about ResolutionsStore, for any number of processes, callers,    *)
(* demands, requests and instants.                                         *)
(*                                                                         *)
(* The inductive invariant says what a transaction that has read, and one  *)
(* that has written, knows of the committed state. Its heart is Snapshot:  *)
(* a transaction whose snapshot has the length of the log has the newest   *)
(* state, so the write it is then allowed to make is based on it. From     *)
(* there every commit is one of the three decisions Adopts, Replaces and   *)
(* Withdraws, and the properties of the store are properties of those.     *)
(***************************************************************************)
EXTENDS ResolutionsStore, TLAPS

(* A caller with an open transaction has its handle's connection.          *)
PoolInv ==
  \A c \in Client :
    pc[c] \in {"begun", "read", "superseded", "written"}
      => conn[HandleOf[c]] = c

(* The holder of the write lock is the caller that has written.            *)
WriterInv == \A c \in Client : writer = c <=> pc[c] \in {"superseded", "written"}

CallInv ==
  \A c \in Client :
    /\ pc[c] # "idle" => call[c].id \in Id /\ call[c].kind \in {"approve", "revoke"}
    /\ pc[c] = "superseded" => call[c].kind = "approve"

(* What a transaction that has read, and not written, knows.               *)
Snapshot(c) ==
  /\ Len(tx[c].log) <= Len(log)
  /\ Len(tx[c].log) = Len(log) => tx[c].log = log /\ tx[c].rows = rows
  /\ call[c].kind = "approve" =>
       /\ tx[c].prev \in ActiveRecordForKey(tx[c].rows, DemandOfId(call[c].id))
       /\ tx[c].prev # call[c].id
  /\ call[c].kind = "revoke" =>
       /\ tx[c].rows[call[c].id].status = "active"
       /\ call[c].token = RevokeToken(call[c].id, tx[c].rows[call[c].id])

SnapshotInv == \A c \in Client : pc[c] = "read" => Snapshot(c)

(* The states of the database after each kind of decision.                 *)
AdoptedFrom(i, r, l) ==
  /\ rows[i].status = "absent"
  /\ \A j \in Id : rows[j].status = "active" => DemandOfId(j) # DemandOfId(i)
  /\ r = [rows EXCEPT ![i] = Activated(i)]
  /\ l = Append(log, ApprovedEvent(i))

SupersededFrom(p, i, r, l) ==
  /\ rows[p].status = "active"
  /\ DemandOfId(p) = DemandOfId(i)
  /\ p # i
  /\ r = [rows EXCEPT ![p] = RetiredAs("superseded", i.at)]
  /\ l = Append(log, SupersededEvent(p, i))

ReplacedFrom(p, i, r, l) ==
  /\ rows[p].status = "active"
  /\ DemandOfId(p) = DemandOfId(i)
  /\ p # i
  /\ rows[i].status = "absent"
  /\ r = [[rows EXCEPT ![p] = RetiredAs("superseded", i.at)]
            EXCEPT ![i] = Activated(i)]
  /\ l = Append(Append(log, SupersededEvent(p, i)), ApprovedEvent(i))

WithdrawnFrom(i, t, r, l) ==
  /\ rows[i].status = "active"
  /\ r = [rows EXCEPT ![i] = RetiredAs("revoked", t)]
  /\ l = Append(log, RevokedEvent(i, t))

(* A transaction that has written stands on the committed state.           *)
Written(c) ==
  /\ pc[c] = "superseded" =>
       /\ tx[c].prev \in Id
       /\ SupersededFrom(tx[c].prev, call[c].id, tx[c].rows, tx[c].log)
  /\ pc[c] = "written" /\ call[c].kind = "approve" =>
       \/ AdoptedFrom(call[c].id, tx[c].rows, tx[c].log)
       \/ \E p \in Id : ReplacedFrom(p, call[c].id, tx[c].rows, tx[c].log)
  /\ pc[c] = "written" /\ call[c].kind = "revoke" =>
       /\ WithdrawnFrom(call[c].id, call[c].at, tx[c].rows, tx[c].log)
       /\ call[c].token = RevokeToken(call[c].id, rows[call[c].id])

WrittenInv == \A c \in Client : Written(c)

IInv ==
  /\ TypeOK
  /\ PoolInv
  /\ WriterInv
  /\ CallInv
  /\ SnapshotInv
  /\ OneActivePerDemand
  /\ WrittenInv

-----------------------------------------------------------------------------
(* Types.                                                                  *)

LEMMA ValueTypes ==
  /\ Absent \in Row
  /\ NoTx \in Txs
  /\ NoCall \in Calls
  /\ NoReply \in [outcome : Outcomes, id : Id \cup {None}]
  /\ \A i \in Id : i.at \in Time /\ i.request \in Request
  /\ \A i \in Id : Activated(i) \in Row /\ ApprovedEvent(i) \in Event
  /\ \A s \in Retired, t \in Time : RetiredAs(s, t) \in Row
  /\ \A p, i \in Id : SupersededEvent(p, i) \in Event
  /\ \A i \in Id, t \in Time : RevokedEvent(i, t) \in Event
  /\ \A i \in Id, r \in Row : RevokeToken(i, r) \in Token
<1>1. 0 \in Time
  BY StoreAssumption DEF Time
<1>2. Absent \in Row
  BY <1>1 DEF Absent, Row
<1>3. NoTx \in Txs
  BY <1>2 DEF NoTx, Txs, Rows
<1>4. NoCall \in Calls
  BY <1>1 DEF NoCall, Calls
<1>5. NoReply \in [outcome : Outcomes, id : Id \cup {None}]
  BY DEF NoReply, Outcomes
<1>6. \A i \in Id : i.at \in Time /\ i.request \in Request
  BY DEF Id
<1>7. \A i \in Id : Activated(i) \in Row /\ ApprovedEvent(i) \in Event
  BY <1>6 DEF Activated, Row, ApprovedEvent, Event
<1>8. \A s \in Retired, t \in Time : RetiredAs(s, t) \in Row
  BY DEF RetiredAs, Row
<1>9. \A p, i \in Id : SupersededEvent(p, i) \in Event
  BY <1>6 DEF SupersededEvent, Event, Retired
<1>10. \A i \in Id, t \in Time : RevokedEvent(i, t) \in Event
  BY DEF RevokedEvent, Event, Retired
<1>11. \A i \in Id, r \in Row : RevokeToken(i, r) \in Token
  BY DEF RevokeToken, Token
<1> QED
  BY <1>2, <1>3, <1>4, <1>5, <1>6, <1>7, <1>8, <1>9, <1>10, <1>11

(* Finish is how a call ends; it keeps the types.                          *)
LEMMA FinishTypeOK ==
  ASSUME NEW c \in Client, NEW outcome \in Outcomes,
         TypeOK, Finish(c, outcome), held' \in [Client -> Token \cup {None}]
  PROVE  TypeOK'
<1>1. UNCHANGED <<rows, log, clock>>
  BY DEF Finish
<1>2. pc' \in [Client -> PcStates]
  BY DEF Finish, TypeOK, PcStates
<1>3. call' \in [Client -> Calls]
  BY ValueTypes DEF Finish, TypeOK
<1>4. tx' \in [Client -> Txs]
  BY ValueTypes DEF Finish, TypeOK
<1>5. reply' \in [Client -> [outcome : Outcomes, id : Id \cup {None}]]
  BY DEF Finish, TypeOK, Calls
<1>6. writer' \in Client \cup {None}
  BY DEF Finish, TypeOK
<1>7. conn' \in [Handle -> Client \cup {None}]
  BY DEF Finish, TypeOK
<1> QED
  BY <1>1, <1>2, <1>3, <1>4, <1>5, <1>6, <1>7 DEF TypeOK

LEMMA EnterTypeOK ==
  ASSUME NEW c \in Client, NEW arguments \in Calls, TypeOK, Enter(c, arguments)
  PROVE  TypeOK'
<1>1. pc' \in [Client -> PcStates]
  BY DEF Enter, TypeOK, PcStates
<1>2. call' \in [Client -> Calls]
  BY DEF Enter, TypeOK
<1>3. reply' \in [Client -> [outcome : Outcomes, id : Id \cup {None}]]
  BY ValueTypes DEF Enter, TypeOK
<1> QED
  BY <1>1, <1>2, <1>3 DEF Enter, TypeOK

LEMMA TakeSnapshotTypeOK ==
  ASSUME NEW c \in Client, NEW p \in Id \cup {None}, TypeOK, TakeSnapshot(c, p)
  PROVE  TypeOK'
<1>1. pc' \in [Client -> PcStates]
  BY DEF TakeSnapshot, TypeOK, PcStates
<1>2. [rows |-> rows, log |-> log, prev |-> p] \in Txs
  BY DEF TypeOK, Txs
<1>3. tx' \in [Client -> Txs]
  BY <1>2 DEF TakeSnapshot, TypeOK
<1> QED
  BY <1>1, <1>3 DEF TakeSnapshot, TypeOK

LEMMA WriteTypeOK ==
  ASSUME NEW c \in Client, NEW r \in Rows, NEW l \in Seq(Event),
         NEW label \in PcStates, TypeOK, Write(c, r, l, label)
  PROVE  TypeOK'
<1>1. pc' \in [Client -> PcStates]
  BY DEF Write, TypeOK
<1>2. [rows |-> r, log |-> l, prev |-> tx[c].prev] \in Txs
  BY DEF TypeOK, Txs
<1>5. tx' \in [Client -> Txs]
  BY <1>2 DEF Write, TypeOK
<1>6. writer' \in Client \cup {None}
  BY DEF Write
<1> QED
  BY <1>1, <1>5, <1>6 DEF Write, TypeOK

-----------------------------------------------------------------------------
(* The invariant, action by action.                                        *)

LEMMA InitInv == Init => IInv
<1> SUFFICES ASSUME Init PROVE IInv
  OBVIOUS
<1>1. TypeOK
  <2>1. 0 \in Time
    BY StoreAssumption DEF Time
  <2> QED
    BY <2>1, ValueTypes DEF Init, TypeOK, Rows, PcStates
<1>2. PoolInv /\ WriterInv /\ CallInv /\ SnapshotInv /\ WrittenInv
  BY StoreAssumption
     DEF Init, PoolInv, WriterInv, CallInv, SnapshotInv, WrittenInv, Written
<1>3. OneActivePerDemand
  BY DEF Init, OneActivePerDemand, OneActive, Absent
<1> QED
  BY <1>1, <1>2, <1>3 DEF IInv

(* A step that leaves the tables, and the call and transaction of client d *)
(* alone, leaves what d knows alone.                                       *)
LEMMA KnowledgeStands ==
  ASSUME NEW d \in Client,
         rows' = rows, log' = log,
         pc'[d] = pc[d], call'[d] = call[d], tx'[d] = tx[d]
  PROVE  /\ Snapshot(d) => Snapshot(d)'
         /\ Written(d) => Written(d)'
<1>1. Snapshot(d) => Snapshot(d)'
  BY DEF Snapshot
<1>2. Written(d) => Written(d)'
  BY DEF Written, SupersededFrom, AdoptedFrom, ReplacedFrom, WithdrawnFrom
<1> QED
  BY <1>1, <1>2

LEMMA FinishInv ==
  ASSUME NEW c \in Client, NEW outcome \in Outcomes,
         IInv, Finish(c, outcome), held' \in [Client -> Token \cup {None}]
  PROVE  IInv'
<1>1. TypeOK'
  BY FinishTypeOK DEF IInv
<1>2. /\ UNCHANGED <<rows, log>>
      /\ pc'[c] = "idle"
      /\ \A d \in Client \ {c} :
           pc'[d] = pc[d] /\ call'[d] = call[d] /\ tx'[d] = tx[d]
  BY DEF Finish, IInv, TypeOK
<1>3. PoolInv'
  BY <1>2, StoreAssumption DEF Finish, IInv, PoolInv, TypeOK
<1>4. WriterInv'
  BY <1>2, StoreAssumption DEF Finish, IInv, WriterInv
<1>5. CallInv'
  BY <1>2 DEF IInv, CallInv
<1>6. SnapshotInv'
  BY <1>2, KnowledgeStands DEF IInv, SnapshotInv
<1>7. OneActivePerDemand'
  BY <1>2 DEF IInv, OneActivePerDemand, OneActive
<1>8. WrittenInv'
  <2>1. Written(c)'
    BY <1>2 DEF Written
  <2>2. \A d \in Client \ {c} : Written(d)'
    BY <1>2, KnowledgeStands DEF IInv, WrittenInv
  <2> QED
    BY <2>1, <2>2 DEF WrittenInv
<1> QED
  BY <1>1, <1>3, <1>4, <1>5, <1>6, <1>7, <1>8 DEF IInv

LEMMA EnterInv ==
  ASSUME NEW c \in Client, NEW arguments \in Calls, IInv, Enter(c, arguments),
         arguments.id \in Id, arguments.kind \in {"approve", "revoke"}
  PROVE  IInv'
<1>1. TypeOK'
  BY EnterTypeOK DEF IInv
<1>2. /\ UNCHANGED <<rows, log, writer, conn, tx>>
      /\ pc[c] = "idle" /\ pc'[c] = "called" /\ call'[c] = arguments
      /\ \A d \in Client \ {c} :
           pc'[d] = pc[d] /\ call'[d] = call[d] /\ tx'[d] = tx[d]
  BY DEF Enter, IInv, TypeOK
<1>3. PoolInv' /\ WriterInv' /\ CallInv'
  BY <1>2 DEF IInv, PoolInv, WriterInv, CallInv
<1>4. SnapshotInv'
  BY <1>2, KnowledgeStands DEF IInv, SnapshotInv
<1>5. OneActivePerDemand'
  BY <1>2 DEF IInv, OneActivePerDemand, OneActive
<1>6. WrittenInv'
  <2>1. Written(c)'
    BY <1>2 DEF Written
  <2>2. \A d \in Client \ {c} : Written(d)'
    BY <1>2, KnowledgeStands DEF IInv, WrittenInv
  <2> QED
    BY <2>1, <2>2 DEF WrittenInv
<1> QED
  BY <1>1, <1>3, <1>4, <1>5, <1>6 DEF IInv

LEMMA BeginInv ==
  ASSUME NEW c \in Client, IInv, Begin(c)
  PROVE  IInv'
<1>1. TypeOK'
  BY StoreAssumption DEF Begin, IInv, TypeOK, PcStates
<1>2. /\ UNCHANGED <<rows, log, writer, call, tx>>
      /\ pc[c] = "called" /\ pc'[c] = "begun"
      /\ \A d \in Client \ {c} :
           pc'[d] = pc[d] /\ call'[d] = call[d] /\ tx'[d] = tx[d]
  BY DEF Begin, IInv, TypeOK
<1>3. PoolInv'
  BY <1>2, StoreAssumption DEF Begin, IInv, PoolInv, TypeOK
<1>4. WriterInv' /\ CallInv'
  BY <1>2 DEF IInv, WriterInv, CallInv
<1>5. SnapshotInv'
  BY <1>2, KnowledgeStands DEF IInv, SnapshotInv
<1>6. OneActivePerDemand'
  BY <1>2 DEF IInv, OneActivePerDemand, OneActive
<1>7. WrittenInv'
  <2>1. Written(c)'
    BY <1>2 DEF Written
  <2>2. \A d \in Client \ {c} : Written(d)'
    BY <1>2, KnowledgeStands DEF IInv, WrittenInv
  <2> QED
    BY <2>1, <2>2 DEF WrittenInv
<1> QED
  BY <1>1, <1>3, <1>4, <1>5, <1>6, <1>7 DEF IInv

(* A snapshot that is taken now is the committed state.                    *)
LEMMA TakeSnapshotInv ==
  ASSUME NEW c \in Client, NEW p \in Id \cup {None},
         IInv, pc[c] = "begun", TakeSnapshot(c, p),
         call[c].kind = "approve" =>
           /\ p \in ActiveRecordForKey(rows, DemandOfId(call[c].id))
           /\ p # call[c].id,
         call[c].kind = "revoke" =>
           /\ rows[call[c].id].status = "active"
           /\ call[c].token = RevokeToken(call[c].id, rows[call[c].id])
  PROVE  IInv'
<1>1. TypeOK'
  BY TakeSnapshotTypeOK DEF IInv
<1>2. /\ UNCHANGED <<rows, log, writer, conn, call>>
      /\ pc'[c] = "read"
      /\ tx'[c] = [rows |-> rows, log |-> log, prev |-> p]
      /\ \A d \in Client \ {c} :
           pc'[d] = pc[d] /\ call'[d] = call[d] /\ tx'[d] = tx[d]
  BY DEF TakeSnapshot, IInv, TypeOK
<1>3. PoolInv' /\ WriterInv' /\ CallInv'
  BY <1>2 DEF IInv, PoolInv, WriterInv, CallInv
<1>4. SnapshotInv'
  <2>1. Len(log) <= Len(log)
    BY DEF IInv, TypeOK
  <2>2. Snapshot(c)'
    BY <1>2, <2>1 DEF Snapshot
  <2>3. \A d \in Client \ {c} : pc'[d] = "read" => Snapshot(d)'
    BY <1>2, KnowledgeStands DEF IInv, SnapshotInv
  <2> QED
    BY <2>2, <2>3 DEF SnapshotInv
<1>5. OneActivePerDemand'
  BY <1>2 DEF IInv, OneActivePerDemand, OneActive
<1>6. WrittenInv'
  <2>1. Written(c)'
    BY <1>2 DEF Written
  <2>2. \A d \in Client \ {c} : Written(d)'
    BY <1>2, KnowledgeStands DEF IInv, WrittenInv
  <2> QED
    BY <2>1, <2>2 DEF WrittenInv
<1> QED
  BY <1>1, <1>3, <1>4, <1>5, <1>6 DEF IInv

(* A write statement: what is left to show of it is what its transaction   *)
(* now stands for.                                                         *)
LEMMA WriteInv ==
  ASSUME NEW c \in Client, NEW r \in Rows, NEW l \in Seq(Event),
         NEW label \in {"superseded", "written"}, IInv, Write(c, r, l, label),
         pc[c] \in {"read", "superseded"}, writer \in {None, c},
         label = "superseded" => call[c].kind = "approve",
         Written(c)'
  PROVE  IInv'
<1>1. TypeOK'
  BY WriteTypeOK DEF IInv, PcStates
<1>2. /\ UNCHANGED <<rows, log, conn, call>>
      /\ writer' = c /\ pc'[c] = label
      /\ \A d \in Client \ {c} :
           pc'[d] = pc[d] /\ call'[d] = call[d] /\ tx'[d] = tx[d]
  BY DEF Write, IInv, TypeOK
<1>3. PoolInv' /\ CallInv'
  BY <1>2 DEF IInv, PoolInv, CallInv
<1>4. WriterInv'
  BY <1>2, StoreAssumption DEF IInv, WriterInv
<1>5. SnapshotInv'
  BY <1>2, KnowledgeStands DEF IInv, SnapshotInv
<1>6. OneActivePerDemand'
  BY <1>2 DEF IInv, OneActivePerDemand, OneActive
<1>7. WrittenInv'
  BY <1>2, KnowledgeStands DEF IInv, WrittenInv
<1> QED
  BY <1>1, <1>3, <1>4, <1>5, <1>6, <1>7 DEF IInv

(* The write lock is granted only on the newest state.                     *)
LEMMA UpgradeSeesNewest ==
  ASSUME NEW c \in Client, IInv, pc[c] = "read", CanUpgrade(c)
  PROVE  tx[c].rows = rows /\ tx[c].log = log /\ writer = None
BY DEF IInv, SnapshotInv, Snapshot, CanUpgrade, TypeOK, Txs

LEMMA ActiveRecordFacts ==
  ASSUME NEW r \in Rows, NEW d \in Demand,
         NEW p \in ActiveRecordForKey(r, d)
  PROVE  /\ p # None => p \in Id /\ r[p].status = "active" /\ DemandOfId(p) = d
         /\ p = None => \A j \in Id : r[j].status = "active" => DemandOfId(j) # d
BY StoreAssumption DEF ActiveRecordForKey, ActiveFor

LEMMA ApproveSupersedeInv ==
  ASSUME NEW c \in Client, IInv, ApproveSupersede(c)
  PROVE  IInv'
<1> DEFINE p == tx[c].prev
           i == call[c].id
           r == [tx[c].rows EXCEPT ![p] = RetiredAs("superseded", i.at)]
           l == Append(tx[c].log, SupersededEvent(p, i))
<1>1. /\ pc[c] = "read" /\ call[c].kind = "approve" /\ p # None
      /\ CanUpgrade(c) /\ Write(c, r, l, "superseded")
  BY DEF ApproveSupersede
<1>2. tx[c].rows = rows /\ tx[c].log = log /\ writer = None
  BY <1>1, UpgradeSeesNewest
<1>3. i \in Id /\ DemandOfId(i) \in Demand
  BY <1>1, StoreAssumption DEF IInv, CallInv, DemandOfId, Id
<1>4. p \in Id /\ rows[p].status = "active" /\ DemandOfId(p) = DemandOfId(i) /\ p # i
  BY <1>1, <1>2, <1>3, ActiveRecordFacts DEF IInv, SnapshotInv, Snapshot, TypeOK
<1>5. r \in Rows /\ l \in Seq(Event)
  BY <1>2, <1>3, <1>4, ValueTypes DEF IInv, TypeOK, Rows, Retired
<1>6. Written(c)'
  <2>1. /\ pc'[c] = "superseded" /\ call' = call /\ rows' = rows /\ log' = log
        /\ tx'[c] = [rows |-> r, log |-> l, prev |-> p]
    BY <1>1 DEF Write, IInv, TypeOK
  <2>2. SupersededFrom(p, i, r, l)
    BY <1>2, <1>4 DEF SupersededFrom
  <2> HIDE DEF r, l
  <2> QED
    BY <1>4, <2>1, <2>2 DEF Written, SupersededFrom
<1> HIDE DEF r, l
<1> QED
  BY <1>1, <1>2, <1>5, <1>6, WriteInv

LEMMA ApproveInsertInv ==
  ASSUME NEW c \in Client, IInv, ApproveInsert(c)
  PROVE  IInv'
<1> DEFINE i == call[c].id
           r == [tx[c].rows EXCEPT ![i] = Activated(i)]
           l == Append(tx[c].log, ApprovedEvent(i))
<1>1. /\ AtInsert(c) /\ ~ViolatesConstraint(tx[c].rows, i)
      /\ Write(c, r, l, "written") /\ call[c].kind = "approve"
  BY DEF ApproveInsert, AtInsert
<1>2. i \in Id
  BY <1>1 DEF AtInsert, IInv, CallInv
<1>3. tx[c].rows \in Rows /\ tx[c].log \in Seq(Event)
  BY DEF IInv, TypeOK, Txs
<1>4. r \in Rows /\ l \in Seq(Event)
  BY <1>2, <1>3, ValueTypes DEF Rows
<1>5. /\ pc'[c] = "written" /\ call' = call /\ rows' = rows /\ log' = log
      /\ tx'[c].rows = r /\ tx'[c].log = l
  BY <1>1 DEF Write, IInv, TypeOK
<1>6. CASE pc[c] = "superseded"
  <2>1. tx[c].prev \in Id /\ SupersededFrom(tx[c].prev, i, tx[c].rows, tx[c].log)
    BY <1>6 DEF IInv, WrittenInv, Written
  <2>2. tx[c].rows[i].status = "absent"
    BY <1>1 DEF ViolatesConstraint
  <2>3. rows[i].status = "absent"
    BY <1>2, <2>1, <2>2 DEF SupersededFrom, IInv, TypeOK, Rows
  <2>4. ReplacedFrom(tx[c].prev, i, r, l)
    BY <2>1, <2>3 DEF SupersededFrom, ReplacedFrom
  <2>5. writer = c
    BY <1>6 DEF IInv, WriterInv
  <2>6. Written(c)'
    <3> HIDE DEF r, l
    <3> QED
      BY <1>1, <1>5, <2>1, <2>4 DEF Written, ReplacedFrom
  <2> HIDE DEF r, l
  <2> QED
    BY <1>1, <1>4, <1>6, <2>5, <2>6, WriteInv
<1>7. CASE pc[c] # "superseded"
  <2>1. pc[c] = "read" /\ CanUpgrade(c)
    BY <1>1, <1>7 DEF AtInsert
  <2>2. tx[c].rows = rows /\ tx[c].log = log /\ writer = None
    BY <2>1, UpgradeSeesNewest
  <2>3. AdoptedFrom(i, r, l)
    BY <1>1, <2>2 DEF AdoptedFrom, ViolatesConstraint, ActiveFor
  <2>4. Written(c)'
    <3> HIDE DEF r, l
    <3> QED
      BY <1>1, <1>5, <2>3 DEF Written, AdoptedFrom
  <2> HIDE DEF r, l
  <2> QED
    BY <1>1, <1>4, <2>1, <2>2, <2>4, WriteInv
<1> QED
  BY <1>6, <1>7

LEMMA RevokeWriteInv ==
  ASSUME NEW c \in Client, IInv, RevokeWrite(c)
  PROVE  IInv'
<1> DEFINE i == call[c].id
           t == call[c].at
           r == [tx[c].rows EXCEPT ![i] = RetiredAs("revoked", t)]
           l == Append(tx[c].log, RevokedEvent(i, t))
<1>1. /\ pc[c] = "read" /\ call[c].kind = "revoke" /\ CanUpgrade(c)
      /\ Write(c, r, l, "written")
  BY DEF RevokeWrite
<1>2. tx[c].rows = rows /\ tx[c].log = log /\ writer = None
  BY <1>1, UpgradeSeesNewest
<1>3. i \in Id /\ t \in Time
  BY <1>1 DEF IInv, CallInv, TypeOK, Calls
<1>4. rows[i].status = "active" /\ call[c].token = RevokeToken(i, rows[i])
  BY <1>1, <1>2 DEF IInv, SnapshotInv, Snapshot
<1>5. r \in Rows /\ l \in Seq(Event)
  BY <1>2, <1>3, ValueTypes DEF IInv, TypeOK, Rows, Retired
<1>6. Written(c)'
  <2>1. /\ pc'[c] = "written" /\ call' = call /\ rows' = rows /\ log' = log
        /\ tx'[c].rows = r /\ tx'[c].log = l
    BY <1>1 DEF Write, IInv, TypeOK
  <2>2. WithdrawnFrom(i, t, r, l)
    BY <1>2, <1>4 DEF WithdrawnFrom
  <2> HIDE DEF r, l
  <2> QED
    BY <1>1, <1>4, <2>1, <2>2 DEF Written, WithdrawnFrom
<1> HIDE DEF r, l
<1> QED
  BY <1>1, <1>2, <1>5, <1>6, WriteInv

-----------------------------------------------------------------------------
(* The three decisions a commit can be.                                    *)

Adopts(i)      == AdoptedFrom(i, rows', log')
Replaces(p, i) == ReplacedFrom(p, i, rows', log')
Withdraws(i, t) == WithdrawnFrom(i, t, rows', log')

Decides ==
  \E i \in Id :
    \/ Adopts(i)
    \/ \E p \in Id : Replaces(p, i)
    \/ \E t \in Time : Withdraws(i, t)

LEMMA CommitDecides ==
  ASSUME NEW c \in Client, IInv, Commit(c)
  PROVE  Decides
<1>1. /\ pc[c] = "written" /\ rows' = tx[c].rows /\ log' = tx[c].log
      /\ Written(c)
  BY DEF Commit, IInv, WrittenInv
<1>2. call[c].id \in Id /\ call[c].kind \in {"approve", "revoke"} /\ call[c].at \in Time
  BY <1>1 DEF IInv, CallInv, TypeOK, Calls
<1>3. CASE call[c].kind = "approve"
  BY <1>1, <1>2, <1>3 DEF Written, Decides, Adopts, Replaces
<1>4. CASE call[c].kind = "revoke"
  BY <1>1, <1>2, <1>4 DEF Written, Decides, Withdraws
<1> QED
  BY <1>2, <1>3, <1>4

LEMMA DecidesOneActive ==
  ASSUME TypeOK, OneActivePerDemand, Decides
  PROVE  OneActivePerDemand'
<1> USE DEF OneActivePerDemand, OneActive
<1>0. rows \in [Id -> Row]
  BY DEF TypeOK, Rows
<1>1. ASSUME NEW i \in Id, Adopts(i)
      PROVE  OneActivePerDemand'
  BY <1>0, <1>1 DEF Adopts, AdoptedFrom, Activated
<1>2. ASSUME NEW i \in Id, NEW p \in Id, Replaces(p, i)
      PROVE  OneActivePerDemand'
  BY <1>0, <1>2 DEF Replaces, ReplacedFrom, Activated, RetiredAs
<1>3. ASSUME NEW i \in Id, NEW t \in Time, Withdraws(i, t)
      PROVE  OneActivePerDemand'
  BY <1>0, <1>3 DEF Withdraws, WithdrawnFrom, RetiredAs
<1> QED
  BY <1>1, <1>2, <1>3 DEF Decides

LEMMA DecidesLengthens ==
  ASSUME TypeOK, Decides
  PROVE  Len(log') > Len(log)
<1>0. log \in Seq(Event)
  BY DEF TypeOK
<1>1. ASSUME NEW i \in Id, Adopts(i)
      PROVE  Len(log') > Len(log)
  BY <1>0, <1>1, ValueTypes DEF Adopts, AdoptedFrom
<1>2. ASSUME NEW i \in Id, NEW p \in Id, Replaces(p, i)
      PROVE  Len(log') > Len(log)
  <2>1. Append(log, SupersededEvent(p, i)) \in Seq(Event)
    BY <1>0, ValueTypes
  <2> QED
    BY <1>0, <1>2, <2>1, ValueTypes DEF Replaces, ReplacedFrom
<1>3. ASSUME NEW i \in Id, NEW t \in Time, Withdraws(i, t)
      PROVE  Len(log') > Len(log)
  BY <1>0, <1>3, ValueTypes DEF Withdraws, WithdrawnFrom
<1> QED
  BY <1>1, <1>2, <1>3 DEF Decides

LEMMA CommitInv ==
  ASSUME NEW c \in Client, IInv, Commit(c)
  PROVE  IInv'
<1>1. /\ UNCHANGED <<clock, call, reply, held>>
      /\ rows' = tx[c].rows /\ log' = tx[c].log
      /\ writer' = None /\ pc[c] = "written" /\ pc'[c] = "committed"
      /\ \A d \in Client \ {c} :
           pc'[d] = pc[d] /\ call'[d] = call[d] /\ tx'[d] = tx[d]
  BY DEF Commit, IInv, TypeOK
<1>2. writer = c
  BY <1>1 DEF IInv, WriterInv
<1>3. Decides
  BY CommitDecides
<1>4. TypeOK'
  <2>1. rows' \in Rows /\ log' \in Seq(Event)
    BY <1>1 DEF IInv, TypeOK, Txs
  <2>2. tx' \in [Client -> Txs]
    BY ValueTypes DEF Commit, IInv, TypeOK
  <2>3. pc' \in [Client -> PcStates] /\ conn' \in [Handle -> Client \cup {None}]
    BY DEF Commit, IInv, TypeOK, PcStates
  <2> QED
    BY <1>1, <2>1, <2>2, <2>3 DEF IInv, TypeOK
<1>5. PoolInv'
  BY <1>1, StoreAssumption DEF Commit, IInv, PoolInv, TypeOK
<1>6. WriterInv'
  BY <1>1, <1>2, StoreAssumption DEF IInv, WriterInv
<1>7. CallInv'
  BY <1>1 DEF IInv, CallInv
<1>8. SnapshotInv'
  <2>1. Len(log') > Len(log)
    BY <1>3, DecidesLengthens DEF IInv
  <2>2. SUFFICES ASSUME NEW d \in Client, pc'[d] = "read" PROVE Snapshot(d)'
    BY DEF SnapshotInv
  <2>3. d # c /\ pc[d] = "read" /\ tx'[d] = tx[d] /\ call'[d] = call[d]
    BY <1>1, <2>2
  <2>4. Snapshot(d)
    BY <2>3 DEF IInv, SnapshotInv
  <2>5. Len(tx[d].log) \in Nat /\ Len(log) \in Nat /\ Len(log') \in Nat
    BY <1>1 DEF IInv, TypeOK, Txs
  <2> QED
    BY <2>1, <2>3, <2>4, <2>5 DEF Snapshot
<1>9. OneActivePerDemand'
  BY <1>3, DecidesOneActive DEF IInv
<1>10. WrittenInv'
  <2> SUFFICES ASSUME NEW d \in Client PROVE Written(d)'
    BY DEF WrittenInv
  <2>1. pc'[d] \notin {"superseded", "written"}
    BY <1>1, <1>2 DEF IInv, WriterInv
  <2> QED
    BY <2>1 DEF Written
<1> QED
  BY <1>4, <1>5, <1>6, <1>7, <1>8, <1>9, <1>10 DEF IInv

LEMMA CrashInv ==
  ASSUME NEW h \in Handle, IInv, Crash(h)
  PROVE  IInv'
<1>1. UNCHANGED <<rows, log, clock, held>>
  BY DEF Crash
<1>2. \A c \in Client :
        /\ HandleOf[c] = h =>
             pc'[c] = "idle" /\ call'[c] = NoCall /\ tx'[c] = NoTx
        /\ HandleOf[c] # h =>
             pc'[c] = pc[c] /\ call'[c] = call[c] /\ tx'[c] = tx[c]
  BY DEF Crash
<1>3. TypeOK'
  BY ValueTypes, <1>1 DEF Crash, IInv, TypeOK, PcStates
<1>4. PoolInv'
  BY <1>2, StoreAssumption DEF Crash, IInv, PoolInv, TypeOK
<1>5. WriterInv'
  BY <1>2, StoreAssumption DEF Crash, IInv, WriterInv
<1>6. CallInv'
  BY <1>2 DEF IInv, CallInv
<1>7. SnapshotInv'
  BY <1>1, <1>2, KnowledgeStands DEF IInv, SnapshotInv
<1>8. OneActivePerDemand'
  BY <1>1 DEF IInv, OneActivePerDemand, OneActive
<1>9. WrittenInv'
  <2> SUFFICES ASSUME NEW c \in Client PROVE Written(c)'
    BY DEF WrittenInv
  <2>1. CASE HandleOf[c] = h
    BY <1>2, <2>1 DEF Written
  <2>2. CASE HandleOf[c] # h
    BY <1>1, <1>2, <2>2, KnowledgeStands DEF IInv, WrittenInv
  <2> QED
    BY <2>1, <2>2
<1> QED
  BY <1>3, <1>4, <1>5, <1>6, <1>7, <1>8, <1>9 DEF IInv

LEMMA UnchangedInv ==
  ASSUME IInv, UNCHANGED <<rows, log, writer, conn, pc, call, tx, reply, held>>,
         clock' \in Time
  PROVE  IInv'
<1>1. TypeOK'
  BY DEF IInv, TypeOK
<1>2. PoolInv' /\ WriterInv' /\ CallInv' /\ OneActivePerDemand'
  BY DEF IInv, PoolInv, WriterInv, CallInv, OneActivePerDemand, OneActive
<1>3. SnapshotInv'
  BY KnowledgeStands DEF IInv, SnapshotInv
<1>4. WrittenInv'
  BY KnowledgeStands DEF IInv, WrittenInv
<1> QED
  BY <1>1, <1>2, <1>3, <1>4 DEF IInv

LEMMA NextInv == IInv /\ [Next]_vars => IInv'
<1> SUFFICES ASSUME IInv, [Next]_vars PROVE IInv'
  OBVIOUS
<1>1. ASSUME NEW c \in Client, NEW q \in Request, CallApprove(c, q)
      PROVE  IInv'
  <2> DEFINE arguments == [kind |-> "approve", token |-> None, at |-> clock,
                           id |-> [request |-> q, at |-> clock]]
  <2>1. arguments \in Calls /\ arguments.id \in Id /\ arguments.kind = "approve"
    BY DEF IInv, TypeOK, Calls, Id
  <2>2. Enter(c, arguments)
    BY <1>1 DEF CallApprove
  <2> HIDE DEF arguments
  <2> QED
    BY <2>1, <2>2, EnterInv
<1>2. ASSUME NEW c \in Client, NEW i \in Id, NEW token \in {None, held[c]},
             CallRevoke(c, i, token)
      PROVE  IInv'
  <2> DEFINE arguments == [kind |-> "revoke", id |-> i, token |-> token,
                           at |-> clock]
  <2>1. arguments \in Calls /\ arguments.id \in Id /\ arguments.kind = "revoke"
    BY DEF IInv, TypeOK, Calls
  <2>2. Enter(c, arguments)
    BY <1>2 DEF CallRevoke
  <2> HIDE DEF arguments
  <2> QED
    BY <2>1, <2>2, EnterInv
<1>3. ASSUME NEW c \in Client, NEW outcome \in Outcomes, Finish(c, outcome),
             held' \in [Client -> Token \cup {None}]
      PROVE  IInv'
  BY <1>3, FinishInv
<1>4. held \in [Client -> Token \cup {None}]
  BY DEF IInv, TypeOK
<1>5. ASSUME NEW c \in Client, CallInvalid(c) \/ Abort(c)
      PROVE  IInv'
  BY <1>3, <1>4, <1>5 DEF CallInvalid, Abort, Outcomes, Failures
<1>6. ASSUME NEW c \in Client, Begin(c)
      PROVE  IInv'
  BY <1>6, BeginInv
<1>7. ASSUME NEW c \in Client, Step(c)
      PROVE  IInv'
  <2>1. CASE ApproveRead(c)
    <3>1. pc[c] = "begun" /\ call[c].kind = "approve" /\ call[c].id \in Id
      BY <2>1 DEF ApproveRead, IInv, CallInv
    <3>2. PICK p \in ActiveRecordForKey(rows, DemandOfId(call[c].id)) :
            p # call[c].id /\ TakeSnapshot(c, p)
      BY <2>1 DEF ApproveRead
    <3>3. DemandOfId(call[c].id) \in Demand
      BY <3>1, StoreAssumption DEF DemandOfId, Id
    <3>4. p \in Id \cup {None}
      BY <3>3, ActiveRecordFacts DEF IInv, TypeOK
    <3> QED
      BY <3>1, <3>2, <3>4, TakeSnapshotInv
  <2>2. CASE ApproveCollides(c) \/ ApproveInsertRefused(c) \/ WriteLockRefused(c)
    BY <1>3, <1>4, <2>2
       DEF ApproveCollides, ApproveInsertRefused, WriteLockRefused, Outcomes, Failures
  <2>3. CASE RevokeNotFound(c) \/ RevokeNotActive(c) \/ RevokeStalePreview(c)
    BY <1>3, <1>4, <2>3
       DEF RevokeNotFound, RevokeNotActive, RevokeStalePreview, Outcomes, Failures
  <2>4. CASE RevokePreview(c)
    <3>1. call[c].id \in Id /\ rows[call[c].id] \in Row
      BY <2>4 DEF RevokePreview, AtRevokeRead, IInv, CallInv, TypeOK, Rows
    <3>2. held' \in [Client -> Token \cup {None}]
      BY <1>4, <2>4, <3>1, ValueTypes DEF RevokePreview
    <3> QED
      BY <1>3, <2>4, <3>2 DEF RevokePreview, Outcomes
  <2>5. CASE RevokeRead(c)
    <3>1. pc[c] = "begun" /\ call[c].kind = "revoke" /\ call[c].id \in Id
      BY <2>5 DEF RevokeRead, AtRevokeRead, IInv, CallInv
    <3> QED
      BY <2>5, <3>1, TakeSnapshotInv DEF RevokeRead
  <2>6. CASE Return(c)
    BY <1>3, <1>4, <2>6 DEF Return, Outcomes
  <2> QED
    BY <1>7, <2>1, <2>2, <2>3, <2>4, <2>5, <2>6, ApproveSupersedeInv,
       ApproveInsertInv, RevokeWriteInv, CommitInv DEF Step
<1>8. ASSUME NEW h \in Handle, Crash(h)
      PROVE  IInv'
  BY <1>8, CrashInv
<1>9. CASE Tick
  <2>1. clock' \in Time
    BY <1>9, StoreAssumption DEF Tick, IInv, TypeOK, Time
  <2> QED
    BY <1>9, <2>1, UnchangedInv DEF Tick
<1>10. CASE UNCHANGED vars
  BY <1>10, UnchangedInv DEF vars, IInv, TypeOK
<1> QED
  BY <1>1, <1>2, <1>5, <1>6, <1>7, <1>8, <1>9, <1>10 DEF Next

-----------------------------------------------------------------------------
(* Theorems.                                                               *)

THEOREM Invariance == Spec => []IInv
BY InitInv, NextInv, PTL DEF Spec

THEOREM TypeCorrect == Spec => []TypeOK
BY Invariance, PTL DEF IInv

(* No interleaving of any number of processes that approve, revoke, fail   *)
(* or crash leaves a demand with two active resolutions (Approve, Revoke). *)
THEOREM AtMostOneActive == Spec => []OneActivePerDemand
<1>1. IInv => OneActivePerDemand
  BY DEF IInv
<1> QED
  BY <1>1, Invariance, PTL

LEMMA OnlyCommitsWrite ==
  [Next]_vars => UNCHANGED <<rows, log>> \/ \E c \in Client : Commit(c)
<1> SUFFICES ASSUME [Next]_vars
             PROVE  UNCHANGED <<rows, log>> \/ \E c \in Client : Commit(c)
  OBVIOUS
<1>1. ASSUME NEW c \in Client, Step(c)
      PROVE  UNCHANGED <<rows, log>> \/ Commit(c)
  BY <1>1
     DEF Step, Finish, TakeSnapshot, Write, ApproveRead, ApproveCollides,
         ApproveSupersede, ApproveInsert, ApproveInsertRefused, RevokeNotFound,
         RevokeNotActive, RevokePreview, RevokeStalePreview, RevokeRead,
         RevokeWrite, WriteLockRefused, Return
<1> QED
  BY <1>1 DEF Next, vars, CallApprove, CallRevoke, CallInvalid, Enter, Begin,
              Abort, Finish, Crash, Tick

LEMMA NextDecides == IInv /\ [Next]_vars => Decides \/ UNCHANGED <<rows, log>>
BY OnlyCommitsWrite, CommitDecides

(* What the audit lemmas say is stated of any tables r and l.              *)
LEMMA AppendFacts ==
  ASSUME NEW l \in Seq(Event), NEW e \in Event
  PROVE  /\ Append(l, e) \in Seq(Event)
         /\ Len(l) \in Nat /\ Len(l) + 1 \notin DOMAIN l
         /\ DOMAIN l = 1 .. Len(l)
         /\ DOMAIN Append(l, e) = DOMAIN l \cup {Len(l) + 1}
         /\ \A n \in DOMAIN l : Append(l, e)[n] = l[n]
         /\ Append(l, e)[Len(l) + 1] = e
         /\ \A n \in DOMAIN l : l[n] \in Event
OBVIOUS

Audit(r, l) == StatusIsLogged(r, l) /\ LoggedOnce(l) /\ TimesAgree(r, l)

(* Approving an absent record, with its event, keeps the audit exact.      *)
LEMMA AuditApproved ==
  ASSUME NEW r \in Rows, NEW l \in Seq(Event), NEW i \in Id,
         Audit(r, l), r[i].status = "absent"
  PROVE  Audit([r EXCEPT ![i] = Activated(i)], Append(l, ApprovedEvent(i)))
<1> DEFINE s == [r EXCEPT ![i] = Activated(i)]
           k == Append(l, ApprovedEvent(i))
<1>1. ApprovedEvent(i) \in Event
  BY ValueTypes
<1>2. /\ DOMAIN k = DOMAIN l \cup {Len(l) + 1}
      /\ \A n \in DOMAIN l : k[n] = l[n]
      /\ k[Len(l) + 1] = ApprovedEvent(i)
      /\ Len(l) + 1 \notin DOMAIN l
      /\ \A n \in DOMAIN l : l[n] \in Event
  BY <1>1, AppendFacts
<1>3. s[i] = Activated(i) /\ \A j \in Id \ {i} : s[j] = r[j]
  BY DEF Rows
<1>4. \A n \in DOMAIN l : l[n].id # i
  BY <1>2 DEF Audit, StatusIsLogged, Logged, Event, Retired
<1>5. \A j \in Id, a \in {"approved", "superseded", "revoked"} :
        Logged(k, j, a) <=> Logged(l, j, a) \/ (j = i /\ a = "approved")
  BY <1>2 DEF Logged, ApprovedEvent
<1> HIDE DEF s, k
<1>6. StatusIsLogged(s, k)
  <2> SUFFICES ASSUME NEW j \in Id
               PROVE  /\ s[j].status # "absent" <=> Logged(k, j, "approved")
                      /\ \A a \in Retired : s[j].status = a <=> Logged(k, j, a)
    BY DEF StatusIsLogged
  <2>1. CASE j = i
    <3>1. \A a \in Retired : ~Logged(l, i, a)
      BY <1>4 DEF Logged
    <3> QED
      BY <1>3, <1>5, <2>1, <3>1 DEF Activated, Retired
  <2>2. CASE j # i
    BY <1>3, <1>5, <2>2 DEF Audit, StatusIsLogged, Retired
  <2> QED
    BY <2>1, <2>2
<1>7. LoggedOnce(k)
  BY <1>2, <1>4 DEF Audit, LoggedOnce, ApprovedEvent
<1>8. TimesAgree(s, k)
  BY <1>2, <1>3, <1>4 DEF Audit, TimesAgree, ApprovedEvent, Retired, Event
<1> QED
  BY <1>6, <1>7, <1>8 DEF Audit, s, k

(* So does retiring an active record, with its event.                      *)
LEMMA AuditRetired ==
  ASSUME NEW r \in Rows, NEW l \in Seq(Event), NEW i \in Id, NEW e \in Event,
         Audit(r, l), r[i].status = "active",
         e.id = i, e.action \in Retired
  PROVE  Audit([r EXCEPT ![i] = RetiredAs(e.action, e.at)], Append(l, e))
<1> DEFINE s == [r EXCEPT ![i] = RetiredAs(e.action, e.at)]
           k == Append(l, e)
<1>1. /\ DOMAIN k = DOMAIN l \cup {Len(l) + 1}
      /\ \A n \in DOMAIN l : k[n] = l[n]
      /\ k[Len(l) + 1] = e
      /\ Len(l) + 1 \notin DOMAIN l
      /\ \A n \in DOMAIN l : l[n] \in Event
  BY AppendFacts
<1>2. s[i] = RetiredAs(e.action, e.at) /\ \A j \in Id \ {i} : s[j] = r[j]
  BY DEF Rows
<1>3. \A n \in DOMAIN l : l[n].id = i => l[n].action = "approved"
  BY <1>1 DEF Audit, StatusIsLogged, Logged, Event, Retired
<1>4. \A j \in Id, a \in {"approved", "superseded", "revoked"} :
        Logged(k, j, a) <=> Logged(l, j, a) \/ (j = i /\ a = e.action)
  BY <1>1 DEF Logged
<1> HIDE DEF s, k
<1>5. StatusIsLogged(s, k)
  <2> SUFFICES ASSUME NEW j \in Id
               PROVE  /\ s[j].status # "absent" <=> Logged(k, j, "approved")
                      /\ \A a \in Retired : s[j].status = a <=> Logged(k, j, a)
    BY DEF StatusIsLogged
  <2>1. CASE j = i
    <3>1. Logged(l, i, "approved") /\ \A a \in Retired : ~Logged(l, i, a)
      BY DEF Audit, StatusIsLogged, Retired
    <3> QED
      BY <1>2, <1>4, <2>1, <3>1 DEF RetiredAs, Retired
  <2>2. CASE j # i
    BY <1>2, <1>4, <2>2 DEF Audit, StatusIsLogged, Retired
  <2> QED
    BY <2>1, <2>2
<1>6. LoggedOnce(k)
  BY <1>1, <1>3 DEF Audit, LoggedOnce, Retired
<1>7. TimesAgree(s, k)
  BY <1>1, <1>2, <1>3 DEF Audit, TimesAgree, RetiredAs, Retired, Event
<1> QED
  BY <1>5, <1>6, <1>7 DEF Audit, s, k

LEMMA AuditDecided ==
  ASSUME TypeOK, Audit(rows, log), Decides
  PROVE  Audit(rows, log)'
<1>0. rows \in Rows /\ log \in Seq(Event)
  BY DEF TypeOK
<1>1. ASSUME NEW i \in Id, Adopts(i)
      PROVE  Audit(rows', log')
  BY <1>0, <1>1, AuditApproved DEF Adopts, AdoptedFrom
<1>3. ASSUME NEW i \in Id, NEW p \in Id, Replaces(p, i)
      PROVE  Audit(rows', log')
  <2> DEFINE e == SupersededEvent(p, i)
             r == [rows EXCEPT ![p] = RetiredAs(e.action, e.at)]
             l == Append(log, e)
  <2>1. e \in Event /\ e.id = p /\ e.action = "superseded" /\ e.at = i.at
    BY ValueTypes DEF SupersededEvent
  <2>2. rows[p].status = "active" /\ p # i /\ rows[i].status = "absent"
    BY <1>3 DEF Replaces, ReplacedFrom
  <2>3. /\ rows' = [r EXCEPT ![i] = Activated(i)]
        /\ log' = Append(l, ApprovedEvent(i))
    BY <1>3, <2>1 DEF Replaces, ReplacedFrom
  <2>4. r \in Rows /\ l \in Seq(Event)
    BY <1>0, <2>1, ValueTypes DEF Rows, Retired
  <2>5. r[i].status = "absent"
    BY <1>0, <2>2 DEF Rows
  <2> HIDE DEF e
  <2>6. Audit(r, l)
    BY <1>0, <2>1, <2>2, AuditRetired DEF Retired
  <2> HIDE DEF r, l
  <2> QED
    BY <2>3, <2>4, <2>5, <2>6, AuditApproved
<1>4. ASSUME NEW i \in Id, NEW t \in Time, Withdraws(i, t)
      PROVE  Audit(rows', log')
  <2>1. RevokedEvent(i, t) \in Event
    BY ValueTypes
  <2> QED
    BY <1>0, <1>4, <2>1, AuditRetired DEF Withdraws, WithdrawnFrom, RevokedEvent, Retired
<1>5. Audit(rows', log')
  BY <1>1, <1>3, <1>4 DEF Decides
<1> QED
  BY <1>5 DEF Audit, StatusIsLogged, Logged, LoggedOnce, TimesAgree

(* The audit history explains every record in every reachable state, so    *)
(* neither a failure in the middle of a transaction nor a concurrent       *)
(* process separates a record from its events.                             *)
THEOREM AuditIsExact == Spec => []AuditExplainsRecords
<1>1. Init => Audit(rows, log)
  BY DEF Init, Audit, StatusIsLogged, Logged, LoggedOnce, TimesAgree, Absent, Retired
<1>2. IInv /\ Audit(rows, log) /\ [Next]_vars => Audit(rows, log)'
  <2> SUFFICES ASSUME IInv, Audit(rows, log), [Next]_vars
               PROVE  Audit(rows, log)'
    OBVIOUS
  <2>1. CASE Decides
    BY <2>1, AuditDecided DEF IInv
  <2>2. CASE UNCHANGED <<rows, log>>
    BY <2>2 DEF Audit, StatusIsLogged, Logged, LoggedOnce, TimesAgree
  <2> QED
    BY <2>1, <2>2, NextDecides
<1>3. Audit(rows, log) <=> AuditExplainsRecords
  BY DEF Audit, AuditExplainsRecords
<1> QED
  BY <1>1, <1>2, <1>3, Invariance, PTL DEF Spec

(* No decision is rewritten: the history only grows and a superseded or    *)
(* revoked record is never touched again.                                  *)
THEOREM DecisionsStayFinal == Spec => DecisionsAreFinal
<1> DEFINE Final ==
      /\ Len(log) <= Len(log')
      /\ \A n \in DOMAIN log : log'[n] = log[n]
      /\ \A i \in Id : rows[i].status \in Retired => rows'[i] = rows[i]
<1>1. ASSUME TypeOK, Decides PROVE Final
  <2>0. rows \in [Id -> Row] /\ log \in Seq(Event)
    BY <1>1 DEF TypeOK, Rows
  <2>1. ASSUME NEW i \in Id, Adopts(i) PROVE Final
    BY <2>0, <2>1, AppendFacts, ValueTypes DEF Adopts, AdoptedFrom, Retired
  <2>2. ASSUME NEW i \in Id, NEW p \in Id, Replaces(p, i) PROVE Final
    <3> DEFINE l == Append(log, SupersededEvent(p, i))
    <3>1. /\ l \in Seq(Event) /\ Len(l) = Len(log) + 1 /\ Len(log) \in Nat
          /\ \A n \in DOMAIN log : n \in DOMAIN l /\ l[n] = log[n]
      BY <2>0, ValueTypes
    <3>2. log' = Append(l, ApprovedEvent(i))
      BY <2>2 DEF Replaces, ReplacedFrom
    <3>3. \A j \in Id : rows[j].status \in Retired => rows'[j] = rows[j]
      BY <2>0, <2>2 DEF Replaces, ReplacedFrom, Retired
    <3> HIDE DEF l
    <3>4. Len(log') = Len(l) + 1 /\ \A n \in DOMAIN l : log'[n] = l[n]
      BY <3>1, <3>2, ValueTypes
    <3> QED
      BY <3>1, <3>3, <3>4
  <2>3. ASSUME NEW i \in Id, NEW t \in Time, Withdraws(i, t) PROVE Final
    BY <2>0, <2>3, AppendFacts, ValueTypes DEF Withdraws, WithdrawnFrom, Retired
  <2> QED
    BY <1>1, <2>1, <2>2, <2>3 DEF Decides
<1>2. ASSUME TypeOK, UNCHANGED <<rows, log>> PROVE Final
  BY <1>2 DEF TypeOK
<1>3. IInv /\ [Next]_vars => [Final]_vars
  BY <1>1, <1>2, NextDecides DEF IInv
<1> QED
  BY <1>3, Invariance, PTL DEF Spec, DecisionsAreFinal

(* A revocation retires the record its caller was shown, as it was shown.  *)
THEOREM RevocationIsOfThePreview == Spec => RevokesWhatWasPreviewed
<1> DEFINE Shown ==
      \A i \in Id :
        rows[i].status # "revoked" /\ rows'[i].status = "revoked" =>
          \E c \in Client :
            /\ pc[c] = "written" /\ pc'[c] = "committed"
            /\ call[c].kind = "revoke" /\ call[c].id = i
            /\ call[c].token = RevokeToken(i, rows[i])
<1>1. ASSUME NEW c \in Client, IInv, Commit(c) PROVE Shown
  <2>1. /\ pc[c] = "written" /\ pc'[c] = "committed"
        /\ rows' = tx[c].rows /\ log' = tx[c].log
        /\ Written(c) /\ rows \in [Id -> Row]
        /\ call[c].id \in Id /\ call[c].kind \in {"approve", "revoke"}
    BY <1>1 DEF Commit, IInv, WrittenInv, CallInv, TypeOK, Rows
  <2>2. CASE call[c].kind = "approve"
    <3>1. \/ Adopts(call[c].id)
          \/ \E p \in Id : Replaces(p, call[c].id)
      BY <2>1, <2>2 DEF Written, Adopts, Replaces
    <3>2. ASSUME NEW i \in Id, NEW j \in Id, Adopts(i), rows'[j].status = "revoked"
          PROVE  rows[j].status = "revoked"
      BY <2>1, <3>2 DEF Adopts, AdoptedFrom, Activated
    <3>3. ASSUME NEW i \in Id, NEW p \in Id, NEW j \in Id, Replaces(p, i),
                 rows'[j].status = "revoked"
          PROVE  rows[j].status = "revoked"
      BY <2>1, <3>3 DEF Replaces, ReplacedFrom, Activated, RetiredAs
    <3> QED
      BY <2>1, <3>1, <3>2, <3>3
  <2>3. CASE call[c].kind = "revoke"
    BY <2>1, <2>3 DEF Written, WithdrawnFrom
  <2> QED
    BY <2>1, <2>2, <2>3
<1>2. ASSUME IInv, [Next]_vars, ~\E c \in Client : Commit(c) PROVE Shown
  <2>1. rows' = rows
    BY <1>2, OnlyCommitsWrite
  <2> QED
    BY <2>1
<1>3. IInv /\ [Next]_vars => [Shown]_vars
  BY <1>1, <1>2
<1> QED
  BY <1>3, Invariance, PTL DEF Spec, RevokesWhatWasPreviewed

(* The store implements the register of decisions.                         *)
THEOREM Refinement == Spec => ImplementsRegistry
<1> USE DEF Registry!vars, Registry!Id, Registry!DemandOfId
<1>1. Init => Registry!Init
  BY DEF Init, Registry!Init, Absent
<1>2. ASSUME TypeOK, Audit(rows, log), Decides
      PROVE  Registry!Next
  <2>0. rows \in [Id -> Row] /\ log \in Seq(Event)
    BY <1>2 DEF TypeOK, Rows
  <2>1. \A i \in Id : rows[i].status = "absent" => ~Registry!Recorded(i)
    <3>1. \A n \in DOMAIN log : log[n] \in Event
      BY <2>0
    <3> QED
      BY <1>2, <3>1 DEF Audit, StatusIsLogged, Logged, Registry!Recorded, Event, Retired
  <2>2. ASSUME NEW i \in Id, Adopts(i)
        PROVE  Registry!Adopt(i)
    BY <2>0, <2>1, <2>2
       DEF Adopts, AdoptedFrom, Registry!Adopt, Registry!Approved, ApprovedEvent,
           Activated, DemandOfId
  <2>3. ASSUME NEW i \in Id, NEW p \in Id, Replaces(p, i)
        PROVE  Registry!Replace(p, i)
    BY <2>0, <2>1, <2>3
       DEF Replaces, ReplacedFrom, Registry!Replace, Registry!Approved,
           Registry!Superseded, ApprovedEvent, SupersededEvent, Activated,
           RetiredAs, DemandOfId
  <2>4. ASSUME NEW i \in Id, NEW t \in Time, Withdraws(i, t)
        PROVE  Registry!Withdraw(i, t)
    BY <2>0, <2>4
       DEF Withdraws, WithdrawnFrom, Registry!Withdraw, Registry!Revoked,
           RevokedEvent, RetiredAs
  <2>5. Id = Registry!Id
    BY DEF Id
  <2> QED
    BY <1>2, <2>2, <2>3, <2>4, <2>5 DEF Decides, Registry!Next
<1>3. UNCHANGED <<rows, log>> => UNCHANGED Registry!vars
  OBVIOUS
<1>4. AuditExplainsRecords => Audit(rows, log)
  BY DEF Audit, AuditExplainsRecords
<1>5. IInv /\ AuditExplainsRecords /\ [Next]_vars => [Registry!Next]_(Registry!vars)
  BY <1>2, <1>3, <1>4, NextDecides DEF IInv
<1> QED
  BY <1>1, <1>5, Invariance, AuditIsExact, PTL
     DEF Spec, ImplementsRegistry, Registry!Spec

(* Every supersession in the history is followed by its approval.          *)
THEOREM SuccessorIsNext == Spec => []SupersededBySuccessor
<1> USE DEF SupersededBySuccessor, SuccessorFollows
<1>1. Init => SupersededBySuccessor
  BY DEF Init
<1>2. ASSUME TypeOK, SupersededBySuccessor, Decides
      PROVE  SupersededBySuccessor'
  <2>0. log \in Seq(Event)
    BY <1>2 DEF TypeOK
  <2>1. ASSUME NEW e \in Event, e.action # "superseded", log' = Append(log, e)
        PROVE  SupersededBySuccessor'
    BY <1>2, <2>0, <2>1, AppendFacts
  <2>2. ASSUME NEW i \in Id, NEW p \in Id, Replaces(p, i)
        PROVE  SupersededBySuccessor'
    <3> DEFINE e == SupersededEvent(p, i)
               l == Append(log, e)
    <3>1. /\ e \in Event /\ e.action = "superseded" /\ e.by = i /\ e.id = p
          /\ ApprovedEvent(i) \in Event
          /\ ApprovedEvent(i).action = "approved"
      BY ValueTypes DEF SupersededEvent, ApprovedEvent
    <3>2. p # i /\ DemandOfId(p) = DemandOfId(i) /\ log' = Append(l, ApprovedEvent(i))
      BY <2>2 DEF Replaces, ReplacedFrom
    <3> HIDE DEF e
    <3>3. /\ l \in Seq(Event) /\ Len(log) \in Nat
          /\ DOMAIN log = 1 .. Len(log) /\ DOMAIN l = 1 .. Len(log) + 1
          /\ \A n \in DOMAIN log : l[n] = log[n]
          /\ l[Len(log) + 1] = e
      BY <2>0, <3>1
    <3> HIDE DEF l
    <3>4. /\ DOMAIN log' = 1 .. Len(log) + 2
          /\ \A n \in DOMAIN l : log'[n] = l[n]
          /\ log'[Len(log) + 2] = ApprovedEvent(i)
      BY <3>1, <3>2, <3>3
    <3> QED
      BY <1>2, <2>2, <3>1, <3>2, <3>3, <3>4
  <2>3. ASSUME NEW i \in Id, Adopts(i)
        PROVE  SupersededBySuccessor'
    BY <2>1, <2>3, ValueTypes DEF Adopts, AdoptedFrom, ApprovedEvent
  <2>4. ASSUME NEW i \in Id, NEW t \in Time, Withdraws(i, t)
        PROVE  SupersededBySuccessor'
    BY <2>1, <2>4, ValueTypes DEF Withdraws, WithdrawnFrom, RevokedEvent
  <2> QED
    BY <1>2, <2>2, <2>3, <2>4 DEF Decides
<1>3. IInv /\ SupersededBySuccessor /\ [Next]_vars => SupersededBySuccessor'
  <2> SUFFICES ASSUME IInv, SupersededBySuccessor, [Next]_vars
               PROVE  SupersededBySuccessor'
    OBVIOUS
  <2>1. CASE Decides
    BY <1>2, <2>1 DEF IInv
  <2>2. CASE UNCHANGED <<rows, log>>
    BY <2>2
  <2> QED
    BY <2>1, <2>2, NextDecides
<1> QED
  BY <1>1, <1>3, Invariance, PTL DEF Spec

(* While every caller shares one handle, a transaction that has read still *)
(* reads the newest state, so the write lock is never refused to it.       *)
OneHandle == \A c, d \in Client : HandleOf[c] = HandleOf[d]

NewestInv == \A c \in Client : pc[c] = "read" => tx[c].log = log

LEMMA OneOpenTransaction ==
  ASSUME OneHandle, IInv, NEW c \in Client, NEW d \in Client,
         pc[c] \in {"begun", "read", "superseded", "written"},
         pc[d] \in {"begun", "read", "superseded", "written"}
  PROVE  c = d
BY DEF OneHandle, IInv, PoolInv

LEMMA NewestStands ==
  ASSUME OneHandle, IInv, NewestInv, [Next]_vars
  PROVE  NewestInv'
<1> SUFFICES ASSUME NEW d \in Client, pc'[d] = "read"
             PROVE  tx'[d].log = log'
  BY DEF NewestInv
<1>1. ASSUME NEW c \in Client, Step(c)
      PROVE  tx'[d].log = log'
  <2>1. CASE Commit(c)
    <3>1. pc[c] = "written" /\ pc'[c] = "committed" /\ (d # c => pc'[d] = pc[d])
      BY <2>1 DEF Commit, IInv, TypeOK
    <3> QED
      BY <1>1, <3>1, OneOpenTransaction
  <2>2. CASE ApproveRead(c) \/ RevokeRead(c)
    BY <2>2 DEF ApproveRead, RevokeRead, TakeSnapshot, IInv, TypeOK, NewestInv
  <2>3. CASE ApproveSupersede(c) \/ ApproveInsert(c) \/ RevokeWrite(c)
    BY <2>3 DEF ApproveSupersede, ApproveInsert, RevokeWrite, Write, IInv, TypeOK,
                NewestInv
  <2>4. ASSUME NEW outcome, Finish(c, outcome)
        PROVE  tx'[d].log = log'
    BY <2>4 DEF Finish, IInv, TypeOK, NewestInv
  <2> QED
    BY <1>1, <2>1, <2>2, <2>3, <2>4
       DEF Step, ApproveCollides, ApproveInsertRefused, RevokeNotFound,
           RevokeNotActive, RevokePreview, RevokeStalePreview, WriteLockRefused, Return
<1>2. ASSUME NEW c \in Client, CallInvalid(c) \/ Abort(c)
      PROVE  tx'[d].log = log'
  BY <1>2 DEF CallInvalid, Abort, Finish, IInv, TypeOK, NewestInv
<1>3. ASSUME NEW c \in Client, NEW arguments, Enter(c, arguments) \/ Begin(c)
      PROVE  tx'[d].log = log'
  BY <1>3 DEF Enter, Begin, IInv, TypeOK, NewestInv
<1>4. ASSUME NEW h \in Handle, Crash(h)
      PROVE  tx'[d].log = log'
  BY <1>4 DEF Crash, NewestInv
<1>5. CASE Tick \/ UNCHANGED vars
  BY <1>5 DEF Tick, vars, NewestInv
<1> QED
  BY <1>1, <1>2, <1>3, <1>4, <1>5 DEF Next, CallApprove, CallRevoke

LEMMA NotBusyStands ==
  ASSUME OneHandle, IInv, NewestInv, [Next]_vars,
         \A c \in Client : reply[c].outcome # "busy"
  PROVE  \A c \in Client : reply'[c].outcome # "busy"
<1>1. ASSUME NEW c \in Client, NEW outcome \in Outcomes \ {"busy"}, Finish(c, outcome)
      PROVE  \A d \in Client : reply'[d].outcome # "busy"
  BY <1>1 DEF Finish, IInv, TypeOK
<1>2. ASSUME NEW c \in Client
      PROVE  ~WriteLockRefused(c)
  <2> SUFFICES ASSUME pc[c] = "read", ~CanUpgrade(c) PROVE FALSE
    BY DEF WriteLockRefused
  <2>1. writer = None
    BY OneOpenTransaction DEF IInv, WriterInv, TypeOK
  <2> QED
    BY <2>1 DEF CanUpgrade, NewestInv
<1>3. ASSUME NEW c \in Client, Step(c)
      PROVE  \A d \in Client : reply'[d].outcome # "busy"
  BY <1>1, <1>2, <1>3
     DEF Step, TakeSnapshot, Write, ApproveRead, ApproveCollides, ApproveSupersede,
         ApproveInsert, ApproveInsertRefused, RevokeNotFound, RevokeNotActive,
         RevokePreview, RevokeStalePreview, RevokeRead, RevokeWrite, Commit, Return,
         Outcomes, Failures
<1>4. ASSUME NEW c \in Client, CallInvalid(c) \/ Abort(c)
      PROVE  \A d \in Client : reply'[d].outcome # "busy"
  BY <1>1, <1>4 DEF CallInvalid, Abort, Outcomes, Failures
<1>5. ASSUME NEW c \in Client, NEW arguments, Enter(c, arguments) \/ Begin(c)
      PROVE  \A d \in Client : reply'[d].outcome # "busy"
  BY <1>5 DEF Enter, Begin, IInv, TypeOK, NoReply
<1>6. ASSUME NEW h \in Handle, Crash(h)
      PROVE  \A d \in Client : reply'[d].outcome # "busy"
  BY <1>6 DEF Crash, NoReply
<1>7. CASE Tick \/ UNCHANGED vars
  BY <1>7 DEF Tick, vars
<1> QED
  BY <1>3, <1>4, <1>5, <1>6, <1>7 DEF Next, CallApprove, CallRevoke

(* Callers of one process never fail as busy, however many there are.      *)
THEOREM OneProcessIsNeverBusy == Spec => []NoBusyWithinOneProcess
<1> DEFINE Inv == OneHandle => NewestInv /\ \A c \in Client : reply[c].outcome # "busy"
<1>1. Init => Inv
  BY DEF Init, NewestInv, NoReply
<1>2. IInv /\ Inv /\ [Next]_vars => Inv'
  BY NewestStands, NotBusyStands DEF OneHandle
<1>3. Inv => NoBusyWithinOneProcess
  BY DEF NoBusyWithinOneProcess, OneHandle
<1> QED
  BY <1>1, <1>2, <1>3, Invariance, PTL DEF Spec

-----------------------------------------------------------------------------
(* What callers were told.                                                 *)

(* Caller c has approved i: it was told so, or will be if it survives.     *)
Approver(c, i) ==
  \/ pc[c] = "committed" /\ call[c].kind = "approve" /\ call[c].id = i
  \/ reply[c].outcome = "approved" /\ reply[c].id = i

(* Caller c has revoked i, likewise.                                       *)
Revoker(c, i) ==
  \/ pc[c] = "committed" /\ call[c].kind = "revoke" /\ call[c].id = i
  \/ reply[c].outcome = "revoked" /\ reply[c].id = i

(* An approved record exists, and has one approver: of two requests that   *)
(* get the same id only one finds the record absent when it commits.       *)
AckInv ==
  /\ \A c \in Client, i \in Id : Approver(c, i) => rows[i].status # "absent"
  /\ \A c \in Client, i \in Id : Revoker(c, i) => rows[i].status = "revoked"
  /\ \A c, d \in Client, i \in Id : Approver(c, i) /\ Approver(d, i) => c = d
  /\ \A c \in Client : reply[c].outcome \in {"approved", "revoked"} => reply[c].id \in Id

(* What a commit does to the record it is about and to the others.         *)
LEMMA CommitEffect ==
  ASSUME NEW c \in Client, IInv, Commit(c)
  PROVE  /\ call[c].id \in Id
         /\ call[c].kind = "approve" =>
              rows[call[c].id].status = "absent" /\ rows'[call[c].id].status = "active"
         /\ call[c].kind = "revoke" => rows'[call[c].id].status = "revoked"
         /\ \A i \in Id : rows[i].status # "absent" => rows'[i].status # "absent"
         /\ \A i \in Id : rows[i].status = "revoked" => rows'[i].status = "revoked"
<1>1. /\ pc[c] = "written" /\ rows' = tx[c].rows /\ log' = tx[c].log
      /\ Written(c) /\ rows \in [Id -> Row]
  BY DEF Commit, IInv, WrittenInv, TypeOK, Rows
<1>2. call[c].id \in Id /\ call[c].kind \in {"approve", "revoke"} /\ call[c].at \in Time
  BY <1>1 DEF IInv, CallInv, TypeOK, Calls
<1>3. ASSUME call[c].kind = "approve", AdoptedFrom(call[c].id, rows', log')
      PROVE  /\ rows[call[c].id].status = "absent" /\ rows'[call[c].id].status = "active"
             /\ \A i \in Id \ {call[c].id} : rows'[i] = rows[i]
  BY <1>1, <1>2, <1>3 DEF AdoptedFrom, Activated
<1>4. ASSUME call[c].kind = "approve", NEW p \in Id, ReplacedFrom(p, call[c].id, rows', log')
      PROVE  /\ rows[call[c].id].status = "absent" /\ rows'[call[c].id].status = "active"
             /\ rows[p].status = "active" /\ rows'[p].status = "superseded"
             /\ \A i \in Id \ {p, call[c].id} : rows'[i] = rows[i]
  BY <1>1, <1>2, <1>4 DEF ReplacedFrom, Activated, RetiredAs
<1>5. ASSUME call[c].kind = "revoke"
      PROVE  /\ rows'[call[c].id].status = "revoked"
             /\ \A i \in Id \ {call[c].id} : rows'[i] = rows[i]
  <2>1. rows' = [rows EXCEPT ![call[c].id] = RetiredAs("revoked", call[c].at)]
    BY <1>1, <1>5 DEF Written, WithdrawnFrom
  <2> QED
    BY <1>1, <1>2, <2>1 DEF RetiredAs
<1>6. CASE call[c].kind = "approve"
  <2>1. \/ AdoptedFrom(call[c].id, rows', log')
        \/ \E p \in Id : ReplacedFrom(p, call[c].id, rows', log')
    BY <1>1, <1>6 DEF Written
  <2>2. CASE AdoptedFrom(call[c].id, rows', log')
    BY <1>2, <1>3, <1>6, <2>2
  <2>3. CASE \E p \in Id : ReplacedFrom(p, call[c].id, rows', log')
    <3> PICK p \in Id : ReplacedFrom(p, call[c].id, rows', log')
      BY <2>3
    <3> QED
      BY <1>2, <1>4, <1>6
  <2> QED
    BY <2>1, <2>2, <2>3
<1>7. CASE call[c].kind = "revoke"
  BY <1>2, <1>5, <1>7
<1> QED
  BY <1>2, <1>6, <1>7

(* Nobody becomes an approver or a revoker but by a commit.                *)
LEMMA NobodyNewInv ==
  ASSUME AckInv, rows' = rows,
         \A c \in Client, i \in Id : Approver(c, i)' => Approver(c, i),
         \A c \in Client, i \in Id : Revoker(c, i)' => Revoker(c, i),
         \A c \in Client : reply'[c].outcome \in {"approved", "revoked"} => reply'[c].id \in Id
  PROVE  AckInv'
BY DEF AckInv

LEMMA FinishAck ==
  ASSUME IInv, AckInv, NEW c \in Client, NEW outcome, Finish(c, outcome),
         outcome = "approved" => pc[c] = "committed" /\ call[c].kind = "approve",
         outcome = "revoked" => pc[c] = "committed" /\ call[c].kind = "revoke"
  PROVE  AckInv'
<1>1. /\ rows' = rows
      /\ pc'[c] = "idle" /\ reply'[c] = [outcome |-> outcome, id |-> call[c].id]
      /\ \A d \in Client \ {c} :
           pc'[d] = pc[d] /\ reply'[d] = reply[d] /\ call'[d] = call[d]
  BY DEF Finish, IInv, TypeOK
<1>2. pc[c] = "committed" => call[c].id \in Id
  BY DEF IInv, CallInv
<1> QED
  BY <1>1, <1>2, NobodyNewInv DEF Approver, Revoker, AckInv

LEMMA CommitAck ==
  ASSUME IInv, AckInv, NEW c \in Client, Commit(c)
  PROVE  AckInv'
<1>1. /\ pc'[c] = "committed" /\ call' = call /\ reply' = reply
      /\ \A d \in Client \ {c} : pc'[d] = pc[d]
  BY DEF Commit, IInv, TypeOK
<1>2. ASSUME NEW d \in Client, NEW i \in Id, Approver(d, i)'
      PROVE  Approver(d, i) \/ (d = c /\ call[c].kind = "approve" /\ i = call[c].id)
  BY <1>1, <1>2 DEF Approver
<1>3. ASSUME NEW d \in Client, NEW i \in Id, Revoker(d, i)'
      PROVE  Revoker(d, i) \/ (d = c /\ call[c].kind = "revoke" /\ i = call[c].id)
  BY <1>1, <1>3 DEF Revoker
<1>4. \A d \in Client, i \in Id : Approver(d, i)' => rows'[i].status # "absent"
  BY <1>2, CommitEffect DEF AckInv
<1>5. \A d \in Client, i \in Id : Revoker(d, i)' => rows'[i].status = "revoked"
  BY <1>3, CommitEffect DEF AckInv
<1>6. \A d, e \in Client, i \in Id : Approver(d, i)' /\ Approver(e, i)' => d = e
  BY <1>2, CommitEffect DEF AckInv
<1> QED
  BY <1>1, <1>4, <1>5, <1>6 DEF AckInv

LEMMA StepAck ==
  ASSUME IInv, AckInv, NEW c \in Client, Step(c)
  PROVE  AckInv'
<1>1. CASE Commit(c)
  BY <1>1, CommitAck
<1>2. CASE Return(c)
  <2>1. call[c].kind \in {"approve", "revoke"}
    BY <1>2 DEF Return, IInv, CallInv
  <2> QED
    BY <1>2, <2>1, FinishAck DEF Return
<1>3. ASSUME NEW outcome, outcome \notin {"approved", "revoked"}, Finish(c, outcome)
      PROVE  AckInv'
  BY <1>3, FinishAck
<1>4. CASE \/ ApproveRead(c) \/ RevokeRead(c)
           \/ ApproveSupersede(c) \/ ApproveInsert(c) \/ RevokeWrite(c)
  <2>1. /\ rows' = rows /\ call' = call /\ reply' = reply
        /\ \A d \in Client : pc'[d] = pc[d] \/ pc'[d] # "committed"
    BY <1>4 DEF ApproveRead, RevokeRead, TakeSnapshot, ApproveSupersede,
                ApproveInsert, RevokeWrite, Write, IInv, TypeOK
  <2> QED
    BY <2>1, NobodyNewInv DEF Approver, Revoker, AckInv
<1> QED
  BY <1>1, <1>2, <1>3, <1>4
     DEF Step, ApproveCollides, ApproveInsertRefused, RevokeNotFound,
         RevokeNotActive, RevokePreview, RevokeStalePreview, WriteLockRefused

LEMMA NextAck == IInv /\ AckInv /\ [Next]_vars => AckInv'
<1> SUFFICES ASSUME IInv, AckInv, [Next]_vars PROVE AckInv'
  OBVIOUS
<1>1. ASSUME NEW c \in Client, NEW arguments, Enter(c, arguments) \/ Begin(c)
      PROVE  AckInv'
  <2>1. /\ rows' = rows
        /\ \A d \in Client : /\ reply'[d] = reply[d] \/ reply'[d] = NoReply
                             /\ pc'[d] # "committed" \/ (pc'[d] = pc[d] /\ call'[d] = call[d])
    BY <1>1 DEF Enter, Begin, IInv, TypeOK
  <2> QED
    BY <2>1, NobodyNewInv DEF Approver, Revoker, AckInv, NoReply
<1>2. ASSUME NEW c \in Client, CallInvalid(c) \/ Abort(c)
      PROVE  AckInv'
  BY <1>2, FinishAck DEF CallInvalid, Abort
<1>3. ASSUME NEW h \in Handle, Crash(h)
      PROVE  AckInv'
  <2>1. /\ rows' = rows
        /\ \A d \in Client :
             \/ pc'[d] = "idle" /\ reply'[d] = NoReply
             \/ pc'[d] = pc[d] /\ call'[d] = call[d] /\ reply'[d] = reply[d]
    BY <1>3 DEF Crash
  <2> QED
    BY <2>1, NobodyNewInv DEF Approver, Revoker, AckInv, NoReply
<1>4. CASE Tick \/ UNCHANGED vars
  BY <1>4, NobodyNewInv DEF Tick, vars, Approver, Revoker, AckInv
<1> QED
  BY <1>1, <1>2, <1>3, <1>4, StepAck DEF Next, CallApprove, CallRevoke

(* Whatever fails or crashes afterwards, a decision somebody was told of   *)
(* is in the history and in force, and no two callers were told that the   *)
(* same approval is theirs (Approve, Revoke: the answer after the commit). *)
THEOREM AcknowledgedIsKept == Spec => []AcknowledgedDecisionsStand
<1>1. Init => AckInv
  BY DEF Init, AckInv, Approver, Revoker, NoReply
<1>2. AckInv /\ AuditExplainsRecords => AcknowledgedDecisionsStand
  BY DEF AckInv, Approver, Revoker, AuditExplainsRecords, StatusIsLogged,
         AcknowledgedDecisionsStand
<1> QED
  BY <1>1, <1>2, NextAck, Invariance, AuditIsExact, PTL DEF Spec
=============================================================================
