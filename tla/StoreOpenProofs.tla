--------------------------- MODULE StoreOpenProofs ---------------------------
(* Theorems about StoreOpen, for any set of processes, any schema and any  *)
(* number of failures.                                                     *)
EXTENDS StoreOpen, TLAPS

(* What a process at each place of Open may rely on.                       *)
PlaceInv(p) ==
  /\ pc[p] \notin {"closed", "validate"} => file # "irregular"
  /\ pc[p] \in {"header", "migrate", "commit"} => lock = p
  /\ pc[p] \in {"migrate", "commit"} => db = Empty
  /\ pc[p] = "commit" => Whole(work[p])
  /\ pc[p] = "first" => db = Empty \/ Whole(db)
  /\ pc[p] \in {"secure", "open"} => Whole(db)

DatabaseInv == db # Empty => db.objects = NumObjects /\ db.version >= SchemaVersion

IInv ==
  /\ TypeOK
  /\ DatabaseInv
  /\ \A p \in Process : PlaceInv(p)
  /\ LoserFindsTheWinnersWork

(* The inductive invariant holds in the beginning.                         *)
LEMMA InitInv == Init => IInv
  <1> SUFFICES ASSUME Init PROVE IInv
    OBVIOUS
  <1> USE OpenAssumption DEF Init
  <1>1. TypeOK
    <2>1. db \in Schema
      BY DEF Schema, Empty
    <2> QED BY <2>1, SMT DEF TypeOK, Schema, Empty, Places
  <1>2. DatabaseInv
    BY DEF DatabaseInv
  <1>3. \A p \in Process : PlaceInv(p)
    BY DEF PlaceInv
  <1>4. LoserFindsTheWinnersWork
    BY DEF LoserFindsTheWinnersWork, Refusals
  <1> QED BY <1>1, <1>2, <1>3, <1>4 DEF IInv

(* An Open that is refused, whatever the reason, disturbs nobody.          *)
LEMMA RefuseInv ==
  ASSUME IInv, NEW p \in Process, NEW why \in Refusals, Refuse(p, why),
         faults' \in 0 .. MaxFaults,
         why = "created" => file = "regular",
         why = "migrated" => Whole(db)
  PROVE IInv'
  <1> USE OpenAssumption DEF IInv, Refuse, Release
  <1>1. TypeOK'
    BY DEF TypeOK, Places, Refusals, Schema, Empty
  <1>2. DatabaseInv'
    BY DEF DatabaseInv
  <1>3. ASSUME NEW q \in Process PROVE PlaceInv(q)'
    <2>1. CASE q = p
      BY <2>1 DEF PlaceInv, TypeOK
    <2>2. CASE q # p
      BY <2>2 DEF PlaceInv, TypeOK, Whole
    <2> QED BY <2>1, <2>2
  <1>4. LoserFindsTheWinnersWork'
    BY DEF LoserFindsTheWinnersWork, TypeOK, Whole
  <1> QED BY <1>1, <1>2, <1>3, <1>4

(* The steps that only move on, without touching lock or schema.           *)
LEMMA MoveInv ==
  ASSUME IInv, NEW p \in Process, NEW from, NEW to \in Places, Goto(p, from, to),
         UNCHANGED <<sidecar, db, lock, work, faults>>,
         file' # "irregular" \/ file' = file,
         file' \in {"absent", "irregular", "regular"},
         file = "regular" => file' = "regular",
         wal' \in BOOLEAN,
         refusal' \in {refusal, [refusal EXCEPT ![p] = None]},
         PlaceInv(p)'
  PROVE IInv'
  <1> USE OpenAssumption DEF IInv, Goto
  <1>1. TypeOK'
    BY DEF TypeOK, Refusals
  <1>2. DatabaseInv'
    BY DEF DatabaseInv
  <1>3. ASSUME NEW q \in Process PROVE PlaceInv(q)'
    <2>1. CASE q # p
      BY <2>1 DEF PlaceInv, TypeOK, Whole
    <2> QED BY <2>1
  <1>4. LoserFindsTheWinnersWork'
    BY DEF LoserFindsTheWinnersWork, TypeOK, Whole, Refusals
  <1> QED BY <1>1, <1>2, <1>3, <1>4

(* The steps of a transaction: its holder of the lock changes its own view *)
(* or, at the commit, the database.                                        *)
LEMMA HolderInv ==
  ASSUME IInv, NEW p \in Process,
         UNCHANGED <<file, sidecar, refusal, faults>>,
         wal' \in BOOLEAN,
         lock \in {p, None}, lock' \in {p, None},
         pc' \in [Process -> Places],
         \A q \in Process \ {p} : pc'[q] = pc[q] /\ work'[q] = work[q],
         work' \in [Process -> Schema],
         db' # db => Whole(db') /\ db' \in Schema,
         PlaceInv(p)'
  PROVE IInv'
  <1> USE OpenAssumption DEF IInv
  <1>1. TypeOK'
    BY DEF TypeOK
  <1>2. DatabaseInv'
    BY DEF DatabaseInv, Whole
  <1>3. ASSUME NEW q \in Process PROVE PlaceInv(q)'
    <2>1. CASE q # p
      BY <2>1 DEF PlaceInv, TypeOK, Whole
    <2> QED BY <2>1
  <1>4. LoserFindsTheWinnersWork'
    BY DEF LoserFindsTheWinnersWork, TypeOK, Whole
  <1> QED BY <1>1, <1>2, <1>3, <1>4

(* Every step of one process preserves the invariant.                      *)
LEMMA StepInv ==
  ASSUME IInv, NEW p \in Process,
         CallOpen(p) \/ Step(p) \/ Busy(p) \/ Fail(p) \/ Die(p) \/ Close(p)
  PROVE IInv'
  <1> USE OpenAssumption DEF Refusals
  <1>0. TypeOK /\ DatabaseInv /\ PlaceInv(p)
    BY DEF IInv
  <1>1. CASE CallOpen(p)
    BY <1>0, <1>1, MoveInv DEF CallOpen, Goto, PlaceInv, TypeOK, Places
  <1>2. CASE ValidateExistingFile(p)
    <2>1. CASE file = "irregular"
      BY <1>0, <1>2, <2>1, RefuseInv DEF ValidateExistingFile, TypeOK
    <2>2. CASE file # "irregular"
      BY <1>0, <1>2, <2>2, MoveInv DEF ValidateExistingFile, Goto, PlaceInv, TypeOK, Places
    <2> QED BY <2>1, <2>2
  <1>3. CASE Lstat(p)
    BY <1>0, <1>3, MoveInv DEF Lstat, Goto, PlaceInv, TypeOK, Places
  <1>4. CASE Create(p)
    <2>1. CASE file = "absent"
      BY <1>0, <1>4, <2>1, MoveInv DEF Create, Goto, PlaceInv, TypeOK, Places
    <2>2. CASE file # "absent"
      BY <1>0, <1>4, <2>2, RefuseInv DEF Create, PlaceInv, TypeOK
    <2> QED BY <2>1, <2>2
  <1>5. CASE ValidateSidecars(p)
    <2>1. CASE sidecar = "irregular"
      BY <1>0, <1>5, <2>1, RefuseInv DEF ValidateSidecars, TypeOK
    <2>2. CASE sidecar # "irregular"
      BY <1>0, <1>5, <2>2, MoveInv DEF ValidateSidecars, Goto, PlaceInv, TypeOK, Places
    <2> QED BY <2>1, <2>2
  <1>6. CASE AlreadyWal(p)
    BY <1>0, <1>6, MoveInv DEF AlreadyWal, Goto, PlaceInv, TypeOK, Places
  <1>7. CASE LockForWal(p)
    BY <1>0, <1>7, HolderInv DEF LockForWal, Goto, PlaceInv, TypeOK, Places
  <1>8. CASE WriteHeader(p)
    BY <1>0, <1>8, HolderInv DEF WriteHeader, Goto, Release, PlaceInv, TypeOK, Places
  <1>9. CASE ReadVersion(p)
    <2>1. CASE db.version > SchemaVersion
      BY <1>0, <1>9, <2>1, RefuseInv DEF ReadVersion, TypeOK
    <2>2. CASE ~(db.version > SchemaVersion)
      <3>1. db.version = 0 => db = Empty
        BY <1>0 DEF DatabaseInv, TypeOK, Schema
      <3>2. ASSUME db.version # 0 PROVE Whole(db)
        <4>1. db # Empty
          BY <3>2 DEF Empty
        <4>2. db.version \in Nat
          BY <1>0 DEF TypeOK, Schema
        <4> QED BY <1>0, <2>2, <4>1, <4>2 DEF DatabaseInv, Whole
      <3> QED BY <1>0, <1>9, <2>2, <3>1, <3>2, MoveInv
                 DEF ReadVersion, Goto, PlaceInv, TypeOK, Places
    <2> QED BY <2>1, <2>2
  <1>10. CASE CreateFirst(p)
    <2>1. CASE db.objects > 0
      <3>1. Whole(db)
        BY <1>0, <1>10, <2>1 DEF CreateFirst, PlaceInv, Empty
      <3> QED BY <1>0, <1>10, <2>1, <3>1, RefuseInv DEF CreateFirst, TypeOK
    <2>2. CASE ~(db.objects > 0)
      <3>1. db = Empty
        BY <1>0, <2>2 DEF DatabaseInv, TypeOK, Schema
      <3>2. [db EXCEPT !.objects = 1] \in Schema
        BY <1>0 DEF TypeOK, Schema
      <3> QED BY <1>0, <1>10, <2>2, <3>1, <3>2, HolderInv
                 DEF CreateFirst, Execute, Goto, PlaceInv, TypeOK, Places
    <2> QED BY <2>1, <2>2
  <1>11. CASE CreateNext(p)
    <2>1. [work[p] EXCEPT !.objects = @ + 1] \in Schema
      BY <1>0, <1>11 DEF CreateNext, TypeOK, Schema
    <2> QED BY <1>0, <1>11, <2>1, HolderInv
               DEF CreateNext, Execute, PlaceInv, TypeOK, Places
  <1>12. CASE SetUserVersion(p)
    <2> DEFINE view == [work[p] EXCEPT !.version = SchemaVersion]
    <2>1. view \in Schema /\ Whole(view)
      BY <1>0, <1>12 DEF SetUserVersion, TypeOK, Schema, Whole
    <2>2. work'[p] = view
      BY <1>0, <1>12 DEF SetUserVersion, Execute, TypeOK
    <2> QED BY <1>0, <1>12, <2>1, <2>2, HolderInv
               DEF SetUserVersion, Execute, Goto, PlaceInv, TypeOK, Places
  <1>13. CASE Commit(p)
    <2>1. Whole(db') /\ db' \in Schema
      BY <1>0, <1>13 DEF Commit, Goto, PlaceInv, TypeOK
    <2>2. Empty \in Schema
      BY DEF Empty, Schema
    <2> QED BY <1>0, <1>13, <2>1, <2>2, HolderInv
               DEF Commit, Goto, Release, PlaceInv, TypeOK, Places
  <1>14. CASE Secure(p)
    BY <1>0, <1>14, MoveInv DEF Secure, Goto, PlaceInv, TypeOK, Places
  <1>15. CASE Busy(p)
    BY <1>0, <1>15, RefuseInv DEF Busy, TypeOK
  <1>16. CASE Fail(p)
    BY <1>0, <1>16, RefuseInv DEF Fail, TypeOK
  <1>17. CASE Die(p)
    BY <1>0, <1>17, RefuseInv DEF Die, TypeOK
  <1>18. CASE Close(p)
    BY <1>0, <1>18, MoveInv DEF Close, Goto, PlaceInv, TypeOK, Places
  <1> QED BY <1>1, <1>2, <1>3, <1>4, <1>5, <1>6, <1>7, <1>8, <1>9, <1>10, <1>11,
             <1>12, <1>13, <1>14, <1>15, <1>16, <1>17, <1>18
          DEF Step, Migrate

(* The inductive invariant holds in every reachable state.                 *)
THEOREM Invariance == Spec => []IInv
  <1>1. IInv /\ [Next]_vars => IInv'
    <2> SUFFICES ASSUME IInv, [Next]_vars PROVE IInv'
      OBVIOUS
    <2>1. CASE Next
      BY <2>1, StepInv DEF Next
    <2>2. CASE UNCHANGED vars
      BY <2>2 DEF vars, IInv, TypeOK, DatabaseInv, PlaceInv, Whole,
                  LoserFindsTheWinnersWork
    <2> QED BY <2>1, <2>2
  <1> QED BY <1>1, InitInv, PTL DEF Spec

(* Every variable keeps its type.                                          *)
THEOREM TypeCorrect == Spec => []TypeOK
  BY Invariance, PTL DEF IInv

(* Whoever holds an open store has the whole schema under it, and no death *)
(* or failure leaves a part of one.                                        *)
THEOREM OpenIsWhole == Spec => []OpenStoreIsWhole
  <1>1. IInv => OpenStoreIsWhole
    BY OpenAssumption DEF IInv, PlaceInv, DatabaseInv, OpenStoreIsWhole, TypeOK, Schema
  <1> QED BY <1>1, Invariance, PTL

(* A refusal that blames another process is about finished work of its.    *)
THEOREM LosersFindWork == Spec => []LoserFindsTheWinnersWork
  BY Invariance, PTL DEF IInv

(* No step changes a schema that exists.                                   *)
THEOREM SchemaStays == Spec => SchemaIsKept
  <1>1. ASSUME IInv, [Next]_vars PROVE [db # Empty => UNCHANGED db]_vars
    <2>1. ASSUME NEW p \in Process, Commit(p) PROVE db = Empty
      BY <1>1, <2>1 DEF IInv, PlaceInv, Commit, Goto
    <2>2. ASSUME NEW p \in Process,
                 CallOpen(p) \/ Step(p) \/ Busy(p) \/ Fail(p) \/ Die(p) \/ Close(p)
          PROVE db # Empty => UNCHANGED db
      BY <2>1, <2>2
         DEF CallOpen, Step, Migrate, ValidateExistingFile, Lstat, Create,
             ValidateSidecars, AlreadyWal, LockForWal, WriteHeader, ReadVersion,
             CreateFirst, CreateNext, SetUserVersion, Execute, Secure, Busy, Fail,
             Die, Close, Refuse
    <2> QED BY <1>1, <2>2 DEF Next, vars
  <1> QED BY <1>1, Invariance, PTL DEF Spec, SchemaIsKept
=============================================================================
