------------------------------ MODULE StoreOpen ------------------------------
(***************************************************************************)
(* Open of resolutions/store.go and of lookupcache/store.go, which is the  *)
(* same code: find or create the database file, switch it to write-ahead   *)
(* logging, create the schema unless it is there. Several processes open   *)
(* the file at once, fail or die at any step, and try again.               *)
(*                                                                         *)
(* The schema is a sequence of CREATE statements, of which a database has  *)
(* executed some number, and user_version. File modes are left out.        *)
(***************************************************************************)
EXTENDS Naturals

CONSTANTS
  Process,
  NumObjects,     \* tables and indexes that migrate creates
  SchemaVersion,
  FoundVersions,  \* user_version of a database that exists beforehand
  MaxFaults,      \* bound: failures of the machine and deaths of processes
  None

(* Why an Open fails.                                                      *)
Refusals == {"irregular", "created", "newer", "migrated", "busy", "failed", "died"}

ASSUME OpenAssumption ==
  /\ NumObjects \in Nat \ {0}
  /\ SchemaVersion \in Nat \ {0}
  /\ FoundVersions \subseteq Nat
  /\ \A v \in FoundVersions : v >= SchemaVersion
  /\ MaxFaults \in Nat
  /\ None \notin Process \cup Refusals

VARIABLES
  file,       \* what the path names: "absent", "irregular" or "regular"
  sidecar,    \* what -wal and -shm are, if they exist
  wal,        \* the database is in WAL mode
  db,         \* its committed schema
  lock,       \* the process that holds its write lock, or None
  pc,         \* pc[p]: where p is in Open
  work,       \* work[p]: the schema as p's transaction sees it
  refusal,    \* refusal[p]: why p's last Open failed
  faults

vars == <<file, sidecar, wal, db, lock, pc, work, refusal, faults>>

Schema == [objects : 0 .. NumObjects, version : Nat]

Empty == [objects |-> 0, version |-> 0]

Whole(schema) == schema.objects = NumObjects /\ schema.version = SchemaVersion

(* A database that exists beforehand is new, whole, or of a newer program: *)
(* there are no older schemas than the first.                              *)
Init ==
  /\ file \in {"absent", "irregular", "regular"}
  /\ sidecar \in {"irregular", "regular"}
  /\ IF file = "regular"
       THEN db \in {Empty} \cup {[objects |-> NumObjects, version |-> v] :
                                   v \in FoundVersions}
       ELSE db = Empty
  /\ wal = (db # Empty)
  /\ lock = None
  /\ pc = [p \in Process |-> "closed"]
  /\ work = [p \in Process |-> Empty]
  /\ refusal = [p \in Process |-> None]
  /\ faults = 0

Goto(p, from, to) == pc[p] = from /\ pc' = [pc EXCEPT ![p] = to]

Release(p) == lock' = IF lock = p THEN None ELSE lock

(* Open returns an error: the transaction is rolled back, the handle       *)
(* closed.                                                                 *)
Refuse(p, why) ==
  /\ pc' = [pc EXCEPT ![p] = "closed"]
  /\ refusal' = [refusal EXCEPT ![p] = why]
  /\ work' = [work EXCEPT ![p] = Empty]
  /\ Release(p)
  /\ UNCHANGED <<file, sidecar, wal, db>>

-----------------------------------------------------------------------------
(* The file.                                                               *)

CallOpen(p) ==
  /\ Goto(p, "closed", "validate")
  /\ refusal' = [refusal EXCEPT ![p] = None]
  /\ UNCHANGED <<file, sidecar, wal, db, lock, work, faults>>

ValidateExistingFile(p) ==
  /\ pc[p] = "validate"
  /\ IF file = "irregular"
       THEN Refuse(p, "irregular")
       ELSE /\ Goto(p, "validate", "lstat")
            /\ UNCHANGED <<file, sidecar, wal, db, lock, work, refusal>>
  /\ UNCHANGED faults

Lstat(p) ==
  /\ Goto(p, "lstat", IF file = "absent" THEN "create" ELSE "sidecars")
  /\ UNCHANGED <<file, sidecar, wal, db, lock, work, refusal, faults>>

(* O_EXCL: whoever lost the race since Lstat is refused.                   *)
Create(p) ==
  /\ pc[p] = "create"
  /\ IF file = "absent"
       THEN /\ file' = "regular"
            /\ Goto(p, "create", "sidecars")
            /\ UNCHANGED <<sidecar, wal, db, lock, work, refusal>>
       ELSE Refuse(p, "created")
  /\ UNCHANGED faults

ValidateSidecars(p) ==
  /\ pc[p] = "sidecars"
  /\ IF sidecar = "irregular"
       THEN Refuse(p, "irregular")
       ELSE /\ Goto(p, "sidecars", "journal")
            /\ UNCHANGED <<file, sidecar, wal, db, lock, work, refusal>>
  /\ UNCHANGED faults

-----------------------------------------------------------------------------
(* initialize and migrate.                                                 *)

(* PRAGMA journal_mode = WAL writes the header of a new database.          *)
AlreadyWal(p) ==
  /\ wal
  /\ Goto(p, "journal", "version")
  /\ UNCHANGED <<file, sidecar, wal, db, lock, work, refusal, faults>>

LockForWal(p) ==
  /\ ~wal
  /\ lock = None
  /\ Goto(p, "journal", "header")
  /\ lock' = p
  /\ UNCHANGED <<file, sidecar, wal, db, work, refusal, faults>>

WriteHeader(p) ==
  /\ Goto(p, "header", "version")
  /\ wal' = TRUE
  /\ Release(p)
  /\ UNCHANGED <<file, sidecar, db, work, refusal, faults>>

(* Fault: any schema that exists is taken for this program's.              *)
ReadVersionUnchecked(p) ==
  /\ pc[p] = "version"
  /\ Goto(p, "version", IF db.version = 0 THEN "first" ELSE "secure")
  /\ UNCHANGED <<file, sidecar, wal, db, lock, work, refusal, faults>>

(* user_version is read before the transaction begins.                     *)
ReadVersion(p) ==
  /\ pc[p] = "version"
  /\ IF db.version > SchemaVersion
       THEN Refuse(p, "newer")
       ELSE /\ Goto(p, "version", IF db.version = 0 THEN "first" ELSE "secure")
            /\ UNCHANGED <<file, sidecar, wal, db, lock, work, refusal>>
  /\ UNCHANGED faults

(* Fault: the statements run without a transaction.                        *)
ExecuteAtOnce(p, schema) ==
  /\ work' = [work EXCEPT ![p] = schema]
  /\ db' = schema

Execute(p, schema) ==
  /\ work' = [work EXCEPT ![p] = schema]
  /\ UNCHANGED db

(* The first CREATE TABLE takes the write lock, waiting for it if need be, *)
(* and only then its snapshot: the table may exist by now.                 *)
CreateFirst(p) ==
  /\ pc[p] = "first"
  /\ lock = None
  /\ IF db.objects > 0
       THEN Refuse(p, "migrated")
       ELSE /\ Goto(p, "first", "migrate")
            /\ lock' = p
            /\ Execute(p, [db EXCEPT !.objects = 1])
            /\ UNCHANGED <<file, sidecar, wal, refusal>>
  /\ UNCHANGED faults

CreateNext(p) ==
  /\ pc[p] = "migrate"
  /\ work[p].objects < NumObjects
  /\ Execute(p, [work[p] EXCEPT !.objects = @ + 1])
  /\ UNCHANGED <<file, sidecar, wal, lock, pc, refusal, faults>>

(* Fault: the version is not recorded.                                     *)
SetNoVersion(p) ==
  /\ work[p].objects = NumObjects
  /\ Goto(p, "migrate", "commit")
  /\ UNCHANGED <<file, sidecar, wal, db, lock, work, refusal, faults>>

SetUserVersion(p) ==
  /\ work[p].objects = NumObjects
  /\ Goto(p, "migrate", "commit")
  /\ Execute(p, [work[p] EXCEPT !.version = SchemaVersion])
  /\ UNCHANGED <<file, sidecar, wal, lock, refusal, faults>>

Commit(p) ==
  /\ Goto(p, "commit", "secure")
  /\ db' = work[p]
  /\ work' = [work EXCEPT ![p] = Empty]
  /\ Release(p)
  /\ UNCHANGED <<file, sidecar, wal, refusal, faults>>

(* The last Chmod, and secureSidecars.                                     *)
Secure(p) ==
  /\ Goto(p, "secure", "open")
  /\ UNCHANGED <<file, sidecar, wal, db, lock, work, refusal, faults>>

Close(p) ==
  /\ Goto(p, "open", "closed")
  /\ UNCHANGED <<file, sidecar, wal, db, lock, work, refusal, faults>>

-----------------------------------------------------------------------------
(* What goes wrong around it.                                              *)

(* The busy timeout runs out while somebody else holds the lock.           *)
Busy(p) ==
  /\ \/ pc[p] = "first"
     \/ pc[p] = "journal" /\ ~wal
  /\ lock \notin {None, p}
  /\ Refuse(p, "busy")
  /\ UNCHANGED faults

(* A system call or a statement fails.                                     *)
Fail(p) ==
  /\ pc[p] \notin {"closed", "open"}
  /\ faults < MaxFaults
  /\ faults' = faults + 1
  /\ Refuse(p, "failed")

(* The process dies; SQLite forgets what it had not committed.             *)
Die(p) ==
  /\ pc[p] # "closed"
  /\ faults < MaxFaults
  /\ faults' = faults + 1
  /\ Refuse(p, "died")

Migrate(p) ==
  \/ ReadVersion(p) \/ CreateFirst(p) \/ CreateNext(p) \/ SetUserVersion(p)
  \/ Commit(p)

Step(p) ==
  \/ ValidateExistingFile(p) \/ Lstat(p) \/ Create(p) \/ ValidateSidecars(p)
  \/ AlreadyWal(p) \/ LockForWal(p) \/ WriteHeader(p)
  \/ Migrate(p) \/ Secure(p)

Next ==
  \E p \in Process :
    CallOpen(p) \/ Step(p) \/ Busy(p) \/ Fail(p) \/ Die(p) \/ Close(p)

Spec == Init /\ [][Next]_vars

(* An Open that can go on does.                                            *)
FairSpec == Spec /\ \A p \in Process : WF_vars(Step(p) \/ Busy(p))

-----------------------------------------------------------------------------
(* Properties.                                                             *)

Places == {"closed", "validate", "lstat", "create", "sidecars", "journal",
           "header", "version", "first", "migrate", "commit", "secure", "open"}

TypeOK ==
  /\ file \in {"absent", "irregular", "regular"}
  /\ sidecar \in {"irregular", "regular"}
  /\ wal \in BOOLEAN
  /\ db \in Schema
  /\ lock \in Process \cup {None}
  /\ pc \in [Process -> Places]
  /\ work \in [Process -> Schema]
  /\ refusal \in [Process -> Refusals \cup {None}]
  /\ faults \in 0 .. MaxFaults

(* Whoever gets a store has the whole schema under it, at the version this *)
(* program knows, however many others opened, failed and died meanwhile;   *)
(* and a database is never left with a part of the schema.                 *)
OpenStoreIsWhole ==
  /\ \A p \in Process : pc[p] = "open" => Whole(db)
  /\ db # Empty => db.objects = NumObjects /\ db.version > 0

(* A schema that is there is never touched again, least of all a newer     *)
(* one (TestOpenRejectsNewerSchema).                                       *)
SchemaIsKept == [][db # Empty => UNCHANGED db]_vars

(* Whoever is refused because another process was faster finds what that   *)
(* process made: the file, or the whole schema.                            *)
LoserFindsTheWinnersWork ==
  \A p \in Process :
    /\ refusal[p] = "created" => file = "regular"
    /\ refusal[p] = "migrated" => Whole(db)

(* Faults do no lasting harm: a caller that tries again after a refusal    *)
(* gets its store in the end, unless the files are not what they should be *)
(* or the schema is newer.                                                 *)
RetriedOpenSucceeds ==
  \A p \in Process :
    WF_vars(CallOpen(p)) =>
      <>(\/ pc[p] = "open"
         \/ "irregular" \in {file, sidecar}
         \/ db.version > SchemaVersion)
=============================================================================
