---------------------------- MODULE LookupCache ----------------------------
(***************************************************************************)
(* internal/lookupcache: the SQLite cache of normalized provider answers,  *)
(* shared by every command of a user that runs at the same time.           *)
(*                                                                         *)
(* A session is one command that prices demands: it opens the database     *)
(* with its own connection and one policy, looks keys up one after the     *)
(* other and closes. A pruner is one "cache prune" command. A key stands   *)
(* for the digest of provider, adapter version, pricing context and        *)
(* demand; an answer for what a provider returns.                          *)
(*                                                                         *)
(* Get and Put are single statements: each sees one committed state, and   *)
(* Put waits (busy_timeout) while another process holds the write lock.    *)
(* Prune is a deferred transaction: it reads first, and its first DELETE   *)
(* is refused at once when another process holds the lock or has committed *)
(* since.                                                                  *)
(***************************************************************************)
EXTENDS Naturals, FiniteSets

CONSTANTS
  Session,    \* commands that look up
  Pruner,     \* commands that prune
  Key,        \* cache keys
  Answer,     \* answers a provider may give for a key
  Sound,      \* those the read path accepts (statuses known, prices safe)
  Failed,     \* those with no status, or status provider_error
  Policy,     \* the policies the commands choose from
  TTL,        \* lifetime of an entry
  MaxTime,    \* bound: the last instant of the clock
  MaxLookups, \* bound: lookups of one session
  None

Policies == {"prefer", "refresh", "only", "offline", "off"}

(* Of a row what matters is the answer, its two times, and whether the     *)
(* payload still matches the checksum stored beside it.                    *)
Entry == [answer : Answer, fetchedAt : Nat, expiresAt : Nat, intact : BOOLEAN]

ASSUME CacheAssumption ==
  /\ Policy \subseteq Policies
  /\ Sound \subseteq Answer
  /\ Failed \subseteq Answer \ Sound
  /\ TTL \in Nat \ {0}
  /\ MaxTime \in Nat
  /\ MaxLookups \in Nat
  /\ None \notin Session \cup Pruner
  /\ None \notin Key \cup Answer \cup Entry

Scopes == {"expired", "all"}

VARIABLES
  entries,   \* table lookup_entries, as committed
  writer,    \* the pruner whose transaction holds SQLite's write lock
  outdated,  \* pruners in a transaction whose snapshot is no longer current
  clock,     \* the wall clock
  session,   \* session[s]: policy, position, key and times of its lookup
  counts,    \* counts[s]: the activity counters, and the lookups begun
  reply,     \* reply[s]: what its last lookup returned
  pruner,    \* pruner[p]: position, arguments, selected set of its prune
  shown      \* shown[p]: the token of the last preview it printed

vars == <<entries, writer, outdated, clock, session, counts, reply, pruner,
          shown>>

Closed  == [policy |-> None, pc |-> "closed", key |-> None, answer |-> None,
            at |-> 0]
NoReply == [from |-> "none", key |-> None, answer |-> None, fetchedAt |-> 0,
            at |-> 0]
NoPrune == [pc |-> "idle", scope |-> "expired", token |-> None, at |-> 0,
            selected |-> {}]

NoCounts == [hits |-> 0, staleHits |-> 0, misses |-> 0, refreshes |-> 0,
             writes |-> 0, bypasses |-> 0, errors |-> 0]

NoActivity == [f \in DOMAIN NoCounts \cup {"lookups"} |-> 0]

Init ==
  /\ entries = [k \in Key |-> None]
  /\ writer = None
  /\ outdated = {}
  /\ clock = 0
  /\ session = [s \in Session |-> Closed]
  /\ counts = [s \in Session |-> NoActivity]
  /\ reply = [s \in Session |-> NoReply]
  /\ pruner = [p \in Pruner |-> NoPrune]
  /\ shown = [p \in Pruner |-> None]

-----------------------------------------------------------------------------
(* decodeRow.                                                              *)

(* The checksum matches, the status is one the cache may hold and a priced *)
(* answer is safe, and the entry expires after it was fetched.             *)
Decodes(e) ==
  /\ e.intact
  /\ e.answer \in Sound
  /\ e.expiresAt > e.fetchedAt

(* Fault: an entry is still fresh at the instant it expires.               *)
StaleAfterExpiry(e, now) == e.expiresAt < now

(* Entry.Stale, as decodeRow sets it for a lookup.                         *)
Stale(e, now) == ~(e.expiresAt > now)

(* The same question as Prune's SQL asks it, of the stored column.         *)
Expired(e, now) == e.expiresAt <= now

(* A statement that commits a change makes every other snapshot stale.     *)
Outdates(p) == {q \in Pruner \ {p} : pruner[q].pc = "deleting"}

-----------------------------------------------------------------------------
(* NewSession, Close, and Lookup of one demand.                            *)

OpenSession(s, policy) ==
  /\ session[s].pc = "closed"
  /\ session' = [session EXCEPT ![s].policy = policy, ![s].pc = "open"]
  /\ counts' = [counts EXCEPT ![s] = NoActivity]
  /\ reply' = [reply EXCEPT ![s] = NoReply]
  /\ UNCHANGED <<entries, writer, outdated, clock, pruner, shown>>

CloseSession(s) ==
  /\ session[s].pc = "open"
  /\ session' = [session EXCEPT ![s] = Closed]
  /\ reply' = [reply EXCEPT ![s] = NoReply]
  /\ counts' = [counts EXCEPT ![s] = NoActivity]
  /\ UNCHANGED <<entries, writer, outdated, clock, pruner, shown>>

Count(s, fields) ==
  counts' = [counts EXCEPT ![s] =
    [f \in DOMAIN @ |-> IF f \in fields THEN @[f] + 1 ELSE @[f]]]

Returns(s, from, answer, fetchedAt) ==
  /\ reply' = [reply EXCEPT ![s] =
       [from |-> from, key |-> session[s].key, answer |-> answer,
        fetchedAt |-> fetchedAt, at |-> session[s].at]]
  /\ session' = [session EXCEPT ![s].pc = "open", ![s].key = None,
                                ![s].answer = None, ![s].at = 0]

OnlySession == UNCHANGED <<entries, writer, outdated, clock, pruner, shown>>

(* The policy decides where a lookup begins: off and refresh go straight   *)
(* to the network, the others read the clock and then the cache.           *)
Lookup(s, k) ==
  /\ session[s].pc = "open"
  /\ counts[s]["lookups"] < MaxLookups
  /\ LET policy == session[s].policy
     IN /\ session' = [session EXCEPT
             ![s].key = k,
             ![s].at = clock,
             ![s].pc = IF policy \in {"off", "refresh"} THEN "fetch" ELSE "read"]
        /\ Count(s, {"lookups"} \cup
                    CASE policy = "off" -> {"bypasses"}
                      [] policy = "refresh" -> {"refreshes"}
                      [] OTHER -> {})
  /\ reply' = [reply EXCEPT ![s] = NoReply]
  /\ OnlySession

(* Fault: the read error is returned without being counted.                *)
GetCorruptUncounted(s) ==
  /\ session[s].pc = "read"
  /\ entries[session[s].key] # None /\ ~Decodes(entries[session[s].key])
  /\ UNCHANGED counts
  /\ Returns(s, "corrupt", None, 0)
  /\ OnlySession

(* Get finds an entry that does not decode: the lookup fails, with no      *)
(* fallback to the network whatever the policy.                            *)
GetCorrupt(s) ==
  LET e == entries[session[s].key]
  IN /\ session[s].pc = "read"
     /\ e # None /\ ~Decodes(e)
     /\ Count(s, {"errors"})
     /\ Returns(s, "corrupt", None, 0)
     /\ OnlySession

(* A fresh entry answers; a stale one only under the policy offline.       *)
GetHit(s) ==
  LET e == entries[session[s].key]
  IN /\ session[s].pc = "read"
     /\ e # None /\ Decodes(e)
     /\ ~Stale(e, session[s].at)
     /\ Count(s, {"hits"})
     /\ Returns(s, "cache", e.answer, e.fetchedAt)
     /\ OnlySession

GetStaleHit(s) ==
  LET e == entries[session[s].key]
  IN /\ session[s].pc = "read"
     /\ e # None /\ Decodes(e)
     /\ Stale(e, session[s].at)
     /\ session[s].policy = "offline"
     /\ Count(s, {"staleHits"})
     /\ Returns(s, "stale", e.answer, e.fetchedAt)
     /\ OnlySession

Misses(s) ==
  LET e == entries[session[s].key]
  IN /\ session[s].pc = "read"
     /\ \/ e = None
        \/ /\ e # None /\ Decodes(e)
           /\ Stale(e, session[s].at)
           /\ session[s].policy # "offline"

(* cacheMiss: only and offline answer "unavailable" and stay off the net.  *)
GetMiss(s) ==
  /\ Misses(s)
  /\ session[s].policy \in {"only", "offline"}
  /\ Count(s, {"misses"})
  /\ Returns(s, "miss", None, 0)
  /\ OnlySession

GetMissFetches(s) ==
  /\ Misses(s)
  /\ session[s].policy = "prefer"
  /\ Count(s, {"misses", "refreshes"})
  /\ session' = [session EXCEPT ![s].pc = "fetch"]
  /\ UNCHANGED reply
  /\ OnlySession

(* The network lookup returns an error: nothing is written.                *)
NetworkFails(s) ==
  /\ session[s].pc = "fetch"
  /\ Returns(s, "failed", None, 0)
  /\ UNCHANGED counts
  /\ OnlySession

(* It answers, but with a failure in it, or the policy is off.             *)
NetworkUncached(s, a) ==
  /\ session[s].pc = "fetch"
  /\ session[s].policy = "off" \/ a \in Failed
  /\ Returns(s, "network", a, clock)
  /\ UNCHANGED counts
  /\ OnlySession

(* It answers: the clock is read again, and Put follows.                   *)
NetworkAnswers(s, a) ==
  /\ session[s].pc = "fetch"
  /\ session[s].policy # "off"
  /\ a \notin Failed
  /\ session' = [session EXCEPT ![s].pc = "put", ![s].answer = a,
                                ![s].at = clock]
  /\ UNCHANGED <<counts, reply>>
  /\ OnlySession

Candidate(s) ==
  [answer |-> session[s].answer, fetchedAt |-> session[s].at,
   expiresAt |-> session[s].at + TTL, intact |-> TRUE]

(* Put decodes the row it is about to write and refuses one that Get would *)
(* refuse. The lookup still returns the network's answer.                  *)
PutRefused(s) ==
  /\ session[s].pc = "put"
  /\ ~Decodes(Candidate(s))
  /\ Count(s, {"errors"})
  /\ Returns(s, "network", session[s].answer, session[s].at)
  /\ OnlySession

(* Fault: Put writes without decoding first.                               *)
PutWritesUnchecked(s) ==
  /\ session[s].pc = "put"
  /\ writer = None
  /\ entries' = [entries EXCEPT ![session[s].key] = Candidate(s)]
  /\ outdated' = outdated \cup Outdates(None)
  /\ Count(s, {"writes"})
  /\ Returns(s, "network", session[s].answer, session[s].at)
  /\ UNCHANGED <<writer, clock, pruner, shown>>

PutWrites(s) ==
  /\ session[s].pc = "put"
  /\ Decodes(Candidate(s))
  /\ writer = None
  /\ entries' = [entries EXCEPT ![session[s].key] = Candidate(s)]
  /\ outdated' = outdated \cup Outdates(None)
  /\ Count(s, {"writes"})
  /\ Returns(s, "network", session[s].answer, session[s].at)
  /\ UNCHANGED <<writer, clock, pruner, shown>>

(* The busy timeout runs out while another process holds the write lock,   *)
(* or the write fails: counted, and the answer is returned all the same.   *)
PutFails(s) ==
  /\ session[s].pc = "put"
  /\ Decodes(Candidate(s))
  /\ Count(s, {"errors"})
  /\ Returns(s, "network", session[s].answer, session[s].at)
  /\ OnlySession

-----------------------------------------------------------------------------
(* Prune.                                                                  *)

IdentityOf(k) == [key |-> k, answer |-> entries[k].answer,
                  fetchedAt |-> entries[k].fetchedAt,
                  expiresAt |-> entries[k].expiresAt]

(* The prune set of the committed state. Stored columns decide: a damaged  *)
(* entry is selected like any other.                                       *)
Selected(scope, now) ==
  {IdentityOf(k) : k \in {x \in Key :
     entries[x] # None /\ (scope = "all" \/ Expired(entries[x], now))}}

PruneToken(scope, identities) == [scope |-> scope, identities |-> identities]

OnlyPruner == UNCHANGED <<entries, clock, session, counts, reply>>

EndPrune(p) ==
  /\ pruner' = [pruner EXCEPT ![p] = NoPrune]
  /\ writer' = IF writer = p THEN None ELSE writer
  /\ outdated' = outdated \ {p}

CallPrune(p, scope, token) ==
  /\ pruner[p].pc = "idle"
  /\ pruner' = [pruner EXCEPT ![p].pc = "called", ![p].scope = scope,
                              ![p].token = token, ![p].at = clock]
  /\ UNCHANGED <<writer, outdated, shown>>
  /\ OnlyPruner

CurrentToken(p) ==
  PruneToken(pruner[p].scope, Selected(pruner[p].scope, pruner[p].at))

PrunePreview(p) ==
  /\ pruner[p].pc = "called"
  /\ pruner[p].token = None
  /\ shown' = [shown EXCEPT ![p] = CurrentToken(p)]
  /\ EndPrune(p)
  /\ OnlyPruner

PruneStalePreview(p) ==
  /\ pruner[p].pc = "called"
  /\ pruner[p].token \notin {None, CurrentToken(p)}
  /\ EndPrune(p)
  /\ UNCHANGED shown
  /\ OnlyPruner

(* The token matches: the set read in this transaction will be deleted. An *)
(* empty set needs no write lock, and the commit of nothing succeeds.      *)
PruneMatches(p) ==
  LET selected == Selected(pruner[p].scope, pruner[p].at)
  IN /\ pruner[p].pc = "called"
     /\ pruner[p].token = CurrentToken(p)
     /\ IF selected = {}
          THEN EndPrune(p)
          ELSE /\ pruner' = [pruner EXCEPT ![p].pc = "deleting",
                                           ![p].selected = selected]
               /\ UNCHANGED <<writer, outdated>>
     /\ UNCHANGED shown
     /\ OnlyPruner

(* Fault: the set is read in one transaction and deleted in another.       *)
CanDeleteLater(p) == writer = None

CanDelete(p) == writer = None /\ p \notin outdated

(* The first DELETE takes the write lock; the others follow under it. In   *)
(* its own snapshot each identity is still there, so each deletes one row. *)
PruneDeletes(p) ==
  /\ pruner[p].pc = "deleting"
  /\ CanDelete(p)
  /\ writer' = p
  /\ pruner' = [pruner EXCEPT ![p].pc = "deleted"]
  /\ UNCHANGED <<outdated, shown>>
  /\ OnlyPruner

PruneBusy(p) ==
  /\ pruner[p].pc = "deleting"
  /\ ~CanDelete(p)
  /\ EndPrune(p)
  /\ UNCHANGED shown
  /\ OnlyPruner

Gone(p) == {k \in Key : entries[k] # None /\ IdentityOf(k) \in pruner[p].selected}

PruneCommits(p) ==
  /\ pruner[p].pc = "deleted"
  /\ entries' = [k \in Key |-> IF k \in Gone(p) THEN None ELSE entries[k]]
  /\ pruner' = [pruner EXCEPT ![p] = NoPrune]
  /\ writer' = None
  /\ outdated' = (outdated \cup Outdates(p)) \ {p}
  /\ UNCHANGED <<clock, session, counts, reply, shown>>

-----------------------------------------------------------------------------
(* The rest of the world.                                                  *)

(* A command dies, or a statement of its prune fails: nothing of an open   *)
(* transaction remains.                                                    *)
SessionDies(s) ==
  /\ session[s].pc \notin {"closed", "open"}
  /\ session' = [session EXCEPT ![s] = Closed]
  /\ reply' = [reply EXCEPT ![s] = NoReply]
  /\ counts' = [counts EXCEPT ![s] = NoActivity]
  /\ OnlySession

PrunerDies(p) ==
  /\ pruner[p].pc # "idle"
  /\ EndPrune(p)
  /\ UNCHANGED shown
  /\ OnlyPruner

(* The stored payload no longer matches its checksum: a disk fault, or an  *)
(* edit of the file by other hands (the tests do it with SQL).             *)
Damage(k) ==
  /\ entries[k] # None
  /\ entries[k].intact
  /\ writer = None
  /\ entries' = [entries EXCEPT ![k].intact = FALSE]
  /\ outdated' = outdated \cup Outdates(None)
  /\ UNCHANGED <<writer, clock, session, counts, reply, pruner, shown>>

Tick ==
  /\ clock < MaxTime
  /\ clock' = clock + 1
  /\ UNCHANGED <<entries, writer, outdated, session, counts, reply, pruner,
                 shown>>

SessionStep(s) ==
  \/ GetCorrupt(s) \/ GetHit(s) \/ GetStaleHit(s) \/ GetMiss(s)
  \/ GetMissFetches(s) \/ NetworkFails(s)
  \/ \E a \in Answer : NetworkUncached(s, a) \/ NetworkAnswers(s, a)
  \/ PutRefused(s) \/ PutWrites(s) \/ PutFails(s)

PrunerStep(p) ==
  \/ PrunePreview(p) \/ PruneStalePreview(p) \/ PruneMatches(p)
  \/ PruneDeletes(p) \/ PruneBusy(p) \/ PruneCommits(p)

Next ==
  \/ \E s \in Session :
       \/ \E policy \in Policy : OpenSession(s, policy)
       \/ CloseSession(s)
       \/ \E k \in Key : Lookup(s, k)
       \/ SessionStep(s)
       \/ SessionDies(s)
  \/ \E p \in Pruner :
       \/ \E scope \in Scopes, token \in {None, shown[p]} : CallPrune(p, scope, token)
       \/ PrunerStep(p)
       \/ PrunerDies(p)
  \/ \E k \in Key : Damage(k)
  \/ Tick

Spec == Init /\ [][Next]_vars

-----------------------------------------------------------------------------
(* Properties.                                                             *)

(* The write path never poisons the read path: every entry whose payload   *)
(* nobody damaged decodes, so a lookup fails as corrupt only where storage *)
(* was damaged (the comment in Put).                                       *)
PutNeverPoisons ==
  \A k \in Key :
    entries[k] # None /\ entries[k].intact => Decodes(entries[k])

(* What a caller is given from the cache is a sound answer; unless it asked *)
(* for the policy offline, it was fetched less than the lifetime before    *)
(* the call read the clock. A failure of a provider is never an answer.    *)
CachedAnswersAreSoundAndFresh ==
  \A s \in Session :
    /\ reply[s].from \in {"cache", "stale"} => reply[s].answer \in Sound
    /\ reply[s].from = "cache" => reply[s].at < reply[s].fetchedAt + TTL
    /\ reply[s].from = "stale" =>
         /\ session[s].policy = "offline"
         /\ reply[s].at >= reply[s].fetchedAt + TTL

(* The counters of a session account for its lookups: each is exactly one  *)
(* of hit, stale hit, miss, forced refresh, bypass or read error; only a   *)
(* miss of prefer, or refresh, goes to the network; and what is written    *)
(* was fetched (README: the run metadata reports them).                    *)
CountersAccountForLookups ==
  \A s \in Session :
    LET n == counts[s]
        policy == session[s].policy
    IN session[s].pc = "open" =>
         /\ policy = "off" => n["lookups"] = n["bypasses"]
         /\ policy = "refresh" =>
              /\ n["lookups"] = n["refreshes"]
              /\ n["writes"] + n["errors"] <= n["refreshes"]
         /\ policy \in {"only", "offline"} =>
              /\ n["lookups"] =
                   n["hits"] + n["staleHits"] + n["misses"] + n["errors"]
              /\ n["refreshes"] = 0
         /\ policy = "prefer" =>
              /\ n["refreshes"] = n["misses"]
              /\ n["hits"] + n["misses"] <= n["lookups"]
              /\ n["lookups"] <= n["hits"] + n["misses"] + n["errors"]
              /\ n["writes"] <= n["refreshes"]
              /\ n["hits"] + n["writes"] + n["errors"] <= n["lookups"]

Removed == {k \in Key : entries[k] # None /\ entries'[k] = None}

(* Entries disappear only by an applied prune, and then exactly the set    *)
(* its caller was shown, as it was shown, goes: no entry less, none that a *)
(* command refreshed in between, none that was added (README: "valid only  *)
(* for the exact provider/key/payload set shown"). Without --all each of   *)
(* them was one a lookup would hold stale at the instant of the commit.    *)
PrunesWhatWasPreviewed ==
  [][Removed # {} =>
       \E p \in Pruner :
         /\ pruner[p].pc = "deleted" /\ pruner'[p].pc = "idle"
         /\ pruner[p].token =
              PruneToken(pruner[p].scope, {IdentityOf(k) : k \in Removed})
         /\ pruner[p].scope = "all" \/ \A k \in Removed : Stale(entries[k], clock)]_vars

(* The comment in Put: an entry that the read path rejects poisons every   *)
(* later lookup of the part "until expiry or prune". (Get decodes the row  *)
(* before it looks at the expiry, so an expired entry poisons as well.)    *)
PoisonEndsAtExpiry ==
  [][\A s \in Session :
       session[s].pc = "read" /\ reply'[s].from = "corrupt" =>
         ~Stale(entries[session[s].key], session[s].at)]_vars
=============================================================================
