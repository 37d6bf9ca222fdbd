-------------------------- MODULE LookupCacheProofs --------------------------
(***************************************************************************)
(* What the cache serves, counts and prunes, proved of any number of       *)
(* commands, keys and answers and of every lifetime.                       *)
(***************************************************************************)
EXTENDS LookupCache, TLAPS

-----------------------------------------------------------------------------
(* The inductive invariant.                                                *)

(* An entry lives for the lifetime from when it was fetched, and one that  *)
(* nobody damaged holds a sound answer.                                    *)
EntriesInv ==
  /\ entries \in [Key -> Entry \cup {None}]
  /\ \A k \in Key : entries[k] # None =>
       /\ entries[k].expiresAt = entries[k].fetchedAt + TTL
       /\ entries[k].intact => entries[k].answer \in Sound

SessionState ==
  [policy : Policies \cup {None}, pc : {"closed", "open", "read", "fetch", "put"},
   key : Key \cup {None}, answer : Answer \cup {None}, at : Nat]

(* Where a lookup can be under each policy.                                *)
SessionInv ==
  /\ clock \in Nat
  /\ session \in [Session -> SessionState]
  /\ \A s \in Session :
       /\ session[s].pc # "closed" => session[s].policy \in Policies
       /\ session[s].pc \in {"read", "fetch", "put"} => session[s].key \in Key
       /\ session[s].pc = "read" => session[s].policy \in {"prefer", "only", "offline"}
       /\ session[s].pc = "fetch" => session[s].policy \in {"prefer", "refresh", "off"}
       /\ session[s].pc = "put" => /\ session[s].policy \in {"prefer", "refresh"}
                                   /\ session[s].answer \in Answer

Fields == {"hits", "staleHits", "misses", "refreshes", "writes", "bypasses", "errors",
           "lookups"}

(* The counters of a session that has still to count the outcome of the    *)
(* lookup under way, or of its write.                                      *)
Accounted(s) ==
  LET n == counts[s]
      policy == session[s].policy
      begun == n["lookups"] - (IF session[s].pc = "read" THEN 1 ELSE 0)
      pending == IF session[s].pc \in {"fetch", "put"} THEN 1 ELSE 0
  IN /\ policy = "off" => n["lookups"] = n["bypasses"]
     /\ policy = "refresh" =>
          /\ n["lookups"] = n["refreshes"]
          /\ n["writes"] + n["errors"] + pending <= n["refreshes"]
     /\ policy \in {"only", "offline"} =>
          /\ begun = n["hits"] + n["staleHits"] + n["misses"] + n["errors"]
          /\ n["refreshes"] = 0
     /\ policy = "prefer" =>
          /\ n["refreshes"] = n["misses"]
          /\ n["hits"] + n["misses"] <= begun
          /\ begun <= n["hits"] + n["misses"] + n["errors"]
          /\ n["writes"] + pending <= n["refreshes"]
          /\ n["hits"] + n["writes"] + n["errors"] + pending <= begun

CountsInv ==
  /\ counts \in [Session -> [Fields -> Nat]]
  /\ \A s \in Session : session[s].pc # "closed" => Accounted(s)

(* A prune that may still delete, or has deleted, holds what its caller    *)
(* was shown, and nothing has changed since it read that.                  *)
Current(p) ==
  /\ pruner[p].pc = "deleted" => writer = p
  /\ pruner[p].pc \in {"called", "deleting", "deleted"} =>
       pruner[p].at \in Nat /\ pruner[p].at <= clock
  /\ (pruner[p].pc = "deleting" /\ p \notin outdated) \/ pruner[p].pc = "deleted" =>
       /\ pruner[p].selected = Selected(pruner[p].scope, pruner[p].at)
       /\ pruner[p].token = CurrentToken(p)

PruneInv ==
  /\ DOMAIN pruner = Pruner
  /\ \A p \in Pruner : Current(p)

AnswersInv ==
  /\ DOMAIN reply = Session
  /\ CachedAnswersAreSoundAndFresh

CacheInv ==
  /\ EntriesInv
  /\ SessionInv
  /\ AnswersInv
  /\ CountsInv
  /\ PruneInv

-----------------------------------------------------------------------------
(* What the parts of an action do.                                         *)

LEMMA SessionUpdate ==
  ASSUME NEW r \in SessionState
  PROVE  /\ \A policy \in Policies : [r EXCEPT !.policy = policy, !.pc = "open"] \in SessionState
         /\ \A k \in Key, at \in Nat, pc \in {"read", "fetch"} :
              [r EXCEPT !.key = k, !.at = at, !.pc = pc] \in SessionState
         /\ [r EXCEPT !.pc = "fetch"] \in SessionState
         /\ \A a \in Answer, at \in Nat :
              [r EXCEPT !.pc = "put", !.answer = a, !.at = at] \in SessionState
         /\ [r EXCEPT !.pc = "open", !.key = None, !.answer = None, !.at = 0] \in SessionState
<1>1. ASSUME NEW policy \in Policies
      PROVE  [r EXCEPT !.policy = policy, !.pc = "open"] \in SessionState
  BY DEF SessionState
<1>2. ASSUME NEW k \in Key, NEW at \in Nat, NEW pc \in {"read", "fetch"}
      PROVE  [r EXCEPT !.key = k, !.at = at, !.pc = pc] \in SessionState
  BY DEF SessionState
<1>3. [r EXCEPT !.pc = "fetch"] \in SessionState
  BY DEF SessionState
<1>4. ASSUME NEW a \in Answer, NEW at \in Nat
      PROVE  [r EXCEPT !.pc = "put", !.answer = a, !.at = at] \in SessionState
  BY DEF SessionState
<1>5. [r EXCEPT !.pc = "open", !.key = None, !.answer = None, !.at = 0] \in SessionState
  BY DEF SessionState
<1> QED
  BY <1>1, <1>2, <1>3, <1>4, <1>5

(* A step of one session.                                                  *)
LEMMA OneSession ==
  ASSUME SessionInv, NEW s \in Session, clock' \in Nat, NEW r \in SessionState,
         session' = [session EXCEPT ![s] = r],
         r.pc # "closed" => r.policy \in Policies,
         r.pc \in {"read", "fetch", "put"} => r.key \in Key,
         r.pc = "read" => r.policy \in {"prefer", "only", "offline"},
         r.pc = "fetch" => r.policy \in {"prefer", "refresh", "off"},
         r.pc = "put" => r.policy \in {"prefer", "refresh"} /\ r.answer \in Answer
  PROVE  SessionInv'
BY DEF SessionInv

(* A lookup that ends.                                                     *)
LEMMA ReturnsEffect ==
  ASSUME SessionInv, DOMAIN reply = Session, NEW s \in Session, clock' \in Nat,
         session[s].pc # "closed",
         NEW from, NEW answer, NEW fetchedAt, Returns(s, from, answer, fetchedAt)
  PROVE  /\ SessionInv'
         /\ session'[s].pc = "open" /\ session'[s].policy = session[s].policy
         /\ reply'[s] = [from |-> from, key |-> session[s].key, answer |-> answer,
                         fetchedAt |-> fetchedAt, at |-> session[s].at]
         /\ DOMAIN reply' = Session
         /\ \A r \in Session \ {s} : session'[r] = session[r] /\ reply'[r] = reply[r]
<1> DEFINE r == [session[s] EXCEPT !.pc = "open", !.key = None, !.answer = None, !.at = 0]
<1>1. session' = [session EXCEPT ![s] = r]
  BY DEF Returns, SessionInv
<1>2. session[s] \in SessionState /\ session[s].policy \in Policies
  BY DEF SessionInv
<1>3. r \in SessionState
  BY <1>2, SessionUpdate
<1>4. /\ r \in SessionState /\ r.pc = "open" /\ r.policy = session[s].policy
      /\ r.policy \in Policies
  BY <1>2, <1>3 DEF SessionState
<1> HIDE DEF r
<1>5. SessionInv'
  BY <1>1, <1>4, OneSession
<1>6. session'[s] = r /\ \A q \in Session \ {s} : session'[q] = session[q]
  BY <1>1 DEF SessionInv
<1> QED
  BY <1>4, <1>5, <1>6 DEF Returns

(* The counters of one session, those of fields one higher.                *)
LEMMA CountEffect ==
  ASSUME CountsInv, NEW s \in Session, NEW fields, Count(s, fields)
  PROVE  /\ counts' \in [Session -> [Fields -> Nat]]
         /\ \A f \in Fields :
              counts'[s][f] = IF f \in fields THEN counts[s][f] + 1 ELSE counts[s][f]
         /\ \A r \in Session \ {s} : counts'[r] = counts[r]
<1> DEFINE Counted == [f \in Fields |-> IF f \in fields THEN counts[s][f] + 1 ELSE counts[s][f]]
<1>1. counts[s] \in [Fields -> Nat]
  BY DEF CountsInv
<1>2. Counted \in [Fields -> Nat]
  BY <1>1
<1>3. counts' = [counts EXCEPT ![s] = Counted]
  BY <1>1 DEF Count, CountsInv
<1>4. counts'[s] = Counted /\ \A r \in Session \ {s} : counts'[r] = counts[r]
  BY <1>3 DEF CountsInv
<1>5. counts' \in [Session -> [Fields -> Nat]]
  <2> HIDE DEF Counted
  <2> QED
    BY <1>2, <1>3 DEF CountsInv
<1> QED
  BY <1>4, <1>5

LEMMA NoActivityType ==
  /\ NoActivity \in [Fields -> Nat]
  /\ \A f \in Fields : NoActivity[f] = 0
<1>1. DOMAIN NoCounts \cup {"lookups"} = Fields
  BY DEF NoCounts, Fields
<1> QED
  BY <1>1 DEF NoActivity

-----------------------------------------------------------------------------
(* Sessions and their lookups.                                             *)

(* What every step of a session does to its position.                      *)
LEMMA SessionNext ==
  ASSUME SessionInv, DOMAIN reply = Session, Next
  PROVE  SessionInv'
<1>1. ASSUME NEW s \in Session, NEW policy \in Policy, OpenSession(s, policy)
      PROVE  SessionInv'
  <2> DEFINE r == [session[s] EXCEPT !.policy = policy, !.pc = "open"]
  <2>1. session' = [session EXCEPT ![s] = r] /\ clock' = clock
    BY <1>1 DEF OpenSession, SessionInv
  <2>2. session[s] \in SessionState /\ policy \in Policies
    BY CacheAssumption DEF SessionInv
  <2>3. r \in SessionState
    BY <2>2, SessionUpdate
  <2>4. r \in SessionState /\ r.pc = "open" /\ r.policy = policy
    BY <2>2, <2>3 DEF SessionState
  <2> HIDE DEF r
  <2> QED
    BY <2>1, <2>2, <2>4, OneSession DEF SessionInv
<1>2. ASSUME NEW s \in Session, CloseSession(s) \/ SessionDies(s)
      PROVE  SessionInv'
  <2>1. Closed \in SessionState
    BY DEF Closed, SessionState
  <2> QED
    BY <1>2, <2>1 DEF CloseSession, SessionDies, OnlySession, Closed, SessionInv
<1>3. ASSUME NEW s \in Session, NEW k \in Key, Lookup(s, k)
      PROVE  SessionInv'
  <2> DEFINE to == IF session[s].policy \in {"off", "refresh"} THEN "fetch" ELSE "read"
             r == [session[s] EXCEPT !.key = k, !.at = clock, !.pc = to]
  <2>1. session' = [session EXCEPT ![s] = r] /\ clock' = clock
    BY <1>3 DEF Lookup, OnlySession, SessionInv
  <2>2. /\ session[s] \in SessionState /\ session[s].policy \in Policies /\ clock \in Nat
        /\ to \in {"fetch", "read"}
    BY <1>3 DEF Lookup, SessionInv
  <2>3. r \in SessionState
    BY <2>2, SessionUpdate
  <2>4. /\ r \in SessionState /\ r.pc = to /\ r.key = k /\ r.policy = session[s].policy
    BY <2>2, <2>3 DEF SessionState
  <2>5. /\ to = "read" => session[s].policy \in {"prefer", "only", "offline"}
        /\ to = "fetch" => session[s].policy \in {"prefer", "refresh", "off"}
    BY <2>2 DEF Policies
  <2> HIDE DEF r, to
  <2> QED
    BY <2>1, <2>2, <2>4, <2>5, OneSession
<1>4. ASSUME NEW s \in Session, GetMissFetches(s)
      PROVE  SessionInv'
  <2> DEFINE r == [session[s] EXCEPT !.pc = "fetch"]
  <2>1. session' = [session EXCEPT ![s] = r] /\ clock' = clock
    BY <1>4 DEF GetMissFetches, OnlySession, SessionInv
  <2>2. /\ session[s] \in SessionState /\ session[s].key \in Key /\ clock \in Nat
        /\ session[s].policy = "prefer"
    BY <1>4 DEF GetMissFetches, Misses, SessionInv
  <2>3. r \in SessionState
    BY <2>2, SessionUpdate
  <2>4. r \in SessionState /\ r.pc = "fetch" /\ r.key \in Key /\ r.policy = "prefer"
    BY <2>2, <2>3 DEF SessionState
  <2> HIDE DEF r
  <2> QED
    BY <2>1, <2>2, <2>4, OneSession DEF Policies
<1>5. ASSUME NEW s \in Session, NEW a \in Answer, NetworkAnswers(s, a)
      PROVE  SessionInv'
  <2> DEFINE r == [session[s] EXCEPT !.pc = "put", !.answer = a, !.at = clock]
  <2>1. session' = [session EXCEPT ![s] = r] /\ clock' = clock
    BY <1>5 DEF NetworkAnswers, OnlySession, SessionInv
  <2>2. /\ session[s] \in SessionState /\ session[s].key \in Key /\ clock \in Nat
        /\ session[s].policy \in {"prefer", "refresh"}
    BY <1>5 DEF NetworkAnswers, SessionInv
  <2>3. r \in SessionState
    BY <2>2, SessionUpdate
  <2>4. /\ r \in SessionState /\ r.pc = "put" /\ r.key \in Key /\ r.answer = a
        /\ r.policy \in {"prefer", "refresh"}
    BY <2>2, <2>3 DEF SessionState
  <2> HIDE DEF r
  <2> QED
    BY <2>1, <2>2, <2>4, OneSession DEF Policies
<1>6. ASSUME NEW s \in Session, NEW a,
             \/ GetCorrupt(s) \/ GetHit(s) \/ GetStaleHit(s) \/ GetMiss(s)
             \/ NetworkFails(s) \/ NetworkUncached(s, a)
             \/ PutRefused(s) \/ PutWrites(s) \/ PutFails(s)
      PROVE  SessionInv'
  <2>1. clock' = clock /\ clock \in Nat
    BY <1>6 DEF GetCorrupt, GetHit, GetStaleHit, GetMiss, NetworkFails, NetworkUncached,
                PutRefused, PutWrites, PutFails, OnlySession, SessionInv
  <2>2. \E from, answer, fetchedAt : Returns(s, from, answer, fetchedAt)
    BY <1>6 DEF GetCorrupt, GetHit, GetStaleHit, GetMiss, NetworkFails, NetworkUncached,
                PutRefused, PutWrites, PutFails
  <2>3. session[s].pc # "closed"
    BY <1>6 DEF GetCorrupt, GetHit, GetStaleHit, GetMiss, Misses, NetworkFails,
                NetworkUncached, PutRefused, PutWrites, PutFails
  <2> QED
    BY <2>1, <2>2, <2>3, ReturnsEffect
<1>7. CASE UNCHANGED session /\ clock' \in Nat
  BY <1>7 DEF SessionInv
<1>8. ASSUME NEW p \in Pruner,
             \/ \E scope \in Scopes, token \in {None, shown[p]} : CallPrune(p, scope, token)
             \/ PrunerStep(p) \/ PrunerDies(p)
      PROVE  UNCHANGED session /\ clock' \in Nat
  BY <1>8 DEF CallPrune, PrunerStep, PrunePreview, PruneStalePreview, PruneMatches,
              PruneDeletes, PruneBusy, PruneCommits, PrunerDies, OnlyPruner, SessionInv
<1>9. CASE Tick \/ \E k \in Key : Damage(k)
  BY <1>7, <1>9 DEF Tick, Damage, SessionInv
<1> QED
  BY <1>1, <1>2, <1>3, <1>4, <1>5, <1>6, <1>7, <1>8, <1>9 DEF Next, SessionStep

-----------------------------------------------------------------------------
(* The table.                                                              *)

(* The steps that leave the table as it is, of sessions and of pruners.    *)
LEMMA TableKept ==
  /\ \A s \in Session :
       /\ \A policy \in Policy : OpenSession(s, policy) => UNCHANGED entries
       /\ CloseSession(s) \/ SessionDies(s) => UNCHANGED entries
       /\ \A k \in Key : Lookup(s, k) => UNCHANGED entries
       /\ SessionStep(s) /\ ~PutWrites(s) => UNCHANGED entries
  /\ \A p \in Pruner :
       /\ \A scope, token : CallPrune(p, scope, token) => UNCHANGED entries
       /\ PrunerStep(p) /\ ~PruneCommits(p) => UNCHANGED entries
       /\ PrunerDies(p) => UNCHANGED entries
  /\ Tick => UNCHANGED entries
BY DEF OpenSession, CloseSession, SessionDies, Lookup, SessionStep, GetCorrupt, GetHit,
       GetStaleHit, GetMiss, GetMissFetches, NetworkFails, NetworkUncached, NetworkAnswers,
       PutRefused, PutFails, OnlySession, CallPrune, PrunerStep, PrunePreview,
       PruneStalePreview, PruneMatches, PruneDeletes, PruneBusy, PrunerDies, OnlyPruner, Tick

(* What a write puts into the table.                                       *)
LEMMA PutEffect ==
  ASSUME EntriesInv, SessionInv, NEW s \in Session, PutWrites(s)
  PROVE  /\ session[s].key \in Key /\ Candidate(s) \in Entry
         /\ entries' = [entries EXCEPT ![session[s].key] = Candidate(s)]
         /\ EntriesInv'
<1>1. /\ session[s].key \in Key /\ session[s].answer \in Answer /\ session[s].at \in Nat
      /\ session[s].at + TTL \in Nat
  BY CacheAssumption DEF PutWrites, SessionInv, SessionState
<1>2. /\ Candidate(s) \in Entry
      /\ Candidate(s).expiresAt = Candidate(s).fetchedAt + TTL
  BY <1>1 DEF Candidate, Entry
<1>3. Candidate(s).answer \in Sound /\ entries' = [entries EXCEPT ![session[s].key] = Candidate(s)]
  BY DEF PutWrites, Decodes
<1> QED
  BY <1>1, <1>2, <1>3 DEF EntriesInv

LEMMA EntriesNext ==
  ASSUME EntriesInv, SessionInv, Next
  PROVE  EntriesInv'
<1>1. CASE UNCHANGED entries
  BY <1>1 DEF EntriesInv
<1>2. ASSUME NEW s \in Session, PutWrites(s)
      PROVE  EntriesInv'
  BY <1>2, PutEffect
<1>3. ASSUME NEW p \in Pruner, PruneCommits(p)
      PROVE  EntriesInv'
  BY <1>3 DEF PruneCommits, EntriesInv
<1>4. ASSUME NEW k \in Key, Damage(k)
      PROVE  EntriesInv'
  <2> DEFINE e == [entries[k] EXCEPT !.intact = FALSE]
  <2>1. entries[k] \in Entry /\ entries' = [entries EXCEPT ![k] = e]
    BY <1>4 DEF Damage, EntriesInv
  <2>2. /\ e \in Entry /\ e.expiresAt = entries[k].expiresAt
        /\ e.fetchedAt = entries[k].fetchedAt /\ ~e.intact
    BY <2>1 DEF Entry
  <2> HIDE DEF e
  <2> QED
    BY <1>4, <2>1, <2>2 DEF Damage, EntriesInv
<1> QED
  BY <1>1, <1>2, <1>3, <1>4, TableKept DEF Next

-----------------------------------------------------------------------------
(* The answers.                                                            *)

LEMMA SameAnswers ==
  ASSUME SessionInv, AnswersInv, DOMAIN reply' = Session,
         NEW s \in Session,
         \A r \in Session \ {s} : reply'[r] = reply[r] /\ session'[r] = session[r],
         \/ reply'[s].from \notin {"cache", "stale"}
         \/ reply'[s] = reply[s] /\ session'[s].policy = session[s].policy
  PROVE  AnswersInv'
BY DEF AnswersInv, CachedAnswersAreSoundAndFresh

LEMMA AnswersNext ==
  ASSUME EntriesInv, SessionInv, AnswersInv, Next
  PROVE  AnswersInv'
<1>1. ASSUME NEW s \in Session, NEW a, GetMissFetches(s) \/ NetworkAnswers(s, a)
      PROVE  AnswersInv'
  <2>1. reply' = reply /\ session'[s].policy = session[s].policy
    BY <1>1 DEF GetMissFetches, NetworkAnswers, SessionInv, SessionState
  <2> QED
    BY <1>1, <2>1, SameAnswers DEF GetMissFetches, NetworkAnswers, SessionInv, AnswersInv
<1>2. ASSUME NEW s \in Session, NEW a,
             \/ GetCorrupt(s) \/ GetMiss(s) \/ NetworkFails(s) \/ NetworkUncached(s, a)
             \/ PutRefused(s) \/ PutWrites(s) \/ PutFails(s)
      PROVE  AnswersInv'
  <2>0. PICK why \in {"corrupt", "miss", "failed", "network"} :
           \E answer, fetchedAt : Returns(s, why, answer, fetchedAt)
    BY <1>2 DEF GetCorrupt, GetMiss, NetworkFails, NetworkUncached, PutRefused, PutWrites,
                PutFails
  <2>1. PICK answer, fetchedAt : Returns(s, why, answer, fetchedAt)
    BY <2>0
  <2>2. clock' \in Nat /\ session[s].pc # "closed" /\ DOMAIN reply = Session
    BY <1>2 DEF GetCorrupt, GetMiss, Misses, NetworkFails, NetworkUncached, PutRefused,
                PutWrites, PutFails, OnlySession, SessionInv, AnswersInv
  <2>3. /\ DOMAIN reply' = Session
        /\ reply'[s] = [from |-> why, key |-> session[s].key, answer |-> answer,
                        fetchedAt |-> fetchedAt, at |-> session[s].at]
        /\ \A r \in Session \ {s} : session'[r] = session[r] /\ reply'[r] = reply[r]
    BY <2>1, <2>2, ReturnsEffect
  <2> QED
    BY <2>3, SameAnswers
<1>3. ASSUME NEW s \in Session, GetHit(s) \/ GetStaleHit(s)
      PROVE  AnswersInv'
  <2> DEFINE e == entries[session[s].key]
  <2>1. /\ session[s].pc = "read" /\ e # None /\ Decodes(e) /\ clock' = clock
        /\ session[s].key \in Key /\ session[s].at \in Nat
    BY <1>3 DEF GetHit, GetStaleHit, OnlySession, SessionInv, SessionState
  <2>2. e.answer \in Sound /\ e.expiresAt = e.fetchedAt + TTL /\ e.fetchedAt \in Nat
    BY <2>1 DEF Decodes, EntriesInv, Entry
  <2>3. \/ /\ ~Stale(e, session[s].at)
           /\ Returns(s, "cache", e.answer, e.fetchedAt)
        \/ /\ Stale(e, session[s].at) /\ session[s].policy = "offline"
           /\ Returns(s, "stale", e.answer, e.fetchedAt)
    BY <1>3 DEF GetHit, GetStaleHit
  <2> HIDE DEF e
  <2>4. clock' \in Nat
    BY <2>1 DEF SessionInv
  <2>5. CASE ~Stale(e, session[s].at) /\ Returns(s, "cache", e.answer, e.fetchedAt)
    <3>1. session[s].at < e.fetchedAt + TTL
      BY <2>1, <2>2, <2>5, CacheAssumption DEF Stale
    <3>2. /\ DOMAIN reply' = Session /\ session'[s].policy = session[s].policy
          /\ reply'[s] = [from |-> "cache", key |-> session[s].key, answer |-> e.answer,
                          fetchedAt |-> e.fetchedAt, at |-> session[s].at]
          /\ \A r \in Session \ {s} : session'[r] = session[r] /\ reply'[r] = reply[r]
      BY <2>1, <2>4, <2>5, ReturnsEffect DEF AnswersInv
    <3> QED
      BY <2>2, <2>5, <3>1, <3>2 DEF AnswersInv, CachedAnswersAreSoundAndFresh
  <2>6. CASE /\ Stale(e, session[s].at) /\ session[s].policy = "offline"
             /\ Returns(s, "stale", e.answer, e.fetchedAt)
    <3>1. session[s].at >= e.fetchedAt + TTL
      BY <2>1, <2>2, <2>6, CacheAssumption DEF Stale
    <3>2. /\ DOMAIN reply' = Session /\ session'[s].policy = session[s].policy
          /\ reply'[s] = [from |-> "stale", key |-> session[s].key, answer |-> e.answer,
                          fetchedAt |-> e.fetchedAt, at |-> session[s].at]
          /\ \A r \in Session \ {s} : session'[r] = session[r] /\ reply'[r] = reply[r]
      BY <2>1, <2>4, <2>6, ReturnsEffect DEF AnswersInv
    <3> QED
      BY <2>2, <2>6, <3>1, <3>2 DEF AnswersInv, CachedAnswersAreSoundAndFresh
  <2> QED
    BY <2>3, <2>5, <2>6
<1>4. CASE UNCHANGED <<session, reply>>
  BY <1>4 DEF AnswersInv, CachedAnswersAreSoundAndFresh
<1>5. ASSUME NEW p \in Pruner,
             \/ \E scope \in Scopes, token \in {None, shown[p]} : CallPrune(p, scope, token)
             \/ PrunerStep(p) \/ PrunerDies(p)
      PROVE  UNCHANGED <<session, reply>>
  BY <1>5 DEF CallPrune, PrunerStep, PrunePreview, PruneStalePreview, PruneMatches,
              PruneDeletes, PruneBusy, PruneCommits, PrunerDies, OnlyPruner
<1>6. CASE Tick \/ \E k \in Key : Damage(k)
  BY <1>4, <1>6 DEF Tick, Damage
<1>7. ASSUME NEW s \in Session, CloseSession(s) \/ SessionDies(s)
      PROVE  AnswersInv'
  BY <1>7, SameAnswers DEF CloseSession, SessionDies, NoReply, SessionInv, AnswersInv
<1>8. ASSUME NEW s \in Session, SessionStep(s)
      PROVE  AnswersInv'
  BY <1>1, <1>2, <1>3, <1>8 DEF SessionStep
<1>9. ASSUME NEW s \in Session, NEW policy \in Policy, OpenSession(s, policy)
       PROVE  AnswersInv'
  BY <1>9, SameAnswers DEF OpenSession, NoReply, SessionInv, AnswersInv
<1>10. ASSUME NEW s \in Session, NEW k \in Key, Lookup(s, k)
       PROVE  AnswersInv'
  BY <1>10, SameAnswers DEF Lookup, NoReply, SessionInv, AnswersInv
<1> QED
  BY <1>4, <1>5, <1>6, <1>7, <1>8, <1>9, <1>10 DEF Next

-----------------------------------------------------------------------------
(* The counters.                                                           *)

LEMMA OneAccount ==
  ASSUME CountsInv, NEW s \in Session,
         counts' \in [Session -> [Fields -> Nat]],
         \A r \in Session \ {s} : session'[r] = session[r] /\ counts'[r] = counts[r],
         session'[s].pc # "closed" => Accounted(s)'
  PROVE  CountsInv'
BY DEF CountsInv, Accounted

(* A lookup that is counted and moves on, or ends.                         *)
LEMMA Counting ==
  ASSUME SessionInv, CountsInv, NEW s \in Session, session[s].pc # "closed",
         NEW fields, Count(s, fields),
         \A r \in Session \ {s} : session'[r] = session[r],
         session'[s].policy = session[s].policy,
         session'[s].pc \in {"open", "read", "fetch", "put"},
         \/ /\ session[s].pc = "open" /\ session[s].policy \in {"prefer", "only", "offline"}
            /\ session'[s].pc = "read" /\ fields = {"lookups"}
         \/ /\ session[s].pc = "open" /\ session[s].policy = "off"
            /\ session'[s].pc = "fetch" /\ fields = {"lookups", "bypasses"}
         \/ /\ session[s].pc = "open" /\ session[s].policy = "refresh"
            /\ session'[s].pc = "fetch" /\ fields = {"lookups", "refreshes"}
         \/ /\ session[s].pc = "read" /\ session'[s].pc = "open"
            /\ fields \in {{"errors"}, {"hits"}}
         \/ /\ session[s].pc = "read" /\ session'[s].pc = "open"
            /\ session[s].policy \in {"only", "offline"}
            /\ fields \in {{"staleHits"}, {"misses"}}
         \/ /\ session[s].pc = "read" /\ session'[s].pc = "fetch"
            /\ session[s].policy = "prefer" /\ fields = {"misses", "refreshes"}
         \/ /\ session[s].pc = "put" /\ session'[s].pc = "open"
            /\ fields \in {{"errors"}, {"writes"}}
  PROVE  CountsInv'
<1> DEFINE n == counts[s]
           m == counts'[s]
           b(f) == IF f \in fields THEN 1 ELSE 0
<1>1. /\ counts' \in [Session -> [Fields -> Nat]]
      /\ \A f \in Fields : m[f] = IF f \in fields THEN n[f] + 1 ELSE n[f]
      /\ \A r \in Session \ {s} : counts'[r] = counts[r]
  BY CountEffect
<1>2. /\ n["hits"] \in Nat /\ n["staleHits"] \in Nat /\ n["misses"] \in Nat
      /\ n["refreshes"] \in Nat /\ n["writes"] \in Nat /\ n["bypasses"] \in Nat
      /\ n["errors"] \in Nat /\ n["lookups"] \in Nat
  BY DEF CountsInv, Fields
<1>3. /\ m["hits"] = n["hits"] + b("hits")
      /\ m["staleHits"] = n["staleHits"] + b("staleHits")
      /\ m["misses"] = n["misses"] + b("misses")
      /\ m["refreshes"] = n["refreshes"] + b("refreshes")
      /\ m["writes"] = n["writes"] + b("writes")
      /\ m["bypasses"] = n["bypasses"] + b("bypasses")
      /\ m["errors"] = n["errors"] + b("errors")
      /\ m["lookups"] = n["lookups"] + b("lookups")
  BY <1>1, <1>2 DEF Fields
<1>4. Accounted(s)
  BY DEF CountsInv
<1>5. ASSUME session[s].policy \in {"only", "offline"}
      PROVE  /\ n["refreshes"] = 0
             /\ n["lookups"] - (IF session[s].pc = "read" THEN 1 ELSE 0)
                  = n["hits"] + n["staleHits"] + n["misses"] + n["errors"]
  BY <1>2, <1>4, <1>5 DEF Accounted
<1>6. ASSUME session[s].policy \in {"only", "offline"},
             m["refreshes"] = 0,
             m["lookups"] - (IF session'[s].pc = "read" THEN 1 ELSE 0)
               = m["hits"] + m["staleHits"] + m["misses"] + m["errors"]
      PROVE  Accounted(s)'
  <2>1. session'[s].policy \in {"only", "offline"}
    BY <1>6
  <2> QED
    BY <1>6, <2>1 DEF Accounted
<1>7. ASSUME session[s].policy \in {"only", "offline"},
             session[s].pc = "read", session'[s].pc = "open",
             NEW f \in {"hits", "staleHits", "misses", "errors"}, fields = {f}
      PROVE  Accounted(s)'
  <2> HIDE DEF n, m
  <2>1. m["refreshes"] = n["refreshes"] /\ m["lookups"] = n["lookups"]
    BY <1>2, <1>3, <1>7
  <2>2. m["hits"] + m["staleHits"] + m["misses"] + m["errors"]
          = n["hits"] + n["staleHits"] + n["misses"] + n["errors"] + 1
    BY <1>2, <1>3, <1>7
  <2>3. /\ n["refreshes"] = 0
        /\ n["lookups"] - 1 = n["hits"] + n["staleHits"] + n["misses"] + n["errors"]
    BY <1>5, <1>7
  <2>4. m["lookups"] - 0 = m["hits"] + m["staleHits"] + m["misses"] + m["errors"]
    BY <1>2, <2>1, <2>2, <2>3
  <2> QED
    BY <1>6, <1>7, <2>1, <2>3, <2>4
<1>8. Accounted(s)'
  <2> HIDE DEF n, m
  <2>1. CASE /\ session[s].pc = "open" /\ session[s].policy \in {"prefer", "only", "offline"}
             /\ session'[s].pc = "read" /\ fields = {"lookups"}
    <3>1. CASE session[s].policy = "prefer"
      BY <1>2, <1>3, <1>4, <2>1, <3>1 DEF Accounted, n, m
    <3>2. CASE session[s].policy \in {"only", "offline"}
      BY <1>2, <1>3, <1>5, <1>6, <2>1, <3>2
    <3> QED
      BY <2>1, <3>1, <3>2
  <2>2. CASE /\ session[s].pc = "open" /\ session[s].policy = "off"
             /\ session'[s].pc = "fetch" /\ fields = {"lookups", "bypasses"}
    BY <1>2, <1>3, <1>4, <2>2 DEF Accounted, n, m
  <2>3. CASE /\ session[s].pc = "open" /\ session[s].policy = "refresh"
             /\ session'[s].pc = "fetch" /\ fields = {"lookups", "refreshes"}
    BY <1>2, <1>3, <1>4, <2>3 DEF Accounted, n, m
  <2>4. CASE /\ session[s].pc = "read" /\ session'[s].pc = "open"
             /\ fields \in {{"errors"}, {"hits"}}
    <3>1. session[s].policy \in {"prefer", "only", "offline"}
      BY <2>4 DEF SessionInv
    <3>2. CASE fields = {"errors"} /\ session[s].policy = "prefer"
      BY <1>2, <1>3, <1>4, <2>4, <3>2 DEF Accounted, n, m
    <3>3. CASE fields = {"hits"} /\ session[s].policy = "prefer"
      BY <1>2, <1>3, <1>4, <2>4, <3>3 DEF Accounted, n, m
    <3>4. CASE session[s].policy \in {"only", "offline"}
      BY <1>7, <2>4, <3>4
    <3> QED
      BY <2>4, <3>1, <3>2, <3>3, <3>4
  <2>5. CASE /\ session[s].pc = "read" /\ session'[s].pc = "open"
             /\ session[s].policy \in {"only", "offline"}
             /\ fields \in {{"staleHits"}, {"misses"}}
    BY <1>7, <2>5
  <2>6. CASE /\ session[s].pc = "read" /\ session'[s].pc = "fetch"
             /\ session[s].policy = "prefer" /\ fields = {"misses", "refreshes"}
    BY <1>2, <1>3, <1>4, <2>6 DEF Accounted, n, m
  <2>7. CASE /\ session[s].pc = "put" /\ session'[s].pc = "open"
             /\ fields \in {{"errors"}, {"writes"}}
    BY <1>2, <1>3, <1>4, <2>7 DEF Accounted, n, m, SessionInv
  <2> QED
    BY <2>1, <2>2, <2>3, <2>4, <2>5, <2>6, <2>7
<1> QED
  BY <1>1, <1>8, OneAccount

LEMMA CountsNext ==
  ASSUME EntriesInv, SessionInv, DOMAIN reply = Session, CountsInv, Next
  PROVE  CountsInv'
<1>1. ASSUME NEW s \in Session, NEW policy \in Policy, OpenSession(s, policy)
      PROVE  CountsInv'
  <2>1. /\ counts'[s] = NoActivity /\ counts' \in [Session -> [Fields -> Nat]]
        /\ \A r \in Session \ {s} : session'[r] = session[r] /\ counts'[r] = counts[r]
        /\ session'[s].pc = "open"
    BY <1>1, NoActivityType DEF OpenSession, CountsInv, SessionInv, SessionState
  <2>2. \A f \in Fields : counts'[s][f] = 0
    BY <2>1, NoActivityType
  <2>3. Accounted(s)'
    BY <2>1, <2>2 DEF Accounted, Fields
  <2> QED
    BY <2>1, <2>3, OneAccount
<1>2. ASSUME NEW s \in Session, CloseSession(s) \/ SessionDies(s)
      PROVE  CountsInv'
  <2>1. /\ counts' = [counts EXCEPT ![s] = NoActivity] /\ session'[s] = Closed
        /\ \A r \in Session \ {s} : session'[r] = session[r]
    BY <1>2 DEF CloseSession, SessionDies, SessionInv
  <2>2. /\ counts' \in [Session -> [Fields -> Nat]]
        /\ \A r \in Session \ {s} : counts'[r] = counts[r]
    BY <2>1, NoActivityType DEF CountsInv
  <2> QED
    BY <2>1, <2>2, OneAccount DEF Closed
<1>3. ASSUME NEW s \in Session, NEW k \in Key, Lookup(s, k)
      PROVE  CountsInv'
  <2> DEFINE policy == session[s].policy
  <2>1. /\ session[s].pc = "open" /\ policy \in Policies /\ session[s] \in SessionState
        /\ \A r \in Session \ {s} : session'[r] = session[r]
        /\ session'[s].policy = policy
        /\ session'[s].pc = IF policy \in {"off", "refresh"} THEN "fetch" ELSE "read"
    BY <1>3 DEF Lookup, SessionInv, SessionState
  <2>2. CASE policy = "off"
    <3>1. Count(s, {"lookups", "bypasses"})
      BY <1>3, <2>2 DEF Lookup, Count
    <3> QED
      BY <2>1, <2>2, <3>1, Counting
  <2>3. CASE policy = "refresh"
    <3>1. Count(s, {"lookups", "refreshes"})
      BY <1>3, <2>3 DEF Lookup, Count
    <3> QED
      BY <2>1, <2>3, <3>1, Counting
  <2>4. CASE policy \in {"prefer", "only", "offline"}
    <3>1. Count(s, {"lookups"})
      BY <1>3, <2>4 DEF Lookup, Count
    <3> QED
      BY <2>1, <2>4, <3>1, Counting
  <2> QED
    BY <2>1, <2>2, <2>3, <2>4 DEF Policies
<1>4. ASSUME NEW s \in Session, GetMissFetches(s)
      PROVE  CountsInv'
  <2>1. /\ session[s].pc = "read" /\ session[s].policy = "prefer"
        /\ Count(s, {"misses", "refreshes"})
        /\ session'[s].pc = "fetch" /\ session'[s].policy = "prefer"
        /\ \A r \in Session \ {s} : session'[r] = session[r]
    BY <1>4 DEF GetMissFetches, Misses, SessionInv, SessionState
  <2> QED
    BY <2>1, Counting
<1>5. ASSUME NEW s \in Session, NEW a, NetworkAnswers(s, a)
      PROVE  CountsInv'
  <2>1. /\ counts' = counts /\ session[s].pc = "fetch" /\ session'[s].pc = "put"
        /\ session'[s].policy = session[s].policy
        /\ \A r \in Session \ {s} : session'[r] = session[r]
    BY <1>5 DEF NetworkAnswers, SessionInv, SessionState
  <2> QED
    BY <2>1 DEF CountsInv, Accounted
<1>6. ASSUME NEW s \in Session, NEW a, NetworkFails(s) \/ NetworkUncached(s, a)
      PROVE  CountsInv'
  <2>1. /\ counts' = counts /\ session[s].pc = "fetch" /\ clock' \in Nat
        /\ \E from, answer, fetchedAt : Returns(s, from, answer, fetchedAt)
    BY <1>6 DEF NetworkFails, NetworkUncached, OnlySession, SessionInv
  <2>2. /\ session'[s].pc = "open" /\ session'[s].policy = session[s].policy
        /\ \A r \in Session \ {s} : session'[r] = session[r]
    BY <2>1, ReturnsEffect
  <2>3. counts[s] \in [Fields -> Nat]
    BY DEF CountsInv
  <2>4. Accounted(s)'
    BY <2>1, <2>2, <2>3 DEF CountsInv, Accounted, Fields
  <2> QED
    BY <2>1, <2>2, <2>4, OneAccount DEF CountsInv
<1>7. ASSUME NEW s \in Session,
             \/ GetCorrupt(s) \/ GetHit(s) \/ GetStaleHit(s) \/ GetMiss(s)
             \/ PutRefused(s) \/ PutWrites(s) \/ PutFails(s)
      PROVE  CountsInv'
  <2>1. /\ session[s].pc # "closed" /\ clock' \in Nat
        /\ \E from, answer, fetchedAt : Returns(s, from, answer, fetchedAt)
    BY <1>7 DEF GetCorrupt, GetHit, GetStaleHit, GetMiss, Misses, PutRefused, PutWrites,
                PutFails, OnlySession, SessionInv
  <2>2. /\ session'[s].pc = "open" /\ session'[s].policy = session[s].policy
        /\ \A r \in Session \ {s} : session'[r] = session[r]
    BY <2>1, ReturnsEffect
  <2>3. CASE GetCorrupt(s) \/ GetHit(s)
    <3>1. /\ session[s].pc = "read"
          /\ \E fields \in {{"errors"}, {"hits"}} : Count(s, fields)
      BY <2>3 DEF GetCorrupt, GetHit
    <3> QED
      BY <2>2, <3>1, Counting
  <2>4. CASE GetStaleHit(s) \/ GetMiss(s)
    <3>1. /\ session[s].pc = "read" /\ session[s].policy \in {"only", "offline"}
          /\ \E fields \in {{"staleHits"}, {"misses"}} : Count(s, fields)
      BY <2>4 DEF GetStaleHit, GetMiss, Misses
    <3> QED
      BY <2>2, <3>1, Counting
  <2>5. CASE PutRefused(s) \/ PutWrites(s) \/ PutFails(s)
    <3>1. /\ session[s].pc = "put"
          /\ \E fields \in {{"errors"}, {"writes"}} : Count(s, fields)
      BY <2>5 DEF PutRefused, PutWrites, PutFails
    <3> QED
      BY <2>2, <3>1, Counting
  <2> QED
    BY <1>7, <2>3, <2>4, <2>5
<1>8. CASE UNCHANGED <<session, counts>>
  BY <1>8 DEF CountsInv, Accounted
<1>9. ASSUME NEW p \in Pruner,
             \/ \E scope \in Scopes, token \in {None, shown[p]} : CallPrune(p, scope, token)
             \/ PrunerStep(p) \/ PrunerDies(p)
      PROVE  UNCHANGED <<session, counts>>
  BY <1>9 DEF CallPrune, PrunerStep, PrunePreview, PruneStalePreview, PruneMatches,
              PruneDeletes, PruneBusy, PruneCommits, PrunerDies, OnlyPruner
<1>10. CASE Tick \/ \E k \in Key : Damage(k)
  BY <1>8, <1>10 DEF Tick, Damage
<1> QED
  BY <1>1, <1>2, <1>3, <1>4, <1>5, <1>6, <1>7, <1>8, <1>9, <1>10 DEF Next, SessionStep

-----------------------------------------------------------------------------
(* Prunes.                                                                 *)

(* The table as it is: what a prune would select does not change.          *)
LEMMA SelectedKept ==
  ASSUME UNCHANGED entries, NEW scope, NEW at
  PROVE  Selected(scope, at)' = Selected(scope, at)
BY DEF Selected, IdentityOf

(* A pruner that did nothing while the table was left alone, or was in no  *)
(* state to notice that it was not.                                        *)
LEMMA OtherPruner ==
  ASSUME SessionInv, NEW q \in Pruner, Current(q), pruner'[q] = pruner[q],
         clock' \in Nat, clock <= clock',
         pruner[q].pc = "deleted" => writer' = writer /\ UNCHANGED entries,
         pruner[q].pc = "deleting" /\ q \notin outdated' =>
           q \notin outdated /\ UNCHANGED entries
  PROVE  Current(q)'
<1>1. ASSUME UNCHANGED entries
      PROVE  CurrentToken(q)' = CurrentToken(q)
             /\ Selected(pruner[q].scope, pruner[q].at)'
                  = Selected(pruner[q].scope, pruner[q].at)
  BY <1>1, SelectedKept DEF CurrentToken, PruneToken
<1>2. pruner[q].at \in Nat /\ pruner[q].at <= clock => pruner[q].at <= clock'
  BY DEF SessionInv
<1> QED
  BY <1>1, <1>2 DEF Current

(* Every pruner that may still delete is overtaken by a commit.            *)
LEMMA Overtaken ==
  ASSUME PruneInv, SessionInv, NEW by \in Pruner \cup {None}, writer \in {None, by},
         clock' = clock,
         outdated \ {by} \subseteq outdated', Outdates(by) \ {by} \subseteq outdated',
         NEW q \in Pruner \ {by}, pruner'[q] = pruner[q]
  PROVE  Current(q)'
<1>1. pruner[q].pc # "deleted"
  BY CacheAssumption DEF PruneInv, Current
<1>2. pruner[q].pc = "deleting" => q \in outdated'
  BY DEF Outdates
<1>3. Current(q)
  BY DEF PruneInv, Current
<1> QED
  BY <1>1, <1>2, <1>3 DEF Current

LEMMA EndPruneCurrent ==
  ASSUME PruneInv, SessionInv, NEW p \in Pruner, EndPrune(p), UNCHANGED <<entries, clock>>
  PROVE  PruneInv'
<1>1. /\ pruner'[p] = NoPrune /\ DOMAIN pruner' = Pruner
      /\ \A q \in Pruner \ {p} : pruner'[q] = pruner[q]
  BY DEF EndPrune, PruneInv
<1>2. Current(p)'
  BY <1>1 DEF NoPrune, Current
<1>3. ASSUME NEW q \in Pruner \ {p} PROVE Current(q)'
  <2>1. Current(q)
    BY DEF PruneInv, Current
  <2> QED
    BY <1>1, <2>1, OtherPruner DEF EndPrune, Current, SessionInv
<1> QED
  BY <1>1, <1>2, <1>3 DEF PruneInv, Current

LEMMA PruneNext ==
  ASSUME EntriesInv, SessionInv, PruneInv, Next
  PROVE  PruneInv'
<1>1. CASE UNCHANGED <<entries, writer, outdated, clock, pruner>>
  <2>1. \A q \in Pruner : Current(q)'
    BY <1>1, OtherPruner DEF PruneInv, SessionInv
  <2> QED
    BY <1>1, <2>1 DEF PruneInv
<1>2. ASSUME NEW s \in Session,
             \/ \E policy \in Policy : OpenSession(s, policy)
             \/ CloseSession(s) \/ SessionDies(s)
             \/ \E k \in Key : Lookup(s, k)
             \/ SessionStep(s) /\ ~PutWrites(s)
      PROVE  UNCHANGED <<entries, writer, outdated, clock, pruner>>
  BY <1>2 DEF OpenSession, CloseSession, SessionDies, Lookup, SessionStep, GetCorrupt,
              GetHit, GetStaleHit, GetMiss, GetMissFetches, NetworkFails, NetworkUncached,
              NetworkAnswers, PutRefused, PutFails, OnlySession
<1>3. ASSUME NEW s \in Session, PutWrites(s)
      PROVE  PruneInv'
  <2>1. /\ writer = None /\ outdated' = outdated \cup Outdates(None)
        /\ UNCHANGED <<writer, clock, pruner>>
    BY <1>3 DEF PutWrites
  <2>2. \A q \in Pruner : Current(q)'
    BY <2>1, Overtaken, CacheAssumption
  <2> QED
    BY <2>1, <2>2 DEF PruneInv, Current
<1>4. ASSUME NEW k \in Key, Damage(k)
      PROVE  PruneInv'
  <2>1. /\ writer = None /\ outdated' = outdated \cup Outdates(None)
        /\ UNCHANGED <<writer, clock, pruner>>
    BY <1>4 DEF Damage
  <2>2. \A q \in Pruner : Current(q)'
    BY <2>1, Overtaken, CacheAssumption
  <2> QED
    BY <2>1, <2>2 DEF PruneInv, Current
<1>5. CASE Tick
  <2>1. /\ UNCHANGED <<entries, writer, outdated, pruner>>
        /\ clock' \in Nat /\ clock <= clock'
    BY <1>5 DEF Tick, SessionInv
  <2>2. ASSUME NEW q \in Pruner PROVE Current(q)'
    <3>1. Current(q)
      BY DEF PruneInv, Current
    <3> QED
      BY <2>1, <3>1, OtherPruner
  <2> QED
    BY <2>1, <2>2 DEF PruneInv, Current
<1>6. ASSUME NEW p \in Pruner, NEW scope, NEW token, CallPrune(p, scope, token)
      PROVE  PruneInv'
  <2>1. /\ pruner'[p].pc = "called" /\ pruner'[p].at = clock /\ DOMAIN pruner' = Pruner
        /\ \A q \in Pruner \ {p} : pruner'[q] = pruner[q]
        /\ UNCHANGED <<entries, writer, outdated, clock>>
    BY <1>6 DEF CallPrune, OnlyPruner, PruneInv
  <2>2. Current(p)'
    BY <2>1 DEF Current, SessionInv
  <2>3. ASSUME NEW q \in Pruner \ {p} PROVE Current(q)'
    <3>1. Current(q)
      BY DEF PruneInv, Current
    <3> QED
      BY <2>1, <3>1, OtherPruner DEF SessionInv
  <2> QED
    BY <2>1, <2>2, <2>3 DEF PruneInv, Current
<1>7. ASSUME NEW p \in Pruner,
             \/ PrunePreview(p) \/ PruneStalePreview(p) \/ PruneBusy(p) \/ PrunerDies(p)
      PROVE  PruneInv'
  BY <1>7, EndPruneCurrent DEF PrunePreview, PruneStalePreview, PruneBusy, PrunerDies,
                               OnlyPruner
<1>8. ASSUME NEW p \in Pruner, PruneMatches(p)
      PROVE  PruneInv'
  <2>1. CASE Selected(pruner[p].scope, pruner[p].at) = {}
    BY <1>8, <2>1, EndPruneCurrent DEF PruneMatches, OnlyPruner
  <2>2. CASE Selected(pruner[p].scope, pruner[p].at) # {}
    <3>4. /\ pruner' = [pruner EXCEPT ![p].pc = "deleting",
                                      ![p].selected = Selected(pruner[p].scope, pruner[p].at)]
          /\ pruner[p].pc = "called" /\ pruner[p].token = CurrentToken(p)
          /\ UNCHANGED <<entries, writer, outdated, clock>>
      BY <1>8, <2>2 DEF PruneMatches, OnlyPruner
    <3>1. /\ pruner'[p].pc = "deleting" /\ pruner[p].pc = "called"
          /\ pruner'[p].selected = Selected(pruner[p].scope, pruner[p].at)
          /\ pruner'[p].token = pruner[p].token /\ pruner[p].token = CurrentToken(p)
          /\ pruner'[p].scope = pruner[p].scope /\ pruner'[p].at = pruner[p].at
          /\ DOMAIN pruner' = Pruner
          /\ \A q \in Pruner \ {p} : pruner'[q] = pruner[q]
          /\ UNCHANGED <<entries, writer, outdated, clock>>
      BY <3>4 DEF PruneInv
    <3>2. Current(p)'
      BY <3>1, SelectedKept DEF Current, PruneInv, CurrentToken, PruneToken
    <3>3. ASSUME NEW q \in Pruner \ {p} PROVE Current(q)'
      <4>1. Current(q)
        BY DEF PruneInv, Current
      <4> QED
        BY <3>1, <4>1, OtherPruner DEF SessionInv
    <3> QED
      BY <3>1, <3>2, <3>3 DEF PruneInv, Current
  <2> QED
    BY <2>1, <2>2
<1>9. ASSUME NEW p \in Pruner, PruneDeletes(p)
      PROVE  PruneInv'
  <2>1. /\ pruner[p].pc = "deleting" /\ p \notin outdated /\ writer = None /\ writer' = p
        /\ pruner'[p].pc = "deleted" /\ pruner'[p].selected = pruner[p].selected
        /\ pruner'[p].token = pruner[p].token
        /\ pruner'[p].scope = pruner[p].scope /\ pruner'[p].at = pruner[p].at
        /\ DOMAIN pruner' = Pruner
        /\ \A q \in Pruner \ {p} : pruner'[q] = pruner[q]
        /\ UNCHANGED <<entries, outdated, clock>>
    BY <1>9 DEF PruneDeletes, CanDelete, OnlyPruner, PruneInv
  <2>2. Current(p)'
    BY <2>1, SelectedKept DEF Current, PruneInv, CurrentToken, PruneToken
  <2>3. ASSUME NEW q \in Pruner \ {p} PROVE Current(q)'
    <3>1. Current(q) /\ pruner[q].pc # "deleted"
      BY <2>1, CacheAssumption DEF PruneInv, Current
    <3> QED
      BY <2>1, <3>1, OtherPruner DEF SessionInv
  <2> QED
    BY <2>1, <2>2, <2>3 DEF PruneInv, Current
<1>10. ASSUME NEW p \in Pruner, PruneCommits(p)
       PROVE  PruneInv'
  <2>1. /\ writer = p /\ outdated' = (outdated \cup Outdates(p)) \ {p} /\ clock' = clock
        /\ pruner'[p] = NoPrune /\ DOMAIN pruner' = Pruner
        /\ \A q \in Pruner \ {p} : pruner'[q] = pruner[q]
    BY <1>10 DEF PruneCommits, PruneInv, Current
  <2>2. Current(p)'
    BY <2>1 DEF Current, NoPrune
  <2>3. \A q \in Pruner \ {p} : Current(q)'
    BY <2>1, Overtaken
  <2> QED
    BY <2>1, <2>2, <2>3 DEF PruneInv, Current
<1> QED
  BY <1>1, <1>2, <1>3, <1>4, <1>5, <1>6, <1>7, <1>8, <1>9, <1>10
     DEF Next, PrunerStep, SessionStep

-----------------------------------------------------------------------------
(* The theorems.                                                           *)

LEMMA InitCache == Init => CacheInv
<1> SUFFICES ASSUME Init PROVE CacheInv
  OBVIOUS
<1>1. EntriesInv
  BY DEF Init, EntriesInv
<1>2. Closed \in SessionState /\ Closed.pc = "closed"
  BY DEF Closed, SessionState
<1>3. SessionInv
  BY <1>2 DEF Init, SessionInv
<1>4. AnswersInv
  BY DEF Init, AnswersInv, CachedAnswersAreSoundAndFresh, NoReply
<1>5. CountsInv
  BY <1>2, NoActivityType DEF Init, CountsInv
<1>6. PruneInv
  BY DEF Init, PruneInv, Current, NoPrune
<1> QED
  BY <1>1, <1>3, <1>4, <1>5, <1>6 DEF CacheInv

LEMMA NextCache == CacheInv /\ [Next]_vars => CacheInv'
<1>1. ASSUME CacheInv, Next PROVE CacheInv'
  BY <1>1, EntriesNext, SessionNext, AnswersNext, CountsNext, PruneNext
     DEF CacheInv, AnswersInv
<1>2. ASSUME CacheInv, UNCHANGED vars PROVE CacheInv'
  <2> USE <1>2 DEF vars, CacheInv
  <2>1. EntriesInv' /\ SessionInv'
    BY DEF EntriesInv, SessionInv
  <2>2. AnswersInv'
    BY DEF AnswersInv, CachedAnswersAreSoundAndFresh
  <2>3. CountsInv'
    BY DEF CountsInv, Accounted
  <2>4. \A q \in Pruner : Current(q)'
    BY OtherPruner DEF PruneInv, SessionInv
  <2> QED
    BY <2>1, <2>2, <2>3, <2>4 DEF PruneInv
<1> QED
  BY <1>1, <1>2

THEOREM CacheInvariant == Spec => []CacheInv
BY InitCache, NextCache, PTL DEF Spec

(* Whatever commands write at the same time, an entry that nobody damaged  *)
(* is one that Get accepts (Put decodes a row before it writes it).        *)
THEOREM CacheIsNotPoisoned == Spec => []PutNeverPoisons
<1>1. CacheInv => PutNeverPoisons
  <2> SUFFICES ASSUME CacheInv, NEW k \in Key, entries[k] # None, entries[k].intact
               PROVE  Decodes(entries[k])
    BY DEF PutNeverPoisons
  <2>1. /\ entries[k] \in Entry /\ entries[k].expiresAt = entries[k].fetchedAt + TTL
        /\ entries[k].answer \in Sound
    BY DEF CacheInv, EntriesInv
  <2>2. entries[k].expiresAt > entries[k].fetchedAt
    BY <2>1, CacheAssumption DEF Entry
  <2> QED
    BY <2>1, <2>2 DEF Decodes
<1> QED
  BY <1>1, CacheInvariant, PTL

(* What is served from the cache is sound and, but under offline, younger  *)
(* than the lifetime when the lookup began (Get, Stale, Session.Lookup).   *)
THEOREM CacheServesSoundAnswers == Spec => []CachedAnswersAreSoundAndFresh
<1>1. CacheInv => CachedAnswersAreSoundAndFresh
  BY DEF CacheInv, AnswersInv
<1> QED
  BY <1>1, CacheInvariant, PTL

(* Between lookups the counters of a session add up, under every policy    *)
(* (Activity, as the run metadata reports it).                             *)
THEOREM CacheCountersAddUp == Spec => []CountersAccountForLookups
<1>1. CacheInv => CountersAccountForLookups
  <2> SUFFICES ASSUME CacheInv, NEW s \in Session, session[s].pc = "open"
               PROVE  LET n == counts[s]
                          policy == session[s].policy
                      IN /\ policy = "off" => n["lookups"] = n["bypasses"]
                         /\ policy = "refresh" =>
                              /\ n["lookups"] = n["refreshes"]
                              /\ n["writes"] + n["errors"] <= n["refreshes"]
                         /\ policy \in {"only", "offline"} =>
                              /\ n["lookups"] =
                                   n["hits"] + n["staleHits"] + n["misses"] + n["errors"]
                              /\ n["refreshes"] = 0
                         /\ policy = "prefer" =>
                              /\ n["refreshes"] = n["misses"]
                              /\ n["hits"] + n["misses"] <= n["lookups"]
                              /\ n["lookups"] <= n["hits"] + n["misses"] + n["errors"]
                              /\ n["writes"] <= n["refreshes"]
                              /\ n["hits"] + n["writes"] + n["errors"] <= n["lookups"]
    BY DEF CountersAccountForLookups
  <2>1. counts[s] \in [Fields -> Nat] /\ Accounted(s)
    BY DEF CacheInv, CountsInv
  <2> QED
    BY <2>1 DEF Accounted, Fields
<1> QED
  BY <1>1, CacheInvariant, PTL

(* A prune removes what its caller was shown, as it was shown and no other *)
(* entry; nothing else removes any (Prune's token and its transaction).    *)
THEOREM PruneKeepsItsWord == Spec => PrunesWhatWasPreviewed
<1>1. ASSUME CacheInv, [Next]_vars, Removed # {}
      PROVE  \E p \in Pruner :
               /\ pruner[p].pc = "deleted" /\ pruner'[p].pc = "idle"
               /\ pruner[p].token =
                    PruneToken(pruner[p].scope, {IdentityOf(k) : k \in Removed})
               /\ pruner[p].scope = "all" \/ \A k \in Removed : Stale(entries[k], clock)
  <2> USE <1>1 DEF CacheInv
  <2>1. ASSUME NEW s \in Session, PutWrites(s) PROVE FALSE
    <3>1. Candidate(s) # None
      BY <2>1, PutEffect, CacheAssumption
    <3> QED
      BY <2>1, <3>1, PutEffect DEF Removed, EntriesInv
  <2>2. ASSUME NEW k \in Key, Damage(k) PROVE FALSE
    <3> DEFINE e == [entries[k] EXCEPT !.intact = FALSE]
    <3>1. entries[k] \in Entry /\ entries' = [entries EXCEPT ![k] = e]
      BY <2>2 DEF Damage, EntriesInv
    <3>2. e # None
      BY <3>1, CacheAssumption DEF Entry
    <3> HIDE DEF e
    <3> QED
      BY <3>1, <3>2 DEF Removed, EntriesInv
  <2>3. ~ UNCHANGED entries
    BY DEF Removed
  <2>4. PICK p \in Pruner : PruneCommits(p)
    BY <2>1, <2>2, <2>3, TableKept DEF Next, vars
  <2> DEFINE scope == pruner[p].scope
             at == pruner[p].at
  <2>5. /\ pruner[p].pc = "deleted" /\ pruner'[p].pc = "idle"
        /\ pruner[p].selected = Selected(scope, at)
        /\ pruner[p].token = PruneToken(scope, Selected(scope, at))
        /\ at \in Nat /\ at <= clock
    BY <2>4 DEF PruneCommits, NoPrune, PruneInv, Current, CurrentToken
  <2>6. Removed = {x \in Key : entries[x] # None /\ (scope = "all" \/ Expired(entries[x], at))}
    <3>1. Removed = Gone(p)
      BY <2>4 DEF PruneCommits, Removed, Gone, EntriesInv
    <3>2. ASSUME NEW k \in Key, NEW x \in Key, IdentityOf(k) = IdentityOf(x)
          PROVE  k = x
      BY <3>2 DEF IdentityOf
    <3>3. Gone(p) = {k \in Key : entries[k] # None /\ IdentityOf(k) \in Selected(scope, at)}
      BY <2>5 DEF Gone
    <3> HIDE DEF scope, at
    <3> QED
      BY <3>1, <3>2, <3>3 DEF Selected
  <2>7. {IdentityOf(k) : k \in Removed} = Selected(scope, at)
    BY <2>6 DEF Selected
  <2>8. ASSUME scope # "all", NEW k \in Removed PROVE Stale(entries[k], clock)
    <3>1. entries[k] \in Entry /\ Expired(entries[k], at)
      BY <2>6, <2>8 DEF EntriesInv
    <3> QED
      BY <2>5, <3>1 DEF Expired, Stale, Entry, SessionInv
  <2> QED
    BY <2>5, <2>7, <2>8
<1>2. CacheInv /\ [Next]_vars =>
        [Removed # {} =>
           \E p \in Pruner :
             /\ pruner[p].pc = "deleted" /\ pruner'[p].pc = "idle"
             /\ pruner[p].token =
                  PruneToken(pruner[p].scope, {IdentityOf(k) : k \in Removed})
             /\ pruner[p].scope = "all" \/ \A k \in Removed : Stale(entries[k], clock)]_vars
  BY <1>1
<1> QED
  BY <1>2, CacheInvariant, PTL DEF Spec, PrunesWhatWasPreviewed
=============================================================================
