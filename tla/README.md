# Verification of bom-builder

TLA+ models of bom-builder, the model-checking configurations that exercise
them, and proofs of their most important properties. `bom-builder` prices a
bill of materials: it aggregates the parts of a design, asks electronics
distributors for offers, chooses a purchase plan per line, converts and totals
the prices. It remembers provider answers in a cache and the engineering
decisions of people ("this replacement is approved for that part") in a store;
both are SQLite files that several processes of one user share.

Paths below are relative to the repository's root, `src/`; `internal/` is
`src/internal/`.

## 1. Inventory

| component | code | state it keeps | operations |
|---|---|---|---|
| approved-resolution store | `internal/resolutions` | two SQLite tables: records (one active per demand), audit events | `Open`, `Approve`, `Revoke` (preview, then apply with a token), `List`, `History`, `StoreStatus`, `ActiveResolution` |
| lookup cache | `internal/lookupcache` | one SQLite table of normalized answers with checksum and expiry; per-session counters | `NewSession`, `Lookup` (`Get`, network, `Put`) under five policies, `Prune` (preview, then apply with a token), `List`, `Verify` |
| sourcing | `internal/sourcing` | running summary and total of one run | `SourceWithFX` (loop over lines), `MultiResolver.Lookup` (choice between providers), `ResolutionAwareResolver.Lookup` (approved replacement, lifted review) |
| purchase optimizer | `internal/procurement` | none | `Optimize`: price breaks, minimum and multiple quantities, reels, surplus tolerance |
| money and exchange rates | `internal/money`, `internal/fx` | none; a table of reference rates | exact decimals of six places, `Convert` with half-even rounding, ECB fetch |
| provider clients | `internal/provider/{mouser,digikey,ti,farnell,microchip}/client.go` | API keys in rotation, OAuth token, request counts, quota state | requests with retry, token renewal, key rotation, rate-limit wait |
| provider resolvers | `.../resolver.go` | none | query order, filtering, normalization and ranking of candidates |
| registry, discovery, health | `internal/provider/*.go` | none | which providers a run selects, credential discovery, probes |
| terminal interface | `internal/tui` | screen, forms, generation of the lookup in flight | list, detail, approve, revoke, resolver lookup |
| web interface | `internal/webui` | none but the store and a token for the page | approve, revoke, lookup handlers |
| command line | `internal/cli` | none | flags, `price`, `cache`, `resolution`, `documents`, `alternatives`, `tui`, `serve` |
| BOM and design | `internal/bom`, `internal/design` | none | load a design, aggregate quantities |
| documents, alternatives | `internal/documents`, `internal/alternatives` | none | fetch datasheets, compare candidates with requirements |
| configuration, contracts | `internal/config`, `internal/contract`, `schemas` | none | `.env` files, result types, JSON schemas |

How they interact. A command opens a cache session per provider and, when a
store is named, the resolution store. `SourceWithFX` calls, per line,
`ResolutionAwareResolver` -> `MultiResolver` -> (per provider) the cache's
`resolver.Lookup` -> the provider's resolver -> its client. Nothing else
connects those layers: each is a `procurement.Resolver`. The terminal and web
interfaces and the `resolution` commands call the store directly. Different
processes meet only in the two SQLite files; goroutines of one process (the
web server's handlers, the terminal's background lookups) meet in the store's
connection pool.

Where it is hard.

* *Concurrency of processes*: read-then-write transactions of `Approve`,
  `Revoke` and `Prune` under SQLite's snapshot isolation, which refuses an
  upgrade instead of waiting.
* *Two-step protocols*: what a person was shown by a preview is applied later.
* *Staleness*: entries expire while commands run; the network answers late.
* *Crashes* between statement, commit and answer.
* *Partial failure*: providers fail one by one, a price cannot be converted, a
  total overflows; the run goes on and must say what its result is worth.
* *Untrusted shapes*: an adapter may break the contract of its result.
* *Numeric edges* in quantities and money.

What makes each component correct. The store: one active resolution per
demand, an audit history that explains the records exactly, decisions that are
never rewritten, a revocation that hits only what was previewed. The cache: it
never answers with an unsafe, failed or expired entry, never stores what it
cannot read back, prunes exactly what was previewed. Sourcing: what is priced
is safe and the cheapest comparable plan, a total is the sum of all priced
lines in one currency or absent, the status says which. The optimizer: the
plan covers the need, respects the offer's quantities, and is the cheapest
such plan. The clients: bounded attempts, no use of a token known to be bad.
The resolvers: a plan is selected only for the exact part with reported stock
that covers it, what was not reported is unknown and never zero, and nothing
better is passed over. The alternatives command: it recommends only what is as
good as the original in everything the original states. Price texts: read as
their convention means them, or refused. Aggregation: exactly what all lines
ask for. The interfaces: only what a person was shown is revoked, what is
announced can be seen, a late answer is never taken for another question's.

`PROJECT.json` lists the places in the code where these can go wrong
("hazards") and the properties that watch each of them.

## 2. Modules

| module | what it is | extends / uses |
|---|---|---|
| `ResolutionsRegistry` | abstract specification: a register of decisions, each taken at one instant | |
| `ResolutionsStore` | the store with transactions, lock, pool, clock, cancellation, crashes | instantiates `ResolutionsRegistry` |
| `ResolutionsStoreProofs` | theorems about `ResolutionsStore` | extends it and `TLAPS` |
| `StoreOpen` | opening, creating and migrating either database file by several processes | |
| `StoreOpenProofs` | theorems about `StoreOpen` | extends it and `TLAPS` |
| `LookupCache` | sessions and prunes over the cache | |
| `LookupCacheProofs` | theorems about `LookupCache` | extends it and `TLAPS` |
| `Sourcing` | one pricing run | |
| `SourcingProofs` | theorems about `Sourcing` | extends it and `NaturalsLemmas` |
| `ProviderClients` | the request loops of the five distributors' clients | |
| `ProviderClientsProofs` | theorems about `ProviderClients` | extends it and `NaturalsLemmas` |
| `PurchaseOptimizer` | the algorithm that chooses a purchase plan | |
| `ProviderResolvers` | what each of the five adapters concludes from a distributor's answers | |
| `Alternatives` | validation, comparison, ranking and outcome of the alternatives command | |
| `Money` | reading of price texts, the quote table, half-even conversion | |
| `Demands` | loading of designs and aggregation of their lines | |
| `DecisionTable` | the store of resolutions as an interface sees it: one step per call | |
| `TerminalSession` | the terminal interface, its background lookups, and other processes | extends `DecisionTable` |
| `WebPage` | the page and the server's handlers, with requests under way, and other processes | extends `DecisionTable` |
| `Interfaces` | the two interfaces, one at a time | extends `TerminalSession`, instantiates `WebPage` |
| `InterfacesProofs` | theorems about `Interfaces` | extends it, `NaturalsLemmas` and `FiniteSetTheorems` |
| `Algorithms` | composes the five modules of pure functions, one question at a time | extends `PurchaseOptimizer`, instantiates `ProviderResolvers`, `Alternatives`, `Money`, `Demands` |
| `AlgorithmsProofs` | theorems about `Algorithms` | extends it and `NaturalsLemmas` |
| `NaturalsLemmas` | what the proofs need of numbers: least members, recursive functions, division, sums over finite sets, finite sets with an order | extends `TLAPS`, `FiniteSetTheorems` |
| `MCAlgorithms` | the inputs put to the five | extends `Algorithms` and `MCPurchaseOptimizer` |
| other `MC...` | the constants of the small instances | extend the module of their name |

Definitions whose comment begins with "Fault:" are not part of a
specification. Each is the definition that follows it with one plausible bug,
and the check that a property is worth having replaces the one by the other
and expects the property to fail ("mutants" in `PROJECT.json`).

### ResolutionsStore

| model | code |
|---|---|
| `rows`, `log` | tables `resolution_records`, `resolution_events` as committed |
| `writer` | SQLite's single write lock |
| `conn[h]` | the only connection of a handle (`SetMaxOpenConns(1)`) |
| `tx[c]` | what the client's transaction sees: its snapshot and its own writes |
| `held[c]` | the token of the last preview a person was shown |
| `CallApprove`, `CallRevoke`, `CallInvalid` | handlers, with `ValidateRequest` |
| `Begin` | `BeginTx`: wait for the connection |
| `ApproveRead`, `ApproveCollides`, `ApproveSupersede`, `ApproveInsert`, `ApproveInsertRefused` | the statements of `Approve`, in order |
| `RevokeNotFound` ... `RevokeWrite` | the checks of `Revoke`, in their order, and its statements |
| `WriteLockRefused` | `SQLITE_BUSY` / `SQLITE_BUSY_SNAPSHOT` at the first write |
| `Commit`, `Return` | `tx.Commit`, and the answer reaching the caller |
| `Abort`, `Crash` | cancelled context or failed statement; death of the process |

A resolution id is a digest of request and instant, and is modelled as that
pair; a revoke token is a digest of id and record, and is modelled as that
pair. So digests are injective and nothing else about them is used.
`TakeSnapshot` happens at the first `SELECT`, because `BEGIN` is deferred. The
lock is granted only if nobody writes and nobody has committed since: every
transaction that commits appends to the log, so its length stands for the
database's version.

### StoreOpen

`Open` and `migrate` are the same code in `resolutions/store.go` and
`lookupcache/store.go`; only the number of CREATE statements differs
(`NumObjects`). One action per system call or statement, because another
process can act between any two: `ValidateExistingFile`, `Lstat`, `Create`
(exclusive), `ValidateSidecars`, the switch to WAL under the write lock,
`ReadVersion` (outside any transaction), `CreateFirst` (which waits for the
write lock and only then sees what exists), `CreateNext`, `SetUserVersion`,
`Commit`, `Secure`. `refusal` says why the last `Open` of a process failed.
File modes and symbolic links appear as the values "regular" and "irregular".

### LookupCache

A `Session` is a command with one policy; a `Pruner` is a `cache prune`
command. `Lookup` is split where other processes can act: policy and clock,
`Get`, network answer, second reading of the clock, `Put`. `Get` and `Put` are
single autocommit statements, so each is one step, and `Put` may fail when the
busy timeout runs out. `Prune` reads its set and compares the token in one
step (one snapshot), deletes under the write lock, commits. `outdated` holds
the prunes whose snapshot is no longer the newest state. `Damage` changes a
stored payload, as a disk fault would. The write path writes only through
`Decodes`, the read path accepts only through it, exactly as `Put` calls
`decodeRow` on the row it is about to insert. The instant of expiry is compared
twice in the code and twice here: in `decodeRow` (`Stale`) and in the condition of
`Prune`'s query (`Expired`, in `Selected`). The third comparison, `List`'s,
changes nothing and is left out.

### Sourcing

One run: `ReadResolution` (or `StoreFails`), `Ask` once per provider in the
run's order, `Choose` (which reduces the answers by `MultiPart`, applies the
approval by `LiftPinnedReview`, checks the contract by `Checked` and adds to
the summary by `Accounted`), then `Finish`. `MultiPart` follows
`MultiResolver.Lookup`: errors and unsafe priced results are dropped, the safe
ones are compared, and without any the most telling fallback is reported.
Conversion uses integer rates; whether a currency is quoted, and overflow, are
modelled, rounding is not. The approval found for a line is any element of
`Approvals`, because other processes change the store during a run.

### PurchaseOptimizer

One call of `OptimizePurchaseFamiliesWithPreference` is one action, because
the function is pure. `Leg` is `purchaseLegFromFamily`, `BulkQuantities` is
`candidateBulkQuantities`, `PlanOf` is `composePurchasePlan`, `BestPlans` is
`selectBestPlan`; comparisons of several criteria are `Precedes` over tuples.
An overflow anywhere makes the call an error, as in the code. The last
criterion of a tie, the rendered text of the plan, is not modelled: every plan
that ties up to there may be chosen. The properties compare the result with
`SinglePrices` and `MixedPrices`: the price, as a distributor charges it, of
*every* quantity the families let one order, which the code never enumerates.

### ProviderClients

One client, of a kind chosen at the start, serves calls in turn. `Send` is
`do`; an answer is one of the classes the code distinguishes, and there is one
action per branch after it: `Succeeds`, `NextPage` (Microchip), `RotateKey` and
`QuotaSpent` (Mouser), `RefreshToken` (DigiKey, TI), `FailsForNow` (retry or
the last attempt), `FailsForGood`. `UseToken`, `AskForToken`, `TokenGranted`
and `TokenFails` are `token`; only TI repeats that request. `keyIndex` and
`token` belong to the client and outlive a call, the rest are locals.
`DeadlinePasses` is the caller's context, which can end at any moment; a
request sent after it fails in `net/http`. A granted token is always a new one,
and it begins to live at the distributor between request and answer. `heard`
records what happened in the call, for the properties; no action reads it
except that a request sent too late gets no answer.

### ProviderResolvers, Alternatives, Money, Demands

These are functions of their inputs, so each has the variables `question` and
`answer` and one step between them; what can go wrong is in the inputs, of
which TLC takes every member of a family (`MCAlgorithms`). The questions are
constants of `Algorithms`, so the theorems are about any set of them.

In `ProviderResolvers` an article is what its adapter reads of it, and the
comparisons of text (part numbers, makers and their aliases, kits) are reduced
to their verdicts. `CatalogueLookup` is Mouser and Farnell, which search for
the exact number and, if that leaves nothing, for similar ones;
`CatalogueStatus` is the chain of obstacles in `normalizeOffer`,
`CandidateKey` the order of the candidates. `DigiKeyLookup` takes pricing
options (`Complete` is `normalizePlan`) and the stock of a second answer
(`ApplyStock`, `LimitingStock`); `TILookup` has the limit per order
(`StoreStock`, `OverLimit`); `MicrochipLookup` gives evidence and never a
price. A purchase plan is that of one family at one price.

In `Alternatives` the values of fields are numbers, compared as
`compareDecimals`, `compareIntegers` and `compareNormalizedString` do
(`Relation`), and `Sorted` inserts one by one as `sort.SliceStable` does for
up to twenty results, which matters because `Less` is not transitive across
currencies. A request may have 25 candidates; more than twenty are sorted in two
blocks that are merged. That can differ from `Sorted` only in the order of
results of one rank with plans in several currencies: if they are compatible,
nothing is recommended, and otherwise no property looks at their order.
In `Money` a text is the lengths of its runs of digits and the marks between
them, and a reading is the number of fractional digits; `Readings` says what
the American and the European convention make of it. In `Demands` a line is
its key, quantity and one field on which lines may disagree. Each of the three
says with `IsQuestion` what may be asked of it: an outcome of a lookup carries a
plan exactly when it is "priced" (`internal/sourcing/multi.go:180` clears the
others), a text has one run of digits more than it has marks.

### DecisionTable, TerminalSession, WebPage

The interfaces call the store, whose calls take effect at one instant or not
at all: `ResolutionsStore` shows that, so `DecisionTable` has one operator per
call. In `TerminalSession`, `Update` handles one key or message at a time, and
an action is the handling of one up to its first call of the store, or one
further call: another process may act between any two. `pending` says which call
comes next. `submitRevoke` previews (`PreviewRevoke`) and applies
(`ApplyRevoke`); a decision (`SubmitApprove`, `ApplyRevoke`) and the key that
shows or hides inactive rows end in `reload`, which reads the rows (`ReadRows`),
asks for the store's status, and only then replaces the rows shown
(`ShowRows`). Each call may fail, so a reload may fail after a decision that
succeeded. A lookup in the background is an element of
`running` until its message is handled (`LookupEnds`), and the sequence
number decides whether it is still awaited.

In `WebPage` an operation of the page is a task: the request
it awaits and the message it ends with. Any task's request may be served
(`Serve`), answered (`Arrive`), fail, or be served and its answer lost, in any
order; `selected` and `token` are the page's two global variables, which every
operation reads when it starts and changes when its answer arrives.

`asked` and `typed` in the terminal, and nothing in the page, exist for the
properties only. `Interfaces` freezes the variables of the interface that is
not the subject of the behaviour.

`Listed` is what the store's `List` returns: the rows by demand, those of a
demand by the time of their approval, the latest first, and no more of them than
were asked for. `Approve` is given that time before its transaction waits for its
turn, so a record may be committed after another and come behind it: a record's
`stamp` (its time and, for equal times, the digest the code sorts by next) is
any one its demand has not used, and has nothing to do with the order of the
commits. The limits are parameters (`ListLimit`: 1000 in the terminal, and on the page the server's default of 100,
because the page names no limit). It says which sequence that is with `CHOOSE`,
from its order and not from a way to sort, so that it can be proved about.
Where more rows exist than are listed, a decision just announced may have no row
among them, and the interfaces say nothing of the cut: `DecisionIsVisible` holds
such an announcement right only if all the rows listed come before the missing
one (`Reflects`).

`IsDecision` closes the circle: it states the three steps of
`ResolutionsRegistry` over a table, without the entries in the history, which
the table does not have. `EachChangeIsOneDecision` requires that every change
of `records` be one of them, so what the interfaces work on is the register
that `ResolutionsStore` implements. That is proved and needs no run of its own
(section 4).

## 3. Runs

| run | question | bounds | properties |
|---|---|---|---|
| `store` | Do records, audit history and acknowledged decisions stay consistent under every interleaving of two processes, and does the store implement the register of decisions? | 2 processes with 1 caller each, 1 request, 2 instants: two ids of one demand, so an approval can supersede, collide, be revoked and be approved again | `TypeOK`, `OneActivePerDemand`, `AuditExplainsRecords`, `SupersededBySuccessor`, `AcknowledgedDecisionsStand`, `DecisionsAreFinal`, `RevokesWhatWasPreviewed`, `ImplementsRegistry` |
| `store_one_process` | Do callers that share a connection ever fail as busy or wait for ever? | 1 process, 2 callers, 2 requests of one demand; fairness | `NoBusyWithinOneProcess`, `EveryCallReturns` |
| `store_stale_preview` | Is a concurrent change answered as a stale preview, as the documents say? (No.) | as `store` | `ConcurrentChangeIsStalePreview` |
| `store_contention` | Does contention never become an immediate refusal, as the comment at the pragmas has it? (No.) | as `store`, 1 instant | `ContentionIsNotBusy` |
| `cache` | Are cached answers sound and in date, and the counters right, under every policy? Does a prune delete exactly what was previewed? | 1 session of 2 lookups; 2 keys; either every policy beside 1 prune, or 2 prunes beside 1 refresh (`focus`); 3 instants with a lifetime of 1: fresh, expired at its very instant, and older; symmetric in the keys | `PutNeverPoisons`, `CachedAnswersAreSoundAndFresh`, `CountersAccountForLookups`, `PrunesWhatWasPreviewed` |
| `cache_poison` | Does a rejected entry stop failing lookups when it expires, as the comment says? (No.) | 1 session, 1 key | `PoisonEndsAtExpiry` |
| `sourcing` | Is what is priced safe and cheapest, and the total exact? | 2 lines, 2 providers with 14 answers each (regular and contract-breaking), 2 kinds of approval, without and with a target currency, a currency without a quote, amounts that overflow | `PricedPartsAreSafe`, `ChosenPlanIsCheapest`, `ResultAddsUp` |
| `sourcing_counts` | Do the summary's counts add up to the line count? (No.) | as above | `CountsAddUpToLineCount` |
| `algorithms` | Do the pure functions give, on every input of a bounded family, what a definition of the right answer asks? | optimizer: 1 or 2 families of short and long price lists, stocks, minima and multiples, reels of 2 to 5, requirements 0 to 12 and some up to 25, int and money overflow beyond 25 and 100; resolvers: a demand of 5, up to 2 articles of each search, or 2 of all pricing options or 3 of those of the middle prices, with 2 SKUs, every stock, limit and minimum around 5; alternatives: all pairs of differing fields, or one that differs and one that is missing, up to 3 candidates with 6 outcomes in 2 currencies; price texts of up to 4 runs of digits; 2 quoted currencies; up to 2 sources of 2 designs or lines, overflow beyond 25 | `PlanIsOrderable`, `NothingCheaperIsPassedOver`, `PricedOnlyWhenSafe`, `UnknownIsNotShortage`, `NothingBetterIsPassedOver`, `RecommendedIsSafeAndCheapest`, `SilenceHasAReason`, `PriceIsNeverMisread`, `ConversionIsNearest`, `RequiredQuantityIsExact` |
| `store_open` | Does everyone who opens the file get a whole schema, and can whoever is refused try again? | 2 processes, 5 CREATE statements, a file that is absent, empty, whole, newer or not regular, 2 failures or deaths; fairness | `OpenStoreIsWhole`, `LoserFindsTheWinnersWork`, `SchemaIsKept`, `RetriedOpenSucceeds` |
| `provider_clients` | Do the clients' loops end, lose no attempt, respect the deadline, and leave bad keys and tokens? | each of the 5 clients, 2 calls, 3 attempts, 3 keys, 2 pages, token lifetimes within and beyond the margin, 4 instants | `RequestsAreBounded`, `NoEarlyGiveUp`, `DeadlineEndsTheCall`, `PresentedTokenIsGood`, `SpentKeyIsLeft` |
| `interactive` | Is only what was shown revoked, is what is announced to be seen, are late answers dropped, does a wait end? | terminal: 2 demands, 2 resolutions at the start and 1 more approval, 3 lookup numbers; page: 1 demand to approve, 4 operations of which 2 are under way at a time; 2 approval times, given in either order; lists of up to 2 of the 3 rows; other processes decide at any moment | `CandidatesClearNoReview`, `OnlyWhatWasShownIsRevoked`, `DecisionIsVisible`, `WaitEnds` |

Why the bounds are enough. A conflict in the store is between two
transactions: one that holds a snapshot and one that commits meanwhile; a
third process only repeats the role of the second. One demand suffices for
conflicts; that nothing happens across demands is proved, for any number of
them (section 4). In the cache, a session
and a prune conflict over one key; a set needs two keys to be partly changed.
In a run, a line can spoil the total of another, and two providers give every
relation between two plans; each further line or provider is compared with the
same operators. The clock and the number of lookups are bounded by `MaxTime`
and `MaxLookups`; money by `MaxMoney`, small enough for two plans to overflow.

On the page a revocation of another record than the previewed one needs four
operations, two of them at once: select a record, preview it, select another
while the preview is under way, confirm. In the terminal a late candidate needs
a lookup, its being abandoned, and another lookup: three sequence numbers. An
approval beyond the two at the start supersedes one of them, and a revocation
needs one record only. The functions of `algorithms` compare a value with one
limit at a time; the inputs lie on, below and above each limit, and in pairs
wherever two limits meet.

A client remembers only a key index and a token between calls, so a second call
shows what the first left behind; three attempts have two delays, the first and
a doubled one, and the three keys are left one by one.

In `interactive` an approval of demand 2 with the earlier of the two times, in a
list that includes inactive rows, comes third and is cut off by the limit of 2: the
second alternative of `Reflects`, the announcement of a decision with no row in
the list, is reached in the terminal and on the page. One more approval is
enough for another process to decide between a preview, its application, the
reading of the rows and their showing.

Deadlock is checked everywhere except in `sourcing` and `algorithms`, whose run
or call ends, in `provider_clients`, which stops after `MaxCalls`, and in
`interactive`, where a person may quit and the page stops after `MaxStarted`.

What the optimizer's properties do not say. They assume price lists whose
prices fall with the quantity; the second part of `NothingCheaperIsPassedOver`,
about mixes, further assumes a remainder
without minimum or multiple and with enough stock, and a bulk family sold in
the multiple it is mixed by. TLC shows cheaper mixes exist outside these
assumptions: the quantities tried are a heuristic there.

Fairness is assumed for three properties. For `EveryCallReturns`: weak fairness of
each call's own steps, because a goroutine that can go on is scheduled, and
strong fairness of `Begin`, because `database/sql` hands a freed connection to
one of the waiting requests, chosen at random, so that none is passed over for
ever. For `RetriedOpenSucceeds`: weak fairness of the steps of an `Open`; that
its caller tries again is a premise of the property, not of the specification.
For `WaitEnds`: weak fairness of `LookupEnds`, because a lookup runs under a
deadline of two minutes and the program's loop reads every message, and of
`ApplyRevoke`, `ReadRows` and `ShowRows`, because `Update` does not stop between
its calls; a person
who never presses a key again is allowed.
No fairness of the environment (calls, crashes, clock) is assumed.

## 4. Proofs

`ResolutionsStoreProofs` proves, for any finite or infinite sets of clients,
processes, demands and requests and any bound of the clock, from
`StoreAssumption` alone:

* `TypeCorrect`: `Spec => []TypeOK`;
* `AtMostOneActive`, `AuditIsExact`, `SuccessorIsNext`: the three state
  invariants `OneActivePerDemand`, `AuditExplainsRecords`,
  `SupersededBySuccessor`;
* `DecisionsStayFinal`, `RevocationIsOfThePreview`: the two action properties;
* `AcknowledgedIsKept`: `AcknowledgedDecisionsStand`;
* `Refinement`: `Spec => Registry!Spec`;
* `OneProcessIsNeverBusy`: `NoBusyWithinOneProcess`.

The argument. None of the invariants is inductive: a commit replaces the
tables by what a transaction computed earlier, from a snapshot that may be
old. The inductive invariant `IInv` adds what makes that safe:

* `PoolInv`: a call that is past `Begin` owns its handle's connection, so two
  calls of one process are never inside a transaction at once;
* `WriterInv`: a call that has written holds the write lock, alone;
* `CallInv`: what each position of a call says about its arguments;
* `SnapshotInv`: while the version of a snapshot is current, it equals the
  committed tables; and this holds of the holder of the lock until it commits,
  because nobody else can commit meanwhile;
* `OneActivePerDemand` and `WrittenInv`: the tables explain each other, and so
  do those a writer is about to commit.

`Invariance` shows `Init => IInv` and that every action preserves it, one step
per action; the theorems above follow. `TypeOK` and the others were checked by
TLC first. For `AcknowledgedIsKept` the invariant also speaks of the time
between commit and answer (`AckInv`): what a caller has committed and not yet
reported is as firm as what it has reported, and of two requests with the same
id only one finds the record absent when it commits.

`StoreOpenProofs` proves, for any processes, any length of the schema and any
number of failures, from `OpenAssumption`: `TypeCorrect`, `OpenIsWhole`
(`OpenStoreIsWhole`), `LosersFindWork` (`LoserFindsTheWinnersWork`) and
`SchemaStays` (`SchemaIsKept`). The inductive invariant adds to the types what
each place of `Open` relies on (`PlaceInv`): from the first CREATE to the commit
the process holds the lock and the database is still empty; a process that has
read version 0 finds the database empty or whole, never anything else. The
steps are of three kinds, refusals, moves and steps of the lock's holder, with
one lemma each.

`InterfacesProofs` proves, for any demands, limits of the lists, number of
records, lookups and operations under way, and whatever other processes do to
the store, from `InterfacesAssumption`:

* `CandidatesAreOfTheQuestion` (`CandidatesClearNoReview`). No lookup under way
  has a number above the current one, and while the screen waits, the lookup
  with the current number is of the last question, because a number is used once
  and passed over when its lookup is abandoned (`SequenceInv`).
* `OnlyTheShownIsRevoked` (`OnlyWhatWasShownIsRevoked`). Every row of the
  terminal's list has its record's demand and stamp, whatever happened to the
  record since (`Named`); the form of a revocation is of an active row, and between the two
  calls of a revocation nothing but the store changes (`RevokeInv`). On the page
  the handler's own comparison of token and id is enough, whichever operations
  are under way.
* `DecisionsAreShown` (`DecisionIsVisible`). An operation whose request was
  served knows that its decision was made, and an operation that ends with a
  list knows in addition that the list was read after it (`TaskInv`). In the
  terminal the same is known of the message that a reload will end with: before
  the rows are read, that its decision was made; after, that the rows show it
  (`ReloadInv`). Both stay
  true beside every other operation and process because no decision is ever
  rewritten, only superseded or revoked (`Later`). What a list reflects
  of a record (`ListSays`, and `ReflectedStays`) rests on the existence of an
  ordered sequence of the rows (`OrderExists`), from a counterexample of least
  cardinality. The stamps may be any naturals in any order; what is needed of them
  is that two records of a demand never share one (`Table`), as two ids of the
  store never do.
* `ChangesAreDecisions` (`EachChangeIsOneDecision`). That no demand has two
  resolutions in force (`OnePerDemand`) is part of the inductive invariant: it
  is what makes an approval supersede at most one, and so a step of the
  register. What a call leaves in force is stated once for each
  (`ApprovalDecides`, `RevocationDecides`), and each interface is shown to change
  the store by such a call only (`TerminalDecides`, `PageDecides`).

`ProviderClientsProofs` proves, for each kind of client, any number of attempts,
keys, pages and calls, any token lifetime and any clock, from
`ClientsAssumption`: `ClientsAreBounded` (`RequestsAreBounded`),
`ClientsDoNotGiveUpEarly` (`NoEarlyGiveUp`), `ClientsObeyTheDeadline`
(`DeadlineEndsTheCall`), `ClientsPresentGoodTokens` (`PresentedTokenIsGood`),
`ClientsLeaveSpentKeys` (`SpentKeyIsLeft`), and `DelayIsLimited`. The bounds on
requests are statements about the end of a call; the invariant says at every
place how many requests lie behind (`SentBefore`: the attempts, plus the keys
left, the pages read or the renewed token, none of which counts as an attempt;
`TokenSentInv`: a token's requests per request). A token is good because the
client's own token is never among those that were refused (`TokenInv`) and
because the client forgets it before the distributor does (`AliveInv`), which
needs that a request for a token takes no longer than the margin
(`HttpTimeout <= Margin`: 30 s, with a margin of 30 s at DigiKey and 60 s at TI). That the doubled delay
stays below its limit is a statement about an iterated function, and the reason
for `Iterates` in `NaturalsLemmas`.

`LookupCacheProofs` proves, for any commands, keys and answers and every
lifetime, from `CacheAssumption`: `CacheIsNotPoisoned` (`PutNeverPoisons`),
`CacheServesSoundAnswers` (`CachedAnswersAreSoundAndFresh`),
`CacheCountersAddUp` (`CountersAccountForLookups`) and `PruneKeepsItsWord`
(`PrunesWhatWasPreviewed`). The invariant says that an entry lives for the
lifetime from when it was fetched and is sound unless damaged (`EntriesInv`), at
which places a lookup can be under its policy (`SessionInv`), what the counters
are short of in the middle of a lookup (`CountsInv`), and that a prune which can
still delete holds what its caller was shown, nothing having changed since
(`PruneInv`).

`SourcingProofs` proves, for any number of lines and providers and whatever they
answer, from `SourcingAssumption`: `PricedIsSafe` (`PricedPartsAreSafe`),
`ChosenIsCheapest` (`ChosenPlanIsCheapest`) and `ResultIsReliable`
(`ResultAddsUp`). A part never changes after it is appended, so the invariant
says of each that it was well chosen (`PartsInv`), and the work is in the
operators that choose it: what `MultiPart` keeps is a minimum of the safe plans
that can be compared. Of the loop it says that the counts know whether every
line is priced (`CountsInv`), that an unmarked total is in one currency
(`CurrencyInv`), and that it is the sum so far unless an error is counted
(`TotalInv`); together they make an "ok" at the end mean a complete sum.

`AlgorithmsProofs` proves of every question put to the pure functions, from
`OptimizerAssumption` and `AlgorithmsAssumption`:

* `PlansAreOrderable` and `NoOrderIsPassedOver` of the purchase optimizer. The
  code tries a handful of quantities; the properties are about all. Of one
  family it is enough to try the least quantity that can be ordered at each
  price break. Of a mix, the price of bulk and remainder is linear in the
  quantity between two breaks, so it is least at an end, and the ends are
  among the quantities tried. The proof does not need the further quantities
  around the requirement that the code tries too.
* `ConversionsAreNearest`: the converted amount is the nearest decimal, and the
  even one of two.
* `OnlyTheSafeIsPriced` (`PricedOnlyWhenSafe`), `UnknownStockIsSaid`
  (`UnknownIsNotShortage`) and `NoBetterOfferIsPassedOver`
  (`NothingBetterIsPassedOver`) of the resolvers, adapter by adapter. A status
  is the end of a chain of tests, so the first that holds decides it; and of
  finitely many candidates one is first by any number of criteria, and beats
  every other by the first criterion on which they differ.
* `PricesAreRead` (`PriceIsNeverMisread`): a price that is read is one of the
  readings of its text, the only one unless the text is a lone dot; a scaled
  number is exact or refused. The marks of a text are finitely many, so there is
  a last one, and what is read is the number of digits behind it; the cases of
  `normalize` leave two readings only where the property allows them.
* `RequirementsAreExact` (`RequiredQuantityIsExact`). The code adds up the lines
  in their order, the property over a set of lines: by the lemma `AnyOrder` any
  member of a finite set may be summed last, so the two agree after every line
  (`Accounted`). Each guard of `scaledQuantity` is what keeps the next operation
  below the largest int, and the quotient rounded up is the least cover.
* `ReplacementsAreSafe` (`RecommendedIsSafeAndCheapest`) and `SilenceIsJustified`
  (`SilenceHasAReason`). The comparator is not transitive, so the sort is not
  said to sort. What survives every insertion is less (`Ranked`): whatever stands
  before a result that may be recommended may be recommended too and is no
  dearer, provided those share a currency (`InsertedRanks`); and the recommended
  one is the first. That the comparison of fields is what "at least as good in
  all it states" means is `CompatibleMeans`, and the keys of a valid request
  are told apart by counting them (`KeysDiffer`).

The invariant, `AnswersInv`, says that an answer that is there is right, and
that the question is one of those asked. `NaturalsLemmas` stands in for
induction, whose theorems take an operator and cannot be used: a statement that
fails for some natural number fails for a least one, and the function defined by
a recursion over the naturals, or over the places of a sequence, exists. The
folds of the community modules are such recursions over the subsets of a set.

What the proofs assume of the constants, besides their types. `None` and `Nil`
are no token, entry, plan, offer or demand. Demands are numbers in the order of
their keys, and a list is asked for with a limit of at least 1
(`internal/resolutions/store.go:299`). There is at least one line
(`internal/design/load.go:140`), one attempt, key and page. Amounts to convert
are not negative (`internal/fx/table.go:98`), and the rates a run converts by
are positive (`internal/fx/table.go:60`); the document they are read from may
hold a zero or what does not parse. An outcome of a lookup is as `IsOutcome` of
`Alternatives` says, and the numbers of a design document are any integers; the
validation is in the model. Families of one optimizer call have distinct
numbers. A demand is of at least 1. Reported stock and limits are not negative
where the adapter makes them so or refuses others
(`internal/provider/mouser/resolver.go:365`,
`internal/provider/farnell/resolver.go:300`,
`internal/provider/ti/client.go:472`,
`internal/provider/microchip/client.go:213`); DigiKey's numbers may be any
integers, as only the check of a pricing option looks at them.

Only model-checked:

* `EveryCallReturns`, `RetriedOpenSucceeds`, `WaitEnds`: liveness under
  fairness, which the prover does not reach.

## 5. Where code and documents disagree

* `store_stale_preview`: `Revoke` looks at the status before the token, so a
  resolution that another process retired between preview and apply is refused
  as "not active" (kind `input`, HTTP 400), not as the stale preview (HTTP 409)
  that `internal/tui/model.go` and `LOGBOOK.md` describe. Nothing wrong is
  revoked; the answer differs.
* `store_contention`: the busy timeout does not apply to a transaction that
  reads before it writes, so two processes that decide at once may see one
  refused immediately. Nothing is lost.
* `cache_poison`: an entry that does not decode fails lookups also after its
  expiry; the comment in `Put` says "until expiry or prune".
* `sourcing_counts`: a priced line that cannot be converted or added counts as
  priced and as a provider error, so the counts exceed the line count.

## 6. Not modelled

Formatting, JSON, flags and help, HTML, file permissions, HTTP transport, and
reading of files: no property here is about them. Power failure (as opposed
to death of a process) is outside the store's model: with
`synchronous(NORMAL)` SQLite may then lose the last commits. `List`, `History`,
`Verify` and the status commands only read.

* Registry, discovery and health of providers: tables of names, and probes over
  the network; which providers a run asks is a constant of `Sourcing`.
* Documents: links are filtered, and a data sheet is fetched over the network
  into a temporary file that is then installed under its name, unless something
  has that name already; no state outlives the command but that file.
* Configuration, contracts, schemas: data types and an environment file.
* The import of other tools' parts lists (`internal/bom/ecbom.go`): a
  translation of fields.
* Of the page: the lookup form, which fills the approve form as the terminal's
  does, the history of a record, and the token that guards the server.
* The comparisons of text in the resolvers (aliases of makers, prefixes of part
  numbers) are reduced to their verdicts. An answer of one distributor is taken
  to be in one currency; with several, the order of candidates in the code
  would not be transitive, and the first of the sorted ones depends on the
  order of the answer.
* After a committed decision the `resolution` commands read the store's status,
  and report an error if that fails. The terminal and the page do the same with
  their lists, and that is modelled (`CallFails`, `FailureArrives`).

## 7. Plan

1. (done) the resolution store with its abstract specification and proofs; the
   lookup cache; sourcing; the purchase optimizer; opening and migration of the
   databases, with proofs; the provider clients; the resolvers, alternatives,
   money and aggregation as functions; the two interfaces over the store.
2. (done) proofs of every invariant and action property of the passing runs:
   `ResolutionsStore` with its refinement, `StoreOpen`, `LookupCache`, `Sourcing`,
   `ProviderClients`, the two interfaces, and the pure functions of `Algorithms`.
3. (done) that the interfaces change the store by steps of `ResolutionsRegistry`
   only.
