# TWSE stock crawler: a verification development

This directory holds TLA+ models of the stock crawler and research program, the
TLC configurations that check them on small instances, and TLAPS proofs of the
properties that hold for every value of the constants. Paths of source files
are relative to `src/`; `research_job.py` and the like are under
`infrastructure/` or `application/` as the inventory says.

Contents

1. The system: its parts, their state, how they interact
2. Modules, and how they correspond to the code
3. The research archive (`ResearchJob`, `DayLedger`)
4. The bounded refresh of filings (`MopsRefresh`)
5. The filing store (`FilingStore`)
6. The evidence store (`EvidenceStore`, `ObjectLedger`)
7. A run and the daily collection (`DailyRun`, `DailyCollection`)
8. The portfolio (`PortfolioAllocation`, `PortfolioSeries`, `SessionLedger`)
9. The pool of a run (`DailyExecutor`)
10. Runs and bounds
11. What is proved, and how
12. What only TLC checks
13. Disagreements with the code's own claims
14. What is not modelled, and why
15. Plan
16. How to run

## 1. The system

The program collects prices, institutional flows and company filings of the two
Taiwanese markets (TWSE, TPEX), scores every stock for a trading day, keeps a
small model portfolio, publishes a report, and can replay the whole of it for
past days from pinned data. It is a set of command lines over local files and
SQLite databases; there is no server. What runs concurrently are separate
processes on one root directory, the two market lanes and the evaluation workers
inside a daily run, and the outside world: MOPS (the disclosure site), the
exchanges, the user who kills and restarts things, and whoever updates the source
tree while something runs.

```
 CLI ── ProcessRunLock ── daily run ─┬─ MOPS refresh ── HTTP client ── filing store (SQLite)
                                     ├─ exchange crawlers ── market history cache (SQLite)
                                     ├─ pool of workers: derivation, valuation, strategies
                                     ├─ portfolio allocation v2 ── portfolio persistence
                                     └─ report publication ── evidence graph (SQLite, replaced)
 collection CLI ── collector lock ── child: a daily run in a fresh directory ── sealed session
 research CLI ── research job archive ── replay engine + session ── state.sqlite3, days/*
```

| Part | State it keeps | Operations | What is hard | What makes it correct |
|---|---|---|---|---|
| Research job archive (`infrastructure/research_job.py`, `research_archive.py`, `storage/research_state.py`, `storage/replay_state.py`) | `base.json`, `job.json`, `days/DAY/*.json`, object store, `state.sqlite3`; in memory `pending`, `head`, `latest` | open under a lock, import a predecessor, `run_day`, `_recover`, `export_bundle` | six writes per day, a kill or an exception between any two, retries, a lost index, a source that changes while the job is open | receipts only over complete evidence; one unbroken chain; an answer given stays; a started day can be finished |
| MOPS bounded refresh (`infrastructure/runtime/fundamental_refresh.py`, `application/mops_refresh_control.py`, `fundamental_service.py`, `filing_catalog_refresh.py`, `filing_ingestion.py`, `filing_refresh_planner.py`) | attempt marks and lane turn, catalog cache, filings; per run the budget, circuit and correction cache | schedule, load an issuer in one transaction, discover, announce, scan corrections, download, acknowledge | a request budget spent by retries, guard pages, cooldowns that must survive kills, partial loads, corrections that appear meanwhile | the policy is kept; nobody is contacted while cooling; acknowledgements never outrun downloads; every issuer gets its turn |
| MOPS HTTP client (`infrastructure/fundamentals/mops_client.py`) | none beyond one request | hosts, rounds, guard-page detection, repeated catalog pages | which attempts are counted | each attempt passes `before_request` |
| MOPS filing store (`infrastructure/fundamentals/mops_repository.py`, `mops_commands.py`, `mops_queries.py`, `mops_schema.py`) | filings with revisions, facts, snapshots, catalog, attempts, raw folder | `save_revision`, `find_by_hash`, confirmation of old rows, bundles by key, point-in-time reads, unit of work | snapshots that outlive versions, revisions and raw files; corrections there and back, several in a day, or during a load; raw files outside the transaction | one row per document, revisions in order, no hindsight; an answer is what the installed code derives from what is visible |
| Evidence graph and local workspace (`infrastructure/storage/local_workspace.py`, `evidence_graph.py`, `report_evidence.py`) | the published SQLite file of immutable nodes, a writer lock, private work copies, extracted node files; per reader a connection and a cache | seed a copy, retain nodes, verify, replace atomically, or write in place; resolve a reference | bounded lock wait, a program that ignores the lock, a journal found by its path, a reader across a replacement, kills at every step | nodes only grow; a returned reference is always served; a cache never hides another file |
| Report publication (`infrastructure/storage/csv_repository.py`, `daily_candidate_archive.py`, `leadership_watch_repository.py`) | evidence, history, CSV, bundle, candidate snapshot | published one after the other | failure or a new source version between two of them | what is left refers to stored evidence and is never ahead of what it rests on |
| Daily collection (`interface/daily_oos_collection.py`) | identity, universe, retained runtime, one attempt directory, sealed sessions, a collector lock | bind, admit, start the run as a child, accept its outputs, seal | orphaned children, clocks read early, changed and restored source, litter of a kill | one version and one universe for ever; one evaluation per day; nothing dropped silently |
| Process run lock (`infrastructure/run_lock.py`) | one advisory lock | taken around a run | a collection and an ordinary run at once | one run at a time |
| Daily orchestration (`infrastructure/daily_threaded.py`, `daily_parallel.py`, `application/daily_work.py`) | packets in flight, results, pool | read ahead, submit, collect, cancel, shut down | byte limit with read-ahead, any order of completion, failures, interrupts, edits | no loss, no overrun, always an end, nothing left running |
| Portfolio allocation v2 (`domain/strategies/portfolio_allocation_v2*.py`) | none: a decision over weights and evaluations | enter, hold, exit, replace a holding by a better one | caps, the order of exit and entry, seats at their limit | seats, cash and caps kept; exits always carried |
| Portfolio persistence (`application/portfolio_allocation_v2.py`, `infrastructure/storage/portfolio_persistence.py`, `research_portfolio.py`) | observations of every pair in every session; sealed sessions | record, load recent, decide; seal a session | reruns, backfills, revised data, kills between two transactions | a rotation is earned in different sessions; a sealed answer stays |
| Work snapshot retention (`infrastructure/snapshot_retention.py`) | content-addressed bytes, reference counts, spool | retain, open, release, nested scopes | one step of several failing, limits in memory and on disk | what is referenced is readable; limits hold |
| Daily research v1 (`infrastructure/daily_research.py`) | one attempt and receipt per day | write once | superseded by the archive | as the archive, without recovery |
| Market history cache (`infrastructure/storage/market_history_cache.py`) | complete days | upsert a day, read a range | half a day present, a provisional day | a day is read whole or not at all |
| Replay engine and caches (`application/replay_service.py`, `replay_cache.py`) | bounded LRU maps | evaluate a request strictly from pinned inputs | stale cache entries | same request, same result |
| Low entry strategies, exit strategies, valuation and derivation, XBRL parsing, technical indicators | none | pure numeric functions and parsers | numerics | the repository's numeric tests |
| LES v7 training, crawlers, calendar, rendering, integration with the trading front end, command lines, examples | files written once, none, or wiring | batch tools | see section 14 | see section 14 |

The interactions that carry state are these. A daily run takes the run lock,
refreshes filings within the policy, evaluates the stocks in a pool of workers
that all compare the source tree with the version the run pinned, decides the
portfolio over the observations of earlier sessions, and publishes into a data
directory whose evidence store outlives it. A collection starts such a run as a
child in a directory of its own and seals what it finds there. The archive is
separate: it calls the strict replay engine inside the session of its own SQLite
index, and publishes the row that the session committed. The filing store is
shared by the refresh (which writes it in one transaction per issuer) and by
every reader of fundamentals.

`PROJECT.json` lists all 27 components with their sources and status, and under
`hazards` the forty places where this code can go wrong in a way a unit test
hardly reaches, with the properties that watch them.

## 2. Modules, and how they correspond to the code

| Module | What it is |
|---|---|
| `ResearchJob` | the research archive: one process at a time, killed and restarted, over write-once files and a rebuildable index |
| `DayLedger` | what the archive promises to somebody who only sees its receipts: an append-only ledger of days. `ResearchJob` implements it (`ImplementsLedger`) |
| `MopsRefresh` | the bounded refresh of filings: policy, circuit, lanes, cooldowns, one transaction per issuer, catalogs, corrections, downloads |
| `FilingStore` | the revisions, dates, notices, raw files and derived snapshots of one issuer, and what callers are told |
| `EvidenceStore` | writers, readers and foreign programs on one evidence database that is edited in place or replaced |
| `ObjectLedger` | what the evidence store promises: an append-only set of objects that hands references out only for what it holds. `EvidenceStore` implements it (`AppendOnly`) |
| `DailyRun` | one analysis run: run lock, stages, version checkpoints, publication |
| `DailyCollection` | the forward collection; extends `DailyRun`, whose runs it starts as children. The evidence store of a directory is used as the ledger `EvidenceStore` was shown to implement |
| `PortfolioAllocation` | the decision of the allocation engine over one request: operators, no state |
| `PortfolioSeries` | a portfolio decided session after session over a store of observations; extends `PortfolioAllocation` |
| `SessionLedger` | what a store of sealed sessions promises. The research portfolio store implements it (`SealedForGood`) |
| `DailyExecutor` | the bounded pool of threads or processes that computes the stocks of a run |
| `MC...` | the small values TLC needs for each of them |
| `ResearchJobProofs`, `MopsRefreshProofs`, `EvidenceStoreProofs`, `DailyCollectionProofs`, `PortfolioSeriesProofs`, `FilingStoreProofs`, `DailyExecutorProofs` | theorems |
| `SumTheorems` | lemmas about sums over finite sets, for the pool and the portfolio |

The composition follows the program: `DailyCollection` composes collectors with the
runs of `DailyRun` over the same clock, tree and run lock; `PortfolioSeries` composes
the pure engine with its stores. The archive and the refresh share no state with
them: the archive works from a pinned dataset and never contacts MOPS, and a run
only reads what the refresh has committed before it. `MopsRefresh` and `FilingStore` are two
views of `FundamentalService.load`: the first follows the network and its budget over several
issuers and keeps of a filing only its version; the second takes the network's outcomes as they
come and keeps everything that is stored.

`PROJECT.json`, under `map`, gives the source lines of every definition that models
code. Definitions whose comment begins with *Mutant:* are deliberate mistakes,
used by nothing: they are the plausible bugs (a dropped guard, a swapped order, a
missing reset) that each property was seen to detect.

## 3. The research archive

### State

| Model | Code |
|---|---|
| `base`, `manifest` | `base.json`, `job.json` |
| `folder[d]` | `days/DAY`: whether the directory is made, and its `request`, `intent`, `delta`, `receipt` (`complete.json`) |
| `index` | `state.sqlite3`: absent, clean, or with a hot journal; its session rows |
| `objects` | the content-addressed store |
| `pc` | where the process is in `run_day`, `_recover` or `export_bundle`; `"down"` when no process holds the lock |
| `pending`, `head`, `latest`, `template`, `recovered` | the attributes of `ResearchJob` |
| `call`, `previous`, `pin`, `drifted` | the arguments and locals of the call; the version pinned at opening, and whether the source has changed since |
| `budget` | how many faults, source changes and index losses a behaviour may still have |
| `acked`, `exported` | history: receipts returned, chains exported |

`run_day` is cut at every point where a kill or an exception leaves a different
disk or a different memory; each cut is a value of `pc`, and the action at that
`pc` is the code up to the next cut. `Crash` may happen at any point of
`CrashPoints` and forgets the memory; `Raise` may happen at any point of
`RaisePoints` and leaves the job object as it is, which is what makes it the more
dangerous of the two. A call that the code refuses before `_recover` changes
nothing and is not a step.

### Abstractions

- A digest is the value it digests (SHA-256 is injective here). The chain of
  state identifiers is the sequence of rows they commit to, so comparing two
  identifiers is comparing two histories.
- The engine is a function of the request: a result is named by the request it
  was computed from, together with the result hash of its predecessor.
- A session row stands for itself and its observations, which the same
  transaction inserts.
- A second opener is refused by `flock` and has no effect, so there is one
  process. An opener on another host is outside the model, as `flock` is
  outside its guarantee there.
- Disk writes that were made survive: power loss, and the durability of a
  directory entry, are not modelled. A kill inside the SQLite commit leaves
  either a clean index or a hot journal.

### What the caller does

`Spec` allows any sequence of calls. `ResumeSpec` adds the one thing liveness
needs: the caller asks for the earliest day without a receipt until it has one.
This is an assumption about the caller, and a real one. The job command takes a
whole array of requests; running the same array again after two or more days
are complete does not resume, because the first element is then older than
`latest` and is refused with `REPLAY_OUT_OF_ORDER`. Somebody has to start the array
at the first incomplete day. Fairness is weak, on the steps of the process, on opening
and on that retry; faults are never fair, and their number is bounded.

### Properties

| Property | What it says | Why it could fail |
|---|---|---|
| `TypeOK` | types | |
| `ReceiptLast` | a receipt exists only over its request, intent, delta and objects, and agrees with them | the five are written at different times, across kills and retries |
| `ChainUnbroken` | the deltas form one chain in day order | the predecessor comes from memory (`head`), or from an old intent |
| `CopiesFollowChain` | the index is the chain, or one announced commit ahead of it (`IndexFollowsChain`); between calls with nothing pending, `head` and `latest` are those of the completed chain (`MemoryAgreesWithDisk`) | the commit precedes its publication; a completed day is also returned without being run |
| `OnlyKnownDamage` | `_recover` fails for four kinds of damage only: a day directory without request (`Headless`), a day skipped by a later one (`Skipped`), a day the imported base already holds (`Reimported`), a hot journal | everything else that a fault can leave behind |
| `AckedIsDurable` | what was returned for a request stays, and certifies that request | retries with other inputs for the same day |
| `OneIdentity` | one archive holds one replay identity and source version | the identity is compared at three different places |
| `Immutable` | no artifact is replaced or removed | retries write again |
| `ImplementsLedger` | the archive implements `DayLedger`; an exported bundle is one of its copies, a prefix of the completed chain for ever | all of the above together; export while a day is pending |
| `StartedDayCompletes` | a started day gets its receipt if faults stop and the caller resumes | the committed row has to be taken as the answer of its day |

Two exclusions are made openly, and each is the subject of a run of its own that
shows what happens without it. `RaisePoints` leaves out the point `"mark"` (an
exception between the link of `intent.json` and `self.pending = cutoff`): with it
`ChainUnbroken` does not hold, because the intent stays on disk while the open
job goes on to another day, and is taken up again, stale, afterwards.
`ResearchJob_v_skipped.cfg` shows the first half of that. `MendableCrash` and
`MendableRaise` leave out `"request"`, and the former `"commit"` too, from the
liveness run: after these, recovery fails for good (`job_v_reopen`).

The refinement maps `promised` to the request files, `ledger` to the chain of the
last receipt and `told` to the requests of the receipts returned. Everything else
(opening, recovery, commits, deltas, kills, lost indexes) is a stutter of the
ledger.

## 4. The bounded refresh of filings

### State

| Model | Code |
|---|---|
| `site`, `months` | the version of every document on MOPS; months gone by |
| `marks`, `cooling`, `turn` | the table `remote_refresh_attempts`: its keys in the order of their times, those marked less than `cooldown_seconds` ago, and the lane turn kept under its own key |
| `catalogs`, `filings` | the catalog cache and the latest revision of every filing, as committed |
| `ctl` | `MopsRefreshControl`: issuers started, requests spent, streak of guard pages, circuit, schedule, lanes |
| `queue`, `infra` | the issuers the run still has to process; consecutive infrastructure failures |
| `seen`, `loaded` | the correction notices read in this run, and for which periods |
| `cur`, `cat`, `fil` | the issuer being loaded, and its rows inside the open transaction |
| `left`, `batch`, `held` | periods still to scan or announce, filings to fetch, a document downloaded and not yet saved |
| `tries`, `empties`, `err`, `faults` | attempts of the current request, empty catalog pages in a row, the error being handled, the faults so far |

A run is: `BeginRun`; the market-wide revision scan (`ReviseReply`); the preload and
schedule (`ScheduleBatch`, or one of its failures); then the issuers one after
the other, each passed over or loaded. A load is `Start`, then discovery,
announcements, correction scan, plan, downloads, and an end: `FinishLoad`,
`FailLoad` (the handler of `DataSourceError`, which commits what was done and the
attempt), or a rollback. Every HTTP attempt is an action of its own, passes
`MayAsk` (`before_request`) and is counted. `Kill` may come before any of them.

### Abstractions

- Time matters through cooldowns and months only, and cooldowns all last equally
  long: marks are an ordered sequence, and the oldest is the first to cool off.
- A run works at one signal time, so a month ends between runs.
- A document is its version; a correction notice carries the version it
  announces. The code compares announcement *days*, so it cannot tell two
  corrections of one day apart: `FilingStore` has days, and shows what follows.
- An issuer without a catalog row has the empty, stale catalog: the code treats
  the two alike.
- One announcement request stands for one missing filing, where the code makes
  one per year with a missing filing. The history window is all of `Periods`.
- `STARTED` is never seen in a committed row: it is written and overwritten in
  one transaction. If the transaction rolls back, the mark of the site that was
  written in it is lost with the rest; the run's own circuit stays open.
- One process. The store is shared with other processes in the program; their
  writes are serialised by SQLite's transactions (section 5).

### Constants that shape an instance

`Watched` are the issuers the research screen gives priority to. `Blank` issuers
never get a usable catalog page; `Unwritable` issuers have a raw folder that cannot
be written. `Eventful` issuers are those whose documents change. `QuietPoints` are
the values of `pc` at which no correction is published: `{"correct"}` in the passing
runs, that is, nothing appears between the download of a document and the look-up
of its notice, two requests apart. `MopsRefresh_v_race.cfg` and `refresh_v_diverges` have no such restriction and
show what happens. `FaultKinds` and `MaxFaults` say what may go wrong and how often.

### Properties

| Property | What it says | Why it could fail |
|---|---|---|
| `TypeOK` | types, and that `cur` is set exactly while a load is open | |
| `WithinPolicy` | a run never exceeds its requests and issuers | host failover, rounds, repeated pages and extra look-ups all spend one budget |
| `NoContactWhileCooling` | no attempt while the site or the issuer at hand is cooling | the site's mark is read once per run; the issuer's is written in a transaction that may roll back |
| `AnsweredMeansStored` | an answered notice has its document, if no correction appears between a download and the look-up of its notice (`QuietPoints`) | a monthly discovery replaces the catalog row, whose notices and acknowledgements stand in different rows, and any step may fail |
| `WorkIsKept` | stored versions and answers never go back (`WorkEndures`), and a load that ends without a storage error or a kill keeps what it did (`LoadsKeepTheirWork`) | discovery replaces the catalog row; the handler commits work and negative mark together |
| `Converges` | every issuer the site can serve and the disk can hold ends up current | one issuer that never succeeds heads every batch |

### Fairness

`FairSpec` assumes weak fairness of the steps of a run (runs are started day after
day and proceed while nothing stops them), weak fairness of the passing of a
cooldown, and strong fairness of the end of a month. The last is strong because a month can
end only between runs, and runs come and go. Faults are never
fair, and documents change a bounded number of times: a site that changes for
ever can never be caught up with.

## 5. The filing store

`FilingStore` looks at one issuer's filings from the other side: not which of them
a run gets to, which is `MopsRefresh`'s subject, but what is kept of them, when each
became known, and what a caller is told of them now and later.

### State

| Model | Code |
|---|---|
| `now`, `hist` | the clock in ticks, several to a day; what the site published of each period, and when |
| `db` | the committed database: `rows` (the table `filings`), `snaps` (`fundamental_snapshots` by their key), `active` (the active pointer of `refresh_state`), `corr` and `ver` (the latest notices of the catalog, known and verified) |
| `work` | the open transaction of a load |
| `originals`, `lost` | the raw files that can be read; history: those that could not at some time |
| `version` | `FUNDAMENTAL_DERIVATION_VERSION` of the installed code |
| `began`, `signal`, `reuse`, `batch`, `cur`, `asked`, `held` | the locals of `load`, `ingest` and `download`: `fallback_available_at`, `effective_signal`, `local_reuse`, what is still to be fetched, the document in hand with the clock read before its request |
| `seen` | the client's notices read in this run |
| `answer` | the bundle a caller was just given, with its cutoff |

A load is `Begin` (the local bundle, then the notices), for each document `Request`,
`Response`, and `Verify` or `LookUp` and `SaveRevision`, and `Finish` or `RemoteFails`; or
`LoadLocally`, when nothing is due. `Historical` and `Preload` are the two ways to read
without loading. Between any two steps the site may publish or correct, the clock may go on, an
original may get lost or be found again, and the load may be killed (`Abort`), with or
without the raw file it had just written.

### Abstractions

- One issuer, one sector and one statement scope. The version of the filing schema is part
  of `version`. A correction's description, which the code also hashes, is left out of a selection.
- The amounts of a derivation are a function of the documents in force and of the
  originals that could be read; a file that changed on disk counts as lost.
- `Preload` checks the selection, the version and pending corrections; the other reasons
  of `_preload_reasons` can only refuse, and sending a reader to `load` is always allowed.
- One process. SQLite keeps a second writer from reading rows it does not then write
  on: a load reads before it writes in one transaction, so of two that overlap one fails
  and is an `Abort`; and the table has a unique key over period and content.

### Properties

| Property | What it says | Why it could fail |
|---|---|---|
| `TypeOK` | types, and that no two revisions of a period share a number or a content | numbers begin at 2 for a document first seen after its correction; corrections go back to earlier documents |
| `NoHindsight` | once a cutoff has gone by, no load that starts later adds a filing to it or changes one there, but that a row of before provenance moves to the time of its observation | rows are dated by a clock read before a request, notices by days, confirmed rows are dated anew |
| `AnswerIsSound` | whatever was cached, reused or derived before, an answer is what the installed code derives from the filings of its cutoff; of a load or a preload, from the highest revision of every filing stored; amounts are missing only of a document whose original was unreadable once | snapshots outlive versions, revisions and lost files; a load keeps its first bundle in hand; `derive_fundamentals` orders by time, `latest_filing` by number |
| `OnlyKnownMisses` | a notice counts as answered without the document it announces for one of three reasons only | notices have days, documents have hashes, and the two are read at different times |

The three reasons of `OnlyKnownMisses` are in the code: a correction that brings back an earlier
document finds its row and stores nothing (`mops_commands.py:107`); the second of two
corrections of one day is not newer than the first (`filing_catalog_refresh.py:119`); and a
correction between the request of a document and the look at its notices passes for the
document in hand (`filing_ingestion.py:71`, finding 6). In each of them the stored filing stays
behind the site until another notice appears. `OnlyKnownMisses` excuses these three hazards by
definition; what it checks is that failures, kills, and the order of acknowledgement and document
add no fourth.

`AnswerIsSound` admits one thing a reader should know: a snapshot that was derived while
an original could not be read keeps its unknown amounts, also after the file is back, until
the set of filings or the version changes. `lost` in its last conjunct is a history of losses,
not the present state, for this reason.

## 6. The evidence store

### State

| Model | Code |
|---|---|
| `file[i]`, `current` | the content of every inode that still exists, and the inode the store's path names |
| `journal` | the `-journal` file beside the path: none, begun, or synced (hot, when its writer is gone), and the inode it belongs to |
| `lock` | the holder of `<store>.writer.lock` |
| `writer[x]` | the phase of a writer, what it still wants to retain, the references it made, its baseline stamp, its work copy or open transaction, its temporary file |
| `reader[r]` | the phase of a resolve, the inode seen by the first stat, the connection and the inode it was opened for, the cache, the nodes still to read |
| `dirty` | readers whose `data_version` has changed since they last looked |
| `acked` | history: the nodes of references that writers returned |

A writer is *in place* (the writer of a run without a workspace) or *staged* (with
`workspace_root`: `LocalSQLiteWorkspace` seeds a private copy, fills and verifies it,
copies it beside the store, compares the destination with its baseline once more
and replaces it). A node is its hash; a report is a root node with the nodes it
refers to. Portable nodes are those extracted as files in `<store>.nodes`.

Between two system calls whose order matters there is a cut: the stat before an
open and the stat after it, the comparison before the replacement and the
replacement, the change of a page and the synchronisation of the journal. `Kill`
may hit a writer anywhere; its lock goes, its files stay.

### The foreign program

The code documents that foreign writers must obey the lock too, and compares
stamps anyway. `ForeignEdit` therefore changes or replaces the file at any point
but one, the instant between the last comparison and `os.replace`, which no
comparison can cover; and `ForeignDies` leaves a journal behind. It respects SQLite's
own locks.

### Abstractions

- How a value is split into nodes, compressed and bounded is data.
- Inode numbers are reused as soon as nobody holds them, lowest first. A number is
  not reused while a reader is between the two stats of its open: an open that
  lasts two publications is outside the model.
- Nodes evicted from the cache are any set of the older ones.
- A hot journal makes a read-only connection fail until a writer opens the store.

### Properties

| Property | What it says | Why it could fail |
|---|---|---|
| `TypeOK` | types, and that only the lock's holder is past the wait for it | |
| `NeverMissing` | no resolve of a returned reference ends with `OBJECT_MISSING` | the reader keeps the inode it opened; the file is replaced before, while and after |
| `CacheNeverHides` | a resolve starts only with a cache that is intact in the very file the path named | the cache outlives a replacement, an external edit, an inode number |
| `OnlyForeignDamage` | no writer damages or loses an intact node | the rollback journal of one file is found beside another |
| `AppendOnly` | the store implements `ObjectLedger` | the work copy was seeded before somebody else's edit |
| `LockIsReleased` | whoever takes the lock gives it back | an exception while seeding, filling or publishing |

An exception ends in `close`, which gives the lock back (`Refuse`). When `close` cannot remove
the private directory it raises before its unlock (`CleanupFails`); the lock then goes with its
file object, when the exception has been handled (`DropLock`). No reference is returned,
also of a publication that was complete.

Fairness: a writer that is not killed proceeds or fails, and a caller does not keep the
exception of a failed `close` for ever; nothing is assumed of
readers and foreign programs.

## 7. A run and the daily collection

### State

| Model | Code |
|---|---|
| `code` | the source tree: its version and its file stamps, which change also when a version is restored |
| `today`, `runLock` | the clock; the holder of `stockdataanalysis.lock` |
| `run[p]` | the ordinary run and the child of a collection: phase, stage, directory, model, the stamps it pinned, its result number, and what it has seen (imported versions, day, universe) |
| `result[n]`, `files[d]` | what went into a stored result; a data directory's evidence, history, table, bundles, snapshots |
| `collector[c]`, `seriesLock` | a collector's phase and locals; the holder of `.collector.lock` |
| `identity`, `litter`, `runtime`, `universe` | the series' files, `litter` being a `.publish-` file left by a kill in `write_once` |
| `attempt`, `sessions` | the attempt directory; the sealed sessions |
| `evaluated`, `reviewed` | history: evaluations made for the collection; results whose attempt a person removed |

Results are numbered in the order their processes were started. A run goes through
three stages; each imports what it still needs from the tree, and each ends with
`_check_version`, which compares stamps. After the last, `write_analysis_dataset`
writes evidence, history (v6), table, bundle and candidate snapshot (v7), each an
action of its own, in the order of `Following`. An exception or a kill may come
before any of them, a deployment or midnight between any two.

Some steps of the collector are merged where nothing else can interfere between
them: lock and identity, lock and guard stamp, the end of the child with the check
of the guard and the validation, certificate and sealing.

### What people do

`Review` stands for the person whom the code asks to look at what a failed collection
left (an attempt, or the litter of an interrupted first write): it removes
it when no collector and no orphaned child works on it any more. Nothing else
ever removes an attempt. A child that meets the run lock of an ordinary run
fails with exit code 4, and its attempt waits for review like any other. The
expected behaviour is that of `tests/test_daily_oos_collection.py:125-228`.

### Abstractions

- The contents of certificates and the checks of single files are data: a valid
  output is one that belongs to the child's result and the collector's day.
- The universe a run resolves is chosen anew by each evaluation, from listings of
  full and of smaller size.
- What the child imported when it was started counts as loaded; what its stages find
  on disk later counts as well. For an ordinary run only the latter is guaranteed
  to be one version: it may have started before its guard was taken.

### Properties

| Property | What it says | Why it could fail |
|---|---|---|
| `TypeOK` | types, and that only the holder of a lock is past it | |
| `NothingDangling` | whatever is found in a directory refers to results whose evidence its store holds | five writes, any of which may be the last |
| `PublishedInOrder` | a bundle has a table at least as new, a snapshot a bundle at least as new | the same, over several runs |
| `OneVersion` | nothing that two versions of the tree had a hand in is published or sealed (`OneVersionPublished`, `SealedIsOneVersion`) | the tree is changed and changed back between two checks |
| `UniverseIsFrozen` | once the universe is frozen every later session has it | it is frozen before the session that froze it is sealed |
| `EvaluationsAreFinal` | no evaluation for the collection is dropped silently (`EvaluationAccounted`), and no session is evaluated twice and the better result kept (`OncePerDay`) | collectors die while their child goes on; a clock read before the lock, an orphaned child, a retry |

## 8. The portfolio

### The decision

`PortfolioAllocation` is the engine of `domain/strategies/portfolio_allocation_v2*.py` over
one request: four modes by the number of holdings (`DIRECT`, `OPEN_SLOT`, `FULL`,
`REDUCE_ONLY`), the exit policy of a holding, the caps of a newcomer, the improvement
test, the replacement comparison with its fast path, and the order of candidates
and pairs. Weights are counted in 1/2000 of the account and rounded down, returns
in tenths of a percent. Of an evaluation only what the engine compares is kept.
Quality confidences are part of `gates` and `Quality`. The hurdle of a pair has the premium of
the incumbent and the difference of the two data confidences. `hold = "HARD_EXIT"` is the fundamental
hard exit, which also bars an entry; a breached stop and a cyclical downturn only end a holding, as
EREM's exit does, and are `"EXIT"` with it. `Reserved` is the greater of reserved cash and near-term
liabilities; with the configured minimum it makes up the reserve (`MinimumCash`), and the
theorems hold for every value of it.

### The series

| Model | Code |
|---|---|
| `kind` | the store of a series: ordinary (`portfolio_persistence.py`) or research (`research_portfolio.py`) |
| `data[d]` | what the published data of a session say; may be revised later |
| `weights` | the account |
| `rows[d]` | the observations of session `d`: of a pair of candidate and holding, whether it crosses the replacement hurdle |
| `sealed` | the sessions the research store has sealed |
| `run` | the session of an ordinary run between its two transactions |
| `decision` | the last decision, with what it was about |
| `judged`, `answers` | history: what the last evaluation of a session said of a pair; what evidence the research store gave |

An ordinary run records its observations in one transaction and loads the recent ones
and decides in a second; a kill may come between them, a rerun overwrites the
pairs it evaluates and keeps the others. The research store does all in one
transaction and refuses a session behind its latest or changed observations.
The program only advises: the owner follows, once a day at most, or does not.
Any published session up to today may be evaluated, at any time, repeatedly.

### Properties

| Property | What it says | Why it could fail |
|---|---|---|
| `RotationIsEarned` | a holding is given up, off the fast path, only when enough different sessions, among the latest judged of the pair and none after the one decided, had the candidate across the hurdle | reruns, retries after a kill, revised data, backfills |
| `Reproducible` | the research store answers every evaluation of a session alike | trades, revisions and other evaluations in between |
| `SealedForGood` | the research store implements `SessionLedger` | the same |
| `TargetsKeepTheRules` | newcomers leave the cash reserve and never lead beyond four holdings (`SeatsAndCash`); a binding newcomer keeps the caps of sector and cluster (`BindingCaps`); exits and trims stand in every decision (`ExitsStand`); weights and cash of an account that follows are never negative (`TypeOK`) | rounding, a seat taken by a larger newcomer, caps on both sides of a swap, four modes with their own line builders |

Three things seen while modelling that no property states: a direct selection
computes the room in sector and cluster from the old holdings only, so two starters
may exceed a cap together (`lifecycle_policy.py:115`; that mode does not bind); an ordinary
store keeps stale pairs when a session is rerun with other holdings
(`portfolio_persistence.py:244`, a listed hazard); and the latest recorded observations of a
pair need not be of consecutive sessions.

## 9. The pool of a run

`DailyExecutor` is one module for `DailyThreadExecutor.evaluate` and
`DailyProcessExecutor.evaluate`, which have the same structure; `kind` is chosen at the
start. *Owner* is the thread that called `evaluate`; `pc` is where it is in the loop. `jobs`
is what the generator of the caller yields; `waiting` is the packet that was read and
encoded and not yet submitted, `pending` those submitted and not yet collected,
`inflight` their bytes as the owner counts them. `future[p]` and `worker[w]` are the pool of
`concurrent.futures`, external to the repository and modelled by what the code relies
on: workers are started on demand, take packets in order, a pool whose initializer
fails or whose process dies is broken, a packet already handed to the call queue
of a process pool can no longer be cancelled, `shutdown(wait=True)` returns when every
worker has left. `terminate_workers` (Python 3.14) cancels what is queued, sends its signals and
returns; the processes end when they obey (`Terminated`), which breaks the pool.

The source is `tree`, its size and times, and `text`, whether its content is the one the
caller pinned. Every edit is a new `tree`, also one that restores the content. A worker
pins the tree as it finds it and compares its *content* with the version of the caller, so
a restored source passes; activating and leaving the work context, and the owner's last
check, compare size and times, so it is refused there. Processes load the kernel with their
first packet, threads have the caller's.

An interrupt may come in the guarded loop (`Interrupt`) or after it, while packets are
cancelled, the pool is shut down, or the contexts are closed (`InterruptShutdown`). In the
second case nobody waits for the pool any more: a thread that computes goes on, and `finally`
closes its context under it, although the comment in `daily_threaded.py:154-156` says to wait for
the kernel before the cleanup. The kernel then raises (`KernelFails`) or ends, its result is not
looked at, and the thread leaves when the pool is collected. No wrong answer comes of it,
since `evaluate` has raised; `QuietAtEnd` names this case as an exception.

The second check of bytes (`daily_threaded.py:122`, `:145`) is modelled (`RoomFor`,
`NothingPending`) and never decides: what was read ahead always fits.

### Properties

| Property | What it says | Why it could fail |
|---|---|---|
| `WithinCapacity` | packets in hand, the one read ahead included, keep the limits of bytes and workers, and the count is their sum, never negative (with `TypeOK`) | the size of a packet is known only after it was read |
| `OutcomeIsEarned` | an answer has every stock, each computed by the pinned version; a refusal has a cause | any order of completion, edits at any point, broken pools |
| `QuietAtEnd` | when `evaluate` ends nothing is queued or running, no worker lives and the contexts are closed; after an error, unless signalled processes were not waited for or the shutdown was interrupted | errors and interrupts with packets in every state |
| `AlwaysEnds` | `evaluate` ends, and so does everything it started, in the two excepted cases too | waiting for packets that nobody computes; workers that nobody told to leave |

Fairness: owner and workers are scheduled, a signalled process obeys, and the kernel of one
stock ends, which nothing in `evaluate` limits. A worker of a pool whose shutdown was
interrupted leaves because `concurrent.futures` wakes it when the pool is collected, or
at the exit of the interpreter. Not modelled: edits before the guard of `evaluate` itself.

## 10. Runs and bounds

| Run | Shows | Instance | Distinct states |
|---|---|---|---|
| `job_faults` | order of artifacts, chain, index, memory, and the kinds of damage that stop recovery | 3 days, 3 kills or exceptions at any point but `"mark"`, 1 index loss | 144 972 |
| `job_calls` | returned receipts endure, one identity, immutability, the ledger is implemented | days 2 and 3 over an optional imported day 1, 2 inputs, 2 replay identities, 2 source versions, 1 source change, 1 fault, 1 index loss | 926 974 |
| `job_resume` | started days complete | `ResumeSpec`, 3 days, 3 mendable faults, 1 index loss | 4 746 |
| `job_v_reopen` | an archive at rest that never opens again | an optional imported day, 1 fault | counterexample |
| `refresh_faults` | safety of the refresh | 2 issuers (one watched and unwritable, one whose filings appear and are corrected), 2 periods, 2 versions, 5 requests, 2 faults of any kind, 1 month | 1 671 944 |
| `refresh_served` | convergence | `FairSpec`, 2 issuers (one watched and blank), batches of 1 issuer and 4 requests, 1 fault, 1 month | 135 512 |
| `refresh_v_diverges` | both reasons why an issuer may not end up current | the issuer of `refresh_faults` that is corrected at any point, the unwritable one, no other fault | counterexample |
| `filing_all` | the filing store | 1 period, 2 contents, a clock over two times of one day and one of the next, rows back to the day before, 2 corrections, 2 derivation versions, 1 lost original, an old row or none; symmetry in contents | 756 704 |
| `store_all` | the evidence store | a staged and an in-place writer, 1 reader, 3 nodes (one shared and extracted, one referring to the others), 2 possible reports, 3 inodes, 1 kill or foreign act | 512 544 |
| `daily_collection` | runs and collections | 2 collectors, the ordinary run (v6) and the child (v7), 2 versions, 2 listings (one full), 2 days, 2 results, 2 deployments, kills or exceptions; symmetry in versions and collectors | 1 361 939 |
| `portfolio_series` | decisions and their stores | 5 stocks in 2 sectors and 3 clusters (one unknown), 3 markets, 5 portfolios of one to five holdings, 3 days, window and required passes 2, 1 revision or kill | 424 611 |
| `executor_all` | the pool | 3 workers, 6 lists of up to 4 packets of 1 or 2 bytes (good, gap, duplicate, too large, failing), 4 bytes in flight, 1 edit (which changes or restores the content), 1 failing kernel or dying worker, 1 interrupt, in the loop or in the shutdown, 3 kinds of pool | 1 737 152 |

`ResearchJob_v_headless.cfg`, `_v_hot_journal`, `_v_import_again` and `_v_skipped` restrict
`job_v_reopen` to one cause each; they are kept to look at a single
counterexample. `MopsRefresh_v_starved.cfg` and `MopsRefresh_v_race.cfg` do the same for
`refresh_v_diverges`.

Why the bounds are enough:

- *Three days* give a day before, at and after the interrupted one: a chain with an
  inner link, and a pending day that is neither first nor last. With two,
  no day is both after and before another.
- *Three faults* let a recovery be interrupted, and the recovery from that again.
- *One index loss* separates an index that is rebuilt from one that is carried on;
  a second loss meets the same states.
- *Two inputs, two replay identities, two versions* are enough to have a request
  that differs in each part from the one on record.
- *Two issuers* are the least that a fair turn is about: one per lane. *Two periods*
  give a filing to correct and one to discover, and a batch that can end between them.
- *Two versions of a document* give one correction. Five requests are fewer than the run of an
  issuer with everything to do, so budgets are reached in the middle of every phase.
- *Two faults* of the refresh are a guard page and a kill, or a storage error after a partial load;
  with a threshold of two they also open the circuit.
- `refresh_served` leaves room for a scan, a discovery and the announcements of one
  issuer in one run, as the default of 120 requests does. A budget that is smaller
  than that never gets past the announcements (a listed hazard).
- *Two corrections* can bring back the first document, or fall on one day; *three times on two days* put a
  day's end between them, and a cutoff before, between and after them. One period suffices for the store,
  since periods meet only in the derivation, whose two orders are per period; an instance
  of two periods with a shorter clock and one correction was checked as well. *Two versions* make a snapshot
  old; *one lost original* makes one incomplete, and found again shows what is kept.
- *Three inodes* let a number be reused while a reader still holds another one. *Three nodes* are
  a report of one node, a report that refers to it, and a node that lies outside the file.
  One fault of the store suffices for each of its hazards; two writers and a reader
  interleave freely besides.
- *Two results* are two collections, or a collection and an ordinary run; *two events* are a
  change of the tree and its restoration, or a kill of the collector and one of its child.
- *Five stocks* let a portfolio be over its four seats. *Three days* let two
  passes be on, before and after the day decided; the window of 2 is full on the third.
  The code's default is a window of 3 with 2 passes; the theorems hold for all.
- *Three workers, four bytes, packets of two*: sometimes workers and sometimes bytes are
  the limit. A list of four has more packets than workers. *One interrupt* (`MaxInterrupts`) is
  enough in each place, since a shutdown is also reached by an error; two workers with an interrupt in
  both places were checked as well, and the theorems hold for any number.

`CHECK_DEADLOCK FALSE` is set for the archive, the portfolio series and the pool: these
really stop, when no caller calls and the budgets of faults are spent, when the calendar
ends, and when `evaluate` has ended. The others have no such state and are
checked for deadlock.

## 11. What is proved, and how

The proofs hold for every value of the constants that satisfies the named
assumptions (`DaysAssumed`, `NoneAssumed`, `PointsAssumed`, `SnapshotsAssumed`,
`BoundsAssumed`; `RefreshAssumption`; `StoreAssumption`; `RunAssumption`,
`SeriesAssumption`; `StockAssumption`; `CapacityAssumption`; and for the filing store its own `StoreAssumption`), which say that days are numbered, `None` is no
value of the other sets, bounds are numbers, references are closed under reachability, and
so on.

### `ResearchJobProofs`

| Theorem | Statement |
|---|---|
| `TypeCorrect` | `Spec => []TypeOK` |
| `ReceiptsAreLast` | `Spec => []ReceiptLast` |
| `AckedReceiptsEndure` | `Spec => []AckedIsDurable` |
| `ArtifactsImmutable` | `Spec => Immutable` |

They hold with no restriction on the points of kills and exceptions, `"mark"`
included. `ReceiptLast` is not inductive. That the objects named by a receipt are
in the store depends on where the process is and on what earlier, interrupted
attempts left. The invariant `IInv` adds: the files of a day each certify the one
written before (`FolderInv`); what the position in `run_day` says of the day at
hand, for instance that after the intent the intent on disk names exactly
`previous` (`CallInv`); and that every state, on disk or in memory, is backed by
stored results (`Backed`, `StateInv`). The intent is the hinge: it is written once, so a
second attempt with another `head` finds the old one and either agrees with it or
is refused. `RecoverStep` needs that the chain `_recover` reads is backed, which goes through
`LastDayExists` (a non-empty set of days has a maximum, proved by well-founded
descent). Each action has a lemma; `NextIInv` puts them together.
`ArtifactsImmutable` follows step by step; of the invariant it needs the types of the
files and that the process is always at a day of the calendar, so that a write to
`call.doc.day` is a write to an existing folder.

### `ResearchJobProofs`: the chain of days

| Theorem | Statement |
|---|---|
| `OneIdentityKept` | `Spec => []OneIdentity` |
| `ChainKeptUnbroken` | `"mark" \notin RaisePoints` and `Spec` imply `[](ChainUnbroken \/ Reimported)` |
| `CopiesKept` | the same hypothesis and `Spec` imply `[](CopiesFollowChain \/ Reimported)` |
| `OnlyKnownDamageStops` | the same hypothesis and `Spec` imply `[]OnlyKnownDamage` |
| `ArchiveImplementsLedger` | the same hypothesis, `BaseIsPast` and `Spec` imply `ImplementsLedger` |

Both hypotheses exclude something the code does, and each is needed.
`"mark" \notin RaisePoints` is the exclusion of the runs (section 3). `Reimported`
says that a day directory was made for a day the imported base already
holds: `latest` is compared with `>=`, so the last day of the base is admitted
again, and its delta repeats a row of the base (`ResearchJob_v_import_again.cfg`).
The first three theorems hold until that happens, for any callers; `BaseIsPast`
(no caller asks for a day of a snapshot) is a condition on the constants under
which it never happens (`NotReimported`), and the ledger needs it from the start.

Two inductive invariants stand on `IInv`. `IdentityInv` says whose rows are whose:
every file of a day, the rows of the index, of the base, of `head` and of
`previous` (`Ours`) carry the identity of the base, and the call that is being
run was compared with it, through the base in `_recover` or through the template of
a recovered job. It also says that a recovered job has a clean index, which the
chain needs.

`ChainInv` answers the question of this part, why a predecessor taken from a
file or from memory is always the right one. It has four parts.

- `IntentsChained`, of the disk: an intent names the state that the days before
  it lead to, and all but the last day with an intent have their receipts. So
  an old intent may be taken up at any time later: nothing can have been
  published in between that it does not count.
- `MemoryInv`, of an open job: `pending` is the only day that may have an intent
  and no receipt, except between the link of the intent and the assignment
  (`pc = "mark"`, which is why that point matters), and while there is none, `head`
  is the chain of receipts.
- `RunInv`, of the day being run: it comes after every other intent and builds
  on the state these lead to.
- `IndexFollowsChain`: the commit that may be ahead of the chain belongs to the
  day being run, or to the pending day. Hence a commit never finds
  another commit ahead, and the row a delta publishes is the last one.

Each action has a lemma (`ChainRecovered`, `ChainAdmitFresh`, `ChainWriteIntent`,
`ChainCommit`, `ChainWriteDelta` and `ChainDone` carry the argument); what a step leaves
alone is in `ReadFrame`, `IntentsFrame`, `IndexFrame`, `MemoryFrame` and `RunFrame`. The refinement has
one lemma for each step of the ledger: the link of a request is `Promise`, that of a receipt is
`Settle` (`LedgerSettle`: the state before the day is the chain of receipts, so
the entry follows the last one), a receipt read back or returned is `Tell`, a bundle is `Copy`,
an import is `Import`; everything else stutters.

### `MopsRefreshProofs`

| Theorem | Statement |
|---|---|
| `AnsweredHaveDocuments` | `"correct" \in QuietPoints` and `Spec` imply `[]AnsweredMeansStored` |
| `PolicyKept` | `Spec => []WithinPolicy` |
| `CooldownsRespected` | `Spec => NoContactWhileCooling` |
| `WorkNeverLost` | `Spec => WorkIsKept` |
| `TypeKept` | `Spec => []TypeOK` |

`AnsweredMeansStored` speaks of committed rows, which are overwritten with the rows of
a load at its end; the load answers from notices read earlier in the run, about a
site that changes. `IInv` carries the same bounds through all of them: rows,
committed or in the transaction, never know more than the site
(`Bounded`: stored version, known notice, answer); notices read are never newer than the
site (`SeenOK`); and a document held between download and save is the site's
current one (`HeldOK`). The last is where the hypothesis on `QuietPoints` is
used, and it is the only place: without it the theorem is false, as `MopsRefresh_v_race.cfg`
shows.

`PolicyInv` needs no condition on corrections. Its parts are that requests and
issuers are within the policy (`ControlOK`), and that the run remembers the site's
cooldown in its circuit, while an issuer whose load is open was not cooling when
it began and is not marked before it ends (`CooldownOK`, with `PlaceOK` for where in
the run the process is). Both theorems then follow for each step.

`WorkIsKept` needs no condition on corrections either, and `IInv` is too strong for
it: a load that meets a correction half-way may well store an answer that is ahead of its
document, and must still lose nothing. `KeepInv` says what the end of a load rests on: the
open transaction is never behind the committed rows, in documents, notices and answers, with
the acknowledgements that a rediscovery carries over (`LoadKept`); the filings the load
announced and has not downloaded have no document, or a notice ahead of the answer
(`BatchKept`); and what is held between a download and its look-up is not older than what the
store has (`HeldKept`). `TypeInv` is the types, made inductive by saying which part of the run
may hold which rows. `OrderInv` is about what `schedule` sorts: every mark that is cooling is
recorded, and the queue holds issuers only (`LaneFacts`, `AlternateFacts`, `ScheduledFacts`).
That a finite set has a sequence in the order of a strict total order at all is `OrderedSequence`; it places each element at the number of its predecessors, since the
usual induction over sets is not available.

### `FilingStoreProofs`

| Theorem | Statement |
|---|---|
| `PastIsKept` | `Spec => NoHindsight` |
| `TypeCorrect` | `Spec => []TypeOK` |
| `AnswersAreSound` | `Spec => []AnswerIsSound` |
| `MissesAreKnown` | `Spec => []OnlyKnownMisses` |

for every set of periods and contents, length of a day and bound. `NoHindsight` compares
committed rows across the end of a load, whose transaction was built over many steps. `PastInv`
says of it at any of them that each of its rows is dated by this load or was committed before,
no later than it is dated now, and that nothing committed is missing from it but rows of before
provenance, which were confirmed (`KeepsThePast`); and that a request is not older than its load
(`Clocks`). The confirmed row is the delicate case: it moves to the time it was fetched,
which is never before its old date.

`AnswerIsSound` needs two facts that are each an induction of their own. First, that the
derivation and the look-up of the latest filing choose the same row though one orders by time
and the other by number: revisions that are higher are also available no earlier
(`Revisions`, `InForceIsLatest`), which `NextRevisionIsAbove` keeps, also for the number 2 of a
document first seen corrected. Second, that a snapshot says what its key says: the key
determines the documents, and only a document whose original was lost once may lack its amounts
(`Fits`). `AnswerInv` carries both for the database, the transaction and the bundle in
hand (`Holds`, `Reused`), with a horizon: nothing in the transaction was fetched after the
request in flight, so the next row is the last in time as well.

`OnlyKnownMisses` relates three clocks: the ticks at which documents replace each other, the
days their notices are dated by, and the times of requests. `MissInv` follows all of them. What
a row, the catalog or the load knows of notices is never ahead of the site, and an answer in
the catalog is never ahead of the notice (`Informed`); a document stored or in hand is the one
shown or was asked for no later than the last replacement; and when the notice known to the load
is the latest and no other is of that day, the document in hand is the one shown (`Asking`), so that
acknowledging it stores that document or finds it stored. The site moves one of two ways (`Moves`): a
period keeps its document, or gets one from now on, whose notice is of a later day or is the second of
that day (`CorrectMoves`). That day 0 is free to mean "no notice" is part of the invariant (`Calendar`).

### `EvidenceStoreProofs`

| Theorem | Statement |
|---|---|
| `TypeCorrect` | `Spec => []TypeOK` |
| `NothingMissing` | `Spec => []NeverMissing` |
| `ReplacementSeen` | `Spec => CacheNeverHides` |
| `NothingDamaged` | `Spec => OnlyForeignDamage` |
| `ImplementsLedger` | `Spec => AppendOnly` |

for any number of writers, readers, nodes, inodes and faults. The inductive
invariant `IInv` adds to the types, first, of the whole store (`StoreInv`): that the file
the path names holds every acknowledged reference with all it reaches, and that a
journal beside it is its own. Second, of each writer, what its phase rests on
(`WriterInv`): its work copy contains its baseline and the references made so far, its
temporary file is nobody else's inode, and between the last comparison and the
replacement the destination loses nothing to the copy and has no journal. Third, of each
reader (`ReaderInv`): what it still has to read was acknowledged, and from the moment
it connects lies in the file it is connected to, which an inode that is replaced later
goes on to hold; unless it is `dirty`, its cache is intact in that file.

### `DailyCollectionProofs`

| Theorem | Statement |
|---|---|
| `TypeCorrect` | `Spec => []TypeOK` |
| `NeverDangling`, `InOrder` | `Spec => []NothingDangling`, `Spec => []PublishedInOrder` |
| `OfOneVersion` | `Spec => []OneVersion` |
| `FrozenUniverse` | `Spec => []UniverseIsFrozen` |
| `FinalEvaluations` | `Spec => []EvaluationsAreFinal` |

for any number of collectors, versions, listings, days, results and events. The
invariant is built in layers, each inductive relative to those below it. `RunPart`
(`RunInv`, `SawInv`, `FilesInv`): numbers in a directory are of runs that were made, a running
process is newer than everything there, and what it has still to write is ordered
after what it has written. `SeriesPart`: the attempt belongs to the collector that holds the
lock, or to nobody, and the child's number is the attempt's while anybody waits for it
(`AttemptInv`). `VersionInv`: while the stamps are those a collector took, the tree is the
bound version, and so is everything its child has seen. `LateInv`: what the child's stages
have evaluated is in the attempt (`EvaluationInv`), a universe is frozen only by a full
listing (`ListingInv`), and days in sessions and attempt differ. The stamps are the
hinge of `OneVersion`: they only grow, so equal stamps at two times mean an untouched
tree in between, which equal versions would not.

### `PortfolioSeriesProofs`

| Theorem | Statement |
|---|---|
| `OneAnswer` | `Spec => []Reproducible` |
| `StoreIsLedger` | `Spec => SealedForGood` |
| `RotationEarned` | `Spec => []RotationIsEarned` |
| `RulesKept` | `Spec => []TargetsKeepTheRules` |

for every window, number of required passes, market and portfolio. The first two
rest on `LedgerInv`: what a session was answered is a function of the observations up
to its day, those are the sealed ones, and nothing is sealed behind them. The third on
`EarnedInv`: what a store holds of a pair in a session is what was last judged of it
there; the windows are counted with finite sets of days.

`RulesKept` is about arithmetic over choices. `RulesInv` is the types, among them that the weights
held make up no more than one unit (`Account`), with the rules for the last decision (`Keeps`). One
decision is followed through `allocate`: what can be spent is the cash above the reserve
(`CashFacts`), what an exit or a reduction leaves of a holding is no more than it was
(`LeftBounds`), and the target of a newcomer is the least of its bounds (`LeastIs`,
`TargetBounds`), hence within each of them, its sector's and its cluster's included. `NewcomerKeeps` is then the same argument for an
open slot and for a replacement. The direct selection is a recursion over the candidates, and its
invariant `Selected` is the argument that no single target shows: the weights given so far and
the cash that is left never exceed what there was, and newcomers and free seats never exceed three
less the holdings (`TakeKeeps`, `SelectionKeeps`). That there is a best candidate, a head of
the ranking and a weakest holding is `FirstExists`, for any strict total order on a finite set.

### `SumTheorems`

Weights of a group and bytes of packets are sums, folds of the library over an order it chooses.
The recursion has a solution (`FoldExists`, by the size of the parts), it does not depend on
the set it was begun for (`FoldsAgree`), and any element may be taken out first (`SumTakesOut`);
a sum over two disjoint sets is the sum of the sums, and a part sums to no more than the whole
(`SumOfUnion`, `SumBelow`). Induction is over a set of numbers (`AllNumbers`), since
the induction theorems of the library have an operator as a parameter, which the provers cannot
instantiate.

### `DailyExecutorProofs`

| Theorem | Statement |
|---|---|
| `CapacityKept` | `Spec => []WithinCapacity` (types included) |
| `OutcomesEarned` | `Spec => []OutcomeIsEarned` |
| `EndsQuiet` | `Spec => []QuietAtEnd` |

for every list of jobs, any workers, every capacity and any number of edits, faults and
interrupts. `QuietAtEnd` has the two exceptions section 9 describes. The
bytes of a set of packets are a sum, a fold of the library over a chosen order (`SumTheorems`).

`IInv` has six parts. `PlaceInv` and `QueueInv`: where the owner is, what it has read, and that
it waits only with nothing encoded. `CountInv` is the capacity, with the step that makes
it inductive: a packet that was read ahead fits, because the room for the largest was there when it
was read and bytes only go down until it is submitted. So the second check of bytes never
decides, and the error for a packet that does not fit is not reached. `ResultInv`: the results are
those of the packets read and no longer in hand, so that at the end they are as many as the jobs
(`AllCollected`), and a gap in their numbers is a gap in the jobs. `PoolInv`: pins and
code are versions the tree has had (`Past`), so if it is still the pinned one at the last check, no result can
come of another; queued packets have a live worker, running ones a busy one, so an ended pool
has neither; and a worker outlives the waiting owner only if it was sent a signal or the shutdown
was interrupted (`StillLeft`). For the first,
`StartedFacts` shows that `submit` leaves a worker alive although it may start none.
`ExcuseInv`: an error, a broken pool and a settled future without result each have a
cause, and causes stay.

## 12. What only TLC checks

- The liveness properties `StartedDayCompletes`, `Converges`, `LockIsReleased`, `AlwaysEnds`: the
  prover does not handle liveness under fairness, nor `ENABLED`.

Every other property of the passing runs is the statement of a theorem, some of them under a hypothesis that
the tables above name.

No module that is proved about declares or reaches a recursive operator.

## 13. Disagreements with the code's own claims

Each is shown by a run whose one property states what a comment, a docstring or
a test claims. `PROJECT.json` quotes the claims. The first four are four ways into the
one counterexample of `job_v_reopen` (an archive at rest that cannot be opened
again); the configuration in brackets isolates each.
The last two are the two ways into the one of `refresh_v_diverges` (an issuer that does not end up
current), in the same way.

1. `infrastructure/research_job.py:226` (`ResearchJob_v_skipped.cfg`). The pending day is set in memory only
   after the request and the intent are on disk. If the write of the intent
   raises (a full disk) and the caller keeps the job object, the next day is admitted
   over the incomplete one, which the check at line 202 means to refuse. From then on
   `_recover` refuses the archive, and the skipped day can never be completed. The
   same window, one write later, leaves a stale intent.
2. `infrastructure/research_archive.py:24` (`ResearchJob_v_headless.cfg`). The directory of a day is made before
   its first file is linked. A kill in between leaves a directory that `_recover`
   reads unconditionally: every later attempt raises `FileNotFoundError`, so the
   retry that `write_bytes_once` promises is never reached.
3. `infrastructure/storage/research_state.py:23` (`ResearchJob_v_hot_journal.cfg`). Recovery reads the index through a
   read-only connection, which cannot roll back the hot journal that a kill inside
   a commit leaves. All daily artifacts are intact, and no recovery succeeds until
   somebody removes the index or opens it for writing.
4. `infrastructure/research_job.py:203` (`ResearchJob_v_import_again.cfg`). Asking for the last day of an imported
   base is not refused (only earlier days are); the session answers it from the imported row, and
   its delta is published a second time. The archive does not open any more.
5. `application/mops_refresh_control.py:121` (`MopsRefresh_v_starved.cfg`). Attempt mark and lane turn are written in the
   transaction of the load. A priority issuer whose raw folder cannot be written is
   rolled back with both, stays unattempted with its lane first, and with one
   issuer per batch the ordinary issuers are never attempted, which the docstring
   of `schedule` excludes.
6. `application/filing_ingestion.py:71` (`MopsRefresh_v_race.cfg`). A document is downloaded, then its latest
   correction is looked up. A correction published between the two is recorded as
   answered by the uncorrected document, and is not downloaded until another notice.
   `OnlyKnownMisses` of the filing store names two more ways to miss a correction, of which the
   code claims nothing.

## 14. What is not modelled, and why

- *Of the archive*: `reproduce` (it builds a second archive in a temporary directory and
  compares), `export_snapshot` (reads only), the creation of datasets.
- *Of the refresh*: `migrate_local_cache`, statement scopes, availability dates, the
  time of the last full refresh, and loads for a past signal time, which read only.
  The parsing of pages is an outcome: a usable page, an unusable one, or none. 
- *Of the filing store*: schema migration, the batch snapshots of the exchange, fallback of
  the statement scope, pending announcements; two processes that write at once, of which SQLite's
  transactions let one fail (section 5).
- *Of publication*: the files within a bundle (it is written aside and named at once), the
  repair of a publication, the annual filings page.
- *Of the portfolio*: the admission of v7 securities through R9, how a report row
  becomes an evaluation, the rows of the v1 store, the identity and damage checks of the
  research store, `research_series.py`.
- *Of the pool*: the caches of a work context, the contents of a packet, the check for a
  Python without GIL, the measurements.
- *Numeric and pure parts* (strategies, exits, valuation, derivation, XBRL,
  indicators, rendering): functions without state whose risk is in their numbers; a finite
  model would say nothing of it. They are the larger part of the repository's lines, which
  is why the map covers a small share of them.
- *Daily research v1*: superseded by the archive.
- *LES v7 training, crawlers, calendar, command lines, integration, examples*: batch
  tools, look-ups, wiring and data. What a command line contributes, the order in which
  runs are started and restarted, is in the environment of the models.

Two listed hazards have no property: announcements that outgrow the request budget
(`filing_catalog_refresh.py:76`), and stale pairs of a session that is rerun with other holdings
(`portfolio_persistence.py:244`), where the code promises nothing.

## 15. Plan

Done: the archive, the refresh, the filing store, the evidence store, the daily run and its collection, the
portfolio, the pool. Modules still worth writing, in the order of what they are worth:

1. `SnapshotRetention`: reference counts, memory and spool limits, nested scopes,
   partial failure. Abstract specification: a bounded bag of references.
2. The market history cache with the crawl of missing days, and the soft reductions of
   the exit model over such a window.
3. The caches of the work contexts and of the replay engine.

Theorems worth proving next:

- the lemmas the liveness properties rest on, where they are safety: a measure that each fair step of a load
  or of the pool makes smaller;
- that `SnapshotRetention` implements its bag of references, once it is written.
## 16. How to run

```
tlc -workers 4 -config ResearchJob_faults.cfg MCResearchJob.tla
tlc -workers 4 -config EvidenceStore_all.cfg MCEvidenceStore.tla
tlc -workers 4 -config DailyCollection_all.cfg MCDailyCollection.tla
tlapm DailyCollectionProofs.tla
```

and so on: a configuration is named after the module whose `MC` module it instantiates. Those
named `_v_` end in a counterexample, as section 13 says. The largest runs
(`refresh_faults`, `store_all`, `daily_collection`, `job_calls`) take one to three minutes, and
each proof module some minutes from nothing.
