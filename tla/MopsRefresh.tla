---------------------------- MODULE MopsRefresh ----------------------------
(***************************************************************************)
(* The bounded refresh of filings from MOPS, the disclosure site: one run  *)
(* of RefreshFundamentals.refresh over the issuers of a market, the        *)
(* MopsRefreshControl that rations its requests, and FundamentalService.   *)
(* load, which refreshes one issuer inside one SQLite transaction.         *)
(*                                                                         *)
(*   marks, cooling, turn   the table remote_refresh_attempts              *)
(*   catalogs, filings      the catalog cache and the stored filings       *)
(*   ctl                    MopsRefreshControl, forgotten by begin_run     *)
(*   cat, fil               the open transaction of the issuer `cur'       *)
(*                                                                         *)
(* An HTTP attempt is one action, and so is a piece of local work between  *)
(* two attempts; a kill or a storage error may come before each of them.   *)
(*                                                                         *)
(* The wall clock only matters through cooldowns and calendar months: the  *)
(* attempt marks are kept in the order of their times, `cooling' holds the *)
(* keys marked less than cooldown_seconds ago, and a catalog is `fresh'    *)
(* when it was discovered in the current month.  A run works at one signal *)
(* time, so months change between runs.                                    *)
(*                                                                         *)
(* A filing is the version of its document: 1 as first published, one more *)
(* with each correction, and the correction notice carries the version it  *)
(* announces.  0 means no document, or no notice.  An issuer without a     *)
(* catalog row has the empty, stale catalog: the code reads them alike.    *)
(***************************************************************************)
EXTENDS Integers, Sequences, FiniteSets, FiniteSetsExt, SequencesExt

CONSTANTS
  SymbolOrder,       \* the issuers in the order of the stock list
  Watched,           \* the issuers the research screen gives priority to
  Host,              \* HOST_KEY, the attempt mark of the site itself
  Periods,           \* fiscal periods, numbered
  Recent,            \* the periods of the daily correction scan
  Batches,           \* latest periods of the exchange's financial batch, 0: none
  Eventful,          \* the issuers whose documents change during a behaviour
  MaxVersion,        \* bound on the versions of a document
  MaxSymbols, MaxRequests, MaxFilings, BlockedThreshold, \* MopsRefreshPolicy
  MaxTries,          \* network_rounds * hosts of MopsClient
  CatalogAttempts,   \* catalog_empty_attempts of MopsClient
  InfraThreshold,    \* MOPS_INFRASTRUCTURE_FAILURE_THRESHOLD
  Blank,             \* issuers whose catalog page never lists a filing
  Unwritable,        \* issuers whose raw folder can never be written
  QuietPoints,       \* values of pc at which no correction is published
  FaultKinds,        \* the faults of this instance
  MaxFaults,         \* bound on the faults of a behaviour
  MaxMonths          \* bound on the months of a behaviour

Symbols == {SymbolOrder[i] : i \in 1..Len(SymbolOrder)}
Keys == Symbols \cup {Host}
Versions == 0..MaxVersion
Filing == [doc : Versions, note : Versions]
Catalog == [fresh : BOOLEAN, cands : SUBSET Periods, scanned : SUBSET Periods,
            corr : [Periods -> Versions], ver : [Periods -> Versions],
            pend : BOOLEAN, observed : Periods \cup {0}]

RefreshAssumption ==
  /\ SymbolOrder \in Seq(Symbols) /\ Host \notin Symbols
  /\ Watched \subseteq Symbols /\ Eventful \cup Blank \cup Unwritable \subseteq Symbols
  /\ Periods \subseteq Nat \ {0} /\ IsFiniteSet(Periods)
  /\ Recent \subseteq Periods /\ Recent # {} /\ Batches \subseteq Periods \cup {0}
  /\ {MaxSymbols, MaxRequests, MaxFilings, MaxFaults, MaxMonths} \subseteq Nat
  /\ {MaxVersion, BlockedThreshold, MaxTries, CatalogAttempts, InfraThreshold}
       \subseteq Nat \ {0}
ASSUME RefreshAssumption

VARIABLES
  \* the MOPS site
  site,      \* the version of every document on the site, 0 if unpublished
  months,    \* months gone by
  \* SQLite, as committed
  marks,     \* remote_refresh_attempts: its keys, the oldest attempt first
  cooling,   \* the keys whose mark is younger than the cooldown
  turn,      \* FAIR_TURN_KEY: the lane that goes first
  catalogs,  \* filing_catalog_cache
  filings,   \* the latest revision of every filing
  \* the process
  pc,        \* what the process is about to do
  ctl,       \* MopsRefreshControl
  queue,     \* issuers the run has still to process
  infra,     \* consecutive infrastructure failures: their kind and number
  seen,      \* correction notices read in this run, by period
  loaded,    \* periods whose notices were read: the keys of _correction_cache
  cur,       \* the issuer being loaded, Host between loads
  cat, fil,  \* its catalog and filings in the open transaction
  left,      \* periods left to the revision scan or to the announcements
  batch,     \* periods of the filings to verify or download
  held,      \* the version of a document downloaded and not yet saved
  tries,     \* HTTP attempts of the current request
  empties,   \* catalog pages without filings in a row
  err,       \* the error being handled
  faults     \* faults so far

site_ == <<site, months>>
db == <<marks, cooling, turn, catalogs, filings>>
run == <<ctl, queue, infra>>
notices == <<seen, loaded>>
tx == <<cur, cat, fil>>
request == <<tries, empties>>
work == <<left, batch, held, tries, empties, err>>
vars == <<site_, db, pc, run, notices, tx, work, faults>>

---------------------------------------------------------------------------
(* Values and derived state                                                *)

NoVersions == [p \in Periods |-> 0]
EmptyCatalog == [fresh |-> FALSE, cands |-> {}, scanned |-> {},
                 corr |-> NoVersions, ver |-> NoVersions, pend |-> FALSE,
                 observed |-> 0]
NoFilings == [p \in Periods |-> [doc |-> 0, note |-> 0]]
NoNotices == [p \in Periods |-> [s \in Symbols |-> 0]]
NoFailure == [kind |-> "none", n |-> 0]

\* MopsRefreshControl.begin_run.  `limited' says that schedule succeeded and
\* scheduled_symbols is a set, `events' that the revision scan did; `batch' is
\* the period of the financial batch the run was prepared with.
BegunRun(blocked, b) ==
  [symbols |-> {}, requests |-> 0, streak |-> 0, circuit |-> blocked,
   batch |-> b, events |-> FALSE, limited |-> FALSE, scheduled |-> {}, prio |-> {},
   fair |-> FALSE]

Published(s) == {p \in Periods : site[s][p] > 0}
NoticeOf(v) == IF v > 1 THEN v ELSE 0
Cached(f) == {p \in Periods : f[p].doc > 0}

Larger(m, n) == IF m >= n THEN m ELSE n

\* A notice is answered in the filing's own row or in the catalog's.
Answered(c, f, p) == Larger(c.ver[p], f[p].note)
Unverified(c, f) == {p \in Periods : c.corr[p] > Answered(c, f, p)}

\* FundamentalService._daily_corrections, set by a scan that succeeded.
Event(s, p) == IF ctl.events /\ p \in Recent THEN seen[p][s] ELSE 0
MergeEvents(c, s) ==
  [c EXCEPT !.corr = [p \in Periods |-> Larger(c.corr[p], Event(s, p))]]

LocallyComplete(c, f) ==
  /\ c.cands # {} /\ ~c.pend
  /\ c.cands \subseteq Cached(f) \cap c.scanned
  /\ Unverified(c, f) = {}

\* The conditions of the local-cache return of load, and of the preload.
UpToDate(s) ==
  /\ \E p \in Cached(filings[s]) : p >= ctl.batch
  /\ catalogs[s].fresh
  /\ \A p \in Cached(filings[s]) :
        Event(s, p) <= Answered(catalogs[s], filings[s], p)
  /\ LocallyComplete(catalogs[s], filings[s])

Init ==
  /\ site \in [Symbols -> [Periods -> {0, 1}]]
  /\ \A s \in Symbols : Published(s) = {Min(Periods)}
  /\ months = 0
  /\ marks = <<>> /\ cooling = {} /\ turn = "PRIORITY"
  /\ catalogs = [s \in Symbols |-> EmptyCatalog]
  /\ filings = [s \in Symbols |-> NoFilings]
  /\ pc = "idle" /\ ctl = BegunRun(FALSE, 0) /\ queue = <<>> /\ infra = NoFailure
  /\ seen = NoNotices /\ loaded = {}
  /\ cur = Host /\ cat = EmptyCatalog /\ fil = NoFilings
  /\ left = {} /\ batch = {} /\ held = 0 /\ tries = 0 /\ empties = 0
  /\ err = "none" /\ faults = 0

ClearWork ==
  /\ left' = {} /\ batch' = {} /\ held' = 0 /\ tries' = 0 /\ empties' = 0
  /\ err' = "none"

\* The memory of a run: nothing in it outlives the run.
Forget ==
  /\ pc' = "idle" /\ ctl' = BegunRun(FALSE, 0) /\ queue' = <<>> /\ infra' = NoFailure
  /\ seen' = NoNotices /\ loaded' = {}
  /\ cur' = Host /\ cat' = EmptyCatalog /\ fil' = NoFilings
  /\ ClearWork

Fault(k) ==
  /\ k \in FaultKinds /\ faults < MaxFaults
  /\ faults' = faults + 1

---------------------------------------------------------------------------
(* The site and the clock                                                  *)

Publish(s, p) ==
  /\ s \in Eventful /\ months < MaxMonths /\ site[s][p] = 0
  /\ site' = [site EXCEPT ![s][p] = 1]
  /\ UNCHANGED <<months, db, pc, run, notices, tx, work, faults>>

Correct(s, p) ==
  /\ s \in Eventful /\ months < MaxMonths
  /\ site[s][p] \in 1..(MaxVersion - 1) /\ pc \notin QuietPoints
  /\ site' = [site EXCEPT ![s][p] = @ + 1]
  /\ UNCHANGED <<months, db, pc, run, notices, tx, work, faults>>

MonthEnds ==
  /\ pc = "idle" /\ months < MaxMonths
  /\ months' = months + 1
  /\ catalogs' = [s \in Symbols |-> [catalogs[s] EXCEPT !.fresh = FALSE]]
  /\ UNCHANGED <<site, marks, cooling, turn, filings, pc, run, notices, tx,
                 work, faults>>

\* Cooldowns are equally long, so the oldest mark is the first to cool off.
CooldownEnds ==
  /\ cooling # {}
  /\ cooling' = cooling \ {marks[SelectInSeq(marks, LAMBDA k : k \in cooling)]}
  /\ UNCHANGED <<site_, marks, turn, catalogs, filings, pc, run, notices, tx,
                 work, faults>>

---------------------------------------------------------------------------
(* MopsRefreshControl                                                      *)

\* save_refresh_attempt: the key becomes the youngest.
Touch(m, k) == Append(RemoveFirst(m, k), k)

\* finish, for the key k ("__REVISIONS__" is never read, so k = Host there):
\* an open circuit is recorded for the site as well.
FinishMarks(k, c) == IF c.circuit THEN Touch(Touch(marks, k), Host) ELSE Touch(marks, k)
FinishCooling(k, c) == cooling \cup {k} \cup (IF c.circuit THEN {Host} ELSE {})

\* response(blocked=...), with the attempt that before_request counted.
Passed == [ctl EXCEPT !.requests = @ + 1, !.streak = 0]
Guarded ==
  [ctl EXCEPT !.requests = @ + 1, !.streak = @ + 1,
              !.circuit = @ \/ ctl.streak + 1 >= BlockedThreshold]

Position(q, s) == SelectInSeq(q, LAMBDA t : t = s)
Listed(s, t) == Position(SymbolOrder, s) < Position(SymbolOrder, t)

InOrder(S, Before(_, _)) ==
  CHOOSE q \in SetToSeqs(S) : \A i, j \in 1..Len(q) : i < j => Before(q[i], q[j])

\* Oldest attempt first, unattempted issuers before all, then the list order.
Older(s, t) ==
  \/ Position(marks, s) < Position(marks, t)
  \/ Position(marks, s) = Position(marks, t) /\ Listed(s, t)
Lane(S) == InOrder(S, Older)

\* The first of each lane, then the second of each, and so on.
Alternate(a, b) ==
  LET both == Min({Len(a), Len(b)})
      rest == IF Len(a) > Len(b) THEN a ELSE b
  IN  [i \in 1..(Len(a) + Len(b)) |->
         IF i > 2 * both THEN rest[i - both]
         ELSE IF i % 2 = 1 THEN a[(i + 1) \div 2] ELSE b[i \div 2]]

ScheduledOrder(ranked) ==
  LET prio == Lane(ranked \cap Watched)
      general == Lane(ranked \ Watched)
      fair == prio # <<>> /\ general # <<>>
      order == IF fair /\ turn = "GENERAL" THEN Alternate(general, prio)
                                           ELSE Alternate(prio, general)
  IN  SubSeq(order, 1, Min({Len(order), MaxSymbols}))

\* start_symbol refuses the issuer.
Deferred(s) ==
  \/ ctl.circuit
  \/ s \in ctl.symbols \cup cooling
  \/ Cardinality(ctl.symbols) >= MaxSymbols
  \/ ctl.limited /\ s \notin ctl.scheduled
  \/ ctl.requests >= MaxRequests

---------------------------------------------------------------------------
(* A run of RefreshFundamentals.refresh                                    *)

\* Mutant: a new run forgets the site's cooldown.
BeginRunBlind(b) ==
  /\ pc = "idle"
  /\ pc' = "revise" /\ left' = Recent
  /\ ctl' = BegunRun(FALSE, b)
  /\ UNCHANGED <<site_, db, queue, infra, notices, tx, batch, held, request,
                 err, faults>>

\* begin_run clears the control and the correction cache; the revision scan
\* that follows is the first to look at the site's own cooldown.
BeginRun(b) ==
  /\ pc = "idle"
  /\ pc' = "revise" /\ left' = Recent
  /\ ctl' = BegunRun(Host \in cooling, b)
  /\ UNCHANGED <<site_, db, queue, infra, notices, tx, batch, held, request,
                 err, faults>>

\* The control schedules the issuers that the preload did not serve and that
\* are not cooling down; the others follow in list order.
Schedule(ranked) ==
  LET order == ScheduledOrder(ranked)
      prio == ranked \cap Watched
  IN  /\ pc = "schedule"
      /\ pc' = "next"
      /\ ctl' = [ctl EXCEPT !.limited = TRUE, !.scheduled = ToSet(order),
                            !.prio = prio,
                            !.fair = prio # {} /\ ranked # prio]
      /\ queue' = order \o InOrder(Symbols \ ToSet(order), Listed)
      /\ UNCHANGED <<site_, db, infra, notices, tx, work>>

ScheduleBatch ==
  /\ Schedule({s \in Symbols \ cooling : ~UpToDate(s)})
  /\ UNCHANGED faults

PreloadFails == Fault("preload") /\ Schedule(Symbols \ cooling)

\* A storage error leaves no schedule: every issuer is tried in list order.
ScheduleFails ==
  /\ pc = "schedule" /\ Fault("preload")
  /\ pc' = "next" /\ queue' = SymbolOrder
  /\ UNCHANGED <<site_, db, ctl, infra, notices, tx, work>>

\* An issuer served from local data, or refused by start_symbol.
PassOver(s) ==
  /\ pc = "next" /\ queue # <<>> /\ s = Head(queue)
  /\ UpToDate(s) \/ Deferred(s)
  /\ queue' = Tail(queue)
  /\ infra' = IF Cached(filings[s]) # {} THEN NoFailure ELSE infra
  /\ UNCHANGED <<site_, db, pc, ctl, notices, tx, work, faults>>

EndRun ==
  /\ pc = "next" /\ queue = <<>>
  /\ Forget
  /\ UNCHANGED <<site_, db, faults>>

---------------------------------------------------------------------------
(* FundamentalService.load: one issuer, one transaction                    *)

\* FilingCatalogRefresh.prepare decides whether to discover.
MustDiscover(c, s) ==
  \/ ~c.fresh
  \/ ctl.batch \notin c.cands \cup {0, c.observed}
  \/ \E p \in Periods \ c.cands : Event(s, p) > 0

Start(s) ==
  /\ pc = "next" /\ queue # <<>> /\ s = Head(queue)
  /\ ~UpToDate(s) /\ ~Deferred(s)
  /\ queue' = Tail(queue)
  /\ ctl' = [ctl EXCEPT !.symbols = @ \cup {s}]
  /\ cur' = s /\ cat' = catalogs[s] /\ fil' = filings[s]
  /\ pc' = IF MustDiscover(catalogs[s], s) THEN "discover"
           ELSE IF catalogs[s].pend THEN "announce" ELSE "scan"
  /\ left' = catalogs[s].cands \ Cached(filings[s])
  /\ UNCHANGED <<site_, db, infra, notices, batch, held, request, err, faults>>

\* Periods are worked through from the earliest.
Earliest(S, p) == p \in S /\ \A q \in S : p <= q

\* The corrections of the cached periods that are still to be looked up.
ToScan == (cat.cands \cap Cached(fil)) \ cat.scanned

\* The process is about to make an HTTP request.
AtRequest ==
  \/ pc \in {"revise", "announce"} /\ left # {}
  \/ pc \in {"discover", "correct"}
  \/ pc = "scan" /\ \E p \in Periods \ loaded : Earliest(ToScan, p)
  \/ pc = "fetch" /\ batch # {}

\* Mutant: the budget counts requests, not the attempts of each.
MayAskAgain ==
  AtRequest /\ ~ctl.circuit /\ (tries > 0 \/ ctl.requests < MaxRequests)

\* before_request, for every HTTP attempt.
MayAsk == AtRequest /\ ~ctl.circuit /\ ctl.requests < MaxRequests

\* A failure of the revision scan is recorded at once and leaves the run
\* without events; one of an issuer is recorded in its transaction.
Fail(e, c) ==
  /\ ctl' = c /\ tries' = 0 /\ empties' = 0
  /\ \/ /\ cur = Host /\ pc' = "schedule" /\ left' = {} /\ err' = err
        /\ IF c.circuit /\ e # "deferred"
           THEN marks' = FinishMarks(Host, c) /\ cooling' = FinishCooling(Host, c)
           ELSE UNCHANGED <<marks, cooling>>
     \/ /\ cur # Host /\ pc' = "failed" /\ err' = e
        /\ UNCHANGED <<left, marks, cooling>>
  /\ UNCHANGED <<site_, turn, catalogs, filings, queue, infra, notices, tx,
                 batch, held>>

RequestRefused ==
  /\ AtRequest /\ ~MayAsk
  /\ Fail("deferred", ctl)
  /\ UNCHANGED faults

GuardPage ==
  /\ MayAsk /\ Fault("blocked")
  /\ Fail("blocked", Guarded)

\* Another host or another round, until the attempts are used up.
NetworkFails ==
  /\ MayAsk /\ Fault("network")
  /\ \/ /\ tries + 1 < MaxTries
        /\ tries' = tries + 1
        /\ ctl' = [ctl EXCEPT !.requests = @ + 1]
        /\ UNCHANGED <<site_, db, pc, queue, infra, notices, tx, left, batch,
                       held, empties, err>>
     \/ /\ tries + 1 >= MaxTries
        /\ Fail("network", [ctl EXCEPT !.requests = @ + 1])

\* A page that cannot be used; discover asks again a few times.
BadPage ==
  /\ MayAsk
  /\ \/ Fault("page")
     \/ /\ pc = "discover" /\ cur \in Blank
        /\ UNCHANGED faults
  /\ \/ /\ pc = "discover" /\ empties + 1 < CatalogAttempts
        /\ empties' = empties + 1 /\ tries' = 0
        /\ ctl' = Passed
        /\ UNCHANGED <<site_, db, pc, queue, infra, notices, tx, left, batch,
                       held, err>>
     \/ /\ pc # "discover" \/ empties + 1 >= CatalogAttempts
        /\ \E e \in {"schema", "nodata"} : Fail(e, Passed)

\* A reply is counted, and its request is over.
Reply ==
  /\ MayAsk
  /\ ctl' = [Passed EXCEPT !.events = @ \/ (pc = "revise" /\ left' = {})]
  /\ tries' = 0 /\ empties' = 0
  /\ UNCHANGED <<site_, db, queue, infra, cur, err, faults>>

\* The market's correction notices of a period, kept until the next run.
ReadNotices(p) ==
  /\ seen' = [seen EXCEPT ![p] = [s \in Symbols |-> NoticeOf(site[s][p])]]
  /\ loaded' = loaded \cup {p}

ReviseReply(p) ==
  /\ pc = "revise" /\ Earliest(left, p)
  /\ left' = left \ {p}
  /\ Reply
  /\ ReadNotices(p)
  /\ pc' = IF left' = {} THEN "schedule" ELSE "revise"
  /\ UNCHANGED <<cat, fil, batch, held>>

\* Mutant: a discovery drops the verified corrections.
DiscoverReplyAfresh ==
  /\ pc = "discover" /\ cur \notin Blank
  /\ cat' = [cat EXCEPT !.fresh = TRUE, !.cands = Published(cur),
                        !.scanned = IF cat.fresh THEN @ ELSE {}, !.pend = TRUE,
                        !.observed = ctl.batch, !.ver = NoVersions]
  /\ left' = Published(cur) \ Cached(fil)
  /\ Reply
  /\ pc' = "announce"
  /\ UNCHANGED <<notices, fil, batch, held>>

\* The catalog is replaced, its corrections are kept; a monthly discovery has
\* every period scanned again.
DiscoverReply ==
  /\ pc = "discover" /\ cur \notin Blank
  /\ cat' = [cat EXCEPT !.fresh = TRUE, !.cands = Published(cur),
                        !.scanned = IF cat.fresh THEN @ ELSE {}, !.pend = TRUE,
                        !.observed = ctl.batch]
  /\ left' = Published(cur) \ Cached(fil)
  /\ Reply
  /\ pc' = "announce"
  /\ UNCHANGED <<notices, fil, batch, held>>

\* One request per year with a missing filing (here: per missing filing);
\* only all of them together are recorded.
AnnounceReply(p) ==
  /\ pc = "announce" /\ Earliest(left, p)
  /\ left' = left \ {p}
  /\ Reply
  /\ UNCHANGED <<pc, notices, cat, fil, batch, held>>

Announced ==
  /\ pc = "announce" /\ left = {}
  /\ cat' = [cat EXCEPT !.pend = FALSE]
  /\ pc' = "scan"
  /\ UNCHANGED <<site_, db, run, notices, cur, fil, work, faults>>

Scanned(c, p, notice) ==
  [c EXCEPT !.scanned = @ \cup {p}, !.corr[p] = Larger(@, notice)]

ScanReply(p) ==
  /\ pc = "scan" /\ Earliest(ToScan, p) /\ p \notin loaded
  /\ UNCHANGED left /\ Reply
  /\ ReadNotices(p)
  /\ cat' = Scanned(cat, p, seen'[p][cur])
  /\ UNCHANGED <<pc, fil, batch, held>>

ScanCached(p) ==
  /\ pc = "scan" /\ Earliest(ToScan, p) /\ p \in loaded
  /\ cat' = Scanned(cat, p, seen[p][cur])
  /\ UNCHANGED <<site_, db, pc, run, notices, cur, fil, work, faults>>

\* FilingRefreshPlanner.plan, and the order of load: corrected filings to
\* verify from the earliest, then missing ones to download from the latest.
PlanOf(c, f) == (c.cands \cap Unverified(c, f)) \cup (c.cands \ Cached(f))
Precedes(p, q) ==
  \/ p \in Cached(fil) /\ (q \in Cached(fil) => p < q)
  \/ {p, q} \cap Cached(fil) = {} /\ p > q
NextFiling(p) == p \in batch /\ \A q \in batch \ {p} : Precedes(p, q)

Plan ==
  /\ pc = "scan" /\ ToScan = {}
  /\ cat' = MergeEvents(cat, cur)
  /\ LET pending == PlanOf(cat', fil)
         Before(p) == {q \in pending : Precedes(q, p)}
     IN  batch' = {p \in pending : Cardinality(Before(p)) < MaxFilings}
  /\ pc' = "fetch"
  /\ UNCHANGED <<site_, db, run, notices, cur, fil, left, held, request, err,
                 faults>>

\* Mutant: one download acknowledges the notices of every period.
AcknowledgedAll(c, p) == [c EXCEPT !.ver = c.corr, !.scanned = @ \cup {p}]

\* FilingCatalogRefresh.acknowledge
Acknowledged(c, p) ==
  [c EXCEPT !.ver[p] = c.corr[p], !.scanned = @ \cup {p}]

\* FilingIngestionService.ingest saves a revision, the loop acknowledges it.
Save(p, v, notice) ==
  /\ cur \notin Unwritable
  /\ fil' = [fil EXCEPT ![p] = [doc |-> v, note |-> notice]]
  /\ cat' = Acknowledged(cat, p)
  /\ batch' = batch \ {p} /\ pc' = "fetch" /\ held' = 0

\* The document is unchanged, or it is saved with its notice, which takes a
\* request of its own when the run has not read the period's notices yet.
FetchReply(p) ==
  /\ pc = "fetch" /\ NextFiling(p)
  /\ UNCHANGED left /\ Reply
  /\ \/ /\ fil[p].doc = site[cur][p]
        /\ cat' = Acknowledged(cat, p) /\ batch' = batch \ {p}
        /\ UNCHANGED <<pc, fil, held>>
     \/ /\ fil[p].doc # site[cur][p] /\ p \in loaded
        /\ Save(p, site[cur][p], seen[p][cur])
     \/ /\ fil[p].doc # site[cur][p] /\ p \notin loaded
        /\ pc' = "correct" /\ held' = site[cur][p]
        /\ UNCHANGED <<cat, fil, batch>>
  /\ UNCHANGED notices

CorrectReply(p) ==
  /\ pc = "correct" /\ NextFiling(p)
  /\ UNCHANGED left /\ Reply
  /\ ReadNotices(p)
  /\ Save(p, held, seen'[p][cur])

---------------------------------------------------------------------------
(* The end of a load                                                       *)

\* Mutant: the transaction is left open.
CloseNothing == pc' = "next" /\ ClearWork /\ UNCHANGED tx

CloseLoad ==
  /\ cur' = Host /\ cat' = EmptyCatalog /\ fil' = NoFilings
  /\ pc' = "next" /\ ClearWork

\* Mutant: the lane's turn is not stored.
CommitTurnless ==
  /\ catalogs' = [catalogs EXCEPT ![cur] = cat]
  /\ filings' = [filings EXCEPT ![cur] = fil]
  /\ marks' = FinishMarks(cur, ctl) /\ cooling' = FinishCooling(cur, ctl)
  /\ turn' = turn

\* The transaction of `cur' commits, with its attempt and its lane's turn.
Commit ==
  /\ catalogs' = [catalogs EXCEPT ![cur] = cat]
  /\ filings' = [filings EXCEPT ![cur] = fil]
  /\ marks' = FinishMarks(cur, ctl) /\ cooling' = FinishCooling(cur, ctl)
  /\ turn' = IF ctl.fair
             THEN IF cur \in ctl.prio THEN "GENERAL" ELSE "PRIORITY"
             ELSE turn

\* Success, in whole or in part.
FinishLoad ==
  /\ pc = "fetch" /\ batch = {}
  /\ Commit /\ CloseLoad
  /\ infra' = NoFailure
  /\ UNCHANGED <<site_, ctl, queue, notices, faults>>

\* Two infrastructure failures in a row end the run.
Failure(kind) == [kind |-> kind, n |-> IF infra.kind = kind THEN infra.n + 1 ELSE 1]
Count(f) ==
  /\ infra' = f
  /\ queue' = IF f.n >= InfraThreshold THEN <<>> ELSE queue

\* Mutant: the handler records the attempt and rolls the work back.
FailLoadEmpty ==
  /\ pc = "failed"
  /\ marks' = FinishMarks(cur, ctl) /\ cooling' = FinishCooling(cur, ctl)
  /\ UNCHANGED <<catalogs, filings, turn>>
  /\ CloseLoad
  /\ Count(IF Cached(fil) # {} THEN NoFailure
           ELSE IF err = "deferred" THEN infra
           ELSE IF err \in {"network", "schema"} THEN Failure(err)
           ELSE NoFailure)
  /\ UNCHANGED <<site_, ctl, notices, faults>>

\* The handler of DataSourceError: what the load did is committed; an issuer
\* with filings is then served from them, the others pass the error on.
FailLoad ==
  /\ pc = "failed"
  /\ Commit /\ CloseLoad
  /\ Count(IF Cached(fil) # {} THEN NoFailure
           ELSE IF err = "deferred" THEN infra
           ELSE IF err \in {"network", "schema"} THEN Failure(err)
           ELSE NoFailure)
  /\ UNCHANGED <<site_, ctl, notices, faults>>

\* A storage error rolls the load back, attempt mark and turn included.
Rollback ==
  /\ CloseLoad
  /\ Count(Failure("storage"))
  /\ UNCHANGED <<site_, db>>

StorageFails ==
  /\ cur # Host /\ Fault("storage")
  /\ Rollback
  /\ UNCHANGED <<ctl, notices>>

\* save_revision cannot write the raw document it was given; the notices that
\* were read for it stay cached.
WriteRefused(p) ==
  /\ cur \in Unwritable /\ MayAsk /\ NextFiling(p)
  /\ \/ pc = "fetch" /\ fil[p].doc # site[cur][p] /\ p \in loaded /\ UNCHANGED notices
     \/ pc = "correct" /\ ReadNotices(p)
  /\ ctl' = Passed
  /\ Rollback
  /\ UNCHANGED faults

\* The process dies, or an exception no handler knows ends the run.
Kill ==
  /\ pc # "idle" /\ Fault("kill")
  /\ Forget
  /\ UNCHANGED <<site_, db>>

---------------------------------------------------------------------------
RunStep ==
  \/ \E b \in Batches : BeginRun(b)
  \/ ScheduleBatch \/ EndRun
  \/ \E s \in Symbols : PassOver(s) \/ Start(s)
  \/ DiscoverReply \/ Announced \/ Plan
  \/ \E p \in Periods :
        \/ ReviseReply(p) \/ AnnounceReply(p) \/ ScanReply(p) \/ ScanCached(p)
        \/ FetchReply(p) \/ CorrectReply(p) \/ WriteRefused(p)
  \/ RequestRefused \/ BadPage
  \/ FinishLoad \/ FailLoad

FaultStep ==
  \/ PreloadFails \/ ScheduleFails \/ GuardPage \/ NetworkFails
  \/ StorageFails \/ Kill

Environment ==
  \/ \E s \in Symbols, p \in Periods : Publish(s, p) \/ Correct(s, p)
  \/ MonthEnds \/ CooldownEnds

Next == RunStep \/ FaultStep \/ Environment

Spec == Init /\ [][Next]_vars

\* Runs are started day after day and proceed while nothing stops them; days
\* and months pass.
FairSpec ==
  /\ Spec
  /\ WF_vars(RunStep) /\ WF_vars(CooldownEnds) /\ SF_vars(MonthEnds)

---------------------------------------------------------------------------
(* Properties                                                              *)

\* Types of the variables (MopsRefreshPolicy, FilingCatalogState).
TypeOK ==
  /\ site \in [Symbols -> [Periods -> Versions]] /\ months \in 0..MaxMonths
  /\ marks \in Seq(Keys) /\ cooling \subseteq ToSet(marks)
  /\ turn \in {"PRIORITY", "GENERAL"}
  /\ catalogs \in [Symbols -> Catalog]
  /\ filings \in [Symbols -> [Periods -> Filing]]
  /\ pc \in {"idle", "revise", "schedule", "next", "discover", "announce",
             "scan", "fetch", "correct", "failed"}
  /\ ctl.symbols \subseteq Symbols /\ ctl.requests \in Nat
  /\ queue \in Seq(Symbols)
  /\ seen \in [Periods -> [Symbols -> Versions]] /\ loaded \subseteq Periods
  /\ cur = Host <=> pc \in {"idle", "revise", "schedule", "next"}
  /\ cur \in Keys /\ cat \in Catalog /\ fil \in [Periods -> Filing]
  /\ left \subseteq Periods /\ batch \subseteq Periods /\ held \in Versions
  /\ faults \in 0..MaxFaults

\* A run never spends more than MopsRefreshPolicy allows it, whatever mixture
\* of retries, host failovers, repeated catalog pages, correction look-ups,
\* storage errors and unscheduled issuers it goes through.
WithinPolicy ==
  /\ ctl.requests <= MaxRequests
  /\ Cardinality(ctl.symbols) <= MaxSymbols

\* No HTTP attempt is made while the site's cooldown lasts, nor for an issuer
\* whose own cooldown lasts: across runs, kills and storage errors.
NoContactWhileCooling ==
  [][ctl'.requests > ctl.requests => {Host, cur} \cap cooling = {}]_vars

\* A correction notice counts as answered only when the stored document is at
\* least the one it announces: an acknowledgement never outruns the download
\* it stands for, although the two are written in different rows, in batches,
\* by loads that may be cut short anywhere.
AnsweredMeansStored ==
  \A s \in Symbols, p \in Periods :
    Answered(catalogs[s], filings[s], p) <= filings[s][p].doc

\* Stored documents and answered notices are never taken back: monthly
\* discoveries and interrupted loads keep what earlier runs paid for.
WorkEndures ==
  [][\A s \in Symbols, p \in Periods :
        /\ filings[s][p].doc <= filings'[s][p].doc
        /\ Answered(catalogs[s], filings[s], p)
             <= Answered(catalogs'[s], filings'[s], p)]_vars

\* A load that ends without a storage error or a kill keeps all its work, also
\* when it ends in an error of the site: the next batch starts from there.
LoadsKeepTheirWork ==
  [][cur # Host /\ pc' = "next" /\ infra'.kind # "storage" =>
       catalogs'[cur] = cat /\ filings'[cur] = fil]_vars

\* What was downloaded and answered is never lost, but for a storage error or
\* a kill in the load that did it.
WorkIsKept == WorkEndures /\ LoadsKeepTheirWork

Current(s) == \A p \in Periods : filings[s][p].doc = site[s][p]

\* Every issuer the site can serve and the disk can hold ends up with the
\* current version of every filing, whatever the others do to the batches.
Converges ==
  \A s \in Symbols \ (Blank \cup Unwritable) : <>[]Current(s)
=============================================================================
