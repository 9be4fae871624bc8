------------------------- MODULE MopsRefreshProofs -------------------------
(***************************************************************************)
(* An answered correction notice has its document, for every set of        *)
(* issuers and periods, every policy and any number of faults, provided no *)
(* correction appears between a download and the look-up of its notice     *)
(* (QuietPoints).  AnsweredMeansStored is not inductive: a load works on   *)
(* its own copy of the rows, from notices read earlier in the run, and     *)
(* commits both later.  The invariant below carries the same bounds        *)
(* through the transaction and the notices, against the site itself.       *)
(*                                                                         *)
(* The other parts prove, without any condition on corrections, that runs  *)
(* keep to their policy and respect cooldowns; that every variable keeps   *)
(* its type; and that work is kept: the rows of an open load are never     *)
(* behind the committed ones, which it replaces at its end.                *)
(***************************************************************************)
EXTENDS MopsRefresh, FiniteSetTheorems, SequenceTheorems, TLAPS

\* The issuer's rows, committed or in the open transaction, against the site:
\* no stored document, known notice or answer is ahead of what it comes from.
Rows(c, f) ==
  /\ c \in [fresh : BOOLEAN, cands : SUBSET Periods, scanned : SUBSET Periods,
            corr : [Periods -> Nat], ver : [Periods -> Nat], pend : BOOLEAN,
            observed : {c.observed}]
  /\ f \in [Periods -> [doc : Nat, note : Nat]]

Bounded(c, f, s) ==
  \A p \in Periods :
    /\ f[p].doc <= site[s][p] /\ c.corr[p] <= site[s][p]
    /\ c.ver[p] <= f[p].doc /\ f[p].note <= f[p].doc
    /\ p \in c.cands => site[s][p] > 0

SiteOK == site \in [Symbols -> [Periods -> Nat]]

StoreOK ==
  /\ catalogs = [s \in Symbols |-> catalogs[s]]
  /\ filings = [s \in Symbols |-> filings[s]]
  /\ \A s \in Symbols :
        Rows(catalogs[s], filings[s]) /\ Bounded(catalogs[s], filings[s], s)

SeenOK ==
  /\ seen \in [Periods -> [Symbols -> Nat]]
  /\ \A p \in Periods, s \in Symbols : seen[p][s] <= site[s][p]

Loading == {"discover", "announce", "scan", "fetch", "correct", "failed"}

TxOK ==
  /\ cur \in Symbols \cup {Host}
  /\ pc \in Loading <=> cur # Host
  /\ cur # Host => Rows(cat, fil) /\ Bounded(cat, fil, cur)
  /\ batch \subseteq Periods
  /\ cur = Host => batch = {}
  /\ cur # Host => \A p \in batch : site[cur][p] > 0

\* The document at hand is still the site's own.
HeldOK ==
  /\ held \in Nat
  /\ pc = "correct" => \A p \in Periods : NextFiling(p) => held = site[cur][p]

IInv == SiteOK /\ StoreOK /\ SeenOK /\ TxOK /\ HeldOK

THEOREM InvariantImplies ==
  IInv => AnsweredMeansStored
  BY DEF IInv, StoreOK, Rows, Bounded, AnsweredMeansStored, Answered, Larger

\* The conditions the proof needs of the constants: no issuer is called Host,
\* periods are numbers, and corrections keep off the look-up of a notice.
LEMMA Constants ==
  Host \notin Symbols /\ Periods \subseteq Nat \ {0}
  BY RefreshAssumption DEF RefreshAssumption

THEOREM InvariantInit ==
  Init => IInv
<1> SUFFICES ASSUME Init PROVE IInv
  OBVIOUS
<1> USE DEF Init
<1>1. SiteOK
  BY DEF SiteOK
<1>2. StoreOK
  <2>1. Rows(EmptyCatalog, NoFilings)
    BY DEF Rows, EmptyCatalog, NoFilings, NoVersions
  <2>2. ASSUME NEW s \in Symbols PROVE Bounded(EmptyCatalog, NoFilings, s)
    BY DEF Bounded, EmptyCatalog, NoFilings, NoVersions
  <2>3. catalogs = [s \in Symbols |-> EmptyCatalog]
        /\ filings = [s \in Symbols |-> NoFilings]
    OBVIOUS
  <2> HIDE DEF Init
  <2> QED
    BY <2>1, <2>2, <2>3 DEF StoreOK
<1>3. SeenOK
  BY DEF SeenOK, NoNotices
<1>4. TxOK
  BY DEF TxOK, Loading
<1>5. HeldOK
  BY DEF HeldOK
<1> QED
  BY <1>1, <1>2, <1>3, <1>4, <1>5 DEF IInv

---------------------------------------------------------------------------
(* Steps that leave the rows, the notices and the batch alone              *)

LEMMA Frame ==
  ASSUME IInv,
         UNCHANGED <<site, catalogs, filings, seen, cur, cat, fil, batch, held>>,
         \/ pc' = pc
         \/ cur = Host /\ pc' \notin Loading
         \/ cur # Host /\ pc' \in Loading \ {"correct"}
  PROVE  IInv'
<1>1. SiteOK' /\ StoreOK' /\ SeenOK'
  BY DEF IInv, SiteOK, StoreOK, SeenOK, Rows, Bounded
<1>2. TxOK'
  BY DEF IInv, TxOK, Rows, Bounded
<1>3. HeldOK'
  BY DEF IInv, HeldOK, NextFiling, Precedes, Cached, Loading
<1> QED
  BY <1>1, <1>2, <1>3 DEF IInv

LEMMA FailStep ==
  ASSUME IInv, NEW e, NEW c, Fail(e, c)
  PROVE  IInv'
  BY Frame DEF Fail, Loading, site_, notices, tx, IInv, TxOK

LEMMA QuietSteps ==
  ASSUME IInv,
         \/ \E b \in Batches : BeginRun(b)
         \/ ScheduleBatch \/ PreloadFails \/ ScheduleFails
         \/ \E s \in Symbols : PassOver(s)
         \/ \E p \in Periods : AnnounceReply(p)
         \/ RequestRefused \/ GuardPage \/ NetworkFails \/ BadPage
         \/ CooldownEnds
  PROVE  IInv'
<1> USE DEF site_, db, notices, tx, run, request, work
<1>1. CASE \E b \in Batches : BeginRun(b)
  BY <1>1, Frame DEF BeginRun, Loading, IInv, TxOK
<1>2. CASE ScheduleBatch \/ PreloadFails \/ ScheduleFails
  BY <1>2, Frame DEF ScheduleBatch, PreloadFails, ScheduleFails, Schedule, Loading,
                   IInv, TxOK
<1>3. CASE \E s \in Symbols : PassOver(s)
  BY <1>3, Frame DEF PassOver
<1>4. CASE \E p \in Periods : AnnounceReply(p)
  BY <1>4, Frame DEF AnnounceReply, Reply
<1>5. CASE RequestRefused \/ GuardPage
  BY <1>5, FailStep DEF RequestRefused, GuardPage
<1>6. CASE NetworkFails
  BY <1>6, FailStep, Frame DEF NetworkFails
<1>7. CASE BadPage
  BY <1>7, FailStep, Frame DEF BadPage
<1>8. CASE CooldownEnds
  BY <1>8, Frame DEF CooldownEnds
<1> QED
  BY <1>1, <1>2, <1>3, <1>4, <1>5, <1>6, <1>7, <1>8

---------------------------------------------------------------------------
(* The site                                                                *)

\* The loads compare with the site, whose documents only get newer.
LEMMA SiteMoves ==
  ASSUME IInv, NEW s \in Symbols, NEW p \in Periods, site[s][p] \in Nat,
         site' = [site EXCEPT ![s][p] = @ + 1],
         pc = "correct" => site[s][p] = 0,
         UNCHANGED <<catalogs, filings, seen, pc, cur, cat, fil, batch, held>>
  PROVE  IInv'
<1>1. \A t \in Symbols, q \in Periods :
         /\ site[t][q] \in Nat /\ site'[t][q] \in Nat
         /\ site[t][q] <= site'[t][q]
         /\ site[t][q] > 0 /\ pc = "correct" => site'[t][q] = site[t][q]
  BY DEF IInv, SiteOK
<1>2. SiteOK'
  BY DEF IInv, SiteOK
<1>3. ASSUME NEW c, NEW f, NEW t \in Symbols, Rows(c, f), Bounded(c, f, t)
      PROVE  Bounded(c, f, t)'
  BY <1>1, <1>3 DEF Rows, Bounded
<1>4. StoreOK'
  BY <1>3 DEF IInv, StoreOK, Rows, Bounded
<1>5. SeenOK'
  BY <1>1 DEF IInv, SeenOK
<1>6. TxOK'
  BY <1>1, <1>3 DEF IInv, TxOK, Rows, Bounded
<1>7. HeldOK'
  <2>1. ASSUME pc = "correct", NEW q \in Periods, NextFiling(q)
        PROVE  held = site'[cur][q]
    BY <1>1, <2>1 DEF IInv, HeldOK, TxOK, NextFiling, Loading
  <2> QED
    BY <2>1 DEF IInv, HeldOK, NextFiling, Precedes, Cached
<1> QED
  BY <1>2, <1>4, <1>5, <1>6, <1>7 DEF IInv

LEMMA SiteSteps ==
  ASSUME IInv, "correct" \in QuietPoints,
         \/ \E s \in Symbols, p \in Periods : Publish(s, p) \/ Correct(s, p)
         \/ MonthEnds
  PROVE  IInv'
<1> USE DEF site_, db, notices, tx, run, request, work
<1>1. ASSUME NEW s \in Symbols, NEW p \in Periods, Publish(s, p)
      PROVE  IInv'
  <2>1. site[s][p] = 0 /\ site' = [site EXCEPT ![s][p] = 1]
    BY <1>1 DEF Publish
  <2>2. site' = [site EXCEPT ![s][p] = @ + 1]
    BY <2>1 DEF IInv, SiteOK
  <2>3. UNCHANGED <<catalogs, filings, seen, pc, cur, cat, fil, batch, held>>
    BY <1>1 DEF Publish
  <2>4. site[s][p] = 0 /\ site[s][p] \in Nat
    BY <2>1
  <2> QED
    BY <2>2, <2>3, <2>4, SiteMoves
<1>2. ASSUME NEW s \in Symbols, NEW p \in Periods, Correct(s, p)
      PROVE  IInv'
  <2>1. site[s][p] \in Nat /\ pc # "correct"
    BY <1>2 DEF Correct, IInv, SiteOK
  <2> QED
    BY <1>2, <2>1, SiteMoves DEF Correct
<1>3. CASE MonthEnds
  <2>1. StoreOK'
    BY <1>3 DEF MonthEnds, IInv, StoreOK, Rows, Bounded
  <2>2. SiteOK' /\ SeenOK' /\ TxOK' /\ HeldOK'
    BY <1>3 DEF MonthEnds, IInv, SiteOK, SeenOK, TxOK, HeldOK, Rows, Bounded,
                NextFiling, Precedes, Cached
  <2> QED
    BY <2>1, <2>2 DEF IInv
<1> QED
  BY <1>1, <1>2, <1>3

---------------------------------------------------------------------------
(* The transaction of a load opens and closes                              *)

LEMMA StartStep ==
  ASSUME IInv, NEW s \in Symbols, Start(s)
  PROVE  IInv'
<1> USE DEF site_, db, notices
<1>1. /\ cur' = s /\ cat' = catalogs[s] /\ fil' = filings[s] /\ batch' = {}
      /\ cur' # Host /\ pc' \in Loading \ {"correct"}
  BY Constants DEF Start, IInv, TxOK, Loading
<1>2. Rows(catalogs[s], filings[s]) /\ Bounded(catalogs[s], filings[s], s)
  BY DEF IInv, StoreOK
<1>3. UNCHANGED <<site, catalogs, filings, seen, held>>
  BY DEF Start
<1>4. SiteOK' /\ StoreOK' /\ SeenOK'
  BY <1>3 DEF IInv, SiteOK, StoreOK, SeenOK, Rows, Bounded
<1>5. TxOK'
  <2>1. Rows(cat, fil)'
    BY <1>1, <1>2 DEF Rows
  <2>2. Bounded(cat, fil, cur)'
    BY <1>1, <1>2, <1>3 DEF Bounded
  <2> QED
    BY <1>1, <2>1, <2>2 DEF TxOK
<1>6. HeldOK'
  BY <1>1, <1>3 DEF IInv, HeldOK
<1> QED
  BY <1>4, <1>5, <1>6 DEF IInv

\* Without a load at hand only the committed rows and the notices count.
LEMMA Closed ==
  ASSUME IInv, StoreOK', UNCHANGED site, SeenOK',
         cur' = Host, batch' = {}, held' = 0, pc' \notin Loading
  PROVE  IInv'
<1>1. SiteOK'
  BY DEF IInv, SiteOK
<1>2. TxOK'
  BY DEF TxOK, Loading
<1>3. HeldOK'
  BY DEF HeldOK, Loading
<1> QED
  BY <1>1, <1>2, <1>3 DEF IInv

\* A commit stores rows that kept to the bounds in the transaction.
LEMMA CommitStore ==
  ASSUME IInv, cur # Host, Commit, UNCHANGED site
  PROVE  StoreOK'
<1>1. cur \in Symbols /\ Rows(cat, fil) /\ Bounded(cat, fil, cur)
  BY DEF IInv, TxOK
<1>2. /\ catalogs' = [catalogs EXCEPT ![cur] = cat]
      /\ filings' = [filings EXCEPT ![cur] = fil]
  BY DEF Commit
<1>3. /\ catalogs' = [s \in Symbols |-> catalogs'[s]]
      /\ filings' = [s \in Symbols |-> filings'[s]]
  BY <1>2 DEF IInv, StoreOK
<1>4. ASSUME NEW s \in Symbols
      PROVE  Rows(catalogs[s], filings[s])' /\ Bounded(catalogs[s], filings[s], s)'
  <2>1. CASE s = cur
    <3>1. catalogs'[s] = cat /\ filings'[s] = fil
      BY <1>1, <1>2, <2>1 DEF IInv, StoreOK
    <3> QED
      BY <1>1, <2>1, <3>1 DEF Rows, Bounded
  <2>2. CASE s # cur
    <3>1. catalogs'[s] = catalogs[s] /\ filings'[s] = filings[s]
      BY <1>2, <2>2 DEF IInv, StoreOK
    <3> QED
      BY <3>1 DEF IInv, StoreOK, Rows, Bounded
  <2> QED
    BY <2>1, <2>2
<1> QED
  BY <1>3, <1>4 DEF StoreOK, Rows, Bounded

LEMMA NoticesRead ==
  ASSUME IInv, NEW p \in Periods, ReadNotices(p), UNCHANGED site
  PROVE  SeenOK'
<1>1. \A s \in Symbols : /\ NoticeOf(site[s][p]) \in Nat
                         /\ NoticeOf(site[s][p]) <= site[s][p]
  BY DEF IInv, SiteOK, NoticeOf
<1> QED
  BY <1>1 DEF ReadNotices, IInv, SiteOK, SeenOK

LEMMA EndSteps ==
  ASSUME IInv,
         \/ FinishLoad \/ FailLoad \/ StorageFails
         \/ \E p \in Periods : WriteRefused(p)
         \/ EndRun \/ Kill
  PROVE  IInv'
<1> USE DEF site_, db, notices, Loading
<1>1. CASE FinishLoad \/ FailLoad
  <2>1. cur # Host /\ Commit /\ UNCHANGED <<site, seen>>
    BY <1>1 DEF FinishLoad, FailLoad, IInv, TxOK
  <2>2. StoreOK'
    BY <2>1, CommitStore
  <2>3. SeenOK'
    BY <2>1 DEF IInv, SeenOK
  <2>4. cur' = Host /\ batch' = {} /\ held' = 0 /\ pc' = "next"
    BY <1>1 DEF FinishLoad, FailLoad, CloseLoad, ClearWork
  <2> QED
    BY <2>1, <2>2, <2>3, <2>4, Closed
<1>2. CASE StorageFails \/ \E p \in Periods : WriteRefused(p)
  <2>1. UNCHANGED <<site, catalogs, filings>>
    BY <1>2 DEF StorageFails, WriteRefused, Rollback
  <2>2. StoreOK'
    BY <2>1 DEF IInv, StoreOK, Rows, Bounded
  <2>3. ASSUME NEW p \in Periods, ReadNotices(p)
        PROVE  SeenOK'
    BY <2>1, <2>3, NoticesRead
  <2>4. (seen' = seen) => SeenOK'
    BY <2>1 DEF IInv, SeenOK
  <2>5. SeenOK'
    BY <1>2, <2>3, <2>4 DEF StorageFails, WriteRefused
  <2>6. cur' = Host /\ batch' = {} /\ held' = 0 /\ pc' = "next"
    BY <1>2 DEF StorageFails, WriteRefused, Rollback, CloseLoad, ClearWork
  <2> QED
    BY <2>1, <2>2, <2>5, <2>6, Closed
<1>3. CASE EndRun \/ Kill
  <2>1. UNCHANGED <<site, catalogs, filings>>
    BY <1>3 DEF EndRun, Kill
  <2>2. cur' = Host /\ batch' = {} /\ held' = 0 /\ pc' = "idle"
        /\ seen' = NoNotices
    BY <1>3 DEF EndRun, Kill, Forget, ClearWork
  <2>3. StoreOK' /\ SeenOK'
    BY <2>1, <2>2 DEF IInv, StoreOK, SiteOK, SeenOK, NoNotices, Rows, Bounded
  <2> QED
    BY <2>1, <2>2, <2>3, Closed
<1> QED
  BY <1>1, <1>2, <1>3

---------------------------------------------------------------------------
(* The steps of a load                                                     *)

\* A step of a load keeps the invariant when its rows keep to the bounds.
LEMMA Progress ==
  ASSUME IInv, UNCHANGED <<site, catalogs, filings, cur>>, SeenOK',
         cur # Host, pc' \in Loading,
         Rows(cat, fil)', Bounded(cat, fil, cur)',
         batch' \subseteq Periods, \A p \in batch' : site[cur][p] > 0,
         HeldOK'
  PROVE  IInv'
<1>1. SiteOK' /\ StoreOK'
  BY DEF IInv, SiteOK, StoreOK, Rows, Bounded
<1>2. TxOK'
  BY DEF IInv, TxOK
<1> QED
  BY <1>1, <1>2 DEF IInv

LEMMA ReviseStep ==
  ASSUME IInv, NEW p \in Periods, ReviseReply(p)
  PROVE  IInv'
<1> USE DEF ReviseReply, Reply, site_, db, Loading
<1>1. SeenOK'
  BY NoticesRead
<1>2. SiteOK' /\ StoreOK'
  BY DEF IInv, SiteOK, StoreOK, Rows, Bounded
<1>3. TxOK'
  BY DEF IInv, TxOK
<1>4. HeldOK'
  BY DEF IInv, HeldOK
<1> QED
  BY <1>1, <1>2, <1>3, <1>4 DEF IInv

LEMMA CatalogSteps ==
  ASSUME IInv,
         \/ DiscoverReply \/ Announced
         \/ \E p \in Periods : ScanReply(p) \/ ScanCached(p)
  PROVE  IInv'
<1> USE DEF site_, db, notices, run, work, Reply
<1>1. CASE DiscoverReply
  <2>1. /\ UNCHANGED <<site, catalogs, filings, cur, seen, fil, batch, held>>
        /\ pc = "discover" /\ pc' = "announce"
    BY <1>1 DEF DiscoverReply
  <2>2. cur # Host
    BY <2>1 DEF IInv, TxOK, Loading
  <2>3. Rows(cat, fil) /\ Bounded(cat, fil, cur) /\ cur \in Symbols
    BY <2>2 DEF IInv, TxOK
  <2>4. Rows(cat, fil)' /\ cat'.cands = Published(cur)
        /\ cat'.corr = cat.corr /\ cat'.ver = cat.ver
    BY <1>1, <2>1, <2>3 DEF DiscoverReply, Rows, Published
  <2>5. Bounded(cat, fil, cur)'
    BY <2>1, <2>3, <2>4 DEF Bounded, Published
  <2>6. SeenOK' /\ HeldOK'
    BY <2>1 DEF IInv, SeenOK, HeldOK
  <2> QED
    BY <2>1, <2>2, <2>4, <2>5, <2>6, Progress DEF IInv, TxOK, Loading
<1>2. CASE Announced
  <2>1. /\ UNCHANGED <<site, catalogs, filings, cur, seen, fil, batch, held>>
        /\ pc = "announce" /\ pc' = "scan"
    BY <1>2 DEF Announced
  <2>2. cur # Host
    BY <2>1 DEF IInv, TxOK, Loading
  <2>3. Rows(cat, fil) /\ Bounded(cat, fil, cur) /\ cur \in Symbols
    BY <2>2 DEF IInv, TxOK
  <2>4. Rows(cat, fil)' /\ cat'.cands = cat.cands
        /\ cat'.corr = cat.corr /\ cat'.ver = cat.ver
    BY <1>2, <2>1, <2>3 DEF Announced, Rows
  <2>5. Bounded(cat, fil, cur)'
    BY <2>1, <2>3, <2>4 DEF Bounded
  <2>6. SeenOK' /\ HeldOK'
    BY <2>1 DEF IInv, SeenOK, HeldOK
  <2> QED
    BY <2>1, <2>2, <2>4, <2>5, <2>6, Progress DEF IInv, TxOK, Loading
<1>3. ASSUME NEW p \in Periods, ScanReply(p) \/ ScanCached(p)
      PROVE  IInv'
  <2>1. /\ UNCHANGED <<site, catalogs, filings, cur, fil, batch, held, pc>>
        /\ pc = "scan"
        /\ cat' = Scanned(cat, p, seen'[p][cur])
    BY <1>3 DEF ScanReply, ScanCached
  <2>2. cur # Host
    BY <2>1 DEF IInv, TxOK, Loading
  <2>3. Rows(cat, fil) /\ Bounded(cat, fil, cur) /\ cur \in Symbols
    BY <2>2 DEF IInv, TxOK
  <2>4. SeenOK'
    BY <1>3, NoticesRead DEF ScanReply, ScanCached, IInv, SeenOK
  <2>5. seen'[p][cur] \in Nat /\ seen'[p][cur] <= site[cur][p]
    BY <2>1, <2>3, <2>4 DEF SeenOK
  <2>6. Rows(cat, fil)' /\ cat'.cands = cat.cands /\ cat'.ver = cat.ver
        /\ cat'.corr = [cat.corr EXCEPT ![p] = Larger(@, seen'[p][cur])]
    BY <2>1, <2>3, <2>5 DEF Scanned, Rows, Larger
  <2>7. Bounded(cat, fil, cur)'
    BY <2>1, <2>3, <2>5, <2>6 DEF Bounded, Rows, Larger
  <2>8. HeldOK'
    BY <2>1 DEF IInv, HeldOK
  <2> QED
    BY <2>1, <2>2, <2>4, <2>6, <2>7, <2>8, Progress DEF IInv, TxOK, Loading
<1> QED
  BY <1>1, <1>2, <1>3

LEMMA PlanStep ==
  ASSUME IInv, Plan
  PROVE  IInv'
<1> USE DEF site_, db, notices, run
<1>1. /\ UNCHANGED <<site, catalogs, filings, cur, seen, fil, held>>
      /\ pc = "scan" /\ pc' = "fetch" /\ cat' = MergeEvents(cat, cur)
  BY DEF Plan
<1>2. cur # Host
  BY <1>1 DEF IInv, TxOK, Loading
<1>3. Rows(cat, fil) /\ Bounded(cat, fil, cur) /\ cur \in Symbols
  BY <1>2 DEF IInv, TxOK
<1>4. \A p \in Periods : Event(cur, p) \in Nat /\ Event(cur, p) <= site[cur][p]
  BY <1>3 DEF Event, IInv, SeenOK, SiteOK
<1>5. Rows(cat, fil)' /\ cat'.cands = cat.cands /\ cat'.ver = cat.ver
      /\ cat'.corr = [p \in Periods |-> Larger(cat.corr[p], Event(cur, p))]
  BY <1>1, <1>3, <1>4 DEF MergeEvents, Rows, Larger
<1>6. Bounded(cat, fil, cur)'
  BY <1>1, <1>3, <1>4, <1>5 DEF Bounded, Rows, Larger
<1>7. batch' \subseteq cat'.cands
  BY DEF Plan, PlanOf
<1>8. batch' \subseteq Periods /\ \A p \in batch' : site[cur][p] > 0
  BY <1>3, <1>5, <1>7 DEF Rows, Bounded
<1>9. SeenOK' /\ HeldOK'
  BY <1>1 DEF IInv, SeenOK, HeldOK
<1> QED
  BY <1>1, <1>2, <1>5, <1>6, <1>8, <1>9, Progress DEF Loading

\* The order of the filings is strict, so that one filing is next.
LEMMA OneNext ==
  ASSUME NEW p \in Periods, NEW q \in Periods, NextFiling(p), NextFiling(q)
  PROVE  p = q
<1>1. SUFFICES ASSUME p # q PROVE FALSE
  OBVIOUS
<1>2. Precedes(p, q) /\ Precedes(q, p)
  BY <1>1 DEF NextFiling
<1>3. p \in Nat /\ q \in Nat
  BY Constants
<1> QED
  BY <1>2, <1>3 DEF Precedes

\* A saved document answers its notices: it is the site's own.
LEMMA SaveKeepsRows ==
  ASSUME IInv, cur # Host, NEW p \in Periods, NEW v, NEW n,
         v = site[cur][p], n \in Nat, n <= v,
         cat' = Acknowledged(cat, p),
         \/ fil' = [fil EXCEPT ![p] = [doc |-> v, note |-> n]]
         \/ fil' = fil /\ fil[p].doc = v,
         UNCHANGED <<site, cur>>
  PROVE  Rows(cat, fil)' /\ Bounded(cat, fil, cur)'
<1>1. Rows(cat, fil) /\ Bounded(cat, fil, cur) /\ v \in Nat
  BY DEF IInv, TxOK, SiteOK
<1>2. /\ cat'.ver = [cat.ver EXCEPT ![p] = cat.corr[p]]
      /\ cat'.corr = cat.corr /\ cat'.cands = cat.cands
  BY <1>1 DEF Acknowledged, Rows
<1>3. fil' \in [Periods -> [doc : Nat, note : Nat]]
  BY <1>1 DEF Rows
<1>4. Rows(cat, fil)'
  BY <1>1, <1>3 DEF Acknowledged, Rows
<1>5. ASSUME NEW q \in Periods
      PROVE  /\ fil'[q].doc <= site[cur][q] /\ fil'[q].note <= fil'[q].doc
             /\ fil[q].doc <= fil'[q].doc /\ (q = p => fil'[q].doc = v)
  BY <1>1, SMT DEF Rows, Bounded, IInv, SiteOK, TxOK
<1>6. Bounded(cat, fil, cur)'
  <2> SUFFICES ASSUME NEW q \in Periods
               PROVE  /\ fil'[q].doc <= site[cur][q] /\ cat'.corr[q] <= site[cur][q]
                      /\ cat'.ver[q] <= fil'[q].doc /\ fil'[q].note <= fil'[q].doc
                      /\ q \in cat'.cands => site[cur][q] > 0
    BY DEF Bounded
  <2>1. CASE q = p
    BY <1>1, <1>2, <1>5, <2>1 DEF Rows, Bounded
  <2>2. CASE q # p
    BY <1>1, <1>2, <1>3, <1>5, <2>2 DEF Rows, Bounded
  <2> QED
    BY <2>1, <2>2
<1> QED
  BY <1>4, <1>6

LEMMA FetchStep ==
  ASSUME IInv, NEW p \in Periods, FetchReply(p)
  PROVE  IInv'
<1> USE DEF site_, db, Reply
<1>1. /\ UNCHANGED <<site, catalogs, filings, cur, seen>>
      /\ pc = "fetch" /\ NextFiling(p)
  BY DEF FetchReply, notices
<1>2. cur # Host
  BY <1>1 DEF IInv, TxOK, Loading
<1>3. Rows(cat, fil) /\ Bounded(cat, fil, cur) /\ cur \in Symbols
  BY <1>2 DEF IInv, TxOK
<1>4. SeenOK'
  BY <1>1 DEF IInv, SeenOK
<1>5. CASE fil[p].doc = site[cur][p] /\ cat' = Acknowledged(cat, p)
           /\ batch' = batch \ {p} /\ UNCHANGED <<pc, fil, held>>
  <2>1. Rows(cat, fil)' /\ Bounded(cat, fil, cur)'
    <3>1. 0 \in Nat /\ 0 <= site[cur][p]
      BY <1>3 DEF IInv, SiteOK
    <3> QED
      BY <1>1, <1>2, <1>5, <3>1, SaveKeepsRows
  <2>2. HeldOK'
    BY <1>1, <1>5 DEF IInv, HeldOK
  <2> QED
    BY <1>1, <1>2, <1>4, <1>5, <2>1, <2>2, Progress DEF IInv, TxOK, Loading
<1>6. CASE p \in loaded /\ Save(p, site[cur][p], seen[p][cur])
  <2>1. seen[p][cur] \in Nat /\ seen[p][cur] <= site[cur][p]
    BY <1>3 DEF IInv, SeenOK
  <2>2. Rows(cat, fil)' /\ Bounded(cat, fil, cur)'
    BY <1>1, <1>2, <1>6, <2>1, SaveKeepsRows DEF Save
  <2>3. HeldOK' /\ batch' = batch \ {p} /\ pc' = "fetch"
    BY <1>6 DEF Save, HeldOK
  <2> QED
    BY <1>1, <1>2, <1>4, <2>2, <2>3, Progress DEF IInv, TxOK, Loading
<1>7. CASE pc' = "correct" /\ held' = site[cur][p]
           /\ UNCHANGED <<cat, fil, batch>>
  <2>1. HeldOK'
    <3>1. held' \in Nat
      BY <1>3, <1>7 DEF IInv, SiteOK
    <3>2. ASSUME NEW q \in Periods, NextFiling(q)'
          PROVE  held' = site'[cur'][q]
      <4>1. NextFiling(q)
        BY <1>7, <3>2 DEF NextFiling, Precedes, Cached
      <4> QED
        BY <1>1, <1>7, <4>1, OneNext
    <3> QED
      BY <3>1, <3>2 DEF HeldOK
  <2>2. Rows(cat, fil)' /\ Bounded(cat, fil, cur)'
    BY <1>1, <1>3, <1>7 DEF Rows, Bounded
  <2> QED
    BY <1>1, <1>2, <1>4, <1>7, <2>1, <2>2, Progress DEF IInv, TxOK, Loading
<1> QED
  BY <1>5, <1>6, <1>7 DEF FetchReply

LEMMA CorrectStep ==
  ASSUME IInv, NEW p \in Periods, CorrectReply(p)
  PROVE  IInv'
<1> USE DEF site_, db, Reply
<1>1. /\ UNCHANGED <<site, catalogs, filings, cur>>
      /\ pc = "correct" /\ NextFiling(p) /\ ReadNotices(p)
      /\ Save(p, held, seen'[p][cur])
  BY DEF CorrectReply
<1>2. cur # Host
  BY <1>1 DEF IInv, TxOK, Loading
<1>3. cur \in Symbols /\ held = site[cur][p]
  BY <1>1, <1>2 DEF IInv, TxOK, HeldOK
<1>4. SeenOK'
  BY <1>1, NoticesRead
<1>5. seen'[p][cur] \in Nat /\ seen'[p][cur] <= held
  BY <1>1, <1>3, <1>4 DEF SeenOK
<1>6. Rows(cat, fil)' /\ Bounded(cat, fil, cur)'
  BY <1>1, <1>2, <1>3, <1>5, SaveKeepsRows DEF Save
<1>7. HeldOK' /\ batch' = batch \ {p} /\ pc' = "fetch"
  BY <1>1 DEF Save, HeldOK
<1> QED
  BY <1>1, <1>2, <1>4, <1>6, <1>7, Progress DEF IInv, TxOK, Loading

---------------------------------------------------------------------------
THEOREM InvariantStep ==
  ASSUME "correct" \in QuietPoints
  PROVE  IInv /\ [Next]_vars => IInv'
<1> SUFFICES ASSUME IInv, [Next]_vars PROVE IInv'
  OBVIOUS
<1>1. CASE RunStep
  <2>1. CASE \E b \in Batches : BeginRun(b)
    BY <2>1, QuietSteps
  <2>2. CASE ScheduleBatch \/ RequestRefused \/ BadPage
    BY <2>2, QuietSteps
  <2>3. CASE \E s \in Symbols : PassOver(s) \/ Start(s)
    BY <2>3, QuietSteps, StartStep
  <2>4. CASE EndRun \/ FinishLoad \/ FailLoad
    BY <2>4, EndSteps
  <2>5. CASE DiscoverReply \/ Announced
    BY <2>5, CatalogSteps
  <2>6. CASE Plan
    BY <2>6, PlanStep
  <2>7. ASSUME NEW p \in Periods,
               \/ ReviseReply(p) \/ AnnounceReply(p) \/ ScanReply(p) \/ ScanCached(p)
               \/ FetchReply(p) \/ CorrectReply(p) \/ WriteRefused(p)
        PROVE  IInv'
    BY <2>7, ReviseStep, QuietSteps, CatalogSteps, FetchStep, CorrectStep, EndSteps
  <2> QED
    BY <1>1, <2>1, <2>2, <2>3, <2>4, <2>5, <2>6, <2>7 DEF RunStep
<1>2. CASE FaultStep
  BY <1>2, QuietSteps, EndSteps DEF FaultStep
<1>3. CASE Environment
  BY <1>3, SiteSteps, QuietSteps DEF Environment
<1>4. CASE UNCHANGED vars
  <2>1. UNCHANGED <<site, catalogs, filings, seen, cur, cat, fil, batch, held, pc>>
    BY <1>4 DEF vars, site_, db, notices, tx, work
  <2> QED
    BY <2>1, Frame
<1> QED
  BY <1>1, <1>2, <1>3, <1>4 DEF Next

\* An answered notice has its document, at every size of the market and under
\* every sequence of batches, faults, kills and corrections that spares the
\* look-up following a download (FilingIngestionService.ingest).
THEOREM AnsweredHaveDocuments ==
  ASSUME "correct" \in QuietPoints
  PROVE  Spec => []AnsweredMeansStored
<1>1. Init => IInv
  BY InvariantInit
<1>2. IInv /\ [Next]_vars => IInv'
  BY InvariantStep
<1>3. IInv => AnsweredMeansStored
  BY InvariantImplies
<1> QED
  BY <1>1, <1>2, <1>3, PTL DEF Spec

---------------------------------------------------------------------------
(* The request policy and the cooldowns.  The run's control remembers the   *)
(* site's cooldown as its open circuit, and the issuer being loaded was    *)
(* not cooling when its load started: no mark is written in between.       *)

ControlOf(c) ==
  /\ {"symbols", "requests", "streak", "circuit", "events"} \subseteq DOMAIN c
  /\ c.symbols \subseteq Symbols /\ c.requests \in Nat

ControlOK ==
  /\ ControlOf(ctl)
  /\ ctl.requests <= MaxRequests
  /\ Cardinality(ctl.symbols) <= MaxSymbols

CooldownOK ==
  /\ pc = "idle" => cur = Host
  /\ pc # "idle" /\ Host \in cooling => ctl.circuit
  /\ cur # Host => cur \notin cooling

PolicyInv == ControlOK /\ CooldownOK

LEMMA PolicyConstants ==
  /\ IsFiniteSet(Symbols) /\ Host \notin Symbols
  /\ MaxSymbols \in Nat /\ MaxRequests \in Nat /\ BlockedThreshold \in Nat
<1>1. SymbolOrder \in Seq(Symbols)
  BY RefreshAssumption DEF RefreshAssumption
<1>2. IsFiniteSet(1..Len(SymbolOrder))
  BY <1>1, FS_Interval
<1>3. [i \in 1..Len(SymbolOrder) |-> SymbolOrder[i]]
        \in Surjection(1..Len(SymbolOrder), Symbols)
  BY DEF Surjection, Symbols
<1>4. IsFiniteSet(Symbols)
  BY <1>2, <1>3, FS_Surjection
<1> QED
  BY <1>4, RefreshAssumption DEF RefreshAssumption

LEMMA FreshControl ==
  ASSUME NEW b \in BOOLEAN, NEW n
  PROVE  /\ ControlOf(BegunRun(b, n)) /\ BegunRun(b, n).circuit = b
         /\ BegunRun(b, n).requests = 0 /\ BegunRun(b, n).symbols = {}
BY DEF ControlOf, BegunRun

LEMMA PolicyInit ==
  Init => PolicyInv
<1> SUFFICES ASSUME Init PROVE PolicyInv
  OBVIOUS
<1>1. ctl = BegunRun(FALSE, 0) /\ pc = "idle" /\ cur = Host
  BY DEF Init
<1>2. Cardinality({}) = 0
  BY FS_EmptySet
<1>3. ControlOf(ctl) /\ ctl.requests = 0 /\ ctl.symbols = {}
  BY <1>1, FreshControl
<1>4. ControlOK
  BY <1>2, <1>3, PolicyConstants DEF ControlOK
<1> QED
  BY <1>1, <1>4 DEF PolicyInv, CooldownOK

\* The control after an attempt that before_request allowed.
Attempted(c) ==
  \/ c = Passed \/ c = Guarded
  \/ c = [ctl EXCEPT !.requests = @ + 1]
  \/ \E e : c = [Passed EXCEPT !.events = e]

\* A control that keeps to the policy, with the issuers and circuit of now.
Counted(c) ==
  /\ ControlOf(c) /\ c.requests <= MaxRequests
  /\ c.symbols = ctl.symbols /\ (ctl.circuit => c.circuit)

LEMMA AttemptCounts ==
  ASSUME ControlOK, MayAsk, NEW c, Attempted(c)
  PROVE  Counted(c)
<1> USE DEF Counted
<1>1. /\ ControlOf(ctl) /\ ctl.requests < MaxRequests /\ ctl.requests \in Nat
      /\ MaxRequests \in Nat
  BY PolicyConstants DEF ControlOK, MayAsk, ControlOf
<1>2. CASE c = Passed
  BY <1>1, <1>2 DEF ControlOf, Passed
<1>3. CASE c = Guarded
  <2>1. DOMAIN c = DOMAIN ctl /\ c.requests = ctl.requests + 1
        /\ c.symbols = ctl.symbols
    BY <1>1, <1>3 DEF ControlOf, Guarded
  <2>2. c.circuit = (ctl.circuit \/ ctl.streak + 1 >= BlockedThreshold)
    BY <1>1, <1>3 DEF ControlOf, Guarded
  <2>3. ctl.circuit => c.circuit
    BY <2>2, Zenon
  <2>4. ControlOf(c) /\ c.requests <= MaxRequests
    BY <1>1, <2>1 DEF ControlOf
  <2> QED
    BY <2>1, <2>3, <2>4
<1>4. CASE c = [ctl EXCEPT !.requests = @ + 1]
  BY <1>1, <1>4 DEF ControlOf
<1>5. ASSUME NEW e, c = [Passed EXCEPT !.events = e]
      PROVE  Counted(c)
  BY <1>1, <1>5 DEF ControlOf, Passed
<1> QED
  BY <1>2, <1>3, <1>4, <1>5 DEF Attempted

\* What a step within a run has to respect.
LEMMA PolicyStep ==
  ASSUME PolicyInv, pc # "idle", pc' # "idle",
         Counted(ctl'),
         Host \in cooling' => Host \in cooling \/ ctl'.circuit,
         cur' = Host \/ (cur' = cur /\ cur \notin cooling')
  PROVE  PolicyInv'
<1>1. ControlOK'
  BY DEF PolicyInv, ControlOK, ControlOf, Counted
<1>2. CooldownOK'
  BY DEF PolicyInv, CooldownOK, Counted
<1> QED
  BY <1>1, <1>2 DEF PolicyInv

LEMMA SameControl ==
  ASSUME PolicyInv, ctl' = ctl
  PROVE  Counted(ctl')
BY DEF PolicyInv, ControlOK, ControlOf, Counted

\* Every failure keeps the control of its attempt; the site cools only with an
\* open circuit.
LEMMA PolicyFail ==
  ASSUME PolicyInv, pc # "idle", NEW e, NEW c, Fail(e, c),
         Counted(c)
  PROVE  PolicyInv'
<1>1. ctl' = c /\ cur' = cur /\ pc' # "idle"
  BY DEF Fail, tx
<1>2. CASE cur = Host
  <2>1. Host \in cooling' => Host \in cooling \/ c.circuit
    BY <1>2 DEF Fail
  <2> QED
    BY <1>1, <1>2, <2>1, PolicyStep
<1>3. CASE cur # Host
  <2>1. cooling' = cooling /\ cur \notin cooling
    BY <1>3 DEF Fail, PolicyInv, CooldownOK
  <2> QED
    BY <1>1, <2>1, PolicyStep
<1> QED
  BY <1>2, <1>3

LEMMA PolicyAsked ==
  ASSUME PolicyInv,
         \/ GuardPage \/ NetworkFails \/ BadPage
         \/ DiscoverReply
         \/ \E p \in Periods :
               \/ ReviseReply(p) \/ AnnounceReply(p) \/ ScanReply(p)
               \/ FetchReply(p) \/ CorrectReply(p) \/ WriteRefused(p)
  PROVE  PolicyInv' /\ MayAsk
<1>1. MayAsk
  BY DEF GuardPage, NetworkFails, BadPage, DiscoverReply, ReviseReply,
         AnnounceReply, ScanReply, FetchReply, CorrectReply, WriteRefused, Reply
<1> SUFFICES PolicyInv'
  BY <1>1
<1>2. pc # "idle" /\ ControlOK
  BY <1>1 DEF MayAsk, AtRequest, PolicyInv
<1>3. \A c : Attempted(c) => Counted(c)
  BY <1>1, <1>2, AttemptCounts
<1>4. ASSUME NEW e, NEW c, Attempted(c), Fail(e, c) PROVE PolicyInv'
  BY <1>2, <1>3, <1>4, PolicyFail
<1>5. ASSUME Attempted(ctl'), pc' # "idle", UNCHANGED <<cooling, cur>>
      PROVE  PolicyInv'
  <2>1. cur' = Host \/ (cur' = cur /\ cur \notin cooling')
    BY <1>5 DEF PolicyInv, CooldownOK
  <2> QED
    BY <1>2, <1>3, <1>5, <2>1, PolicyStep
<1> USE DEF db, tx
<1>6. CASE GuardPage
  BY <1>4, <1>6 DEF GuardPage, Attempted
<1>7. CASE NetworkFails
  <2>1. Attempted([ctl EXCEPT !.requests = @ + 1])
    BY DEF Attempted
  <2>2. CASE Fail("network", [ctl EXCEPT !.requests = @ + 1])
    BY <1>4, <2>1, <2>2
  <2>3. CASE ctl' = [ctl EXCEPT !.requests = @ + 1] /\ UNCHANGED <<db, pc, tx>>
    BY <1>2, <1>5, <2>1, <2>3
  <2> QED
    BY <1>7, <2>2, <2>3 DEF NetworkFails
<1>8. CASE BadPage
  <2>1. Attempted(Passed)
    BY DEF Attempted
  <2>2. CASE \E e \in {"schema", "nodata"} : Fail(e, Passed)
    BY <1>4, <2>1, <2>2
  <2>3. CASE ctl' = Passed /\ UNCHANGED <<db, pc, tx>>
    BY <1>2, <1>5, <2>1, <2>3
  <2> QED
    BY <1>8, <2>2, <2>3 DEF BadPage
<1>9. ASSUME Reply, pc' # "idle" PROVE PolicyInv'
  <2>1. Attempted(ctl')
    BY <1>9, Zenon DEF Reply, Attempted
  <2> QED
    BY <1>5, <1>9, <2>1 DEF Reply
<1>10. CASE DiscoverReply
  BY <1>9, <1>10 DEF DiscoverReply
<1>11. ASSUME NEW p \in Periods,
              \/ ReviseReply(p) \/ AnnounceReply(p) \/ ScanReply(p)
              \/ FetchReply(p) \/ CorrectReply(p)
       PROVE  PolicyInv'
  <2>1. Reply /\ pc' # "idle"
    BY <1>11 DEF ReviseReply, AnnounceReply, ScanReply, FetchReply, CorrectReply,
                 Save
  <2> QED
    BY <1>9, <2>1
<1>12. ASSUME NEW p \in Periods, WriteRefused(p) PROVE PolicyInv'
  <2>1. Attempted(ctl') /\ pc' = "next" /\ cur' = Host /\ cooling' = cooling
    BY <1>12 DEF WriteRefused, Attempted, Rollback, CloseLoad
  <2> QED
    BY <1>2, <1>3, <2>1, PolicyStep
<1> QED
  BY <1>6, <1>7, <1>8, <1>10, <1>11, <1>12

\* An issuer is being loaded exactly in the phases of a load.
PlaceOK == pc \in Loading <=> cur # Host

LEMMA PlaceStep ==
  PlaceOK /\ [Next]_vars => PlaceOK'
<1> SUFFICES ASSUME PlaceOK, [Next]_vars PROVE PlaceOK'
  OBVIOUS
<1> USE DEF PlaceOK, Loading, tx
<1>1. ASSUME NEW e, NEW c, Fail(e, c) PROVE PlaceOK'
  BY <1>1 DEF Fail
<1>2. CASE \/ \E b \in Batches : BeginRun(b)
           \/ ScheduleBatch \/ PreloadFails \/ ScheduleFails
  BY <1>2 DEF BeginRun, ScheduleBatch, PreloadFails, ScheduleFails, Schedule
<1>3. CASE \/ EndRun \/ Kill \/ FinishLoad \/ FailLoad \/ StorageFails
           \/ \E p \in Periods : WriteRefused(p)
  BY <1>3 DEF EndRun, Kill, FinishLoad, FailLoad, StorageFails, WriteRefused,
              Rollback, Forget, CloseLoad
<1>4. ASSUME NEW s \in Symbols, PassOver(s) \/ Start(s) PROVE PlaceOK'
  BY <1>4, PolicyConstants DEF PassOver, Start
<1>5. CASE DiscoverReply \/ Announced \/ Plan
  BY <1>5 DEF DiscoverReply, Announced, Plan, Reply
<1>6. ASSUME NEW p \in Periods,
             \/ ReviseReply(p) \/ AnnounceReply(p) \/ ScanReply(p) \/ ScanCached(p)
             \/ FetchReply(p) \/ CorrectReply(p)
      PROVE  PlaceOK'
  BY <1>6 DEF ReviseReply, AnnounceReply, ScanReply, ScanCached, FetchReply,
              CorrectReply, Save, Reply
<1>7. CASE RequestRefused \/ GuardPage
  BY <1>1, <1>7 DEF RequestRefused, GuardPage
<1>8. CASE NetworkFails \/ BadPage
  BY <1>1, <1>8 DEF NetworkFails, BadPage
<1>9. CASE Environment \/ UNCHANGED vars
  BY <1>9 DEF Environment, Publish, Correct, MonthEnds, CooldownEnds, vars
<1> QED
  BY <1>2, <1>3, <1>4, <1>5, <1>6, <1>7, <1>8, <1>9 DEF Next, RunStep, FaultStep

\* The steps of a run that ask nothing.
LEMMA PolicyQuiet ==
  ASSUME PolicyInv, PlaceOK,
         \/ ScheduleBatch \/ PreloadFails \/ ScheduleFails
         \/ \E s \in Symbols : PassOver(s)
         \/ Announced \/ Plan
         \/ \E p \in Periods : ScanCached(p)
         \/ FinishLoad \/ FailLoad \/ StorageFails
         \/ RequestRefused
  PROVE  PolicyInv' /\ ctl'.requests = ctl.requests
<1> USE DEF db, run, tx
<1>1. ASSUME NEW R, Schedule(R)
      PROVE  PolicyInv' /\ ctl'.requests = ctl.requests
  <2>1. pc # "idle" /\ pc' # "idle" /\ UNCHANGED <<cooling, cur>>
    BY <1>1 DEF Schedule
  <2>2. /\ DOMAIN ctl' = DOMAIN ctl /\ ctl'.requests = ctl.requests
        /\ ctl'.symbols = ctl.symbols /\ ctl'.circuit = ctl.circuit
    BY <1>1 DEF Schedule, PolicyInv, ControlOK, ControlOf
  <2>3. Counted(ctl')
    BY <2>2 DEF PolicyInv, ControlOK, ControlOf, Counted
  <2> QED
    BY <2>1, <2>2, <2>3, PolicyStep DEF PolicyInv, CooldownOK
<1>2. ASSUME ctl' = ctl, pc # "idle", pc' # "idle",
             Host \in cooling' => Host \in cooling \/ ctl.circuit,
             cur' = Host \/ UNCHANGED <<cooling, cur>>
      PROVE  PolicyInv' /\ ctl'.requests = ctl.requests
  <2>1. cur' = Host \/ (cur' = cur /\ cur \notin cooling')
    BY <1>2 DEF PolicyInv, CooldownOK
  <2>2. Counted(ctl')
    BY <1>2, SameControl
  <2> QED
    BY <1>2, <2>1, <2>2, PolicyStep
<1>3. CASE ScheduleBatch \/ PreloadFails
  BY <1>1, <1>3 DEF ScheduleBatch, PreloadFails
<1>4. CASE ScheduleFails \/ \E s \in Symbols : PassOver(s)
  BY <1>2, <1>4 DEF ScheduleFails, PassOver
<1>5. CASE Announced \/ Plan \/ \E p \in Periods : ScanCached(p)
  BY <1>2, <1>5 DEF Announced, Plan, ScanCached
<1>6. CASE FinishLoad \/ FailLoad
  <2>1. cur # Host
    BY <1>6 DEF FinishLoad, FailLoad, PlaceOK, Loading
  <2> QED
    BY <1>2, <1>6, <2>1 DEF FinishLoad, FailLoad, Commit, FinishCooling, CloseLoad
<1>7. CASE StorageFails
  <2>1. pc # "idle"
    BY <1>7 DEF StorageFails, PolicyInv, CooldownOK
  <2> QED
    BY <1>2, <1>7, <2>1 DEF StorageFails, Rollback, CloseLoad
<1>8. CASE RequestRefused
  <2>1. Fail("deferred", ctl) /\ pc # "idle"
    BY <1>8 DEF RequestRefused, AtRequest
  <2>2. Counted(ctl)
    BY DEF PolicyInv, ControlOK, ControlOf, Counted
  <2>3. ctl' = ctl
    BY <2>1 DEF Fail
  <2> QED
    BY <2>1, <2>2, <2>3, PolicyFail
<1> QED
  BY <1>3, <1>4, <1>5, <1>6, <1>7, <1>8

\* The steps that open or close a run or a load, and those of the outside.
LEMMA PolicyTurns ==
  ASSUME PolicyInv, PlaceOK,
         \/ \E b \in Batches : BeginRun(b)
         \/ \E s \in Symbols : Start(s)
         \/ EndRun \/ Kill \/ Environment
  PROVE  PolicyInv' /\ ctl'.requests \in {0, ctl.requests}
<1> USE DEF db, run, tx
<1>1. ASSUME NEW n, NEW b \in BOOLEAN, ctl' = BegunRun(b, n),
             cur' = Host, pc' # "idle" /\ Host \in cooling' => b
      PROVE  PolicyInv' /\ ctl'.requests \in {0, ctl.requests}
  <2>1. ControlOf(ctl') /\ ctl'.circuit = b /\ ctl'.requests = 0
        /\ ctl'.symbols = {}
    BY <1>1, FreshControl
  <2>2. Cardinality({}) = 0
    BY FS_EmptySet
  <2>3. ControlOK'
    BY <2>1, <2>2, PolicyConstants DEF ControlOK, ControlOf
  <2>4. CooldownOK'
    BY <1>1, <2>1 DEF CooldownOK
  <2> QED
    BY <2>1, <2>3, <2>4 DEF PolicyInv
<1>2. CASE \E b \in Batches : BeginRun(b)
  <2>1. PICK b \in Batches : BeginRun(b)
    BY <1>2
  <2>2. ctl' = BegunRun(Host \in cooling, b) /\ cooling' = cooling /\ cur' = Host
    BY <2>1 DEF BeginRun, PolicyInv, CooldownOK
  <2>3. (Host \in cooling) \in BOOLEAN
        /\ (pc' # "idle" /\ Host \in cooling' => Host \in cooling)
    BY <2>2
  <2> QED
    BY <1>1, <2>2, <2>3, Zenon
<1>3. CASE EndRun \/ Kill
  <2>1. ctl' = BegunRun(FALSE, 0) /\ cur' = Host /\ pc' = "idle"
    BY <1>3 DEF EndRun, Kill, Forget
  <2> QED
    BY <1>1, <2>1
<1>4. ASSUME NEW s \in Symbols, Start(s)
      PROVE  PolicyInv' /\ ctl'.requests = ctl.requests
  <2>1. /\ s \notin cooling /\ s \notin ctl.symbols
        /\ Cardinality(ctl.symbols) < MaxSymbols
    <3>1. ~(Cardinality(ctl.symbols) >= MaxSymbols)
      BY <1>4 DEF Start, Deferred
    <3>2. Cardinality(ctl.symbols) \in Nat
      BY PolicyConstants, FS_Subset, FS_CardinalityType
         DEF PolicyInv, ControlOK, ControlOf
    <3> QED
      BY <1>4, <3>1, <3>2, PolicyConstants DEF Start, Deferred
  <2>2. /\ DOMAIN ctl' = DOMAIN ctl /\ ctl'.requests = ctl.requests
        /\ ctl'.symbols = ctl.symbols \cup {s} /\ ctl'.circuit = ctl.circuit
    BY <1>4 DEF Start, PolicyInv, ControlOK, ControlOf
  <2>3. Cardinality(ctl'.symbols) <= MaxSymbols
    <3>1. IsFiniteSet(ctl.symbols)
      BY PolicyConstants, FS_Subset DEF PolicyInv, ControlOK, ControlOf
    <3>2. Cardinality(ctl'.symbols) = Cardinality(ctl.symbols) + 1
      BY <2>1, <2>2, <3>1, FS_AddElement
    <3>3. Cardinality(ctl.symbols) \in Nat
      BY <3>1, FS_CardinalityType
    <3> QED
      BY <2>1, <3>2, <3>3, PolicyConstants
  <2>4. ControlOK'
    BY <2>2, <2>3 DEF PolicyInv, ControlOK, ControlOf
  <2>5. CooldownOK'
    <3>1. pc # "idle" /\ pc' # "idle" /\ cur' = s /\ cooling' = cooling
      BY <1>4 DEF Start
    <3> QED
      BY <2>1, <2>2, <3>1 DEF PolicyInv, CooldownOK
  <2> QED
    BY <2>2, <2>4, <2>5 DEF PolicyInv
<1>5. CASE Environment
  <2>1. UNCHANGED <<ctl, pc, cur>> /\ cooling' \subseteq cooling
    BY <1>5 DEF Environment, Publish, Correct, MonthEnds, CooldownEnds
  <2>2. ControlOK' /\ CooldownOK'
    BY <2>1 DEF PolicyInv, ControlOK, ControlOf, CooldownOK
  <2> QED
    BY <2>1, <2>2 DEF PolicyInv
<1> QED
  BY <1>2, <1>3, <1>4, <1>5

\* A step keeps the policy, and where it makes an attempt nothing is cooling.
THEOREM PolicyInvariantStep ==
  PolicyInv /\ PlaceOK /\ [Next]_vars =>
    /\ PolicyInv'
    /\ ctl'.requests > ctl.requests => {Host, cur} \cap cooling = {}
<1> SUFFICES ASSUME PolicyInv, PlaceOK, [Next]_vars
             PROVE  /\ PolicyInv'
                    /\ ctl'.requests > ctl.requests => {Host, cur} \cap cooling = {}
  OBVIOUS
<1> SUFFICES PolicyInv' /\ (MayAsk \/ ctl'.requests \in {0, ctl.requests})
  <2>1. ctl.requests \in Nat /\ CooldownOK
    BY DEF PolicyInv, ControlOK, ControlOf
  <2>2. MayAsk => {Host, cur} \cap cooling = {}
    <3>1. MayAsk => pc # "idle" /\ ~ctl.circuit
      BY DEF MayAsk, AtRequest
    <3> QED
      BY <2>1, <3>1 DEF CooldownOK
  <2> QED
    BY <2>1, <2>2
<1>1. CASE \/ GuardPage \/ NetworkFails \/ BadPage \/ DiscoverReply
           \/ \E p \in Periods :
                 \/ ReviseReply(p) \/ AnnounceReply(p) \/ ScanReply(p)
                 \/ FetchReply(p) \/ CorrectReply(p) \/ WriteRefused(p)
  BY <1>1, PolicyAsked
<1>2. CASE \/ ScheduleBatch \/ PreloadFails \/ ScheduleFails
           \/ \E s \in Symbols : PassOver(s)
           \/ Announced \/ Plan
           \/ \E p \in Periods : ScanCached(p)
           \/ FinishLoad \/ FailLoad \/ StorageFails
           \/ RequestRefused
  BY <1>2, PolicyQuiet
<1>3. CASE \/ \E b \in Batches : BeginRun(b)
           \/ \E s \in Symbols : Start(s)
           \/ EndRun \/ Kill \/ Environment
  BY <1>3, PolicyTurns
<1>4. CASE UNCHANGED vars
  <2>1. UNCHANGED <<ctl, pc, cur, cooling>>
    BY <1>4 DEF vars, db, run, tx
  <2> QED
    BY <2>1 DEF PolicyInv, ControlOK, ControlOf, CooldownOK
<1> QED
  BY <1>1, <1>2, <1>3, <1>4 DEF Next, RunStep, FaultStep

\* No run spends more than MopsRefreshPolicy allows (before_request and
\* start_symbol), whatever fails on the way.
THEOREM PolicyKept ==
  Spec => []WithinPolicy
<1>1. Init => PolicyInv /\ PlaceOK
  BY PolicyInit DEF Init, PlaceOK, Loading
<1>2. PolicyInv /\ PlaceOK /\ [Next]_vars => (PolicyInv /\ PlaceOK)'
  BY PolicyInvariantStep, PlaceStep
<1>3. PolicyInv => WithinPolicy
  BY DEF PolicyInv, ControlOK, WithinPolicy
<1> QED
  BY <1>1, <1>2, <1>3, PTL DEF Spec

\* The site is left alone while it cools down, and so is every issuer: the
\* marks that one run persists hold back the attempts of the later ones.
THEOREM CooldownsRespected ==
  Spec => NoContactWhileCooling
<1>1. Init => PolicyInv /\ PlaceOK
  BY PolicyInit DEF Init, PlaceOK, Loading
<1>2. PolicyInv /\ PlaceOK /\ [Next]_vars => (PolicyInv /\ PlaceOK)'
  BY PolicyInvariantStep, PlaceStep
<1>3. PolicyInv /\ PlaceOK /\ [Next]_vars =>
        [ctl'.requests > ctl.requests => {Host, cur} \cap cooling = {}]_vars
  BY PolicyInvariantStep
<1> QED
  BY <1>1, <1>2, <1>3, PTL DEF Spec, NoContactWhileCooling
---------------------------------------------------------------------------
(* The types of the variables.                                             *)

Phases == {"idle", "revise", "schedule", "next"} \cup Loading

SiteType ==
  /\ site \in [Symbols -> [Periods -> Versions]] /\ months \in 0..MaxMonths
  /\ faults \in 0..MaxFaults

StoreType ==
  /\ catalogs \in [Symbols -> Catalog]
  /\ filings \in [Symbols -> [Periods -> Filing]]
  /\ turn \in {"PRIORITY", "GENERAL"}

RunType ==
  /\ pc \in Phases
  /\ "batch" \in DOMAIN ctl /\ ctl.batch \in Periods \cup {0}
  /\ seen \in [Periods -> [Symbols -> Versions]] /\ loaded \subseteq Periods

LoadType ==
  /\ cur \in Keys /\ cat \in Catalog /\ fil \in [Periods -> Filing]
  /\ left \subseteq Periods /\ batch \subseteq Periods /\ held \in Versions

TypeInv == SiteType /\ StoreType /\ RunType /\ LoadType

LEMMA Bounds ==
  /\ MaxVersion \in Nat \ {0} /\ MaxMonths \in Nat /\ MaxFaults \in Nat
  /\ Host \notin Symbols /\ Host \in Keys /\ Symbols \subseteq Keys
  /\ Periods \subseteq Nat \ {0} /\ Recent \subseteq Periods
  /\ Batches \subseteq Periods \cup {0}
  /\ 0 \in Versions /\ Versions \subseteq Nat
BY RefreshAssumption DEF RefreshAssumption, Keys, Versions

LEMMA EmptyRows ==
  /\ EmptyCatalog \in Catalog /\ NoFilings \in [Periods -> Filing]
  /\ NoVersions \in [Periods -> Versions]
  /\ NoNotices \in [Periods -> [Symbols -> Versions]]
BY Bounds DEF EmptyCatalog, NoFilings, NoVersions, NoNotices, Catalog, Filing

LEMMA TypeInit ==
  Init => TypeInv
<1> SUFFICES ASSUME Init PROVE TypeInv
  OBVIOUS
<1>1. SiteType
  BY Bounds DEF Init, SiteType, Versions
<1>2. StoreType
  BY EmptyRows DEF Init, StoreType
<1>3. RunType
  BY EmptyRows DEF Init, RunType, Phases, BegunRun
<1>4. LoadType
  BY Bounds, EmptyRows DEF Init, LoadType
<1> QED
  BY <1>1, <1>2, <1>3, <1>4 DEF TypeInv

\* The fault counter, and the run's financial batch, which only a new run sets.
LEMMA FaultType ==
  ASSUME TypeInv, UNCHANGED site_,
         faults' = faults \/ \E k : Fault(k)
  PROVE  SiteType'
BY Bounds DEF TypeInv, SiteType, Fault, site_

LEMMA BatchKeptByAttempt ==
  ASSUME TypeInv, NEW c, c = ctl \/ Attempted(c)
  PROVE  "batch" \in DOMAIN c /\ c.batch = ctl.batch
<1>1. "batch" \in DOMAIN ctl
  BY DEF TypeInv, RunType
<1>2. CASE c = Guarded
  BY <1>1, <1>2 DEF Guarded
<1>3. CASE c = Passed \/ \E e : c = [Passed EXCEPT !.events = e]
  BY <1>1, <1>3 DEF Passed
<1>4. CASE c = ctl \/ c = [ctl EXCEPT !.requests = @ + 1]
  BY <1>1, <1>4
<1> QED
  BY <1>2, <1>3, <1>4 DEF Attempted

\* A step of the run that leaves the rows and the notices alone.
LEMMA TypeFrame ==
  ASSUME TypeInv, SiteType',
         UNCHANGED <<catalogs, filings, turn, seen, loaded, cur, cat, fil, batch, held>>,
         "batch" \in DOMAIN ctl', ctl'.batch = ctl.batch,
         pc' \in Phases, left' \subseteq Periods
  PROVE  TypeInv'
BY DEF TypeInv, StoreType, RunType, LoadType

LEMMA TypeFail ==
  ASSUME TypeInv, NEW e, NEW c, c = ctl \/ Attempted(c), Fail(e, c),
         faults' = faults \/ \E k : Fault(k)
  PROVE  TypeInv'
<1>1. SiteType'
  BY FaultType DEF Fail
<1>2. UNCHANGED <<catalogs, filings, turn, seen, loaded, cur, cat, fil, batch, held>>
  BY DEF Fail, notices, tx
<1>3. pc' \in Phases /\ left' \subseteq Periods
  BY DEF Fail, Phases, Loading, TypeInv, LoadType
<1>4. "batch" \in DOMAIN ctl' /\ ctl'.batch = ctl.batch
  BY BatchKeptByAttempt DEF Fail
<1> QED
  BY <1>1, <1>2, <1>3, <1>4, TypeFrame

LEMMA TypeQuiet ==
  ASSUME TypeInv,
         \/ ScheduleBatch \/ PreloadFails \/ ScheduleFails
         \/ \E s \in Symbols : PassOver(s)
         \/ \E p \in Periods : AnnounceReply(p)
         \/ RequestRefused \/ GuardPage \/ NetworkFails \/ BadPage
         \/ CooldownEnds \/ UNCHANGED vars
  PROVE  TypeInv'
<1> USE DEF site_, db, notices, tx, run, request, work, vars
<1>1. /\ pc \in Phases /\ left \subseteq Periods
      /\ "batch" \in DOMAIN ctl
  BY DEF TypeInv, RunType, LoadType
<1>2. ASSUME NEW R, Schedule(R), faults' = faults \/ \E k : Fault(k)
      PROVE  TypeInv'
  <2>1. "batch" \in DOMAIN ctl' /\ ctl'.batch = ctl.batch
    BY <1>1, <1>2 DEF Schedule
  <2>2. SiteType' /\ pc' \in Phases
    BY <1>2, FaultType DEF Schedule, Phases
  <2> QED
    BY <1>1, <1>2, <2>1, <2>2, TypeFrame DEF Schedule
<1>3. CASE ScheduleBatch \/ PreloadFails
  BY <1>2, <1>3 DEF ScheduleBatch, PreloadFails
<1>4. CASE ScheduleFails \/ (\E s \in Symbols : PassOver(s)) \/ CooldownEnds
           \/ UNCHANGED vars
  <2>1. SiteType' /\ pc' \in Phases
    BY <1>1, <1>4, FaultType DEF ScheduleFails, PassOver, CooldownEnds, Phases
  <2> QED
    BY <1>1, <1>4, <2>1, TypeFrame DEF ScheduleFails, PassOver, CooldownEnds
<1>5. ASSUME NEW p \in Periods, AnnounceReply(p)
      PROVE  TypeInv'
  <2>1. "batch" \in DOMAIN ctl' /\ ctl'.batch = ctl.batch
    <3>1. Attempted(ctl')
      BY <1>5, Zenon DEF AnnounceReply, Reply, Attempted
    <3> QED
      BY <3>1, BatchKeptByAttempt
  <2>2. SiteType'
    BY <1>5, FaultType DEF AnnounceReply, Reply
  <2> QED
    BY <1>1, <1>5, <2>1, <2>2, TypeFrame DEF AnnounceReply, Reply
<1>6. CASE RequestRefused \/ GuardPage
  BY <1>6, TypeFail DEF RequestRefused, GuardPage, Attempted
<1>7. Attempted([ctl EXCEPT !.requests = @ + 1]) /\ Attempted(Passed)
  BY DEF Attempted
<1>8. ASSUME faults' = faults \/ \E k : Fault(k), Attempted(ctl'),
             UNCHANGED <<site_, db, pc, notices, tx, left, batch, held>>
      PROVE  TypeInv'
  BY <1>1, <1>8, FaultType, BatchKeptByAttempt, TypeFrame
<1>9. CASE NetworkFails
  <2>1. \/ Fail("network", [ctl EXCEPT !.requests = @ + 1])
        \/ /\ ctl' = [ctl EXCEPT !.requests = @ + 1]
           /\ UNCHANGED <<site_, db, pc, notices, tx, left, batch, held>>
    BY <1>9 DEF NetworkFails
  <2>2. Fault("network")
    BY <1>9 DEF NetworkFails
  <2> QED
    BY <1>7, <1>8, <2>1, <2>2, TypeFail
<1>10. CASE BadPage
  <2>1. \/ \E e \in {"schema", "nodata"} : Fail(e, Passed)
        \/ /\ ctl' = Passed
           /\ UNCHANGED <<site_, db, pc, notices, tx, left, batch, held>>
    BY <1>10 DEF BadPage
  <2>2. faults' = faults \/ Fault("page")
    BY <1>10 DEF BadPage
  <2> QED
    BY <1>7, <1>8, <2>1, <2>2, TypeFail
<1> QED
  BY <1>3, <1>4, <1>5, <1>6, <1>9, <1>10

LEMMA TypeSite ==
  ASSUME TypeInv,
         \/ \E s \in Symbols, p \in Periods : Publish(s, p) \/ Correct(s, p)
         \/ MonthEnds
  PROVE  TypeInv'
<1> USE DEF db, notices, tx, run, work
<1>1. ASSUME NEW s \in Symbols, NEW p \in Periods, NEW v \in Versions,
             site' = [site EXCEPT ![s][p] = v],
             UNCHANGED <<months, db, pc, run, notices, tx, work, faults>>
      PROVE  TypeInv'
  BY <1>1 DEF TypeInv, SiteType, StoreType, RunType, LoadType
<1>2. ASSUME NEW s \in Symbols, NEW p \in Periods, Publish(s, p)
      PROVE  TypeInv'
  <2>1. 1 \in Versions
    BY Bounds DEF Versions
  <2> QED
    BY <1>1, <1>2, <2>1 DEF Publish
<1>3. ASSUME NEW s \in Symbols, NEW p \in Periods, Correct(s, p)
      PROVE  TypeInv'
  <2>1. site[s][p] + 1 \in Versions
    BY <1>3, Bounds DEF Correct, Versions
  <2>2. site' = [site EXCEPT ![s][p] = site[s][p] + 1]
    BY <1>3 DEF Correct
  <2> QED
    BY <1>1, <1>3, <2>1, <2>2 DEF Correct
<1>4. CASE MonthEnds
  <2>1. \A s \in Symbols : [catalogs[s] EXCEPT !.fresh = FALSE] \in Catalog
    <3>1. ASSUME NEW c \in Catalog PROVE [c EXCEPT !.fresh = FALSE] \in Catalog
      BY DEF Catalog
    <3> QED
      BY <3>1 DEF TypeInv, StoreType
  <2>3. catalogs' \in [Symbols -> Catalog]
    BY <1>4, <2>1 DEF MonthEnds
  <2>2. SiteType'
    BY <1>4, Bounds DEF MonthEnds, TypeInv, SiteType
  <2> QED
    BY <1>4, <2>2, <2>3 DEF MonthEnds, TypeInv, StoreType, RunType, LoadType
<1> QED
  BY <1>2, <1>3, <1>4

LEMMA NoticesType ==
  ASSUME TypeInv, NEW p \in Periods, ReadNotices(p)
  PROVE  seen' \in [Periods -> [Symbols -> Versions]] /\ loaded' \subseteq Periods
<1>1. \A s \in Symbols : NoticeOf(site[s][p]) \in Versions
  BY Bounds DEF NoticeOf, TypeInv, SiteType
<1> QED
  BY <1>1 DEF ReadNotices, TypeInv, RunType

LEMMA TypeTurns ==
  ASSUME TypeInv, PlaceOK,
         \/ \E b \in Batches : BeginRun(b)
         \/ \E s \in Symbols : Start(s)
         \/ EndRun \/ Kill \/ FinishLoad \/ FailLoad \/ StorageFails
         \/ \E p \in Periods : WriteRefused(p)
  PROVE  TypeInv'
<1> USE DEF site_, db, notices, tx, run, request
<1>1. ASSUME NEW b \in Batches, BeginRun(b)
      PROVE  TypeInv'
  <2>1. "batch" \in DOMAIN ctl' /\ ctl'.batch = b
    BY <1>1 DEF BeginRun, BegunRun
  <2>2. SiteType'
    BY <1>1, FaultType DEF BeginRun
  <2> QED
    BY <1>1, <2>1, <2>2, Bounds
       DEF BeginRun, TypeInv, StoreType, RunType, LoadType, Phases
<1>2. ASSUME NEW s \in Symbols, Start(s)
      PROVE  TypeInv'
  <2>1. "batch" \in DOMAIN ctl' /\ ctl'.batch = ctl.batch
    BY <1>2 DEF Start, TypeInv, RunType
  <2>2. SiteType'
    BY <1>2, FaultType DEF Start
  <2>3. catalogs[s] \in Catalog /\ filings[s] \in [Periods -> Filing]
    BY DEF TypeInv, StoreType
  <2>4. left' \subseteq Periods /\ pc' \in Phases
    BY <1>2, <2>3 DEF Start, Catalog, Phases, Loading
  <2> QED
    BY <1>2, <2>1, <2>2, <2>3, <2>4, Bounds
       DEF Start, TypeInv, StoreType, RunType, LoadType
<1>3. CASE EndRun \/ Kill
  <2>1. "batch" \in DOMAIN ctl' /\ ctl'.batch = 0
    BY <1>3 DEF EndRun, Kill, Forget, BegunRun
  <2>2. SiteType'
    BY <1>3, FaultType DEF EndRun, Kill
  <2>3. UNCHANGED <<catalogs, filings, turn>> /\ pc' \in Phases
    BY <1>3 DEF EndRun, Kill, Forget, Phases
  <2> QED
    BY <1>3, <2>1, <2>2, <2>3, Bounds, EmptyRows
       DEF EndRun, Kill, Forget, ClearWork, TypeInv, StoreType, RunType, LoadType
<1>4. ASSUME CloseLoad, UNCHANGED site_, StoreType',
             seen' \in [Periods -> [Symbols -> Versions]], loaded' \subseteq Periods,
             faults' = faults \/ \E k : Fault(k),
             ctl' = ctl \/ Attempted(ctl')
      PROVE  TypeInv'
  <2>1. SiteType'
    BY <1>4, FaultType
  <2>2. "batch" \in DOMAIN ctl' /\ ctl'.batch = ctl.batch
    BY <1>4, BatchKeptByAttempt
  <2>3. RunType'
    BY <1>4, <2>2 DEF CloseLoad, TypeInv, RunType, Phases
  <2>4. LoadType'
    BY <1>4, Bounds, EmptyRows DEF CloseLoad, ClearWork, LoadType
  <2> QED
    BY <1>4, <2>1, <2>3, <2>4 DEF TypeInv
<1>5. CASE FinishLoad \/ FailLoad
  <2>1. Commit /\ CloseLoad /\ UNCHANGED <<site_, notices, faults, ctl>>
    BY <1>5 DEF FinishLoad, FailLoad
  <2>2. StoreType'
    BY <2>1 DEF Commit, TypeInv, StoreType, LoadType
  <2>3. seen' \in [Periods -> [Symbols -> Versions]] /\ loaded' \subseteq Periods
    BY <2>1 DEF TypeInv, RunType
  <2> QED
    BY <1>4, <2>1, <2>2, <2>3
<1>6. CASE StorageFails \/ \E p \in Periods : WriteRefused(p)
  <2>1. /\ Rollback /\ (faults' = faults \/ \E k : Fault(k))
        /\ ctl' = ctl \/ Attempted(ctl')
    BY <1>6 DEF StorageFails, WriteRefused, Attempted
  <2>2. StoreType'
    BY <2>1 DEF Rollback, TypeInv, StoreType
  <2>3. \/ UNCHANGED notices
        \/ \E p \in Periods : ReadNotices(p)
    BY <1>6 DEF StorageFails, WriteRefused
  <2>4. seen' \in [Periods -> [Symbols -> Versions]] /\ loaded' \subseteq Periods
    BY <2>3, NoticesType DEF TypeInv, RunType
  <2>5. CloseLoad /\ UNCHANGED site_
    BY <2>1 DEF Rollback
  <2> QED
    BY <1>4, <2>1, <2>2, <2>4, <2>5
<1> QED
  BY <1>1, <1>2, <1>3, <1>5, <1>6

LEMMA LargerType ==
  \A m, n \in Versions : Larger(m, n) \in Versions
BY DEF Larger

LEMMA TypeReply ==
  ASSUME TypeInv, PlaceOK,
         \/ DiscoverReply
         \/ \E p \in Periods :
               ReviseReply(p) \/ ScanReply(p) \/ FetchReply(p) \/ CorrectReply(p)
  PROVE  TypeInv'
<1>1. ASSUME Reply, pc' \in Phases,
             seen' \in [Periods -> [Symbols -> Versions]], loaded' \subseteq Periods,
             cat' \in Catalog, fil' \in [Periods -> Filing],
             left' \subseteq Periods, batch' \subseteq Periods, held' \in Versions
      PROVE  TypeInv'
  <2>1. "batch" \in DOMAIN ctl' /\ ctl'.batch = ctl.batch
    <3>1. Attempted(ctl')
      BY <1>1, Zenon DEF Reply, Attempted
    <3> QED
      BY <3>1, BatchKeptByAttempt
  <2>2. SiteType' /\ StoreType'
    BY <1>1, FaultType DEF Reply, db, TypeInv, StoreType
  <2>3. RunType' /\ LoadType'
    BY <1>1, <2>1 DEF Reply, TypeInv, RunType, LoadType
  <2> QED
    BY <2>2, <2>3 DEF TypeInv
<1>2. /\ seen \in [Periods -> [Symbols -> Versions]] /\ loaded \subseteq Periods
      /\ cat \in Catalog /\ fil \in [Periods -> Filing]
      /\ left \subseteq Periods /\ batch \subseteq Periods /\ held \in Versions
      /\ ctl.batch \in Periods \cup {0} /\ pc \in Phases
      /\ cur \in Keys
  BY DEF TypeInv, RunType, LoadType
<1>3. Published(cur) \subseteq Periods
  BY DEF Published
<1>4. CASE DiscoverReply
  <2>1. cat' \in Catalog
    BY <1>2, <1>3, <1>4 DEF DiscoverReply, Catalog
  <2> QED
    BY <1>1, <1>2, <1>3, <1>4, <2>1 DEF DiscoverReply, notices, Phases, Loading
<1>5. ASSUME NEW p \in Periods, ReviseReply(p)
      PROVE  TypeInv'
  BY <1>1, <1>2, <1>5, NoticesType DEF ReviseReply, Phases
<1>6. ASSUME NEW p \in Periods, ScanReply(p)
      PROVE  TypeInv'
  <2>1. cur \in Symbols
    BY <1>2, <1>6 DEF ScanReply, PlaceOK, Loading, Keys
  <2>2. seen'[p][cur] \in Versions
    BY <1>6, <2>1, NoticesType DEF ScanReply
  <2>3. cat' \in Catalog
    BY <1>2, <1>6, <2>2, LargerType DEF ScanReply, Scanned, Catalog
  <2> QED
    BY <1>1, <1>2, <1>6, <2>3, NoticesType DEF ScanReply, Phases, Loading
<1>7. ASSUME NEW p \in Periods, NEW v \in Versions, NEW n \in Versions,
             Reply, Save(p, v, n), UNCHANGED left,
             seen' \in [Periods -> [Symbols -> Versions]], loaded' \subseteq Periods
      PROVE  TypeInv'
  <2>1. cat' \in Catalog /\ fil' \in [Periods -> Filing]
    BY <1>2, <1>7 DEF Save, Acknowledged, Catalog, Filing
  <2> QED
    BY <1>1, <1>2, <1>7, <2>1, Bounds DEF Save, Phases, Loading
<1>8. ASSUME NEW p \in Periods, FetchReply(p)
      PROVE  TypeInv'
  <2>1. cur \in Symbols
    BY <1>2, <1>8 DEF FetchReply, PlaceOK, Loading, Keys
  <2>2. site[cur][p] \in Versions /\ seen[p][cur] \in Versions
    BY <1>2, <2>1 DEF TypeInv, SiteType
  <2>3. Reply /\ UNCHANGED left /\ UNCHANGED <<seen, loaded>>
    BY <1>8 DEF FetchReply, notices
  <2>4. CASE cat' = Acknowledged(cat, p) /\ batch' = batch \ {p}
             /\ UNCHANGED <<pc, fil, held>>
    <3>1. cat' \in Catalog
      BY <1>2, <2>4 DEF Acknowledged, Catalog
    <3> QED
      BY <1>1, <1>2, <2>3, <2>4, <3>1
  <2>5. CASE Save(p, site[cur][p], seen[p][cur])
    BY <1>2, <1>7, <2>2, <2>3, <2>5
  <2>6. CASE pc' = "correct" /\ held' = site[cur][p] /\ UNCHANGED <<cat, fil, batch>>
    BY <1>1, <1>2, <2>2, <2>3, <2>6 DEF Phases, Loading
  <2> QED
    BY <1>8, <2>4, <2>5, <2>6 DEF FetchReply
<1>9. ASSUME NEW p \in Periods, CorrectReply(p)
      PROVE  TypeInv'
  <2>1. cur \in Symbols
    BY <1>2, <1>9 DEF CorrectReply, PlaceOK, Loading, Keys
  <2>2. Reply /\ UNCHANGED left /\ ReadNotices(p) /\ Save(p, held, seen'[p][cur])
    BY <1>9 DEF CorrectReply
  <2>3. /\ seen' \in [Periods -> [Symbols -> Versions]] /\ loaded' \subseteq Periods
        /\ seen'[p][cur] \in Versions
    BY <2>1, <2>2, NoticesType
  <2> QED
    BY <1>2, <1>7, <2>2, <2>3
<1> QED
  BY <1>4, <1>5, <1>6, <1>8, <1>9

LEMMA TypeLocal ==
  ASSUME TypeInv, PlaceOK, Announced \/ Plan \/ \E p \in Periods : ScanCached(p)
  PROVE  TypeInv'
<1> USE DEF site_, db, notices, run, work, request
<1>1. /\ seen \in [Periods -> [Symbols -> Versions]]
      /\ cat \in Catalog /\ cur \in Keys
  BY DEF TypeInv, RunType, LoadType
<1>2. ASSUME UNCHANGED <<site_, db, ctl, notices, cur, fil, left, held, faults>>,
             cat' \in Catalog, pc' \in Phases, batch' \subseteq Periods
      PROVE  TypeInv'
  <2>1. SiteType' /\ StoreType'
    BY <1>2, FaultType DEF TypeInv, StoreType
  <2>2. RunType' /\ LoadType'
    BY <1>2 DEF TypeInv, RunType, LoadType
  <2> QED
    BY <2>1, <2>2 DEF TypeInv
<1>3. batch \subseteq Periods
  BY DEF TypeInv, LoadType
<1>4. CASE Announced
  <2>1. cat' \in Catalog
    BY <1>1, <1>4 DEF Announced, Catalog
  <2> QED
    BY <1>2, <1>3, <1>4, <2>1 DEF Announced, Phases, Loading
<1>5. CASE Plan
  <2>1. cur \in Symbols
    BY <1>1, <1>5 DEF Plan, PlaceOK, Loading, Keys
  <2>2. \A p \in Periods : Event(cur, p) \in Versions
    BY <1>1, <2>1, Bounds DEF Event
  <2>3. cat' \in Catalog
    BY <1>1, <1>5, <2>2, LargerType DEF Plan, MergeEvents, Catalog
  <2>4. batch' \subseteq Periods
    BY <1>5, <2>3 DEF Plan, PlanOf, Catalog
  <2> QED
    BY <1>2, <1>5, <2>3, <2>4 DEF Plan, Phases, Loading
<1>6. ASSUME NEW p \in Periods, ScanCached(p)
      PROVE  TypeInv'
  <2>1. cur \in Symbols
    BY <1>1, <1>6 DEF ScanCached, PlaceOK, Loading, Keys
  <2>2. seen[p][cur] \in Versions
    BY <1>1, <2>1
  <2>3. cat' \in Catalog
    BY <1>1, <1>6, <2>2, LargerType DEF ScanCached, Scanned, Catalog
  <2> QED
    BY <1>2, <1>3, <1>6, <2>3 DEF ScanCached, Phases, Loading
<1> QED
  BY <1>4, <1>5, <1>6

THEOREM TypeStep ==
  TypeInv /\ PlaceOK /\ [Next]_vars => TypeInv'
<1> SUFFICES ASSUME TypeInv, PlaceOK, [Next]_vars PROVE TypeInv'
  OBVIOUS
<1>1. CASE RunStep
  BY <1>1, TypeQuiet, TypeTurns, TypeReply, TypeLocal DEF RunStep
<1>2. CASE FaultStep
  BY <1>2, TypeQuiet, TypeTurns DEF FaultStep
<1>3. CASE Environment
  BY <1>3, TypeSite, TypeQuiet DEF Environment
<1>4. CASE UNCHANGED vars
  BY <1>4, TypeQuiet
<1> QED
  BY <1>1, <1>2, <1>3, <1>4 DEF Next

---------------------------------------------------------------------------
(* Work endures, wherever corrections fall.  WorkEndures compares the       *)
(* committed rows, which only a commit replaces: the invariant says that    *)
(* the open transaction is never behind them.  An acknowledgement overwrites *)
(* the answered notice, so every filing of the batch has to be one without *)
(* a document, or with a notice that is still ahead of the answer.         *)

\* The rows of an issuer: documents come from the site and notices are
\* answered by documents.
Stored(c, f, s) ==
  \A p \in Periods :
    /\ f[p].doc <= site[s][p]
    /\ f[p].doc = 0 => Answered(c, f, p) = 0
    /\ p \in c.cands => site[s][p] > 0

RowsKept == \A s \in Symbols : Stored(catalogs[s], filings[s], s)

LoadKept ==
  cur # Host =>
    /\ Stored(cat, fil, cur)
    /\ \A p \in Periods :
         /\ filings[cur][p].doc <= fil[p].doc
         /\ Answered(catalogs[cur], filings[cur], p) <= Answered(cat, fil, p)

BatchKept ==
  /\ cur = Host => batch = {}
  /\ cur # Host =>
       \A p \in batch :
         /\ site[cur][p] > 0
         /\ fil[p].doc = 0 \/ cat.corr[p] > Answered(cat, fil, p)

HeldKept ==
  pc = "correct" =>
    \A p \in Periods :
      NextFiling(p) => fil[p].doc <= held /\ 0 < held /\ held <= site[cur][p]

KeepInv == RowsKept /\ LoadKept /\ BatchKept /\ HeldKept

LEMMA KeepInit ==
  Init => KeepInv
<1> SUFFICES ASSUME Init PROVE KeepInv
  OBVIOUS
<1>1. \A p \in Periods : Answered(EmptyCatalog, NoFilings, p) = 0
  BY DEF Answered, EmptyCatalog, NoFilings, NoVersions, Larger
<1>2. TypeInv
  BY TypeInit
<1>3. ASSUME NEW s \in Symbols PROVE Stored(catalogs[s], filings[s], s)
  <2>1. catalogs[s] = EmptyCatalog /\ filings[s] = NoFilings
    BY DEF Init
  <2>2. \A p \in Periods : site[s][p] \in Nat
    BY <1>2, Bounds DEF TypeInv, SiteType
  <2>3. EmptyCatalog.cands = {} /\ \A p \in Periods : NoFilings[p].doc = 0
    BY DEF EmptyCatalog, NoFilings
  <2> QED
    BY <1>1, <2>1, <2>2, <2>3 DEF Stored
<1> QED
  BY <1>3 DEF Init, KeepInv, RowsKept, LoadKept, BatchKept, HeldKept

LEMMA RowTypes ==
  ASSUME NEW c \in Catalog, NEW f \in [Periods -> Filing], NEW p \in Periods
  PROVE  /\ c.corr[p] \in Nat /\ c.ver[p] \in Nat /\ f[p].doc \in Nat
         /\ f[p].note \in Nat /\ Answered(c, f, p) \in Nat
         /\ Answered(c, f, p) >= c.ver[p] /\ Answered(c, f, p) >= f[p].note
<1>1. /\ c.corr[p] \in Nat /\ c.ver[p] \in Nat /\ f[p].doc \in Nat
      /\ f[p].note \in Nat
  BY Bounds DEF Catalog, Filing
<1> QED
  BY <1>1 DEF Answered, Larger

LEMMA KeepFrame ==
  ASSUME KeepInv, UNCHANGED <<site, catalogs, filings, cur, cat, fil, batch, held>>,
         pc' = "correct" => pc = "correct"
  PROVE  KeepInv'
BY DEF KeepInv, RowsKept, LoadKept, BatchKept, HeldKept, Stored, Answered,
       NextFiling, Precedes, Cached

LEMMA KeepFail ==
  ASSUME KeepInv, NEW e, NEW c, Fail(e, c)
  PROVE  KeepInv'
BY KeepFrame DEF Fail, site_, notices, tx

LEMMA KeepQuiet ==
  ASSUME KeepInv,
         \/ \E b \in Batches : BeginRun(b)
         \/ ScheduleBatch \/ PreloadFails \/ ScheduleFails
         \/ \E s \in Symbols : PassOver(s)
         \/ \E p \in Periods : ReviseReply(p) \/ AnnounceReply(p)
         \/ RequestRefused \/ GuardPage \/ NetworkFails \/ BadPage
         \/ CooldownEnds \/ UNCHANGED vars
  PROVE  KeepInv'
<1> USE DEF site_, db, notices, tx, run, request, work, vars
<1>1. CASE \/ \E b \in Batches : BeginRun(b)
           \/ ScheduleBatch \/ PreloadFails \/ ScheduleFails
  BY <1>1, KeepFrame DEF BeginRun, ScheduleBatch, PreloadFails, ScheduleFails,
                         Schedule
<1>2. CASE \/ \E s \in Symbols : PassOver(s)
           \/ \E p \in Periods : ReviseReply(p) \/ AnnounceReply(p)
           \/ CooldownEnds \/ UNCHANGED vars
  BY <1>2, KeepFrame DEF PassOver, ReviseReply, AnnounceReply, Reply, CooldownEnds
<1>3. CASE RequestRefused \/ GuardPage
  BY <1>3, KeepFail DEF RequestRefused, GuardPage
<1>4. CASE NetworkFails
  BY <1>4, KeepFail, KeepFrame DEF NetworkFails
<1>5. CASE BadPage
  BY <1>5, KeepFail, KeepFrame DEF BadPage
<1> QED
  BY <1>1, <1>2, <1>3, <1>4, <1>5

\* Documents on the site only get newer.
LEMMA KeepSite ==
  ASSUME TypeInv, PlaceOK, KeepInv,
         \/ \E s \in Symbols, p \in Periods : Publish(s, p) \/ Correct(s, p)
         \/ MonthEnds
  PROVE  KeepInv'
<1> USE DEF site_, db, notices, tx, run, request, work
<1>1. ASSUME UNCHANGED <<catalogs, filings, cur, cat, fil, batch, held, pc>>,
             \A t \in Symbols, q \in Periods :
               /\ site[t][q] \in Nat /\ site'[t][q] \in Nat
               /\ site[t][q] <= site'[t][q]
      PROVE  KeepInv'
  <2>1. ASSUME NEW c \in Catalog, NEW f \in [Periods -> Filing], NEW t \in Symbols,
               Stored(c, f, t)
        PROVE  Stored(c, f, t)'
    BY <1>1, <2>1, RowTypes DEF Stored
  <2>2. RowsKept'
    BY <1>1, <2>1 DEF KeepInv, RowsKept, TypeInv, StoreType, Stored
  <2>3. cur # Host => cur \in Symbols
    BY DEF TypeInv, LoadType, Keys
  <2>4. LoadKept'
    BY <1>1, <2>1, <2>3 DEF KeepInv, LoadKept, TypeInv, LoadType, Stored
  <2>5. BatchKept'
    <3>1. ASSUME cur # Host, NEW p \in batch PROVE site'[cur][p] > 0
      BY <1>1, <2>3, <3>1 DEF KeepInv, BatchKept, TypeInv, LoadType
    <3> QED
      BY <1>1, <3>1 DEF KeepInv, BatchKept, Answered
  <2>6. HeldKept'
    <3>1. ASSUME pc = "correct", NEW p \in Periods, NextFiling(p)
          PROVE  fil[p].doc <= held /\ 0 < held /\ held <= site'[cur][p]
      <4>1. cur \in Symbols
        BY <2>3, <3>1 DEF PlaceOK, Loading
      <4>2. held \in Nat
        BY Bounds DEF TypeInv, LoadType
      <4> QED
        BY <1>1, <3>1, <4>1, <4>2 DEF KeepInv, HeldKept
    <3> QED
      BY <1>1, <3>1 DEF HeldKept, NextFiling, Precedes, Cached
  <2> QED
    BY <2>2, <2>4, <2>5, <2>6 DEF KeepInv
<1>2. \A t \in Symbols, q \in Periods : site[t][q] \in Nat
  BY Bounds DEF TypeInv, SiteType
<1>3. site \in [Symbols -> [Periods -> Nat]]
  BY Bounds DEF TypeInv, SiteType
<1>4. ASSUME NEW s \in Symbols, NEW p \in Periods, Publish(s, p)
      PROVE  KeepInv'
  BY <1>1, <1>2, <1>3, <1>4 DEF Publish
<1>5. ASSUME NEW s \in Symbols, NEW p \in Periods, Correct(s, p)
      PROVE  KeepInv'
  BY <1>1, <1>2, <1>3, <1>5 DEF Correct
<1>6. CASE MonthEnds
  <2>1. cur = Host /\ pc = "idle"
    BY <1>6 DEF MonthEnds, PlaceOK, Loading
  <2>2. \A s \in Symbols :
           catalogs'[s].cands = catalogs[s].cands /\ catalogs'[s].ver = catalogs[s].ver
    <3>1. ASSUME NEW c \in Catalog
          PROVE  /\ [c EXCEPT !.fresh = FALSE].cands = c.cands
                 /\ [c EXCEPT !.fresh = FALSE].ver = c.ver
      BY DEF Catalog
    <3>2. \A s \in Symbols : /\ catalogs[s] \in Catalog
                             /\ catalogs'[s] = [catalogs[s] EXCEPT !.fresh = FALSE]
      BY <1>6 DEF MonthEnds, TypeInv, StoreType
    <3> QED
      BY <3>1, <3>2
  <2>3. RowsKept'
    BY <1>6, <2>2 DEF MonthEnds, KeepInv, RowsKept, Stored, Answered
  <2> QED
    BY <1>6, <2>1, <2>3 DEF MonthEnds, KeepInv, LoadKept, BatchKept, HeldKept
<1> QED
  BY <1>4, <1>5, <1>6

\* What a step does to the committed rows.
LEMMA StoreChanges ==
  ASSUME PlaceOK, [Next]_vars
  PROVE  \/ UNCHANGED <<catalogs, filings>>
         \/ MonthEnds
         \/ cur # Host /\ Commit
<1> USE DEF db
<1>1. ASSUME NEW e, NEW c, Fail(e, c) PROVE UNCHANGED <<catalogs, filings>>
  BY <1>1 DEF Fail
<1>2. CASE RunStep
  <2>1. CASE \/ \E b \in Batches : BeginRun(b)
             \/ ScheduleBatch \/ EndRun
             \/ \E s \in Symbols : PassOver(s) \/ Start(s)
    BY <2>1 DEF BeginRun, ScheduleBatch, Schedule, EndRun, PassOver, Start
  <2>2. CASE DiscoverReply \/ Announced \/ Plan
    BY <2>2 DEF DiscoverReply, Announced, Plan, Reply
  <2>3. ASSUME NEW p \in Periods,
               \/ ReviseReply(p) \/ AnnounceReply(p) \/ ScanReply(p) \/ ScanCached(p)
               \/ FetchReply(p) \/ CorrectReply(p) \/ WriteRefused(p)
        PROVE  UNCHANGED <<catalogs, filings>>
    BY <2>3 DEF ReviseReply, AnnounceReply, ScanReply, ScanCached, FetchReply,
                CorrectReply, WriteRefused, Rollback, Reply
  <2>4. CASE RequestRefused \/ BadPage
    BY <1>1, <2>4 DEF RequestRefused, BadPage
  <2>5. CASE FinishLoad \/ FailLoad
    BY <2>5 DEF FinishLoad, FailLoad, PlaceOK, Loading
  <2> QED
    BY <1>2, <2>1, <2>2, <2>3, <2>4, <2>5 DEF RunStep
<1>3. CASE FaultStep
  <2>1. CASE PreloadFails \/ ScheduleFails \/ StorageFails \/ Kill
    BY <2>1 DEF PreloadFails, ScheduleFails, Schedule, StorageFails, Rollback, Kill
  <2>2. CASE GuardPage \/ NetworkFails
    BY <1>1, <2>2 DEF GuardPage, NetworkFails
  <2> QED
    BY <1>3, <2>1, <2>2 DEF FaultStep
<1>4. CASE Environment \/ UNCHANGED vars
  BY <1>4 DEF Environment, Publish, Correct, CooldownEnds, vars
<1> QED
  BY <1>2, <1>3, <1>4 DEF Next

LEMMA CommitRows ==
  ASSUME TypeInv, cur # Host, Commit
  PROVE  /\ cur \in Symbols
         /\ catalogs'[cur] = cat /\ filings'[cur] = fil
         /\ \A s \in Symbols \ {cur} :
               catalogs'[s] = catalogs[s] /\ filings'[s] = filings[s]
BY DEF Commit, TypeInv, StoreType, LoadType, Keys

LEMMA KeepEnds ==
  ASSUME TypeInv, PlaceOK, KeepInv,
         \/ EndRun \/ Kill \/ FinishLoad \/ FailLoad \/ StorageFails
         \/ \E p \in Periods : WriteRefused(p)
  PROVE  KeepInv'
<1> USE DEF site_, db
<1>1. /\ cur' = Host /\ batch' = {} /\ pc' # "correct" /\ UNCHANGED site
  BY DEF EndRun, Kill, FinishLoad, FailLoad, StorageFails, WriteRefused,
         Rollback, Forget, CloseLoad, ClearWork
<1>2. UNCHANGED <<catalogs, filings>> \/ (cur # Host /\ Commit)
  BY DEF EndRun, Kill, FinishLoad, FailLoad, StorageFails, WriteRefused,
         Rollback, PlaceOK, Loading
<1>3. RowsKept'
  <2>1. CASE UNCHANGED <<catalogs, filings>>
    BY <1>1, <2>1 DEF KeepInv, RowsKept, Stored, Answered
  <2>2. CASE cur # Host /\ Commit
    BY <1>1, <2>2, CommitRows DEF KeepInv, RowsKept, LoadKept, Stored, Answered
  <2> QED
    BY <1>2, <2>1, <2>2
<1> QED
  BY <1>1, <1>3 DEF KeepInv, LoadKept, BatchKept, HeldKept

LEMMA KeepStart ==
  ASSUME TypeInv, PlaceOK, KeepInv, NEW s \in Symbols, Start(s)
  PROVE  KeepInv'
<1> USE DEF site_, db, notices
<1>1. /\ cur' = s /\ cat' = catalogs[s] /\ fil' = filings[s] /\ batch' = {}
      /\ pc' # "correct" /\ UNCHANGED <<site, catalogs, filings>>
  BY DEF Start, PlaceOK, Loading, KeepInv, BatchKept
<1>2. Stored(catalogs[s], filings[s], s)
  BY DEF KeepInv, RowsKept
<1>3. RowsKept'
  BY <1>1 DEF KeepInv, RowsKept, Stored, Answered
<1>4. LoadKept'
  <2>1. catalogs[s] \in Catalog /\ filings[s] \in [Periods -> Filing]
    BY DEF TypeInv, StoreType
  <2>2. \A p \in Periods : filings[s][p].doc \in Nat
                           /\ Answered(catalogs[s], filings[s], p) \in Nat
    BY <2>1, RowTypes
  <2> QED
    BY <1>1, <1>2, <2>2 DEF LoadKept, Stored, Answered
<1>5. BatchKept' /\ HeldKept'
  BY <1>1, Bounds DEF BatchKept, HeldKept
<1> QED
  BY <1>3, <1>4, <1>5 DEF KeepInv

\* A step of a load that moves its rows forward.
LEMMA KeepProgress ==
  ASSUME TypeInv, TypeInv', KeepInv, UNCHANGED <<site, catalogs, filings, cur>>, cur # Host,
         Stored(cat, fil, cur)',
         \A p \in Periods : /\ fil[p].doc <= fil'[p].doc
                            /\ Answered(cat, fil, p) <= Answered(cat', fil', p),
         \A p \in batch' : /\ site[cur][p] > 0
                           /\ \/ fil'[p].doc = 0
                              \/ cat'.corr[p] > Answered(cat', fil', p),
         HeldKept'
  PROVE  KeepInv'
<1>1. RowsKept'
  BY DEF KeepInv, RowsKept, Stored, Answered
<1>2. LoadKept'
  <2> SUFFICES ASSUME NEW p \in Periods
               PROVE  /\ filings[cur][p].doc <= fil'[p].doc
                      /\ Answered(catalogs[cur], filings[cur], p) <= Answered(cat', fil', p)
    BY DEF LoadKept, Answered
  <2>1. /\ cur \in Symbols /\ cat \in Catalog /\ fil \in [Periods -> Filing]
        /\ catalogs[cur] \in Catalog /\ filings[cur] \in [Periods -> Filing]
        /\ cat' \in Catalog /\ fil' \in [Periods -> Filing]
    BY DEF TypeInv, LoadType, StoreType, Keys
  <2>2. /\ fil[p].doc \in Nat /\ fil'[p].doc \in Nat /\ filings[cur][p].doc \in Nat
        /\ Answered(cat, fil, p) \in Nat /\ Answered(cat', fil', p) \in Nat
        /\ Answered(catalogs[cur], filings[cur], p) \in Nat
    BY <2>1, RowTypes
  <2>3. /\ filings[cur][p].doc <= fil[p].doc
        /\ Answered(catalogs[cur], filings[cur], p) <= Answered(cat, fil, p)
    BY DEF KeepInv, LoadKept
  <2> QED
    BY <2>2, <2>3
<1>3. BatchKept'
  BY DEF BatchKept, Answered
<1> QED
  BY <1>1, <1>2, <1>3 DEF KeepInv

\* A step that only learns of candidates and notices.
LEMMA KeepCatalog ==
  ASSUME TypeInv, TypeInv', KeepInv, cur # Host,
         UNCHANGED <<site, catalogs, filings, cur, fil>>, pc' # "correct",
         cat'.ver = cat.ver,
         \A p \in Periods : cat.corr[p] <= cat'.corr[p],
         \A p \in cat'.cands : site[cur][p] > 0,
         \/ batch' = batch
         \/ batch' \subseteq PlanOf(cat', fil)
  PROVE  KeepInv'
<1>1. /\ cur \in Symbols /\ cat \in Catalog /\ cat' \in Catalog
      /\ fil \in [Periods -> Filing] /\ batch \subseteq Periods
  BY DEF TypeInv, LoadType, Keys
<1>2. \A p \in Periods : Answered(cat', fil', p) = Answered(cat, fil, p)
  BY DEF Answered
<1>3. \A p \in Periods : /\ fil[p].doc \in Nat /\ Answered(cat, fil, p) \in Nat
                         /\ cat.corr[p] \in Nat /\ cat'.corr[p] \in Nat
  BY <1>1, RowTypes
<1>4. Stored(cat, fil, cur)'
  BY <1>2, <1>3 DEF KeepInv, LoadKept, Stored
<1>5. \A p \in Periods : /\ fil[p].doc <= fil'[p].doc
                         /\ Answered(cat, fil, p) <= Answered(cat', fil', p)
  BY <1>2, <1>3
<1>6. ASSUME NEW p \in batch'
      PROVE  /\ site[cur][p] > 0
             /\ fil'[p].doc = 0 \/ cat'.corr[p] > Answered(cat', fil', p)
  <2>1. CASE batch' = batch
    <3>1. p \in Periods /\ site[cur][p] > 0
          /\ (fil[p].doc = 0 \/ cat.corr[p] > Answered(cat, fil, p))
      BY <1>1, <1>6, <2>1 DEF KeepInv, BatchKept
    <3> QED
      BY <1>2, <1>3, <3>1
  <2>2. CASE batch' \subseteq PlanOf(cat', fil)
    <3>1. p \in cat'.cands /\ p \in Periods
      BY <1>1, <1>6, <2>2 DEF PlanOf, Catalog
    <3>2. p \in Unverified(cat', fil) \/ p \notin Cached(fil)
      BY <1>6, <2>2 DEF PlanOf
    <3> QED
      BY <1>3, <3>1, <3>2 DEF Unverified, Cached
  <2> QED
    BY <2>1, <2>2
<1> QED
  BY <1>4, <1>5, <1>6, KeepProgress DEF HeldKept

LEMMA KeepLearns ==
  ASSUME TypeInv, TypeInv', PlaceOK, KeepInv,
         \/ DiscoverReply \/ Announced \/ Plan
         \/ \E p \in Periods : ScanReply(p) \/ ScanCached(p)
  PROVE  KeepInv'
<1> USE DEF site_, db, notices, run, work
<1>1. /\ UNCHANGED <<site, catalogs, filings, cur, fil>> /\ pc' # "correct"
      /\ cur # Host
  BY DEF DiscoverReply, Announced, Plan, ScanReply, ScanCached, Reply, PlaceOK,
         Loading
<1>2. cur \in Symbols /\ cat \in Catalog /\ cat' \in Catalog
  BY <1>1 DEF TypeInv, LoadType, Keys
<1>3. \A p \in Periods : site[cur][p] \in Nat /\ cat.corr[p] \in Nat
  <2>1. site[cur] \in [Periods -> Versions] /\ cat.corr \in [Periods -> Versions]
    BY <1>2 DEF TypeInv, SiteType, Catalog
  <2> QED
    BY <2>1, Bounds
<1>4. \A p \in cat.cands : site[cur][p] > 0
  BY <1>1, <1>2 DEF KeepInv, LoadKept, Stored, Catalog
<1>5. CASE DiscoverReply
  <2>1. cat'.ver = cat.ver /\ cat'.corr = cat.corr /\ cat'.cands = Published(cur)
        /\ batch' = batch
    BY <1>2, <1>5 DEF DiscoverReply, Catalog
  <2> QED
    BY <1>1, <1>3, <2>1, KeepCatalog DEF Published
<1>6. CASE Announced
  <2>1. cat'.ver = cat.ver /\ cat'.corr = cat.corr /\ cat'.cands = cat.cands
        /\ batch' = batch
    BY <1>2, <1>6 DEF Announced, Catalog
  <2> QED
    BY <1>1, <1>3, <1>4, <2>1, KeepCatalog
<1>7. CASE Plan
  <2>1. \A p \in Periods : Event(cur, p) \in Nat
    <3>1. \A p \in Periods : seen[p][cur] \in Versions
      BY <1>2 DEF TypeInv, RunType
    <3> QED
      BY <3>1, Bounds DEF Event
  <2>2. /\ cat'.ver = cat.ver /\ cat'.cands = cat.cands
        /\ cat'.corr = [p \in Periods |-> Larger(cat.corr[p], Event(cur, p))]
    BY <1>2, <1>7 DEF Plan, MergeEvents, Catalog
  <2>3. \A p \in Periods : cat.corr[p] <= cat'.corr[p]
    BY <1>3, <2>1, <2>2 DEF Larger
  <2>4. batch' \subseteq PlanOf(cat', fil)
    BY <1>7 DEF Plan
  <2> QED
    BY <1>1, <1>4, <2>2, <2>3, <2>4, KeepCatalog
<1>8. ASSUME NEW p \in Periods, ScanReply(p) \/ ScanCached(p)
      PROVE  KeepInv'
  <2>1. seen'[p][cur] \in Nat
    <3>1. seen'[p][cur] \in Versions
      BY <1>2 DEF TypeInv, RunType
    <3> QED
      BY <3>1, Bounds
  <2>2. cat' = Scanned(cat, p, seen'[p][cur]) /\ batch' = batch
    BY <1>8 DEF ScanReply, ScanCached
  <2>3. /\ cat'.ver = cat.ver /\ cat'.cands = cat.cands
        /\ cat'.corr = [cat.corr EXCEPT ![p] = Larger(@, seen'[p][cur])]
    BY <1>2, <2>2 DEF Scanned, Catalog
  <2>4. \A q \in Periods : cat.corr[q] <= cat'.corr[q]
    BY <1>2, <1>3, <2>1, <2>3 DEF Larger, Catalog
  <2> QED
    BY <1>1, <1>4, <2>2, <2>3, <2>4, KeepCatalog
<1> QED
  BY <1>5, <1>6, <1>7, <1>8

\* An acknowledgement never takes an answer back, nor a download a document.
LEMMA KeepAcknowledged ==
  ASSUME TypeInv, TypeInv', KeepInv, cur # Host,
         UNCHANGED <<site, catalogs, filings, cur>>, pc' # "correct",
         NEW p \in batch, cat' = Acknowledged(cat, p), batch' = batch \ {p},
         NEW v \in Nat, 0 < v, fil[p].doc <= v, v <= site[cur][p], NEW n \in Nat,
         \/ fil' = [fil EXCEPT ![p] = [doc |-> v, note |-> n]]
         \/ fil' = fil /\ fil[p].doc = v
  PROVE  KeepInv'
<1>1. /\ cur \in Symbols /\ cat \in Catalog /\ cat' \in Catalog
      /\ fil \in [Periods -> Filing] /\ fil' \in [Periods -> Filing]
      /\ batch \subseteq Periods
  BY DEF TypeInv, LoadType, Keys
<1>2. /\ cat'.cands = cat.cands /\ cat'.corr = cat.corr
      /\ cat'.ver = [cat.ver EXCEPT ![p] = cat.corr[p]]
  BY <1>1 DEF Acknowledged, Catalog
<1>3. \A q \in Periods :
         /\ fil[q].doc \in Nat /\ cat.corr[q] \in Nat
         /\ Answered(cat, fil, q) \in Nat /\ Answered(cat', fil', q) \in Nat
         /\ Answered(cat', fil', q) >= cat'.ver[q]
  BY <1>1, RowTypes
<1>4. ASSUME NEW q \in Periods, q # p
      PROVE  fil'[q] = fil[q] /\ Answered(cat', fil', q) = Answered(cat, fil, q)
  <2>1. fil'[q] = fil[q] /\ cat'.ver[q] = cat.ver[q]
    BY <1>1, <1>2, <1>4 DEF Catalog
  <2> QED
    BY <2>1 DEF Answered
<1>5. fil'[p].doc = v /\ cat'.ver[p] = cat.corr[p]
  BY <1>1, <1>2 DEF Catalog
<1>6. fil[p].doc = 0 => Answered(cat, fil, p) = 0
  BY <1>1 DEF KeepInv, LoadKept, Stored
<1>7. fil[p].doc = 0 \/ cat.corr[p] > Answered(cat, fil, p)
  BY DEF KeepInv, BatchKept
<1>8. ASSUME NEW q \in Periods
      PROVE  /\ fil[q].doc <= fil'[q].doc
             /\ Answered(cat, fil, q) <= Answered(cat', fil', q)
  BY <1>1, <1>3, <1>4, <1>5, <1>6, <1>7
<1>9. Stored(cat, fil, cur)'
  <2> SUFFICES ASSUME NEW q \in Periods
               PROVE  /\ fil'[q].doc <= site[cur][q]
                      /\ fil'[q].doc = 0 => Answered(cat', fil', q) = 0
                      /\ q \in cat'.cands => site[cur][q] > 0
    BY DEF Stored, Answered
  <2>1. /\ fil[q].doc <= site[cur][q]
        /\ fil[q].doc = 0 => Answered(cat, fil, q) = 0
        /\ q \in cat.cands => site[cur][q] > 0
    BY DEF KeepInv, LoadKept, Stored
  <2> QED
    BY <1>2, <1>4, <1>5, <2>1
<1>10. ASSUME NEW q \in batch'
       PROVE  /\ site[cur][q] > 0
              /\ fil'[q].doc = 0 \/ cat'.corr[q] > Answered(cat', fil', q)
  <2>1. q \in batch /\ q # p /\ q \in Periods
    BY <1>1, <1>10
  <2> QED
    BY <1>2, <1>4, <2>1 DEF KeepInv, BatchKept
<1> QED
  BY <1>8, <1>9, <1>10, KeepProgress DEF HeldKept

LEMMA KeepFetch ==
  ASSUME TypeInv, TypeInv', PlaceOK, KeepInv, NEW p \in Periods, FetchReply(p)
  PROVE  KeepInv'
<1> USE DEF site_, db, Reply
<1>1. /\ UNCHANGED <<site, catalogs, filings, cur, seen>>
      /\ pc = "fetch" /\ NextFiling(p) /\ p \in batch /\ cur # Host
  BY DEF FetchReply, notices, NextFiling, PlaceOK, Loading
<1>2. /\ cur \in Symbols /\ cat \in Catalog /\ fil \in [Periods -> Filing]
  BY <1>1 DEF TypeInv, LoadType, Keys
<1>3. /\ site[cur][p] \in Nat /\ seen[p][cur] \in Nat /\ fil[p].doc \in Nat
  <2>1. site[cur][p] \in Versions /\ seen[p][cur] \in Versions
    BY <1>2 DEF TypeInv, SiteType, RunType
  <2> QED
    BY <1>2, <2>1, Bounds, RowTypes
<1>4. 0 < site[cur][p] /\ fil[p].doc <= site[cur][p]
  BY <1>1, <1>3 DEF KeepInv, LoadKept, BatchKept, Stored
<1>5. CASE fil[p].doc = site[cur][p] /\ cat' = Acknowledged(cat, p)
           /\ batch' = batch \ {p} /\ UNCHANGED <<pc, fil, held>>
  BY <1>1, <1>3, <1>4, <1>5, KeepAcknowledged
<1>6. CASE Save(p, site[cur][p], seen[p][cur])
  <2>1. /\ cat' = Acknowledged(cat, p) /\ batch' = batch \ {p} /\ pc' # "correct"
        /\ fil' = [fil EXCEPT ![p] = [doc |-> site[cur][p], note |-> seen[p][cur]]]
    BY <1>6 DEF Save
  <2>2. PICK v \in Nat, n \in Nat : v = site[cur][p] /\ n = seen[p][cur]
    BY <1>3
  <2>3. /\ fil' = [fil EXCEPT ![p] = [doc |-> v, note |-> n]]
        /\ 0 < v /\ fil[p].doc <= v /\ v <= site[cur][p]
    BY <1>4, <2>1, <2>2
  <2> QED
    BY <1>1, <2>1, <2>3, KeepAcknowledged
<1>7. CASE pc' = "correct" /\ held' = site[cur][p]
           /\ UNCHANGED <<cat, fil, batch>>
  <2>1. HeldKept'
    <3>1. ASSUME NEW q \in Periods, NextFiling(q)'
          PROVE  fil'[q].doc <= held' /\ 0 < held' /\ held' <= site'[cur'][q]
      <4>1. NextFiling(q)
        BY <1>7, <3>1 DEF NextFiling, Precedes, Cached
      <4>2. q = p
        BY <1>1, <4>1, OneNext
      <4> QED
        BY <1>1, <1>3, <1>4, <1>7, <4>2
    <3> QED
      BY <3>1 DEF HeldKept
  <2>2. RowsKept' /\ LoadKept' /\ BatchKept'
    BY <1>1, <1>7 DEF KeepInv, RowsKept, LoadKept, BatchKept, Stored, Answered
  <2> QED
    BY <2>1, <2>2 DEF KeepInv
<1> QED
  BY <1>5, <1>6, <1>7 DEF FetchReply

LEMMA KeepCorrect ==
  ASSUME TypeInv, TypeInv', PlaceOK, KeepInv, NEW p \in Periods, CorrectReply(p)
  PROVE  KeepInv'
<1> USE DEF site_, db, Reply
<1>1. /\ UNCHANGED <<site, catalogs, filings, cur>>
      /\ pc = "correct" /\ NextFiling(p) /\ p \in batch /\ cur # Host
      /\ Save(p, held, seen'[p][cur])
  BY DEF CorrectReply, NextFiling, PlaceOK, Loading
<1>2. cur \in Symbols
  BY <1>1 DEF TypeInv, LoadType, Keys
<1>3. seen'[p][cur] \in Nat /\ held \in Nat
  <2>1. seen'[p][cur] \in Versions /\ held \in Versions
    BY <1>2 DEF TypeInv, RunType, LoadType
  <2> QED
    BY <2>1, Bounds
<1>4. fil[p].doc <= held /\ 0 < held /\ held <= site[cur][p]
  BY <1>1 DEF KeepInv, HeldKept
<1> QED
  BY <1>1, <1>3, <1>4, KeepAcknowledged DEF Save

THEOREM KeepStep ==
  ASSUME TypeInv, TypeInv', PlaceOK, KeepInv, [Next]_vars
  PROVE  KeepInv'
<1>1. CASE RunStep
  BY <1>1, KeepQuiet, KeepEnds, KeepStart, KeepLearns, KeepFetch, KeepCorrect
     DEF RunStep
<1>2. CASE FaultStep
  BY <1>2, KeepQuiet, KeepEnds DEF FaultStep
<1>3. CASE Environment
  BY <1>3, KeepSite, KeepQuiet DEF Environment
<1>4. CASE UNCHANGED vars
  BY <1>4, KeepQuiet
<1> QED
  BY <1>1, <1>2, <1>3, <1>4 DEF Next

\* No committed document or answer is taken back by a step.
LEMMA EnduresStep ==
  ASSUME TypeInv, PlaceOK, KeepInv, [Next]_vars,
         NEW s \in Symbols, NEW p \in Periods
  PROVE  /\ filings[s][p].doc <= filings'[s][p].doc
         /\ Answered(catalogs[s], filings[s], p)
              <= Answered(catalogs'[s], filings'[s], p)
<1>1. /\ catalogs[s] \in Catalog /\ filings[s] \in [Periods -> Filing]
      /\ filings[s][p].doc \in Nat /\ Answered(catalogs[s], filings[s], p) \in Nat
  BY RowTypes DEF TypeInv, StoreType
<1>2. CASE UNCHANGED <<catalogs, filings>>
  BY <1>1, <1>2
<1>3. CASE MonthEnds
  <2>1. filings' = filings /\ catalogs'[s] = [catalogs[s] EXCEPT !.fresh = FALSE]
    BY <1>3 DEF MonthEnds
  <2>2. catalogs'[s].ver = catalogs[s].ver
    BY <1>1, <2>1 DEF Catalog
  <2> QED
    BY <1>1, <2>1, <2>2 DEF Answered
<1>4. CASE cur # Host /\ Commit
  BY <1>1, <1>4, CommitRows DEF KeepInv, LoadKept
<1> QED
  BY <1>2, <1>3, <1>4, StoreChanges

\* A load ends with its commit, or with the storage error that rolls it back.
LEMMA LoadEnds ==
  ASSUME PlaceOK, [Next]_vars, cur # Host, pc' = "next"
  PROVE  Commit \/ infra'.kind = "storage"
<1>1. pc \in Loading
  BY DEF PlaceOK
<1>2. ASSUME NEW e, NEW c, Fail(e, c) PROVE FALSE
  BY <1>2 DEF Fail
<1>3. CASE RunStep
  <2>1. CASE \/ \E b \in Batches : BeginRun(b)
             \/ ScheduleBatch \/ EndRun
             \/ \E s \in Symbols : PassOver(s) \/ Start(s)
    BY <1>1, <2>1 DEF BeginRun, ScheduleBatch, Schedule, EndRun, PassOver, Start,
                      Loading
  <2>2. CASE DiscoverReply \/ Announced \/ Plan
    BY <2>2 DEF DiscoverReply, Announced, Plan
  <2>3. ASSUME NEW p \in Periods,
               \/ ReviseReply(p) \/ AnnounceReply(p) \/ ScanReply(p) \/ ScanCached(p)
               \/ FetchReply(p) \/ CorrectReply(p)
        PROVE  FALSE
    BY <1>1, <2>3 DEF ReviseReply, AnnounceReply, ScanReply, ScanCached, FetchReply,
                      CorrectReply, Save, Loading
  <2>4. ASSUME NEW p \in Periods, WriteRefused(p)
        PROVE  infra'.kind = "storage"
    BY <2>4 DEF WriteRefused, Rollback, Count, Failure
  <2>5. CASE RequestRefused
    BY <1>2, <2>5 DEF RequestRefused
  <2>6. CASE BadPage
    BY <1>1, <1>2, <2>6 DEF BadPage, Loading
  <2>7. CASE FinishLoad \/ FailLoad
    BY <2>7 DEF FinishLoad, FailLoad
  <2> QED
    BY <1>3, <2>1, <2>2, <2>3, <2>4, <2>5, <2>6, <2>7 DEF RunStep
<1>4. CASE FaultStep
  <2>1. CASE PreloadFails \/ ScheduleFails
    BY <1>1, <2>1 DEF PreloadFails, ScheduleFails, Schedule, Loading
  <2>2. CASE GuardPage
    BY <1>2, <2>2 DEF GuardPage
  <2>3. CASE NetworkFails
    BY <1>1, <1>2, <2>3 DEF NetworkFails, Loading
  <2>4. CASE StorageFails
    BY <2>4 DEF StorageFails, Rollback, Count, Failure
  <2>5. CASE Kill
    BY <2>5 DEF Kill, Forget
  <2> QED
    BY <1>4, <2>1, <2>2, <2>3, <2>4, <2>5 DEF FaultStep
<1>5. CASE Environment \/ UNCHANGED vars
  BY <1>1, <1>5 DEF Environment, Publish, Correct, MonthEnds, CooldownEnds, vars,
                    Loading
<1> QED
  BY <1>3, <1>4, <1>5 DEF Next

\* No run, however it is cut short, takes back a stored document or an answered
\* notice, and a load that ends without a storage error keeps all it did
\* (FundamentalService.load commits in the handler of DataSourceError as well):
\* at every size of the market, wherever corrections and faults fall.
THEOREM WorkNeverLost ==
  Spec => WorkIsKept
<1> DEFINE Inv == TypeInv /\ PlaceOK /\ KeepInv
           Endures ==
             \A s \in Symbols, p \in Periods :
               /\ filings[s][p].doc <= filings'[s][p].doc
               /\ Answered(catalogs[s], filings[s], p)
                    <= Answered(catalogs'[s], filings'[s], p)
           Keeps ==
             cur # Host /\ pc' = "next" /\ infra'.kind # "storage" =>
               catalogs'[cur] = cat /\ filings'[cur] = fil
<1>1. Init => Inv
  BY TypeInit, KeepInit DEF Init, PlaceOK, Loading
<1>2. Inv /\ [Next]_vars => Inv'
  BY TypeStep, PlaceStep, KeepStep
<1>3. Inv /\ [Next]_vars => [Endures]_vars
  BY EnduresStep
<1>4. Inv /\ [Next]_vars => [Keeps]_vars
  BY LoadEnds, CommitRows
<1>5. Spec => [][Endures]_vars
  BY <1>1, <1>2, <1>3, PTL DEF Spec
<1>6. Spec => [][Keeps]_vars
  BY <1>1, <1>2, <1>4, PTL DEF Spec
<1> QED
  BY <1>5, <1>6 DEF WorkIsKept, WorkEndures, LoadsKeepTheirWork

---------------------------------------------------------------------------
(* The attempt marks and the queue of a run: what the operators on their   *)
(* sequences return.                                                       *)

LEMMA Smallest ==
  ASSUME NEW I \in SUBSET Nat, I # {}
  PROVE  Min(I) \in I /\ \A i \in I : Min(I) <= i
<1>1. PICK m \in I : \A i \in I : ~(<<i, m>> \in OpToRel(<, Nat))
  BY WFMin, NatLessThanWellFounded
<1>2. ASSUME NEW i \in I PROVE ~(i < m)
  BY <1>1 DEF OpToRel
<1>3. \A i \in I : m <= i
  <2>1. m \in Nat /\ \A i \in I : i \in Nat
    OBVIOUS
  <2> QED
    BY <1>2, <2>1
<1> QED
  BY <1>3 DEF Min

\* The first place of a value in a sequence, 0 if it has none.
LEMMA PositionFacts ==
  ASSUME NEW K, NEW q \in Seq(K), NEW s
  PROVE  /\ Position(q, s) \in 0..Len(q)
         /\ Position(q, s) # 0 => q[Position(q, s)] = s
         /\ s \in ToSet(q) => Position(q, s) # 0
<1> DEFINE I == {i \in 1..Len(q) : q[i] = s}
<1>1. Position(q, s) = IF I # {} THEN Min(I) ELSE 0
  BY DEF Position, SelectInSeq
<1>2. I \subseteq Nat /\ I \subseteq 1..Len(q) /\ \A i \in I : q[i] = s
  OBVIOUS
<1>3. s \in ToSet(q) => I # {}
  BY DEF ToSet
<1>4. Len(q) \in Nat
  OBVIOUS
<1> HIDE DEF I
<1>5. CASE I = {}
  BY <1>1, <1>3, <1>4, <1>5
<1>6. CASE I # {}
  <2>1. PICK n \in I : n = Min(I)
    BY <1>2, <1>6, Smallest
  <2>2. Position(q, s) = n
    BY <1>1, <1>6, <2>1
  <2>3. n \in 1..Len(q) /\ q[n] = s
    BY <1>2
  <2> QED
    BY <1>4, <2>2, <2>3
<1> QED
  BY <1>5, <1>6

\* save_refresh_attempt keeps every mark and adds the new one.
LEMMA TouchFacts ==
  ASSUME NEW m \in Seq(Keys), NEW k \in Keys
  PROVE  Touch(m, k) \in Seq(Keys) /\ ToSet(m) \cup {k} \subseteq ToSet(Touch(m, k))
<1> DEFINE r == RemoveFirst(m, k)
<1>1. r \in Seq(Keys) /\ ToSet(m) \ {k} \subseteq ToSet(r)
  <2>1. CASE ~\E i \in 1..Len(m) : m[i] = k
    BY <2>1 DEF RemoveFirst, ToSet
  <2>2. CASE \E i \in 1..Len(m) : m[i] = k
    <3> DEFINE I == {i \in 1..Len(m) : m[i] = k}
    <3>1. I # {} /\ I \subseteq Nat /\ I \subseteq 1..Len(m) /\ \A i \in I : m[i] = k
      BY <2>2
    <3>2. r = RemoveAt(m, Min(I))
      BY <2>2 DEF RemoveFirst, SelectInSeq
    <3> HIDE DEF I
    <3>3. PICK n \in 1..Len(m) : n = Min(I) /\ m[n] = k
      BY <3>1, Smallest
    <3> DEFINE a == SubSeq(m, 1, n - 1)
               b == SubSeq(m, n + 1, Len(m))
    <3>4. /\ a \in Seq(Keys) /\ Len(a) = n - 1
          /\ \A i \in 1..(n - 1) : a[i] = m[i]
      BY <3>3
    <3>5. /\ b \in Seq(Keys) /\ Len(b) = Len(m) - n
          /\ \A i \in 1..(Len(m) - n) : b[i] = m[n + i]
      BY <3>3
    <3>6. r = a \o b
      BY <3>2, <3>3 DEF RemoveAt
    <3> HIDE DEF a, b, r
    <3>9. \A j \in 1..Len(b) : r[Len(a) + j] = b[j]
      BY <3>4, <3>5, <3>6, ConcatProperties
    <3>7. r \in Seq(Keys) /\ Len(r) = Len(m) - 1
      BY <3>3, <3>4, <3>5, <3>6
    <3>8. ASSUME NEW i \in 1..Len(m), m[i] # k
          PROVE  \E j \in 1..Len(r) : r[j] = m[i]
      <4>1. CASE i < n
        <5>1. i \in 1..Len(r) /\ i \in 1..Len(a)
          BY <3>3, <3>4, <3>7, <4>1
        <5>2. r[i] = a[i]
          BY <3>4, <3>5, <3>6, <5>1
        <5> QED
          BY <3>4, <5>1, <5>2
      <4>2. CASE i > n
        <5>1. i - 1 \in 1..Len(r) /\ i - n \in 1..Len(b) /\ i - 1 = Len(a) + (i - n)
          BY <3>3, <3>4, <3>5, <3>7, <4>2
        <5>2. r[i - 1] = b[i - n]
          BY <3>9, <5>1
        <5>3. b[i - n] = m[i]
          <6>1. i - n \in 1..(Len(m) - n) /\ n + (i - n) = i
            BY <3>3, <4>2
          <6> QED
            BY <3>5, <6>1
        <5> QED
          BY <5>1, <5>2, <5>3
      <4>3. CASE i = n
        BY <3>3, <3>8, <4>3
      <4> QED
        BY <3>3, <4>1, <4>2, <4>3
    <3> QED
      BY <3>7, <3>8 DEF ToSet
  <2> QED
    BY <2>1, <2>2
<1> HIDE DEF r
<1>2. Touch(m, k) = Append(r, k)
  BY DEF Touch, r
<1>3. PICK t \in Seq(Keys) : t = Append(r, k)
  <2>1. Append(r, k) \in Seq(Keys)
    BY <1>1, AppendProperties
  <2> QED
    BY <2>1
<1>4. Len(r) \in Nat /\ Len(t) = Len(r) + 1 /\ t[Len(r) + 1] = k
      /\ \A i \in 1..Len(r) : t[i] = r[i]
  BY <1>1, <1>3
<1>5. ToSet(r) \cup {k} \subseteq ToSet(t)
  BY <1>1, <1>4 DEF ToSet
<1> QED
  BY <1>1, <1>2, <1>3, <1>5

LEMMA FinishFacts ==
  ASSUME marks \in Seq(Keys), cooling \subseteq ToSet(marks), NEW k \in Keys, NEW c
  PROVE  /\ FinishMarks(k, c) \in Seq(Keys)
         /\ FinishCooling(k, c) \subseteq ToSet(FinishMarks(k, c))
<1>1. Host \in Keys
  BY Bounds
<1>2. Touch(marks, k) \in Seq(Keys) /\ ToSet(marks) \cup {k} \subseteq ToSet(Touch(marks, k))
  BY TouchFacts
<1>3. PICK t \in Seq(Keys) : t = Touch(marks, k)
  BY <1>2
<1>4. Touch(t, Host) \in Seq(Keys) /\ ToSet(t) \cup {Host} \subseteq ToSet(Touch(t, Host))
  BY <1>1, TouchFacts
<1> QED
  BY <1>2, <1>3, <1>4 DEF FinishMarks, FinishCooling

StrictOrder(R, S) ==
  /\ \A a, b \in S : a # b => <<a, b>> \in R \/ <<b, a>> \in R
  /\ \A a \in S : <<a, a>> \notin R
  /\ \A a, b, c \in S : <<a, b>> \in R /\ <<b, c>> \in R => <<a, c>> \in R

InOrderOf(q, R) ==
  \A i, j \in 1..Len(q) : i < j => <<q[i], q[j]>> \in R

\* A finite set with a strict total order R has its sequence in that order:
\* every element stands behind as many others as are below it.
LEMMA OrderedSequence ==
  ASSUME NEW S, IsFiniteSet(S), NEW R, StrictOrder(R, S)
  PROVE  \E q \in SetToSeqs(S) : InOrderOf(q, R)
<1> DEFINE n == Cardinality(S)
           UpTo(a) == {b \in S : b = a \/ <<b, a>> \in R}
           place == [a \in S |-> Cardinality(UpTo(a))]
<1> USE DEF StrictOrder
<1>1. n \in Nat /\ IsFiniteSet(1..n) /\ Cardinality(1..n) = n
  BY FS_CardinalityType, FS_Interval
<1>2. ASSUME NEW a \in S
      PROVE  IsFiniteSet(UpTo(a)) /\ place[a] \in 1..n
  <2>1. IsFiniteSet(UpTo(a)) /\ Cardinality(UpTo(a)) <= n
    BY FS_Subset
  <2>2. a \in UpTo(a) /\ place[a] = Cardinality(UpTo(a))
    OBVIOUS
  <2> HIDE DEF UpTo, place
  <2>3. Cardinality(UpTo(a)) \in Nat /\ Cardinality(UpTo(a)) # 0
    BY <2>1, <2>2, FS_CardinalityType, FS_EmptySet
  <2> QED
    BY <1>1, <2>1, <2>2, <2>3
<1>3. ASSUME NEW a \in S, NEW b \in S, <<a, b>> \in R
      PROVE  place[a] < place[b]
  <2>1. UpTo(a) \subseteq UpTo(b) /\ b \in UpTo(b) /\ b \notin UpTo(a)
    BY <1>3
  <2>2. IsFiniteSet(UpTo(b)) /\ place[a] \in Nat /\ place[b] \in Nat
    BY <1>2
  <2>3. /\ Cardinality(UpTo(a)) <= Cardinality(UpTo(b))
        /\ Cardinality(UpTo(b)) = Cardinality(UpTo(a)) => UpTo(b) = UpTo(a)
    BY <2>1, <2>2, FS_Subset
  <2>4. place[a] = Cardinality(UpTo(a)) /\ place[b] = Cardinality(UpTo(b))
    OBVIOUS
  <2> HIDE DEF UpTo, place
  <2> QED
    BY <2>1, <2>2, <2>3, <2>4
<1>4. place \in Injection(S, 1..n)
  <2>1. place \in [S -> 1..n]
    BY <1>2
  <2>2. ASSUME NEW a \in S, NEW b \in S, place[a] = place[b]
        PROVE  a = b
    <3> SUFFICES ASSUME a # b PROVE FALSE
      OBVIOUS
    <3>1. place[a] < place[b] \/ place[b] < place[a]
      BY <1>3
    <3> HIDE DEF place
    <3>2. place[a] \in Nat /\ place[b] \in Nat
      BY <2>1
    <3> QED
      BY <2>2, <3>1, <3>2
  <2> HIDE DEF place
  <2> QED
    BY <2>1, <2>2 DEF Injection, IsInjective
<1> HIDE DEF place
<1>5. \A i \in 1..n : \E a \in S : place[a] = i
  <2>1. place \in Surjection(S, 1..n)
    BY <1>1, <1>4, FS_Injection
  <2> QED
    BY <2>1 DEF Surjection
<1> DEFINE q == [i \in 1..n |-> CHOOSE a \in S : place[a] = i]
<1>6. \A i \in 1..n : q[i] \in S /\ place[q[i]] = i
  BY <1>5
<1>7. q \in [1..n -> S] /\ Len(q) = n
  BY <1>1, <1>6
<1> HIDE DEF q
<1>8. q \in SetToSeqs(S)
  BY <1>6, <1>7 DEF SetToSeqs
<1>9. ASSUME NEW i \in 1..n, NEW j \in 1..n, i < j
      PROVE  <<q[i], q[j]>> \in R
  <2>1. q[i] \in S /\ q[j] \in S /\ place[q[i]] = i /\ place[q[j]] = j
    BY <1>6
  <2>2. q[i] # q[j]
    BY <1>1, <1>9, <2>1
  <2>3. <<q[j], q[i]>> \in R => j < i
    BY <1>3, <2>1
  <2> QED
    BY <1>1, <1>9, <2>1, <2>2, <2>3
<1> QED
  BY <1>7, <1>8, <1>9 DEF InOrderOf

\* SetToSeqs returns sequences of the set's elements.
LEMMA SequencesOf ==
  ASSUME NEW S, IsFiniteSet(S), NEW q \in SetToSeqs(S)
  PROVE  q \in Seq(S)
<1>1. Cardinality(S) \in Nat
  BY FS_CardinalityType
<1> QED
  BY <1>1 DEF SetToSeqs

\* The places of issuers in the stock list and among the marks order them.
LEMMA ListPlaces ==
  /\ \A s \in Symbols : Position(SymbolOrder, s) \in Nat
  /\ \A s, t \in Symbols : Position(SymbolOrder, s) = Position(SymbolOrder, t) => s = t
<1>1. SymbolOrder \in Seq(Symbols)
  BY RefreshAssumption DEF RefreshAssumption
<1>2. \A s \in Symbols : s \in ToSet(SymbolOrder)
  BY <1>1 DEF Symbols, ToSet
<1>3. ASSUME NEW s \in Symbols
      PROVE  /\ Position(SymbolOrder, s) \in Nat
             /\ SymbolOrder[Position(SymbolOrder, s)] = s
  BY <1>1, <1>2, PositionFacts
<1> QED
  BY <1>3

LEMMA LaneFacts ==
  ASSUME marks \in Seq(Keys), NEW S \in SUBSET Symbols
  PROVE  Lane(S) \in Seq(S)
<1> DEFINE R == {e \in S \X S : Older(e[1], e[2])}
<1>1. IsFiniteSet(S)
  BY PolicyConstants, FS_Subset
<1>2. \A s \in S : Position(marks, s) \in Nat /\ Position(SymbolOrder, s) \in Nat
  BY PositionFacts, ListPlaces
<1>3. \A s, t \in S : Position(SymbolOrder, s) = Position(SymbolOrder, t) => s = t
  BY ListPlaces
<1>4. \A s, t \in S : <<s, t>> \in R <=> Older(s, t)
  OBVIOUS
<1>5. StrictOrder(R, S)
  <2> HIDE DEF R
  <2> QED
    BY <1>2, <1>3, <1>4 DEF StrictOrder, Older, Listed
<1>6. PICK q \in SetToSeqs(S) : InOrderOf(q, R)
  <2> HIDE DEF R
  <2> QED
    BY <1>1, <1>5, OrderedSequence
<1>7. \A i, j \in 1..Len(q) : i < j => Older(q[i], q[j])
  BY <1>6 DEF InOrderOf
<1>8. Lane(S) \in SetToSeqs(S)
  BY <1>7 DEF Lane, InOrder
<1> QED
  BY <1>1, <1>8, SequencesOf

LEMMA RestFacts ==
  ASSUME NEW S \in SUBSET Symbols
  PROVE  InOrder(S, Listed) \in Seq(S)
<1> DEFINE R == {e \in S \X S : Listed(e[1], e[2])}
<1>1. IsFiniteSet(S)
  BY PolicyConstants, FS_Subset
<1>2. \A s, t \in S : <<s, t>> \in R <=> Listed(s, t)
  OBVIOUS
<1>3. StrictOrder(R, S)
  <2> HIDE DEF R
  <2>1. \A s \in S : Position(SymbolOrder, s) \in Nat
    BY ListPlaces
  <2>2. \A s, t \in S : Position(SymbolOrder, s) = Position(SymbolOrder, t) => s = t
    BY ListPlaces
  <2> QED
    BY <1>2, <2>1, <2>2 DEF StrictOrder, Listed
<1>4. PICK q \in SetToSeqs(S) : InOrderOf(q, R)
  <2> HIDE DEF R
  <2> QED
    BY <1>1, <1>3, OrderedSequence
<1>5. \A i, j \in 1..Len(q) : i < j => Listed(q[i], q[j])
  BY <1>4 DEF InOrderOf
<1>6. InOrder(S, Listed) \in SetToSeqs(S)
  BY <1>5 DEF InOrder
<1> QED
  BY <1>1, <1>6, SequencesOf

LEMMA AlternateFacts ==
  ASSUME NEW K, NEW a \in Seq(K), NEW b \in Seq(K)
  PROVE  Alternate(a, b) \in Seq(K)
<1>1. Len(a) \in Nat /\ Len(b) \in Nat
  OBVIOUS
<1>2. PICK both \in Nat : /\ both = Min({Len(a), Len(b)})
                          /\ both = IF Len(a) > Len(b) THEN Len(b) ELSE Len(a)
  <2>1. {Len(a), Len(b)} \in SUBSET Nat /\ {Len(a), Len(b)} # {}
    BY <1>1
  <2>2. /\ Min({Len(a), Len(b)}) \in {Len(a), Len(b)}
        /\ \A i \in {Len(a), Len(b)} : Min({Len(a), Len(b)}) <= i
    BY <2>1, Smallest
  <2> QED
    BY <1>1, <2>2
<1> DEFINE rest == IF Len(a) > Len(b) THEN a ELSE b
           Pick(i) == IF i > 2 * both THEN rest[i - both]
                      ELSE IF i % 2 = 1 THEN a[(i + 1) \div 2] ELSE b[i \div 2]
<1>3. Alternate(a, b) = [i \in 1..(Len(a) + Len(b)) |-> Pick(i)]
  BY <1>2 DEF Alternate
<1>4. ASSUME NEW i \in 1..(Len(a) + Len(b)) PROVE Pick(i) \in K
  <2>1. CASE i > 2 * both
    <3>1. i - both \in 1..Len(rest) /\ rest \in Seq(K)
      BY <1>1, <1>2, <2>1
    <3> QED
      BY <2>1, <3>1
  <2>2. CASE i <= 2 * both /\ i % 2 = 1
    <3>1. (i + 1) \div 2 \in 1..Len(a)
      BY <1>1, <1>2, <2>2
    <3> QED
      BY <1>1, <1>2, <2>2, <3>1
  <2>3. CASE i <= 2 * both /\ i % 2 # 1
    <3>1. i \div 2 \in 1..Len(b)
      BY <1>1, <1>2, <2>3
    <3> QED
      BY <1>1, <1>2, <2>3, <3>1
  <2> QED
    BY <1>1, <1>2, <2>1, <2>2, <2>3
<1>5. Len(a) + Len(b) \in Nat
  BY <1>1
<1> HIDE DEF Pick
<1> QED
  BY <1>3, <1>4, <1>5

LEMMA ScheduledFacts ==
  ASSUME marks \in Seq(Keys), NEW ranked \in SUBSET Symbols
  PROVE  ScheduledOrder(ranked) \in Seq(Symbols)
<1> DEFINE prio == Lane(ranked \cap Watched)
           general == Lane(ranked \ Watched)
           fair == prio # <<>> /\ general # <<>>
           order == IF fair /\ turn = "GENERAL" THEN Alternate(general, prio)
                                                ELSE Alternate(prio, general)
<1>1. prio \in Seq(Symbols) /\ general \in Seq(Symbols)
  <2>1. \A S \in SUBSET Symbols : Lane(S) \in Seq(S) /\ Seq(S) \subseteq Seq(Symbols)
    BY LaneFacts
  <2> QED
    BY <2>1
<1>2. PICK o \in Seq(Symbols) : o = order
  <2>1. /\ Alternate(general, prio) \in Seq(Symbols)
        /\ Alternate(prio, general) \in Seq(Symbols)
    <3> HIDE DEF prio, general
    <3> QED
      BY <1>1, AlternateFacts
  <2> HIDE DEF prio, general
  <2> QED
    BY <2>1
<1>3. ScheduledOrder(ranked) = SubSeq(o, 1, Min({Len(o), MaxSymbols}))
  BY <1>2 DEF ScheduledOrder
<1>4. PICK n \in 0..Len(o) : n = Min({Len(o), MaxSymbols})
  <2>1. {Len(o), MaxSymbols} \in SUBSET Nat /\ {Len(o), MaxSymbols} # {}
    BY <1>2, PolicyConstants
  <2>2. /\ Min({Len(o), MaxSymbols}) \in {Len(o), MaxSymbols}
        /\ \A i \in {Len(o), MaxSymbols} : Min({Len(o), MaxSymbols}) <= i
    BY <2>1, Smallest
  <2> QED
    BY <1>2, <2>1, <2>2, PolicyConstants
<1>5. SubSeq(o, 1, n) \in Seq(Symbols)
  <2>1. \A i \in 1..n : o[i] \in Symbols
    BY <1>2, <1>4
  <2>2. 1 \in Int /\ n \in Int
    BY <1>2, <1>4
  <2> QED
    BY <2>1, <2>2, SubSeqProperties
<1> QED
  BY <1>3, <1>4, <1>5

\* Every mark that is cooling is recorded, and the queue holds issuers.
OrderInv ==
  /\ marks \in Seq(Keys) /\ cooling \subseteq ToSet(marks)
  /\ queue \in Seq(Symbols)

\* What a step does to the marks.
MarksStep ==
  \/ marks' = marks /\ cooling' \subseteq cooling
  \/ \E k \in Keys : \E c :
        marks' = FinishMarks(k, c) /\ cooling' = FinishCooling(k, c)

\* What a step does to the queue.
Queued(order) == order \o InOrder(Symbols \ ToSet(order), Listed)
QueueStep ==
  \/ queue' = queue \/ queue' = <<>> \/ queue' = SymbolOrder
  \/ queue # <<>> /\ queue' = Tail(queue)
  \/ \E R \in SUBSET Symbols : queue' = Queued(ScheduledOrder(R))

LEMMA Steps ==
  ASSUME TypeInv, [Next]_vars
  PROVE  MarksStep /\ QueueStep
<1> USE DEF db, run
<1>1. ASSUME NEW e, NEW c, Fail(e, c) PROVE MarksStep /\ QueueStep
  <2>1. queue' = queue
    BY <1>1 DEF Fail
  <2>2. \/ UNCHANGED <<marks, cooling>>
        \/ marks' = FinishMarks(Host, c) /\ cooling' = FinishCooling(Host, c)
    BY <1>1 DEF Fail
  <2> QED
    BY <2>1, <2>2, Bounds DEF MarksStep, QueueStep
<1>2. ASSUME UNCHANGED <<marks, cooling>>, QueueStep
      PROVE  MarksStep /\ QueueStep
  BY <1>2 DEF MarksStep
<1>3. ASSUME UNCHANGED <<marks, cooling, queue>>
      PROVE  MarksStep /\ QueueStep
  BY <1>3 DEF MarksStep, QueueStep
<1>4. ASSUME NEW R \in SUBSET Symbols, Schedule(R)
      PROVE  MarksStep /\ QueueStep
  <2>1. QueueStep
    BY <1>4 DEF Schedule, QueueStep, Queued
  <2> QED
    BY <1>2, <1>4, <2>1 DEF Schedule
<1>5. CASE RunStep
  <2>1. CASE \E b \in Batches : BeginRun(b)
    BY <1>3, <2>1 DEF BeginRun
  <2>2. CASE ScheduleBatch
    <3>1. {s \in Symbols \ cooling : ~UpToDate(s)} \in SUBSET Symbols
      OBVIOUS
    <3> QED
      BY <1>4, <2>2, <3>1 DEF ScheduleBatch
  <2>3. CASE EndRun
    BY <1>2, <2>3 DEF EndRun, Forget, QueueStep
  <2>4. CASE \E s \in Symbols : PassOver(s) \/ Start(s)
    BY <1>2, <2>4 DEF PassOver, Start, QueueStep
  <2>5. CASE DiscoverReply \/ Announced \/ Plan
    BY <1>3, <2>5 DEF DiscoverReply, Announced, Plan, Reply
  <2>6. ASSUME NEW p \in Periods,
               \/ ReviseReply(p) \/ AnnounceReply(p) \/ ScanReply(p) \/ ScanCached(p)
               \/ FetchReply(p) \/ CorrectReply(p)
        PROVE  MarksStep /\ QueueStep
    BY <1>3, <2>6 DEF ReviseReply, AnnounceReply, ScanReply, ScanCached, FetchReply,
                      CorrectReply, Reply
  <2>7. ASSUME NEW p \in Periods, WriteRefused(p)
        PROVE  MarksStep /\ QueueStep
    BY <1>2, <2>7 DEF WriteRefused, Rollback, Count, QueueStep
  <2>8. CASE RequestRefused
    BY <1>1, <2>8 DEF RequestRefused
  <2>9. CASE BadPage
    BY <1>1, <1>3, <2>9 DEF BadPage
  <2>10. CASE FinishLoad \/ FailLoad
    <3>1. Commit /\ QueueStep
      BY <2>10 DEF FinishLoad, FailLoad, Count, QueueStep
    <3>2. cur \in Keys
      BY DEF TypeInv, LoadType
    <3>3. MarksStep
      BY <3>1, <3>2 DEF Commit, MarksStep
    <3> QED
      BY <3>1, <3>3
  <2> QED
    BY <1>5, <2>1, <2>2, <2>3, <2>4, <2>5, <2>6, <2>7, <2>8, <2>9, <2>10 DEF RunStep
<1>6. CASE FaultStep
  <2>1. CASE PreloadFails
    <3>1. Symbols \ cooling \in SUBSET Symbols
      OBVIOUS
    <3> QED
      BY <1>4, <2>1, <3>1 DEF PreloadFails
  <2>2. CASE ScheduleFails
    BY <1>2, <2>2 DEF ScheduleFails, QueueStep
  <2>3. CASE GuardPage
    BY <1>1, <2>3 DEF GuardPage
  <2>4. CASE NetworkFails
    BY <1>1, <1>3, <2>4 DEF NetworkFails
  <2>5. CASE StorageFails
    BY <1>2, <2>5 DEF StorageFails, Rollback, Count, QueueStep
  <2>6. CASE Kill
    BY <1>2, <2>6 DEF Kill, Forget, QueueStep
  <2> QED
    BY <1>6, <2>1, <2>2, <2>3, <2>4, <2>5, <2>6 DEF FaultStep
<1>7. CASE Environment
  <2>1. CASE \E s \in Symbols, p \in Periods : Publish(s, p) \/ Correct(s, p)
    BY <1>3, <2>1 DEF Publish, Correct
  <2>2. CASE MonthEnds
    BY <1>3, <2>2 DEF MonthEnds
  <2>3. CASE CooldownEnds
    BY <2>3 DEF CooldownEnds, MarksStep, QueueStep
  <2> QED
    BY <1>7, <2>1, <2>2, <2>3 DEF Environment
<1>8. CASE UNCHANGED vars
  BY <1>3, <1>8 DEF vars
<1> QED
  BY <1>5, <1>6, <1>7, <1>8 DEF Next

LEMMA OrderStep ==
  ASSUME TypeInv, OrderInv, [Next]_vars
  PROVE  OrderInv'
<1>1. MarksStep /\ QueueStep
  BY Steps
<1>2. marks' \in Seq(Keys) /\ cooling' \subseteq ToSet(marks')
  <2>1. CASE marks' = marks /\ cooling' \subseteq cooling
    BY <2>1 DEF OrderInv
  <2>2. ASSUME NEW k \in Keys, NEW c,
               marks' = FinishMarks(k, c), cooling' = FinishCooling(k, c)
        PROVE  marks' \in Seq(Keys) /\ cooling' \subseteq ToSet(marks')
    BY <2>2, FinishFacts DEF OrderInv
  <2> QED
    BY <1>1, <2>1, <2>2 DEF MarksStep
<1>3. queue' \in Seq(Symbols)
  <2>1. SymbolOrder \in Seq(Symbols)
    BY RefreshAssumption DEF RefreshAssumption
  <2>2. queue \in Seq(Symbols)
    BY DEF OrderInv
  <2>3. CASE queue # <<>> /\ queue' = Tail(queue)
    BY <2>2, <2>3
  <2>4. ASSUME NEW R \in SUBSET Symbols,
               queue' = Queued(ScheduledOrder(R))
        PROVE  queue' \in Seq(Symbols)
    <3> DEFINE order == ScheduledOrder(R)
    <3>1. order \in Seq(Symbols)
      BY <2>4, ScheduledFacts DEF OrderInv
    <3> HIDE DEF order
    <3>2. PICK rest \in Seq(Symbols) : rest = InOrder(Symbols \ ToSet(order), Listed)
      <4>1. Symbols \ ToSet(order) \in SUBSET Symbols
        OBVIOUS
      <4>2. InOrder(Symbols \ ToSet(order), Listed) \in Seq(Symbols \ ToSet(order))
        BY <4>1, RestFacts
      <4> QED
        BY <4>2
    <3> QED
      BY <2>4, <3>1, <3>2 DEF order, Queued
  <2>5. CASE queue' = queue \/ queue' = <<>> \/ queue' = SymbolOrder
    <3>1. CASE queue' = <<>>
      BY <3>1
    <3>2. CASE queue' = queue \/ queue' = SymbolOrder
      BY <2>1, <2>2, <3>2, Zenon
    <3> QED
      BY <2>5, <3>1, <3>2
  <2>6. CASE \E R \in SUBSET Symbols : queue' = Queued(ScheduledOrder(R))
    BY <2>4, <2>6
  <2> QED
    BY <1>1, <2>3, <2>5, <2>6, Zenon DEF QueueStep
<1> QED
  BY <1>2, <1>3 DEF OrderInv

\* The variables keep their types at every size of the market and under every
\* policy: in particular every cooldown belongs to a recorded attempt, the
\* queue holds issuers of the stock list, and no version is invented.
THEOREM TypeKept ==
  Spec => []TypeOK
<1> DEFINE Inv == TypeInv /\ PlaceOK /\ PolicyInv /\ OrderInv
<1>1. Init => Inv
  <2> SUFFICES ASSUME Init PROVE OrderInv /\ PlaceOK
    BY TypeInit, PolicyInit
  <2>1. PlaceOK
    BY DEF Init, PlaceOK, Loading
  <2>2. OrderInv
    BY DEF Init, OrderInv
  <2> QED
    BY <2>1, <2>2
<1>2. Inv /\ [Next]_vars => Inv'
  BY TypeStep, PlaceStep, PolicyInvariantStep, OrderStep
<1>3. Inv => TypeOK
  <2> SUFFICES ASSUME Inv PROVE TypeOK
    OBVIOUS
  <2>1. ctl.symbols \subseteq Symbols /\ ctl.requests \in Nat
    BY DEF PolicyInv, ControlOK, ControlOf
  <2>2. cur = Host <=> pc \in {"idle", "revise", "schedule", "next"}
    BY DEF PlaceOK, Loading, TypeInv, RunType, Phases
  <2>3. pc \in {"idle", "revise", "schedule", "next", "discover", "announce",
                "scan", "fetch", "correct", "failed"}
    BY DEF TypeInv, RunType, Phases, Loading
  <2> QED
    BY <2>1, <2>2, <2>3
       DEF TypeOK, OrderInv, TypeInv, SiteType, StoreType, RunType, LoadType
<1> QED
  BY <1>1, <1>2, <1>3, PTL DEF Spec
=============================================================================
