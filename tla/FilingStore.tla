---------------------------- MODULE FilingStore ----------------------------
(***************************************************************************)
(* The store of filings behind MopsFundamentalService: the documents of    *)
(* one issuer as the disclosure site shows them, the revisions kept of     *)
(* them with the time each became known, and the snapshots derived from    *)
(* the revisions visible at a cutoff.                                      *)
(*                                                                         *)
(*   db         the SQLite database as committed: filings, snapshots, the  *)
(*              active pointer of refresh_state, the notices of the catalog*)
(*   work       the transaction of an open load, a changed copy of db      *)
(*   originals  the raw files, written outside the transaction             *)
(*                                                                         *)
(* Times are ticks, TicksPerDay to the day: rows are dated by the tick,    *)
(* correction notices by the day.  Which issuers and periods a run gets    *)
(* to, its budget and its catalog are the business of MopsRefresh; here a  *)
(* load works through any part of what there is to download or verify.     *)
(***************************************************************************)
EXTENDS Integers, Sequences, FiniteSets, FiniteSetsExt, SequencesExt, Functions

CONSTANTS
  Periods,        \* fiscal periods
  Docs,           \* contents of a document: their hashes
  None,           \* no document, no bundle, no notice read
  TicksPerDay,
  MaxTime,        \* bound on the clock
  MaxCorrections, \* bound on the corrections of a behaviour
  MaxVersion,     \* bound on the derivation versions installed
  MaxLosses       \* bound on the originals that become unreadable

Times == 0..MaxTime
Day(t) == t \div TicksPerDay

StoreAssumption ==
  /\ IsFiniteSet(Periods) /\ None \notin Docs \cup Nat
  /\ TicksPerDay \in Nat \ {0} /\ MaxTime > TicksPerDay
  /\ {MaxTime, MaxCorrections, MaxVersion, MaxLosses} \subseteq Nat
ASSUME StoreAssumption

\* LEGACY_UNVERIFIED and FIRST_OBSERVED_DOWNLOAD: no adapter dates a filing
\* by an OFFICIAL_FILING_TIMESTAMP.
Sources == {"legacy", "observed"}
Filing == [p : Periods, doc : Docs, rev : Nat, avail : Times, fetched : Times,
           src : Sources, note : Nat]

VARIABLES
  \* the site and the clock
  now,       \* the clock
  hist,      \* for each period what was published, and when
  \* the disk
  db,        \* the committed database
  originals, \* the raw files that can be read
  lost,      \* those that could not, at some time
  version,   \* FUNDAMENTAL_DERIVATION_VERSION of the installed code
  \* a load
  pc,        \* what it does next
  work,      \* its transaction
  seen,      \* the client's _correction_cache: latest notice, or None
  began,     \* fallback_available_at, taken before the transaction
  signal,    \* effective_signal
  reuse,     \* local_reuse
  batch,     \* periods still to be downloaded or verified
  cur,       \* the period in work
  asked,     \* fetched_at of the request
  held,      \* the downloaded content
  answer     \* the bundle a caller was just given

site == <<now, hist>>
disk == <<db, originals, lost>>
request == <<cur, asked, held>>
load == <<pc, work, seen, began, signal, reuse, batch, request>>
vars == <<site, disk, version, load, answer>>

---------------------------------------------------------------------------
(* The site                                                                *)

Published == {p \in Periods : hist[p] # <<>>}
Shown(p) == Last(hist[p]).doc

\* The day of the latest correction notice of p, 0 if there is none.
Notice(p) == IF Len(hist[p]) > 1 THEN Day(Last(hist[p]).at) ELSE 0

---------------------------------------------------------------------------
(* Rows, selections and bundles                                            *)

Of(rows, p) == {r \in rows : r.p = p}
Stored(rows) == {r.p : r \in rows}

\* latest_filing: the highest revision of the period.
IsLatest(rows, r) == \A q \in Of(rows, r.p) : q.rev <= r.rev
Latest(rows, p) == CHOOSE r \in Of(rows, p) : IsLatest(rows, r)

\* load_filings_many and load_filed_financials: visible at the cutoff t.
Visible(rows, t) == {r \in rows : r.avail <= t}

\* filing_set_hash
Selection(rows) ==
  {[p |-> r.p, rev |-> r.rev, avail |-> r.avail, src |-> r.src, doc |-> r.doc] : r \in rows}

\* Mutant: the key does not name the derivation version.
SnapshotKeyUnversioned(rows) == [ver |-> 0, sel |-> Selection(rows)]

\* FundamentalDeriver.snapshot_cache_key
SnapshotKey(rows) == [ver |-> version, sel |-> Selection(rows)]

\* derive_fundamentals takes the last filing of a period by the time it was
\* available, then by its revision.
InForce(rows, p) ==
  CHOOSE r \in Of(rows, p) :
    \A q \in Of(rows, p) : q.avail < r.avail \/ (q.avail = r.avail /\ q.rev <= r.rev)

\* A document whose original cannot be read gives no amounts.
Derived(rows) ==
  [docs |-> [p \in Periods |-> IF p \in Stored(rows) THEN InForce(rows, p).doc ELSE None],
   known |-> {p \in Stored(rows) : <<p, InForce(rows, p).doc>> \in originals},
   ver |-> version]

\* _load_cached_bundle: the snapshot of exactly this selection, or a derived
\* one, which is then stored and becomes the active one.
BundleOf(d, rows) ==
  IF SnapshotKey(rows) \in DOMAIN d.snaps THEN d.snaps[SnapshotKey(rows)] ELSE Derived(rows)
WithBundle(d, rows) ==
  IF SnapshotKey(rows) \in DOMAIN d.snaps THEN d
  ELSE [d EXCEPT !.snaps = [k \in DOMAIN @ \cup {SnapshotKey(rows)} |->
                              IF k \in DOMAIN @ THEN @[k] ELSE Derived(rows)],
                 !.active = <<SnapshotKey(rows)>>]

\* A notice is answered in the row or in the catalog (unverified_periods).
Answered(d, p) == Max({d.ver[p], Latest(d.rows, p).note})
Unverified(d) == {p \in Stored(d.rows) : d.corr[p] > Answered(d, p)}

\* The answer a caller gets at the cutoff t.
Give(bundle, t, live) == answer' = [bundle |-> bundle, at |-> t, live |-> live]
NoAnswer == [bundle |-> None, at |-> 0, live |-> FALSE]
Silent == answer' = NoAnswer

---------------------------------------------------------------------------

LegacyRow(p, doc) ==
  [p |-> p, doc |-> doc, rev |-> 1, avail |-> 0, fetched |-> 1, src |-> "legacy", note |-> 0]

\* A fresh database, or one of before provenance was recorded: its rows are
\* dated by the announcement and have no snapshot of the present version.
Init ==
  /\ now = TicksPerDay
  /\ \E doc \in [Periods -> Docs], kept \in SUBSET Periods :
       /\ hist = [p \in Periods |-> IF p \in kept THEN <<[doc |-> doc[p], at |-> 0]>> ELSE <<>>]
       /\ db = [rows |-> {LegacyRow(p, doc[p]) : p \in kept},
                snaps |-> <<>>, active |-> <<>>,
                corr |-> [p \in Periods |-> 0], ver |-> [p \in Periods |-> 0]]
       /\ originals = {<<p, doc[p]>> : p \in kept}
  /\ lost = {} /\ version = 1
  /\ pc = "idle" /\ work = db /\ seen = [p \in Periods |-> None]
  /\ began = 0 /\ signal = 0 /\ reuse = <<>> /\ batch = {}
  /\ cur = None /\ asked = 0 /\ held = None
  /\ answer = NoAnswer

---------------------------------------------------------------------------
(* The site, the clock and the operator                                    *)

Publish(p, doc) ==
  /\ hist[p] = <<>>
  /\ hist' = [hist EXCEPT ![p] = <<[doc |-> doc, at |-> now]>>]
  /\ Silent /\ UNCHANGED <<now, disk, version, load>>

\* A correction replaces the document, and may bring back an earlier one.
Correct(p, doc) ==
  /\ hist[p] # <<>> /\ doc # Shown(p)
  /\ SumFunction([q \in Periods |-> Max({Len(hist[q]) - 1, 0})]) < MaxCorrections
  /\ hist' = [hist EXCEPT ![p] = Append(@, [doc |-> doc, at |-> now])]
  /\ Silent /\ UNCHANGED <<now, disk, version, load>>

Tick ==
  /\ now < MaxTime
  /\ now' = now + 1
  /\ Silent /\ UNCHANGED <<hist, disk, version, load>>

LoseOriginal(f) ==
  /\ f \in originals /\ Cardinality(lost) < MaxLosses
  /\ originals' = originals \ {f} /\ lost' = lost \cup {f}
  /\ Silent /\ UNCHANGED <<site, db, version, load>>

\* The volume is mounted again, or the file restored.
FindOriginal(f) ==
  /\ f \in lost \ originals
  /\ originals' = originals \cup {f}
  /\ Silent /\ UNCHANGED <<site, db, lost, version, load>>

Deploy ==
  /\ pc = "idle" /\ version < MaxVersion
  /\ version' = version + 1
  /\ Silent /\ UNCHANGED <<site, disk, load>>

---------------------------------------------------------------------------
(* Reads                                                                   *)

\* load_historical: derived anew from what was visible at t, stores nothing.
Historical(t) ==
  /\ pc = "idle" /\ t <= now
  /\ Give(Derived(Visible(db.rows, t)), t, FALSE)
  /\ UNCHANGED <<site, disk, version, load>>

\* load_cached_bundles: the active snapshot, if it is of the installed version
\* and of the very selection visible now.
Preload ==
  /\ pc = "idle" /\ db.active # <<>> /\ Unverified(db) = {}
  /\ db.active[1] \in DOMAIN db.snaps
  /\ db.active[1] = SnapshotKey(Visible(db.rows, now))
  /\ Give(db.snaps[db.active[1]], now, TRUE)
  /\ UNCHANGED <<site, disk, version, load>>

---------------------------------------------------------------------------
(* FundamentalService.load                                                 *)

\* _merge: the latest notice of each period is kept.
Merged(corr, news) ==
  [p \in Periods |-> Max({corr[p]} \cup ({news[p]} \ {None}))]

EndLoad ==
  /\ pc' = "idle" /\ work' = db' /\ seen' = [p \in Periods |-> None]
  /\ began' = 0 /\ signal' = 0 /\ reuse' = <<>> /\ batch' = {}
  /\ cur' = None /\ asked' = 0 /\ held' = None

\* The local bundle comes first, in the same transaction.  Then the notices of
\* S, read by this run, are merged into the catalog; B is what the load gets to
\* of the filings that are missing or have an unanswered notice.
Begin(S, B) ==
  /\ pc = "idle"
  /\ LET rows == Visible(db.rows, now)
         local == IF rows = {} THEN db ELSE WithBundle(db, rows)
         news == [p \in Periods |-> IF p \in S THEN Notice(p) ELSE None]
         known == [local EXCEPT !.corr = Merged(@, news)]
     IN  /\ S \subseteq Published
         /\ B \subseteq (Published \ Stored(db.rows)) \cup Unverified(known)
         /\ work' = known /\ seen' = news /\ batch' = B
         /\ reuse' = IF rows = {} THEN <<>>
                     ELSE <<[key |-> SnapshotKey(rows), bundle |-> BundleOf(db, rows)]>>
  /\ pc' = "fetch" /\ began' = now /\ signal' = now
  /\ Silent /\ UNCHANGED <<site, disk, version, request>>

\* Nothing is due: the local bundle is the answer.
LoadLocally ==
  /\ pc = "idle" /\ Unverified(db) = {}
  /\ LET rows == Visible(db.rows, now)
     IN  /\ rows # {}
         /\ db' = WithBundle(db, rows)
         /\ Give(BundleOf(db, rows), now, TRUE)
  /\ EndLoad
  /\ UNCHANGED <<site, originals, lost, version>>

\* Mutant: the notice is acknowledged when the download is started.
RequestAcknowledging(p) ==
  /\ pc = "fetch" /\ p \in batch
  /\ pc' = "asked" /\ cur' = p /\ asked' = now
  /\ work' = [work EXCEPT !.ver[p] = work.corr[p]]
  /\ Silent
  /\ UNCHANGED <<site, disk, version, seen, began, signal, reuse, batch, held>>

\* MopsClient.download reads the clock, then sends the request.
Request(p) ==
  /\ pc = "fetch" /\ p \in batch
  /\ pc' = "asked" /\ cur' = p /\ asked' = now
  /\ Silent
  /\ UNCHANGED <<site, disk, version, work, seen, began, signal, reuse, batch, held>>

Response ==
  /\ pc = "asked"
  /\ pc' = "held" /\ held' = Shown(cur)
  /\ Silent
  /\ UNCHANGED <<site, disk, version, work, seen, began, signal, reuse, batch, cur, asked>>

\* The document is the one stored last.
Same == \E r \in Of(work.rows, cur) : IsLatest(work.rows, r) /\ r.doc = held

\* acknowledge, and the live evaluation time follows what was ingested.
Acknowledge(d, row) ==
  /\ work' = [d EXCEPT !.ver[cur] = d.corr[cur]]
  /\ signal' = Max({signal, row.avail})
  /\ batch' = batch \ {cur}
  /\ pc' = "fetch" /\ cur' = None /\ asked' = 0 /\ held' = None

\* update_availability_provenance, for a legacy row only.
Confirmed(row) == [row EXCEPT !.avail = row.fetched, !.src = "observed"]

Verify ==
  /\ pc = "held"
  /\ \E old \in Of(work.rows, cur) :
       /\ IsLatest(work.rows, old) /\ old.doc = held
       /\ IF old.src = "observed" THEN Acknowledge(work, old)
          ELSE Acknowledge([work EXCEPT !.rows = (@ \ {old}) \cup {Confirmed(old)},
                                        !.active = <<>>], Confirmed(old))
  /\ Silent /\ UNCHANGED <<site, disk, version, seen, began, reuse>>

\* latest_correction: from the run's cache, or by a request of its own.
LookUp ==
  /\ pc = "held" /\ ~Same /\ seen[cur] = None
  /\ seen' = [seen EXCEPT ![cur] = Notice(cur)]
  /\ Silent
  /\ UNCHANGED <<site, disk, version, pc, work, began, signal, reuse, batch, request>>

\* A document first seen after its correction is not the first revision.
FirstRevision == IF cur \notin Stored(work.rows) /\ seen[cur] > 0 THEN 2 ELSE 1

\* Mutant: the revisions are counted.
NextRevisionCounted == Max({FirstRevision, Cardinality(Of(work.rows, cur)) + 1})

NextRevision == Max({FirstRevision} \cup {r.rev + 1 : r \in Of(work.rows, cur)})

\* Mutant: a filing is dated by its announcement.
NewRowAnnounced ==
  [p |-> cur, doc |-> held, rev |-> NextRevision, avail |-> hist[cur][1].at, fetched |-> asked,
   src |-> "observed", note |-> seen[cur]]

NewRow ==
  [p |-> cur, doc |-> held, rev |-> NextRevision, avail |-> asked, fetched |-> asked,
   src |-> "observed", note |-> seen[cur]]

\* Mutant: the raw file is not kept.
RawDropped == originals

RawWritten == originals \cup {<<cur, held>>}

\* save_revision writes the raw file, then looks whether it is stored already.
SaveRevision ==
  /\ pc = "held" /\ ~Same /\ seen[cur] # None
  /\ originals' = RawWritten
  /\ \/ \E row \in Of(work.rows, cur) : row.doc = held /\ Acknowledge(work, row)
     \/ /\ \A row \in Of(work.rows, cur) : row.doc # held
        /\ Acknowledge([work EXCEPT !.rows = @ \cup {NewRow}, !.active = <<>>], NewRow)
  /\ Silent /\ UNCHANGED <<site, db, lost, version, seen, began, reuse>>

\* Mutant: the bundle of the start is reused whatever was stored since.
ReusableAlways(rows) == reuse # <<>>

\* The bundle of the start serves again if the selection is still the same.
Reusable(rows) == reuse # <<>> /\ reuse[1].key = SnapshotKey(rows)

CommitWith(t) ==
  LET rows == Visible(work.rows, t)
  IN  /\ db' = IF Reusable(rows) THEN work ELSE WithBundle(work, rows)
      /\ Give(IF Reusable(rows) THEN reuse[1].bundle ELSE BundleOf(work, rows), t, TRUE)

Finish ==
  /\ pc = "fetch" /\ batch = {}
  /\ IF Visible(work.rows, signal) = {} THEN db' = work /\ Silent ELSE CommitWith(signal)
  /\ EndLoad
  /\ UNCHANGED <<site, originals, lost, version>>

\* A request is refused or fails, or the document cannot be parsed: the
\* downloads so far are kept, and the caller gets what is stored.
RemoteFails ==
  /\ pc \in {"fetch", "asked"} \/ (pc = "held" /\ ~Same)
  /\ IF Visible(work.rows, now) = {} THEN db' = work /\ Silent ELSE CommitWith(now)
  /\ EndLoad
  /\ UNCHANGED <<site, originals, lost, version>>

\* A kill, or an error of the storage: the transaction is rolled back.  A raw
\* file written just before stays.
Abort ==
  /\ pc # "idle"
  /\ \/ UNCHANGED originals
     \/ pc = "held" /\ ~Same /\ seen[cur] # None /\ originals' = RawWritten
  /\ db' = db /\ EndLoad
  /\ Silent /\ UNCHANGED <<site, lost, version>>

World ==
  \/ \E p \in Periods, doc \in Docs : Publish(p, doc) \/ Correct(p, doc)
  \/ Tick
  \/ \E f \in Periods \X Docs : LoseOriginal(f) \/ FindOriginal(f)
  \/ Deploy

Next ==
  \/ World
  \/ \E t \in Times : Historical(t)
  \/ Preload \/ LoadLocally
  \/ \E S, B \in SUBSET Periods : Begin(S, B)
  \/ \E p \in Periods : Request(p)
  \/ Response \/ Verify \/ LookUp \/ SaveRevision
  \/ Finish \/ RemoteFails \/ Abort

Spec == Init /\ [][Next]_vars

---------------------------------------------------------------------------
(* Properties                                                              *)

Database(d) ==
  /\ d.rows \subseteq Filing
  /\ \A k \in DOMAIN d.snaps : d.snaps[k].docs \in [Periods -> Docs \cup {None}]
  /\ Len(d.active) <= 1
  /\ d.corr \in [Periods -> Nat] /\ d.ver \in [Periods -> Nat]

\* Type invariant; and no two revisions of a period share a number or content.
TypeOK ==
  /\ now \in Times
  /\ Database(db) /\ Database(work)
  /\ \A r, q \in work.rows : r.p = q.p /\ (r.rev = q.rev \/ r.doc = q.doc) => r = q
  /\ originals \subseteq Periods \X Docs /\ lost \subseteq Periods \X Docs
  /\ pc \in {"idle", "fetch", "asked", "held"}
  /\ seen \in [Periods -> Nat \cup {None}]
  /\ began \in Times /\ signal \in Times /\ asked \in Times
  /\ batch \subseteq Periods /\ cur \in Periods \cup {None} /\ held \in Docs \cup {None}

\* A look at the past does not change: once a cutoff has gone by, no load that
\* starts later adds a filing to it or changes one there, but that a filing of
\* before provenance was recorded moves to the time it was really observed.
Past == IF pc = "idle" THEN {t \in Times : t < now} ELSE {t \in Times : t < began}
NoHindsight ==
  [][\A t \in Past :
       /\ \A r \in Visible(db'.rows, t) : \E q \in Visible(db.rows, t) :
             q.p = r.p /\ q.rev = r.rev /\ q.doc = r.doc
       /\ \A r \in Visible(db.rows, t) \ db'.rows : r.src = "legacy"]_vars

\* Whatever was cached, reused or derived before, an answer is what the
\* installed code derives from the filings of its cutoff; one given by a load
\* or a preload has the highest revision of every filing stored; and amounts
\* are only missing of a document whose original could not be read once.
AnswerIsSound ==
  LET rows == IF answer.live THEN db.rows ELSE Visible(db.rows, answer.at)
      bundle == answer.bundle
  IN  bundle # None =>
        /\ bundle.ver = version
        /\ \A p \in Periods :
              bundle.docs[p] = IF p \in Stored(rows) THEN Latest(rows, p).doc ELSE None
        /\ \A p \in Stored(rows) \ bundle.known : <<p, bundle.docs[p]>> \in lost

\* The corrections the site announced on the day of the latest one.
SameDay(p) == {i \in 2..Len(hist[p]) : Day(hist[p][i].at) = Notice(p)}

\* A notice that counts as answered without the document it announces, has one
\* of three reasons: the correction brought back an earlier document, which
\* is not stored again; it was the second of its day; or it came between the
\* request of the document and the look at the notices.
Missed(p) == /\ p \in Stored(db.rows)
             /\ Answered(db, p) >= Notice(p)
             /\ Latest(db.rows, p).doc # Shown(p)
OnlyKnownMisses ==
  \A p \in Published : Missed(p) =>
    \/ \E r \in Of(db.rows, p) : r.doc = Shown(p)
    \/ Cardinality(SameDay(p)) > 1
    \/ /\ Latest(db.rows, p).note = Notice(p)
       /\ Latest(db.rows, p).fetched <= Last(hist[p]).at
=============================================================================
