------------------------ MODULE FilingStoreProofs ------------------------
(***************************************************************************)
(* The past of the filing store does not change, what it answers is what   *)
(* the installed code derives from the filings of the cutoff, and a notice *)
(* is only missed for the three known reasons: for every set of periods    *)
(* and documents, every length of a day and every bound of FilingStore.    *)
(***************************************************************************)
EXTENDS FilingStore, FiniteSetTheorems, WellFoundedInduction, TLAPS

---------------------------------------------------------------------------
(* The invariant                                                           *)

IsRow(r) ==
  /\ r \in [p : {r.p}, doc : {r.doc}, rev : {r.rev}, avail : Int, fetched : Int,
            src : Sources, note : {r.note}]
  /\ r.avail <= r.fetched
IsDatabase(d) ==
  /\ d \in [rows : {d.rows}, snaps : {d.snaps}, active : {d.active}, corr : {d.corr},
            ver : {d.ver}]
  /\ \A r \in d.rows : IsRow(r)

\* Every row of the transaction was committed before, no later than it is dated
\* now, or is dated by this load.
FromBefore(r) ==
  \E q \in db.rows : q.p = r.p /\ q.rev = r.rev /\ q.doc = r.doc /\ q.avail <= r.avail
KeepsThePast ==
  /\ \A r \in work.rows : began <= r.avail \/ FromBefore(r)
  /\ \A r \in db.rows \ work.rows : r.src = "legacy"

Clocks ==
  /\ now \in Int /\ began \in Int /\ asked \in Int
  /\ pc # "idle" => began <= now
  /\ pc \in {"asked", "held"} => began <= asked

PastInv ==
  /\ IsDatabase(db) /\ IsDatabase(work)
  /\ Clocks
  /\ pc = "idle" => work = db
  /\ KeepsThePast

---------------------------------------------------------------------------
(* A bundle added to a database leaves its rows alone                      *)

LEMMA BundleKeepsRows ==
  ASSUME NEW d, IsDatabase(d), NEW rows
  PROVE  /\ IsDatabase(WithBundle(d, rows)) /\ WithBundle(d, rows).rows = d.rows
         /\ WithBundle(d, rows).corr = d.corr /\ WithBundle(d, rows).ver = d.ver
         /\ IF SnapshotKey(rows) \in DOMAIN d.snaps THEN WithBundle(d, rows) = d
            ELSE /\ WithBundle(d, rows).active = <<SnapshotKey(rows)>>
                 /\ WithBundle(d, rows).snaps =
                      [k \in DOMAIN d.snaps \cup {SnapshotKey(rows)} |->
                         IF k \in DOMAIN d.snaps THEN d.snaps[k] ELSE Derived(rows)]
<1> DEFINE snaps == [k \in DOMAIN d.snaps \cup {SnapshotKey(rows)} |->
                       IF k \in DOMAIN d.snaps THEN d.snaps[k] ELSE Derived(rows)]
           key == SnapshotKey(rows)
<1>1. CASE key \in DOMAIN d.snaps
  BY <1>1 DEF WithBundle
<1>2. CASE key \notin DOMAIN d.snaps
  <2>1. WithBundle(d, rows) = [d EXCEPT !.snaps = snaps, !.active = <<key>>]
    BY <1>2 DEF WithBundle
  <2> HIDE DEF snaps, key
  <2>2. [d EXCEPT !.snaps = snaps, !.active = <<key>>]
          \in [rows : {d.rows}, snaps : {snaps}, active : {<<key>>}, corr : {d.corr}, ver : {d.ver}]
    BY DEF IsDatabase
  <2>3. /\ IsDatabase(WithBundle(d, rows)) /\ WithBundle(d, rows).rows = d.rows
        /\ WithBundle(d, rows).corr = d.corr /\ WithBundle(d, rows).ver = d.ver
        /\ WithBundle(d, rows).active = <<key>> /\ WithBundle(d, rows).snaps = snaps
    BY <2>1, <2>2 DEF IsDatabase
  <2> QED
    BY <1>2, <2>3 DEF key, snaps
<1> QED
  BY <1>1, <1>2

LEMMA AcknowledgedRows ==
  ASSUME NEW d, IsDatabase(d), NEW row, Acknowledge(d, row)
  PROVE  /\ IsDatabase(work') /\ work'.rows = d.rows
         /\ work'.snaps = d.snaps /\ work'.active = d.active /\ work'.corr = d.corr
         /\ work'.ver = [d.ver EXCEPT ![cur] = d.corr[cur]]
<1> DEFINE ver == [d.ver EXCEPT ![cur] = d.corr[cur]]
<1>1. work' = [d EXCEPT !.ver = ver]
  BY DEF Acknowledge, IsDatabase
<1> HIDE DEF ver
<1>2. work' \in [rows : {d.rows}, snaps : {d.snaps}, active : {d.active}, corr : {d.corr}, ver : {ver}]
  BY <1>1 DEF IsDatabase
<1>3. /\ IsDatabase(work') /\ work'.rows = d.rows
      /\ work'.snaps = d.snaps /\ work'.active = d.active /\ work'.corr = d.corr
      /\ work'.ver = ver
  BY <1>2 DEF IsDatabase
<1> QED
  BY <1>3 DEF ver

---------------------------------------------------------------------------
(* The invariant is inductive                                              *)

LEMMA PastInit ==
  Init => PastInv
<1> SUFFICES ASSUME Init PROVE PastInv
  OBVIOUS
<1> USE StoreAssumption DEF StoreAssumption
<1>1. PICK doc \in [Periods -> Docs], kept \in SUBSET Periods :
        db = [rows |-> {LegacyRow(p, doc[p]) : p \in kept}, snaps |-> <<>>, active |-> <<>>,
              corr |-> [p \in Periods |-> 0], ver |-> [p \in Periods |-> 0]]
  BY DEF Init
<1>2. IsDatabase(db)
  BY <1>1 DEF IsDatabase, IsRow, LegacyRow, Sources
<1>3. work = db /\ pc = "idle" /\ Clocks
  BY DEF Init, Clocks
<1>4. KeepsThePast
  BY <1>2, <1>3 DEF KeepsThePast, FromBefore, IsDatabase, IsRow
<1> QED
  BY <1>2, <1>3, <1>4 DEF PastInv

\* The load ends, with the rows of the transaction or those of the database.
LEMMA PastEnd ==
  ASSUME PastInv, EndLoad, IsDatabase(db'), UNCHANGED now
  PROVE  PastInv'
<1>1. work' = db' /\ pc' = "idle" /\ began' = 0 /\ asked' = 0
  BY DEF EndLoad
<1>2. KeepsThePast'
  BY <1>1 DEF KeepsThePast, FromBefore, IsDatabase, IsRow
<1> QED
  BY <1>1, <1>2 DEF PastInv, Clocks, IsDatabase, IsRow

\* A load begins: its transaction has the rows of the database.
LEMMA PastBegin ==
  ASSUME PastInv, NEW S, NEW B, Begin(S, B)
  PROVE  PastInv'
<1> DEFINE rows == Visible(db.rows, now)
           local == IF rows = {} THEN db ELSE WithBundle(db, rows)
           news == [p \in Periods |-> IF p \in S THEN Notice(p) ELSE None]
           corr == Merged(local.corr, news)
<1>1. IsDatabase(local) /\ local.rows = db.rows
  BY BundleKeepsRows DEF PastInv
<1>2. work' = [local EXCEPT !.corr = corr]
  BY DEF Begin
<1>3. pc' = "fetch" /\ began' = now /\ UNCHANGED <<now, db, asked>>
  BY DEF Begin, site, disk, request
<1> HIDE DEF local, corr
<1>4. IsDatabase(work') /\ work'.rows = db.rows
  BY <1>1, <1>2 DEF IsDatabase, IsRow
<1>5. KeepsThePast'
  BY <1>3, <1>4 DEF KeepsThePast, FromBefore, IsDatabase, IsRow
<1> QED
  BY <1>3, <1>4, <1>5 DEF PastInv, Clocks, IsDatabase, IsRow

\* A filing found unchanged: a row of before provenance was recorded moves to
\* the time it was fetched, which is not before it was announced.
LEMMA PastVerify ==
  ASSUME PastInv, Verify
  PROVE  PastInv'
<1> USE DEF PastInv
<1>1. PICK old \in Of(work.rows, cur) :
        IF old.src = "observed" THEN Acknowledge(work, old)
        ELSE Acknowledge([work EXCEPT !.rows = (@ \ {old}) \cup {Confirmed(old)},
                                      !.active = <<>>], Confirmed(old))
  BY DEF Verify
<1>2. pc' = "fetch" /\ asked' = 0 /\ UNCHANGED <<now, db, began>> /\ pc = "held"
  BY <1>1 DEF Verify, Acknowledge, site, disk
<1>3. old \in work.rows /\ IsRow(old)
  BY <1>1 DEF Of, IsDatabase
<1>4. CASE old.src = "observed"
  <2>1. IsDatabase(work') /\ work'.rows = work.rows
    BY <1>1, <1>4, AcknowledgedRows
  <2> QED
    BY <1>2, <2>1 DEF Clocks, KeepsThePast, FromBefore, IsDatabase, IsRow
<1>5. CASE old.src # "observed"
  <2> DEFINE new == Confirmed(old)
             rows == (work.rows \ {old}) \cup {new}
             d == [work EXCEPT !.rows = rows, !.active = <<>>]
  <2>1. /\ IsRow(new)
        /\ new.p = old.p /\ new.rev = old.rev /\ new.doc = old.doc /\ new.avail = old.fetched
    <3>1. new \in [p : {old.p}, doc : {old.doc}, rev : {old.rev}, avail : {old.fetched},
                   fetched : {old.fetched}, src : {"observed"}, note : {old.note}]
      BY <1>3 DEF Confirmed, IsRow, Sources
    <3> HIDE DEF new
    <3> QED
      BY <1>3, <3>1 DEF IsRow, Sources
  <2> HIDE DEF new
  <2>2. IsDatabase(d) /\ d.rows = rows
    BY <2>1 DEF IsDatabase, IsRow
  <2>3. Acknowledge(d, new)
    BY <1>1, <1>5 DEF new
  <2> HIDE DEF d
  <2>4. IsDatabase(work') /\ work'.rows = rows
    BY <2>2, <2>3, AcknowledgedRows
  <2>5. began' <= new.avail \/ FromBefore(new)'
    BY <1>2, <1>3, <2>1 DEF KeepsThePast, FromBefore, Clocks, IsDatabase, IsRow
  <2>6. \A r \in work'.rows : began' <= r.avail \/ FromBefore(r)'
    BY <1>2, <2>4, <2>5 DEF KeepsThePast, FromBefore
  <2>7. \A r \in db'.rows \ work'.rows : r.src = "legacy"
    <3> TAKE r \in db'.rows \ work'.rows
    <3>1. r \notin work.rows \/ r = old
      BY <2>4
    <3> QED
      BY <1>2, <1>3, <1>5, <3>1 DEF KeepsThePast, IsRow, Sources
  <2>8. KeepsThePast'
    BY <2>6, <2>7 DEF KeepsThePast
  <2> QED
    BY <1>2, <2>4, <2>8 DEF Clocks, IsDatabase, IsRow
<1> QED
  BY <1>4, <1>5

\* A new revision is dated by the request of this load.
LEMMA PastSave ==
  ASSUME PastInv, SaveRevision
  PROVE  PastInv'
<1> USE DEF PastInv
<1>1. pc = "held" /\ UNCHANGED <<now, db, began>>
  BY DEF SaveRevision, site
<1>2. CASE \E row \in Of(work.rows, cur) : row.doc = held /\ Acknowledge(work, row)
  <2>1. IsDatabase(work') /\ work'.rows = work.rows /\ pc' = "fetch" /\ asked' = 0
    BY <1>2, AcknowledgedRows DEF Acknowledge
  <2> QED
    BY <1>1, <2>1 DEF Clocks, KeepsThePast, FromBefore, IsDatabase, IsRow
<1>3. CASE Acknowledge([work EXCEPT !.rows = @ \cup {NewRow}, !.active = <<>>], NewRow)
  <2> DEFINE new == NewRow
             rows == work.rows \cup {new}
             d == [work EXCEPT !.rows = rows, !.active = <<>>]
  <2>1. IsRow(new) /\ new.avail = asked
    BY <1>1 DEF NewRow, IsRow, Clocks, Sources
  <2> HIDE DEF new
  <2>2. IsDatabase(d) /\ d.rows = rows
    BY <2>1 DEF IsDatabase, IsRow
  <2>3. Acknowledge(d, new) /\ pc' = "fetch" /\ asked' = 0
    BY <1>3 DEF new, Acknowledge
  <2> HIDE DEF d
  <2>4. IsDatabase(work') /\ work'.rows = rows
    BY <2>2, <2>3, AcknowledgedRows
  <2>5. began <= new.avail
    BY <1>1, <2>1 DEF Clocks
  <2>6. KeepsThePast'
    BY <1>1, <2>4, <2>5 DEF KeepsThePast, FromBefore
  <2> QED
    BY <1>1, <2>3, <2>4, <2>6 DEF Clocks, IsDatabase, IsRow
<1> QED
  BY <1>2, <1>3 DEF SaveRevision

\* What is committed is the transaction, or it and a bundle.
LEMMA Committed ==
  ASSUME PastInv, NEW t, db' = work \/ CommitWith(t)
  PROVE  IsDatabase(db') /\ db'.rows = work.rows
<1> USE DEF PastInv
<1>1. CASE db' = work
  BY <1>1 DEF IsDatabase, IsRow
<1>2. CASE CommitWith(t)
  <2>1. db' = work \/ db' = WithBundle(work, Visible(work.rows, t))
    BY <1>2 DEF CommitWith
  <2>2. IsDatabase(WithBundle(work, Visible(work.rows, t)))
        /\ WithBundle(work, Visible(work.rows, t)).rows = work.rows
    BY BundleKeepsRows
  <2> QED
    BY <2>1, <2>2 DEF IsDatabase, IsRow
<1> QED
  BY <1>1, <1>2

\* How a step leaves the committed rows.
RowsStep ==
  \/ db'.rows = db.rows
  \/ pc # "idle" /\ db'.rows = work.rows

LEMMA PastNext ==
  ASSUME PastInv, [Next]_vars
  PROVE  PastInv' /\ RowsStep
<1> USE DEF PastInv
<1>1. ASSUME UNCHANGED <<db, load>>, now' \in Int, now <= now'
      PROVE  PastInv' /\ RowsStep
  BY <1>1 DEF load, request, Clocks, KeepsThePast, FromBefore, RowsStep, IsDatabase, IsRow
<1>2. CASE UNCHANGED vars
  BY <1>1, <1>2 DEF vars, disk, site, Clocks
<1>3. CASE World
  <2>1. UNCHANGED <<db, load>> /\ (now' = now \/ now' = now + 1)
    BY <1>3 DEF World, Publish, Correct, Tick, LoseOriginal, FindOriginal, Deploy, disk, site
  <2> QED
    BY <1>1, <2>1 DEF Clocks
<1>4. CASE (\E t \in Times : Historical(t)) \/ Preload
  <2>1. UNCHANGED <<db, load, now>>
    BY <1>4 DEF Historical, Preload, disk, site
  <2> QED
    BY <1>1, <2>1 DEF Clocks
<1>5. CASE LoadLocally
  <2>1. EndLoad /\ UNCHANGED now /\ db' = WithBundle(db, Visible(db.rows, now))
    BY <1>5 DEF LoadLocally, site
  <2>2. IsDatabase(db') /\ db'.rows = db.rows
    BY <2>1, BundleKeepsRows DEF IsDatabase, IsRow
  <2> QED
    BY <2>1, <2>2, PastEnd DEF RowsStep
<1>6. CASE \E S, B \in SUBSET Periods : Begin(S, B)
  <2>1. PICK S, B \in SUBSET Periods : Begin(S, B)
    BY <1>6
  <2> QED
    BY <2>1, PastBegin DEF RowsStep, Begin, disk
<1>7. CASE (\E p \in Periods : Request(p)) \/ Response \/ LookUp
  <2>1. /\ UNCHANGED <<db, work, began, now>>
        /\ pc # "idle" /\ pc' # "idle"
        /\ asked' = now \/ (asked' = asked /\ pc \in {"asked", "held"})
    BY <1>7 DEF Request, Response, LookUp, disk, site, request
  <2> QED
    BY <2>1 DEF Clocks, KeepsThePast, FromBefore, RowsStep, IsDatabase, IsRow
<1>8. CASE Verify
  BY <1>8, PastVerify DEF RowsStep, Verify, disk
<1>9. CASE SaveRevision
  BY <1>9, PastSave DEF RowsStep, SaveRevision
<1>10. CASE Finish \/ RemoteFails
  <2>1. /\ EndLoad /\ UNCHANGED now /\ pc # "idle"
        /\ \E t \in {signal, now} : db' = work \/ CommitWith(t)
    BY <1>10 DEF Finish, RemoteFails, site
  <2>2. IsDatabase(db') /\ db'.rows = work.rows
    BY <2>1, Committed
  <2> QED
    BY <2>1, <2>2, PastEnd DEF RowsStep
<1>11. CASE Abort
  <2>1. EndLoad /\ UNCHANGED <<now, db>>
    BY <1>11 DEF Abort, site
  <2> QED
    BY <2>1, PastEnd DEF RowsStep, IsDatabase, IsRow
<1> QED
  BY <1>2, <1>3, <1>4, <1>5, <1>6, <1>7, <1>8, <1>9, <1>10, <1>11 DEF Next

---------------------------------------------------------------------------
(* The theorem                                                             *)

\* A look at the past does not change: no cutoff that has gone by when a load
\* begins gains a filing from it, and none loses one but a filing of before
\* provenance was recorded (save_revision, update_availability_provenance).
THEOREM PastIsKept ==
  Spec => NoHindsight
<1> DEFINE Kept ==
      \A t \in Past :
        /\ \A r \in Visible(db'.rows, t) : \E q \in Visible(db.rows, t) :
              q.p = r.p /\ q.rev = r.rev /\ q.doc = r.doc
        /\ \A r \in Visible(db.rows, t) \ db'.rows : r.src = "legacy"
<1>1. PastInv /\ [Next]_vars => PastInv'
  BY PastNext
<1>2. PastInv /\ [Next]_vars => [Kept]_vars
  <2> SUFFICES ASSUME PastInv, [Next]_vars PROVE Kept
    OBVIOUS
  <2>1. RowsStep
    BY PastNext
  <2>2. CASE db'.rows = db.rows
    BY <2>2 DEF Visible
  <2>3. CASE pc # "idle" /\ db'.rows = work.rows
    <3> SUFFICES ASSUME NEW t \in Past
                 PROVE  /\ \A r \in Visible(work.rows, t) : \E q \in Visible(db.rows, t) :
                             q.p = r.p /\ q.rev = r.rev /\ q.doc = r.doc
                        /\ \A r \in Visible(db.rows, t) \ work.rows : r.src = "legacy"
      BY <2>3
    <3>1. t \in Int /\ t < began /\ began \in Int
      BY <2>3, StoreAssumption DEF Past, Times, PastInv, Clocks, StoreAssumption
    <3>2. ASSUME NEW r \in Visible(work.rows, t)
          PROVE  \E q \in Visible(db.rows, t) : q.p = r.p /\ q.rev = r.rev /\ q.doc = r.doc
      <4>1. r \in work.rows /\ r.avail <= t /\ r.avail \in Int
        BY DEF Visible, PastInv, IsDatabase, IsRow
      <4>2. FromBefore(r)
        BY <3>1, <4>1 DEF PastInv, KeepsThePast
      <4>3. \A q \in db.rows : q.avail \in Int
        BY DEF PastInv, IsDatabase, IsRow
      <4> QED
        BY <3>1, <4>1, <4>2, <4>3 DEF FromBefore, Visible
    <3>3. \A r \in Visible(db.rows, t) \ work.rows : r.src = "legacy"
      BY DEF Visible, PastInv, KeepsThePast
    <3> QED
      BY <3>2, <3>3
  <2> QED
    BY <2>1, <2>2, <2>3 DEF RowsStep
<1> QED
  BY PastInit, <1>1, <1>2, PTL DEF Spec, NoHindsight

---------------------------------------------------------------------------
(* Revisions: the one in force is the highest                              *)

\* The revisions of a period have different numbers and contents, and none was
\* available before a lower one.
Revisions(rows) ==
  /\ \A r \in rows : r.p \in Periods /\ r.doc \in Docs /\ r.rev \in Nat /\ r.avail \in Int
  /\ \A r, q \in rows : r.p = q.p => /\ r.rev = q.rev \/ r.doc = q.doc => r = q
                                     /\ r.rev < q.rev => r.avail <= q.avail
  /\ \E n \in Nat : \A r \in rows : r.rev <= n

LEMMA RevisionsOfPart ==
  ASSUME NEW rows, Revisions(rows), NEW part \in SUBSET rows
  PROVE  Revisions(part)
BY DEF Revisions

LEMMA LatestExists ==
  ASSUME NEW rows, Revisions(rows), NEW p \in Stored(rows)
  PROVE  Latest(rows, p) \in Of(rows, p) /\ IsLatest(rows, Latest(rows, p))
<1>1. PICK n \in Nat : \A r \in rows : r.rev <= n
  BY DEF Revisions
<1> DEFINE gaps == {n - r.rev : r \in Of(rows, p)}
<1>2. gaps \subseteq Nat /\ gaps # {}
  BY <1>1 DEF Revisions, Of, Stored
<1>3. PICK gap \in gaps : \A other \in gaps : <<other, gap>> \notin OpToRel(<, Nat)
  <2> HIDE DEF gaps
  <2> QED
    BY <1>2, NatLessThanWellFounded, WFMin
<1>4. \A other \in gaps : gap <= other
  <2> HIDE DEF gaps
  <2>1. ASSUME NEW other \in gaps PROVE ~(other < gap)
    BY <1>2, <1>3 DEF OpToRel
  <2>2. ASSUME NEW other \in gaps PROVE other \in Nat /\ gap \in Nat
    BY <1>2
  <2> QED
    BY <2>1, <2>2
<1>5. PICK r \in Of(rows, p) : gap = n - r.rev
  OBVIOUS
<1>6. \A q \in Of(rows, p) : q.rev <= r.rev
  <2> TAKE q \in Of(rows, p)
  <2>1. gap <= n - q.rev
    BY <1>4
  <2>2. q.rev \in Nat /\ r.rev \in Nat
    BY DEF Of, Revisions
  <2> QED
    BY <1>5, <2>1, <2>2
<1>7. r.p = p
  BY DEF Of
<1>8. IsLatest(rows, r)
  BY <1>6, <1>7 DEF IsLatest
<1> QED
  BY <1>8 DEF Latest

LEMMA LatestIsUnique ==
  ASSUME NEW rows, Revisions(rows), NEW r \in rows, IsLatest(rows, r)
  PROVE  r.p \in Stored(rows) /\ Latest(rows, r.p) = r
<1> DEFINE last == Latest(rows, r.p)
<1>1. r.p \in Stored(rows)
  BY DEF Stored
<1>2. last \in rows /\ last.p = r.p /\ IsLatest(rows, last)
  BY <1>1, LatestExists DEF Of
<1> HIDE DEF last
<1>3. last.rev <= r.rev /\ r.rev <= last.rev
  BY <1>2 DEF IsLatest, Of
<1>4. last.rev = r.rev
  BY <1>2, <1>3 DEF Revisions
<1>5. last = r
  BY <1>2, <1>4 DEF Revisions
<1> QED
  BY <1>1, <1>5 DEF last

\* derive_fundamentals orders by the time of availability, latest_filing by the
\* revision: they choose the same filing.
LEMMA InForceIsLatest ==
  ASSUME NEW rows, Revisions(rows), NEW p \in Stored(rows)
  PROVE  InForce(rows, p) = Latest(rows, p)
<1> DEFINE last == Latest(rows, p)
           Foremost(r) == \A q \in Of(rows, p) :
                            q.avail < r.avail \/ (q.avail = r.avail /\ q.rev <= r.rev)
<1>1. last \in rows /\ last.p = p /\ \A q \in Of(rows, p) : q.rev <= last.rev
  BY LatestExists DEF Of, IsLatest
<1> HIDE DEF last
<1>2. last \in Of(rows, p) /\ Foremost(last)
  <2>1. last \in Of(rows, p)
    BY <1>1 DEF Of
  <2>2. ASSUME NEW q \in Of(rows, p)
        PROVE  q.avail < last.avail \/ (q.avail = last.avail /\ q.rev <= last.rev)
    <3>1. q \in rows /\ q.p = p /\ q.rev <= last.rev
      BY <1>1 DEF Of
    <3>2. q.rev \in Nat /\ last.rev \in Nat /\ q.avail \in Int /\ last.avail \in Int
      BY <1>1, <3>1 DEF Revisions
    <3>3. q.avail <= last.avail
      BY <1>1, <3>1, <3>2 DEF Revisions
    <3> QED
      BY <3>1, <3>2, <3>3
  <2> QED
    BY <2>1, <2>2
<1>3. ASSUME NEW r \in Of(rows, p), Foremost(r) PROVE r = last
  <2>1. r \in rows /\ r.p = p /\ r.rev <= last.rev
    BY <1>1, <1>3 DEF Of
  <2>2. r.rev \in Nat /\ last.rev \in Nat /\ r.avail \in Int /\ last.avail \in Int
    BY <1>1, <2>1 DEF Revisions
  <2>3. last.avail < r.avail \/ (last.avail = r.avail /\ last.rev <= r.rev)
    BY <1>2, <1>3
  <2>4. r.rev < last.rev => r.avail <= last.avail
    BY <1>1, <2>1 DEF Revisions
  <2>5. r.rev = last.rev
    BY <2>1, <2>2, <2>3, <2>4
  <2> QED
    BY <1>1, <2>1, <2>5 DEF Revisions
<1>4. InForce(rows, p) = CHOOSE r \in Of(rows, p) : Foremost(r)
  BY DEF InForce
<1> HIDE DEF Foremost
<1> QED
  BY <1>2, <1>3, <1>4 DEF last

---------------------------------------------------------------------------
(* Bundles: what a snapshot says is fixed by its key                       *)

\* The bundle of a selection: the document of the highest revision of every
\* period, whose amounts are known unless its original was lost once.
Fits(key, bundle, gone) ==
  /\ bundle.ver = key.ver
  /\ bundle.docs \in [Periods -> Docs \cup {None}]
  /\ \A p \in Periods :
       IF \E s \in key.sel : s.p = p
       THEN \E s \in key.sel :
              /\ s.p = p /\ \A z \in key.sel : z.p = p => z.rev <= s.rev
              /\ bundle.docs[p] = s.doc
              /\ p \in bundle.known \/ <<p, s.doc>> \in gone
       ELSE bundle.docs[p] = None

LEMMA SelectionOf ==
  ASSUME NEW rows
  PROVE  /\ SnapshotKey(rows).ver = version /\ SnapshotKey(rows).sel = Selection(rows)
         /\ \A r \in rows : \E s \in Selection(rows) : s.p = r.p /\ s.rev = r.rev /\ s.doc = r.doc
         /\ \A s \in Selection(rows) : \E r \in rows : s.p = r.p /\ s.rev = r.rev /\ s.doc = r.doc
<1>1. SnapshotKey(rows).ver = version /\ SnapshotKey(rows).sel = Selection(rows)
  BY DEF SnapshotKey
<1>2. ASSUME NEW r \in rows
      PROVE  \E s \in Selection(rows) : s.p = r.p /\ s.rev = r.rev /\ s.doc = r.doc
  <2> DEFINE s == [p |-> r.p, rev |-> r.rev, avail |-> r.avail, src |-> r.src, doc |-> r.doc]
  <2>1. s \in Selection(rows)
    BY DEF Selection
  <2> QED
    BY <2>1
<1>3. ASSUME NEW s \in Selection(rows)
      PROVE  \E r \in rows : s.p = r.p /\ s.rev = r.rev /\ s.doc = r.doc
  BY DEF Selection
<1> QED
  BY <1>1, <1>2, <1>3

LEMMA DerivedFits ==
  ASSUME NEW rows, Revisions(rows),
         \A r \in rows : <<r.p, r.doc>> \in originals \cup lost
  PROVE  Fits(SnapshotKey(rows), Derived(rows), lost)
<1> DEFINE key == SnapshotKey(rows)
           bundle == Derived(rows)
<1>1. bundle.ver = version
  BY DEF Derived
<1>2. \A p \in Periods : bundle.docs[p] = IF p \in Stored(rows) THEN Latest(rows, p).doc ELSE None
  BY InForceIsLatest DEF Derived
<1>3. bundle.known = {p \in Stored(rows) : <<p, Latest(rows, p).doc>> \in originals}
  BY InForceIsLatest DEF Derived
<1>4. bundle.docs \in [Periods -> Docs \cup {None}]
  <2>1. DOMAIN bundle.docs = Periods /\ bundle.docs = [p \in Periods |-> bundle.docs[p]]
    BY DEF Derived
  <2>2. \A p \in Stored(rows) : Latest(rows, p).doc \in Docs
    BY LatestExists DEF Of, Revisions
  <2> HIDE DEF bundle
  <2> QED
    BY <1>2, <2>1, <2>2
<1> HIDE DEF bundle
<1>5. ASSUME NEW p \in Periods, p \in Stored(rows)
      PROVE  \E s \in key.sel :
               /\ s.p = p /\ \A z \in key.sel : z.p = p => z.rev <= s.rev
               /\ bundle.docs[p] = s.doc
               /\ p \in bundle.known \/ <<p, s.doc>> \in lost
  <2> DEFINE last == Latest(rows, p)
  <2>1. last \in rows /\ last.p = p /\ \A q \in rows : q.p = p => q.rev <= last.rev
    BY <1>5, LatestExists DEF Of, IsLatest
  <2>2. bundle.docs[p] = last.doc
    BY <1>2, <1>5
  <2>3. p \in bundle.known \/ <<p, last.doc>> \in lost
    BY <1>3, <1>5, <2>1
  <2> HIDE DEF last
  <2>4. PICK s \in Selection(rows) : s.p = p /\ s.rev = last.rev /\ s.doc = last.doc
    BY <2>1, SelectionOf
  <2>5. \A z \in Selection(rows) : z.p = p => z.rev <= s.rev
    BY <2>1, <2>4, SelectionOf
  <2> QED
    BY <2>2, <2>3, <2>4, <2>5, SelectionOf
<1>6. ASSUME NEW p \in Periods
      PROVE  (\E s \in key.sel : s.p = p) <=> p \in Stored(rows)
  BY SelectionOf DEF Stored
<1> QED
  BY <1>1, <1>2, <1>4, <1>5, <1>6, SelectionOf DEF Fits, bundle

LEMMA FitsTells ==
  ASSUME NEW rows, Revisions(rows), NEW bundle, NEW gone, Fits(SnapshotKey(rows), bundle, gone)
  PROVE  /\ bundle.ver = version
         /\ \A p \in Periods :
              bundle.docs[p] = IF p \in Stored(rows) THEN Latest(rows, p).doc ELSE None
         /\ \A p \in Stored(rows) \ bundle.known : <<p, bundle.docs[p]>> \in gone
<1> DEFINE key == SnapshotKey(rows)
<1>1. key.ver = version /\ key.sel = Selection(rows)
  BY SelectionOf
<1> HIDE DEF key
<1>2. \A p \in Periods : (\E s \in key.sel : s.p = p) <=> p \in Stored(rows)
  BY <1>1, SelectionOf DEF Stored
<1>3. ASSUME NEW p \in Periods, p \in Stored(rows)
      PROVE  /\ bundle.docs[p] = Latest(rows, p).doc
             /\ p \in bundle.known \/ <<p, bundle.docs[p]>> \in gone
  <2>1. PICK s \in Selection(rows) :
          /\ s.p = p /\ \A z \in Selection(rows) : z.p = p => z.rev <= s.rev
          /\ bundle.docs[p] = s.doc
          /\ p \in bundle.known \/ <<p, s.doc>> \in gone
    BY <1>1, <1>2, <1>3 DEF Fits, key
  <2>2. PICK r \in rows : s.p = r.p /\ s.rev = r.rev /\ s.doc = r.doc
    BY SelectionOf
  <2>3. \A q \in rows : q.p = p => q.rev <= r.rev
    BY <2>1, <2>2, SelectionOf
  <2>4. IsLatest(rows, r)
    BY <2>1, <2>2, <2>3 DEF IsLatest, Of
  <2>5. r = Latest(rows, p)
    BY <2>1, <2>2, <2>4, LatestIsUnique
  <2> QED
    BY <2>1, <2>2, <2>5
<1>4. Stored(rows) \subseteq Periods
  BY DEF Stored, Revisions
<1> QED
  BY <1>1, <1>2, <1>3, <1>4 DEF Fits, key

---------------------------------------------------------------------------
(* The invariant                                                           *)

\* What a database holds: revisions in order, of the published periods, none
\* fetched after t, each with its original or with one that was lost; and
\* bundles that fit their keys.
Holds(d, t, kept, gone, shown) ==
  /\ d.rows \subseteq Filing /\ Revisions(d.rows)
  /\ \A r \in d.rows : r.fetched <= t /\ <<r.p, r.doc>> \in kept \cup gone /\ r.p \in shown
  /\ \A k \in DOMAIN d.snaps : Fits(k, d.snaps[k], gone)
  /\ Len(d.active) <= 1
  /\ d.corr \in [Periods -> Nat] /\ d.ver \in [Periods -> Nat]

Reused(list, gone) ==
  list = <<>> \/ \E k, b : list = <<[key |-> k, bundle |-> b]>> /\ Fits(k, b, gone)

Site == now \in Times /\ hist \in [Periods -> Seq([doc : Docs, at : Times])]
Disk == originals \subseteq Periods \X Docs /\ lost \subseteq Periods \X Docs

\* Nothing of the transaction was fetched after this.
Horizon == IF pc \in {"asked", "held"} THEN asked ELSE now

Loading ==
  /\ pc \in {"idle", "fetch", "asked", "held"}
  /\ seen \in [Periods -> Nat \cup {None}]
  /\ began \in Times /\ signal \in Times /\ asked \in Times
  /\ batch \subseteq Published
  /\ cur \in Periods \cup {None} /\ held \in Docs \cup {None}
  /\ pc \in {"asked", "held"} => cur \in Published /\ asked <= now
  /\ pc = "held" => held \in Docs
  /\ pc # "idle" => \A r \in work.rows : r.avail <= signal
  /\ Reused(reuse, lost)

AnswerInv ==
  /\ PastInv /\ Site /\ Disk /\ Loading
  /\ Holds(db, now, originals, lost, Published)
  /\ Holds(work, Horizon, originals, lost, Published)

---------------------------------------------------------------------------
(* Helpers                                                                 *)

LEMMA TimesAreNumbers ==
  /\ Times \subseteq Nat /\ 0 \in Times /\ 1 \in Times /\ TicksPerDay \in Times
  /\ TicksPerDay \in Nat \ {0} /\ None \notin Docs \cup Nat
<1>1. MaxTime \in Nat
  BY StoreAssumption DEF StoreAssumption
<1> QED
  BY <1>1, StoreAssumption DEF Times, StoreAssumption

LEMMA LargerOfTwo ==
  ASSUME NEW a \in Int, NEW b \in Int
  PROVE  Max({a, b}) \in {a, b} /\ a <= Max({a, b}) /\ b <= Max({a, b})
<1>1. \E x \in {a, b} : \A y \in {a, b} : x >= y
  OBVIOUS
<1> QED
  BY <1>1 DEF Max

LEMMA MergedType ==
  ASSUME NEW corr \in [Periods -> Nat], NEW news \in [Periods -> Nat \cup {None}]
  PROVE  /\ Merged(corr, news) \in [Periods -> Nat]
         /\ \A p \in Periods : /\ Merged(corr, news)[p] \in {corr[p], news[p]} \ {None}
                               /\ corr[p] <= Merged(corr, news)[p]
<1> DEFINE Both(p) == {corr[p]} \cup ({news[p]} \ {None})
<1>1. ASSUME NEW p \in Periods
      PROVE  /\ Max(Both(p)) \in Nat /\ corr[p] <= Max(Both(p))
             /\ Max(Both(p)) \in {corr[p], news[p]} \ {None}
  <2>1. corr[p] \in Nat /\ news[p] \in Nat \cup {None} /\ None \notin Nat
    BY TimesAreNumbers
  <2>2. CASE news[p] = None
    <3>1. Both(p) = {corr[p], corr[p]}
      BY <2>1, <2>2
    <3>2. Max({corr[p], corr[p]}) \in {corr[p], corr[p]}
      BY <2>1, LargerOfTwo
    <3>3. Max(Both(p)) = corr[p]
      BY <3>1, <3>2
    <3> HIDE DEF Both
    <3> QED
      BY <2>1, <3>3
  <2>3. CASE news[p] # None
    <3>1. Both(p) = {corr[p], news[p]}
      BY <2>3
    <3>2. corr[p] \in Int /\ news[p] \in Int
      BY <2>1, <2>3
    <3>3. Max({corr[p], news[p]}) \in {corr[p], news[p]} /\ corr[p] <= Max({corr[p], news[p]})
      BY <3>2, LargerOfTwo
    <3> QED
      BY <2>1, <2>3, <3>1, <3>3
  <2> QED
    BY <2>2, <2>3
<1>2. Merged(corr, news) = [p \in Periods |-> Max(Both(p))]
  BY DEF Merged
<1> HIDE DEF Both
<1> QED
  BY <1>1, <1>2

LEMMA LastOf ==
  ASSUME NEW S, NEW s \in Seq(S), s # <<>>
  PROVE  Last(s) \in S
<1>1. Len(s) \in Nat /\ Len(s) # 0
  OBVIOUS
<1>2. Len(s) \in 1..Len(s)
  BY <1>1
<1>3. s[Len(s)] \in S
  BY <1>2
<1> QED
  BY <1>3 DEF Last

LEMMA NoticeType ==
  ASSUME Site, NEW p \in Periods
  PROVE  Notice(p) \in Nat
<1>1. CASE Len(hist[p]) > 1
  <2>1. hist[p] \in Seq([doc : Docs, at : Times]) /\ hist[p] # <<>>
    <3>1. hist[p] # <<>>
      BY <1>1
    <3> QED
      BY <3>1 DEF Site
  <2>2. Last(hist[p]) \in [doc : Docs, at : Times]
    BY <2>1, LastOf
  <2>3. Last(hist[p]).at \in Nat
    BY <2>2, StoreAssumption DEF Times, StoreAssumption
  <2> DEFINE t == Last(hist[p]).at
  <2> HIDE DEF t
  <2>4. t \div TicksPerDay \in Nat
    BY <2>3, StoreAssumption DEF StoreAssumption, t
  <2> QED
    BY <1>1, <2>4 DEF Notice, Day, t
<1>2. CASE ~(Len(hist[p]) > 1)
  BY <1>2 DEF Notice
<1> QED
  BY <1>1, <1>2

LEMMA ShownType ==
  ASSUME Site, NEW p \in Published
  PROVE  Shown(p) \in Docs
<1>1. hist[p] \in Seq([doc : Docs, at : Times]) /\ hist[p] # <<>>
  BY DEF Site, Published
<1>2. Last(hist[p]) \in [doc : Docs, at : Times]
  BY <1>1, LastOf
<1> QED
  BY <1>2 DEF Shown

\* The next number is above those stored: one above the highest, or the 2 of a
\* document first seen after its correction.
LEMMA NextRevisionIsAbove ==
  ASSUME Revisions(work.rows), cur \in Periods
  PROVE  NextRevision \in Nat /\ \A r \in Of(work.rows, cur) : r.rev < NextRevision
<1> DEFINE S == {FirstRevision} \cup {r.rev + 1 : r \in Of(work.rows, cur)}
<1>1. FirstRevision \in Nat
  BY DEF FirstRevision
<1>2. S \subseteq Nat
  BY <1>1 DEF Of, Revisions
<1>3. \E x \in S : \A y \in S : x >= y
  <2>1. CASE cur \in Stored(work.rows)
    <3> DEFINE last == Latest(work.rows, cur)
    <3>1. last \in Of(work.rows, cur) /\ \A q \in Of(work.rows, cur) : q.rev <= last.rev
      BY <2>1, LatestExists DEF IsLatest, Of
    <3> HIDE DEF last
    <3>2. last.rev \in Nat /\ \A q \in Of(work.rows, cur) : q.rev \in Nat
      BY <3>1 DEF Of, Revisions
    <3>3. last.rev + 1 \in S /\ \A q \in Of(work.rows, cur) : last.rev + 1 >= q.rev + 1
      BY <3>1, <3>2
    <3>4. CASE FirstRevision <= last.rev + 1
      <4>1. \A y \in S : last.rev + 1 >= y
        BY <1>1, <3>2, <3>3, <3>4
      <4> QED
        BY <3>3, <4>1
    <3>5. CASE last.rev + 1 < FirstRevision
      <4>1. \A y \in S : FirstRevision >= y
        BY <1>1, <3>2, <3>3, <3>5
      <4> QED
        BY <4>1
    <3> QED
      BY <1>1, <3>2, <3>4, <3>5
  <2>2. CASE cur \notin Stored(work.rows)
    <3>1. Of(work.rows, cur) = {}
      BY <2>2 DEF Of, Stored
    <3> QED
      BY <1>1, <3>1
  <2> QED
    BY <2>1, <2>2
<1>4. Max(S) \in S /\ \A y \in S : Max(S) >= y
  <2> HIDE DEF S
  <2> QED
    BY <1>3 DEF Max
<1> DEFINE n == Max(S)
<1>5. NextRevision = n
  BY DEF NextRevision
<1>6. n \in Nat /\ \A y \in S : n >= y
  <2> HIDE DEF S
  <2> QED
    BY <1>2, <1>4
<1> HIDE DEF n
<1>7. ASSUME NEW r \in Of(work.rows, cur) PROVE r.rev < n
  <2>1. r.rev + 1 \in S /\ r.rev \in Nat
    BY DEF Of, Revisions
  <2>2. n >= r.rev + 1
    BY <1>6, <2>1
  <2> QED
    BY <1>6, <2>1, <2>2
<1> QED
  BY <1>5, <1>6, <1>7

LEMMA FitsGrows ==
  ASSUME NEW k, NEW b, NEW gone, NEW more, gone \subseteq more, Fits(k, b, gone)
  PROVE  Fits(k, b, more)
BY DEF Fits

LEMMA ReusedGrows ==
  ASSUME NEW list, NEW gone, NEW more, gone \subseteq more, Reused(list, gone)
  PROVE  Reused(list, more)
BY FitsGrows DEF Reused

LEMMA HoldsGrows ==
  ASSUME NEW d, NEW t, NEW kept, NEW gone, NEW shown, Holds(d, t, kept, gone, shown),
         NEW t2, t \in Times, t2 \in Times, t <= t2,
         NEW kept2, NEW gone2, kept \cup gone \subseteq kept2 \cup gone2, gone \subseteq gone2,
         NEW shown2, shown \subseteq shown2
  PROVE  Holds(d, t2, kept2, gone2, shown2)
<1>1. ASSUME NEW r \in d.rows PROVE r.fetched <= t2
  <2>1. r.fetched \in Times /\ r.fetched <= t
    BY DEF Holds, Filing
  <2>2. r.fetched \in Nat /\ t \in Nat /\ t2 \in Nat
    BY <2>1, TimesAreNumbers
  <2> QED
    BY <2>1, <2>2
<1>2. \A k \in DOMAIN d.snaps : Fits(k, d.snaps[k], gone2)
  BY FitsGrows DEF Holds
<1> QED
  BY <1>1, <1>2 DEF Holds

\* What is visible at a cutoff, and all that is there once it has come.
LEMMA VisiblePart ==
  ASSUME NEW d, NEW t, NEW kept, NEW gone, NEW shown, Holds(d, t, kept, gone, shown), NEW cut
  PROVE  /\ Visible(d.rows, cut) \in SUBSET d.rows /\ Revisions(Visible(d.rows, cut))
         /\ (\A r \in d.rows : r.avail <= cut) => Visible(d.rows, cut) = d.rows
<1>1. Visible(d.rows, cut) \in SUBSET d.rows
  BY DEF Visible
<1>2. Revisions(Visible(d.rows, cut))
  BY <1>1, RevisionsOfPart DEF Holds
<1> QED
  BY <1>1, <1>2 DEF Visible

\* The bundle of a selection of d fits, and can be stored with d.
LEMMA BundleStored ==
  ASSUME NEW d, IsDatabase(d), NEW t, NEW shown, Holds(d, t, originals, lost, shown), NEW cut
  PROVE  /\ Fits(SnapshotKey(Visible(d.rows, cut)), BundleOf(d, Visible(d.rows, cut)), lost)
         /\ Fits(SnapshotKey(Visible(d.rows, cut)), Derived(Visible(d.rows, cut)), lost)
         /\ Holds(WithBundle(d, Visible(d.rows, cut)), t, originals, lost, shown)
<1> DEFINE rows == Visible(d.rows, cut)
           key == SnapshotKey(rows)
           e == WithBundle(d, rows)
<1>1. rows \in SUBSET d.rows /\ Revisions(rows)
  BY VisiblePart
<1>2. Fits(key, Derived(rows), lost)
  BY <1>1, DerivedFits DEF Holds
<1>3. Fits(key, BundleOf(d, rows), lost)
  BY <1>2 DEF BundleOf, Holds
<1>4. /\ e.rows = d.rows /\ e.corr = d.corr /\ e.ver = d.ver
      /\ IF key \in DOMAIN d.snaps THEN e = d
         ELSE /\ e.active = <<key>>
              /\ e.snaps = [k \in DOMAIN d.snaps \cup {key} |->
                              IF k \in DOMAIN d.snaps THEN d.snaps[k] ELSE Derived(rows)]
  BY BundleKeepsRows
<1> HIDE DEF e, rows
<1>5. ASSUME NEW k \in DOMAIN e.snaps PROVE Fits(k, e.snaps[k], lost)
  <2>1. CASE key \in DOMAIN d.snaps
    BY <1>4, <2>1 DEF Holds
  <2>2. CASE key \notin DOMAIN d.snaps
    <3>1. e.snaps[k] = IF k \in DOMAIN d.snaps THEN d.snaps[k] ELSE Derived(rows)
      BY <1>4, <2>2
    <3>2. k \in DOMAIN d.snaps \/ k = key
      BY <1>4, <2>2
    <3> QED
      BY <1>2, <3>1, <3>2 DEF Holds
  <2> QED
    BY <2>1, <2>2
<1>6. Len(e.active) <= 1
  <2>1. Len(<<key>>) = 1
    OBVIOUS
  <2>2. e.active = d.active \/ e.active = <<key>>
    BY <1>4
  <2>3. Len(d.active) <= 1
    BY DEF Holds
  <2>4. CASE e.active = <<key>>
    BY <2>1, <2>4
  <2> QED
    BY <2>2, <2>3, <2>4
<1>7. Holds(e, t, originals, lost, shown)
  BY <1>4, <1>5, <1>6 DEF Holds
<1> QED
  BY <1>2, <1>3, <1>7 DEF e, rows

---------------------------------------------------------------------------
(* The invariant is inductive                                              *)

LEMMA AnswerInit ==
  Init => AnswerInv
<1> SUFFICES ASSUME Init PROVE AnswerInv
  OBVIOUS
<1> USE StoreAssumption DEF StoreAssumption
<1>1. PICK doc \in [Periods -> Docs], kept \in SUBSET Periods :
        /\ hist = [p \in Periods |-> IF p \in kept THEN <<[doc |-> doc[p], at |-> 0]>> ELSE <<>>]
        /\ db = [rows |-> {LegacyRow(p, doc[p]) : p \in kept}, snaps |-> <<>>, active |-> <<>>,
                 corr |-> [p \in Periods |-> 0], ver |-> [p \in Periods |-> 0]]
        /\ originals = {<<p, doc[p]>> : p \in kept}
  BY DEF Init
<1>2. Site
  <2>1. now \in Times
    BY DEF Init, Times
  <2>2. ASSUME NEW p \in Periods
        PROVE  (IF p \in kept THEN <<[doc |-> doc[p], at |-> 0]>> ELSE <<>>)
                  \in Seq([doc : Docs, at : Times])
    <3>1. [doc |-> doc[p], at |-> 0] \in [doc : Docs, at : Times]
      BY DEF Times
    <3> DEFINE shown == [doc |-> doc[p], at |-> 0]
    <3> HIDE DEF shown
    <3>2. <<shown>> \in Seq([doc : Docs, at : Times]) /\ <<>> \in Seq([doc : Docs, at : Times])
      BY <3>1 DEF shown
    <3> QED
      BY <3>2 DEF shown
  <2> QED
    BY <1>1, <2>1, <2>2 DEF Site
<1>3. Published = kept
  <2>1. \A p \in kept : <<[doc |-> doc[p], at |-> 0]>> # <<>>
    OBVIOUS
  <2> QED
    BY <1>1, <2>1 DEF Published
<1>4. Disk
  BY <1>1 DEF Disk, Init
<1>5. \A r \in db.rows :
        /\ r.p \in kept /\ r.doc = doc[r.p] /\ r = LegacyRow(r.p, doc[r.p])
        /\ r.rev = 1 /\ r.avail = 0 /\ r.fetched = 1
  BY <1>1 DEF LegacyRow
<1>6. db.rows \subseteq Filing
  <2>1. 0 \in Times /\ 1 \in Times
    BY DEF Times
  <2> QED
    BY <1>5, <2>1 DEF LegacyRow, Filing, Sources
<1>7. Revisions(db.rows)
  BY <1>5 DEF Revisions
<1>8. Holds(db, now, originals, lost, Published)
  <2>1. \A r \in db.rows : r.fetched <= now /\ <<r.p, r.doc>> \in originals /\ r.p \in Published
    <3> TAKE r \in db.rows
    <3>1. r.p \in kept /\ r.doc = doc[r.p] /\ r.fetched = 1
      BY <1>5
    <3>2. <<r.p, doc[r.p]>> \in originals
      BY <1>1, <3>1
    <3>3. now \in Nat \ {0}
      BY TimesAreNumbers DEF Init
    <3> QED
      BY <1>3, <3>1, <3>2, <3>3
  <2>2. db.snaps = <<>> /\ db.active = <<>>
        /\ db.corr \in [Periods -> Nat] /\ db.ver \in [Periods -> Nat]
    BY <1>1
  <2>3. DOMAIN db.snaps = {} /\ Len(db.active) = 0
    BY <2>2
  <2> QED
    BY <1>6, <1>7, <2>1, <2>2, <2>3 DEF Holds
<1>9. Loading
  BY DEF Loading, Init, Times, Reused, Published
<1>10. Holds(work, Horizon, originals, lost, Published)
  BY <1>8 DEF Init, Horizon
<1> QED
  BY <1>2, <1>4, <1>8, <1>9, <1>10, PastInit DEF AnswerInv

\* What happens beside a load, or between two of them.
LEMMA AnswerBeside ==
  ASSUME AnswerInv, PastInv', UNCHANGED <<db, load>>, Site', Disk', now <= now',
         Published \subseteq Published', originals \cup lost \subseteq originals' \cup lost',
         lost \subseteq lost'
  PROVE  AnswerInv'
<1> USE DEF AnswerInv
<1>1. now \in Times /\ now' \in Times /\ asked \in Times
  BY DEF Site, Loading
<1>2. Horizon \in Times /\ Horizon' \in Times /\ Horizon <= Horizon'
  BY <1>1, TimesAreNumbers DEF Horizon, load, request
<1>3. Holds(db', now', originals', lost', Published')
  BY <1>1, HoldsGrows
<1>4. Holds(work', Horizon', originals', lost', Published')
  BY <1>2, HoldsGrows DEF load
<1>5. Reused(reuse', lost')
  BY ReusedGrows DEF Loading, load
<1>6. Loading'
  BY <1>1, <1>5, TimesAreNumbers DEF Loading, load, request
<1> QED
  BY <1>3, <1>4, <1>6

\* The end of a load.
LEMMA AnswerEnd ==
  ASSUME AnswerInv, PastInv', EndLoad, UNCHANGED <<now, hist, lost>>, Disk',
         originals \subseteq originals', Holds(db', now, originals, lost, Published)
  PROVE  AnswerInv'
<1> USE DEF AnswerInv
<1>1. Published' = Published /\ Site'
  BY DEF Published, Site
<1>2. Holds(db', now', originals', lost', Published')
  BY <1>1, HoldsGrows, TimesAreNumbers DEF Site
<1>3. Loading'
  BY TimesAreNumbers DEF EndLoad, Loading, Reused
<1>4. Holds(work', Horizon', originals', lost', Published')
  BY <1>2 DEF EndLoad, Horizon
<1> QED
  BY <1>1, <1>2, <1>3, <1>4

\* Whatever t is, a load begins with what the database holds.
LEMMA AnswerBegin ==
  ASSUME AnswerInv, NEW S, NEW B, Begin(S, B), PastInv'
  PROVE  AnswerInv'
<1> USE DEF AnswerInv
<1> DEFINE rows == Visible(db.rows, now)
           local == IF rows = {} THEN db ELSE WithBundle(db, rows)
           news == [p \in Periods |-> IF p \in S THEN Notice(p) ELSE None]
           corr == Merged(local.corr, news)
           known == [local EXCEPT !.corr = corr]
<1>1. IsDatabase(local) /\ local.rows = db.rows
      /\ Holds(local, now, originals, lost, Published)
  BY BundleKeepsRows, BundleStored DEF PastInv
<1>2. /\ work' = known /\ seen' = news /\ batch' = B
      /\ B \subseteq (Published \ Stored(db.rows)) \cup Unverified(known)
      /\ reuse' = IF rows = {} THEN <<>>
                  ELSE <<[key |-> SnapshotKey(rows), bundle |-> BundleOf(db, rows)]>>
      /\ pc' = "fetch" /\ began' = now /\ signal' = now
      /\ UNCHANGED <<now, hist, db, originals, lost, cur, asked, held>>
  BY DEF Begin, site, disk, request
<1>3. Reused(reuse', lost')
  <2>1. Fits(SnapshotKey(rows), BundleOf(db, rows), lost)
    BY BundleStored DEF PastInv
  <2> HIDE DEF rows
  <2> QED
    BY <1>2, <2>1 DEF Reused
<1> HIDE DEF local
<1>4. news \in [Periods -> Nat \cup {None}]
  BY NoticeType
<1> HIDE DEF news
<1>5. corr \in [Periods -> Nat]
  BY <1>1, <1>4, MergedType DEF Holds
<1> HIDE DEF corr
<1>6. /\ known.rows = local.rows /\ known.snaps = local.snaps /\ known.active = local.active
      /\ known.corr = corr /\ known.ver = local.ver
  BY <1>1 DEF IsDatabase
<1>7. Holds(known, now, originals, lost, Published)
  BY <1>1, <1>5, <1>6 DEF Holds
<1>8. B \subseteq Published
  <2>1. Unverified(known) \subseteq Stored(known.rows)
    BY DEF Unverified
  <2>2. Stored(known.rows) \subseteq Published
    BY <1>7 DEF Stored, Holds
  <2> QED
    BY <1>2, <2>1, <2>2
<1>9. \A r \in known.rows : r.avail <= now
  <2> TAKE r \in known.rows
  <2>1. r \in db.rows /\ r.avail <= r.fetched /\ r.fetched <= now
    BY <1>1, <1>6 DEF PastInv, IsDatabase, IsRow, Holds
  <2>2. r.avail \in Times /\ r.fetched \in Times /\ now \in Times
    BY <2>1 DEF Holds, Filing, Site
  <2>3. r.avail \in Nat /\ r.fetched \in Nat /\ now \in Nat
    BY <2>2, TimesAreNumbers
  <2> QED
    BY <2>1, <2>3
<1> HIDE DEF known
<1>10. Published' = Published /\ Site' /\ Disk'
  BY <1>2 DEF Published, Site, Disk
<1>11. Loading'
  BY <1>2, <1>3, <1>4, <1>8, <1>9, <1>10 DEF Loading, Site
<1>12. Holds(work', Horizon', originals', lost', Published')
  BY <1>2, <1>7, <1>10 DEF Horizon
<1> QED
  BY <1>2, <1>10, <1>11, <1>12

\* The request, its response, and the look at the notices change no database.
LEMMA AnswerAsk ==
  ASSUME AnswerInv, PastInv', (\E p \in Periods : Request(p)) \/ Response \/ LookUp
  PROVE  AnswerInv'
<1> USE DEF AnswerInv
<1>1. /\ UNCHANGED <<site, db, originals, lost, work, began, signal, reuse, batch>>
      /\ Published' = Published /\ Site' /\ Disk'
  BY DEF Request, Response, LookUp, site, disk, request, Published, Site, Disk
<1>2. Holds(work, Horizon', originals, lost, Published) /\ Loading'
  <2>1. CASE \E p \in Periods : Request(p)
    <3>1. PICK p \in Periods : Request(p)
      BY <2>1
    <3>2. /\ pc = "fetch" /\ p \in batch /\ pc' = "asked" /\ cur' = p /\ asked' = now
          /\ UNCHANGED <<seen, held>>
      BY <3>1 DEF Request
    <3>3. Horizon' = Horizon
      BY <1>1, <3>2 DEF Horizon
    <3>4. now \in Nat /\ now \in Times
      BY TimesAreNumbers DEF Site
    <3>5. Loading'
      BY <1>1, <3>2, <3>4 DEF Loading, site
    <3> QED
      BY <3>3, <3>5
  <2>2. CASE Response
    <3>1. pc = "asked" /\ pc' = "held" /\ held' = Shown(cur) /\ UNCHANGED <<seen, cur, asked>>
      BY <2>2 DEF Response
    <3>2. Horizon' = Horizon
      BY <1>1, <3>1 DEF Horizon
    <3>3. held' \in Docs
      BY <3>1, ShownType DEF Loading
    <3>4. Loading'
      BY <1>1, <3>1, <3>3 DEF Loading, site
    <3> QED
      BY <3>2, <3>4
  <2>3. CASE LookUp
    <3>1. /\ pc = "held" /\ seen' = [seen EXCEPT ![cur] = Notice(cur)]
          /\ UNCHANGED <<pc, cur, asked, held>>
      BY <2>3 DEF LookUp, request
    <3>2. Horizon' = Horizon
      BY <1>1, <3>1 DEF Horizon, site
    <3>3. cur \in Periods
      BY <3>1 DEF Loading, Published
    <3>4. Notice(cur) \in Nat
      BY <3>3, NoticeType
    <3>5. seen' \in [Periods -> Nat \cup {None}]
      BY <3>1, <3>4 DEF Loading
    <3>6. Loading'
      BY <1>1, <3>1, <3>5 DEF Loading, site
    <3> QED
      BY <3>2, <3>6
  <2> QED
    BY <2>1, <2>2, <2>3
<1> QED
  BY <1>1, <1>2 DEF site

\* A row is acknowledged: what the transaction then is, d, holds as before.
LEMMA AnswerAcknowledge ==
  ASSUME AnswerInv, PastInv', pc = "held",
         NEW d, IsDatabase(d), NEW row \in d.rows, Acknowledge(d, row),
         Holds(d, asked, originals', lost, Published),
         \A r \in d.rows : r.avail <= signal \/ r = row,
         UNCHANGED <<now, hist, db, lost, seen, began, reuse>>, Disk',
         originals \subseteq originals'
  PROVE  AnswerInv'
<1> USE DEF AnswerInv
<1>1. /\ work'.rows = d.rows /\ work'.snaps = d.snaps /\ work'.active = d.active
      /\ work'.corr = d.corr /\ work'.ver = [d.ver EXCEPT ![cur] = d.corr[cur]]
  BY AcknowledgedRows
<1>2. /\ signal' = Max({signal, row.avail}) /\ batch' = batch \ {cur}
      /\ pc' = "fetch" /\ cur' = None /\ asked' = 0 /\ held' = None
  BY DEF Acknowledge
<1>3. Published' = Published /\ Site'
  BY DEF Published, Site
<1>4. cur \in Periods /\ asked \in Times /\ now \in Times /\ asked <= now /\ signal \in Times
  BY DEF Loading, Published, Site
<1>5. work'.corr \in [Periods -> Nat] /\ work'.ver \in [Periods -> Nat]
  BY <1>1, <1>4 DEF Holds
<1>6. Holds(work', asked, originals', lost, Published)
  BY <1>1, <1>5 DEF Holds
<1>7. Holds(work', Horizon', originals', lost', Published')
  BY <1>2, <1>3, <1>4, <1>6, HoldsGrows DEF Horizon
<1>8. \A r \in d.rows : r.avail \in Times
  BY DEF Holds, Filing
<1>9. signal' \in Times /\ signal <= signal' /\ row.avail <= signal'
  <2>1. signal \in Int /\ row.avail \in Int
    BY <1>4, <1>8, TimesAreNumbers
  <2>2. /\ Max({signal, row.avail}) \in {signal, row.avail}
        /\ signal <= Max({signal, row.avail}) /\ row.avail <= Max({signal, row.avail})
    BY <2>1, LargerOfTwo
  <2> QED
    BY <1>2, <1>4, <1>8, <2>2
<1>10. \A r \in work'.rows : r.avail <= signal'
  <2> TAKE r \in work'.rows
  <2>1. r \in d.rows /\ r.avail \in Nat /\ signal \in Nat /\ signal' \in Nat
    BY <1>1, <1>4, <1>8, <1>9, TimesAreNumbers
  <2> QED
    BY <1>9, <2>1
<1>11. Loading'
  BY <1>2, <1>3, <1>9, <1>10, TimesAreNumbers DEF Loading
<1>12. Holds(db', now', originals', lost', Published')
  BY <1>3, <1>4, HoldsGrows, TimesAreNumbers
<1> QED
  BY <1>3, <1>7, <1>11, <1>12

LEMMA AnswerVerify ==
  ASSUME AnswerInv, PastInv', Verify
  PROVE  AnswerInv'
<1> USE DEF AnswerInv
<1>1. PICK old \in Of(work.rows, cur) :
        /\ IsLatest(work.rows, old)
        /\ IF old.src = "observed" THEN Acknowledge(work, old)
           ELSE Acknowledge([work EXCEPT !.rows = (@ \ {old}) \cup {Confirmed(old)},
                                         !.active = <<>>], Confirmed(old))
  BY DEF Verify
<1>2. /\ pc = "held" /\ UNCHANGED <<now, hist, db, originals, lost, seen, began, reuse>>
      /\ Disk' /\ originals \subseteq originals'
  BY DEF Verify, site, disk, Disk
<1>3. Holds(work, asked, originals', lost, Published) /\ IsDatabase(work)
  BY <1>2 DEF Horizon, PastInv
<1>4. old \in work.rows /\ old.p = cur /\ \A r \in work.rows : r.p = cur => r.rev <= old.rev
  BY <1>1 DEF Of, IsLatest
<1>5. \A r \in work.rows : r.avail <= signal
  BY <1>2 DEF Loading
<1>6. CASE old.src = "observed"
  BY <1>1, <1>2, <1>3, <1>4, <1>5, <1>6, AnswerAcknowledge
<1>7. CASE old.src # "observed"
  <2> DEFINE new == Confirmed(old)
             rows == (work.rows \ {old}) \cup {new}
             d == [work EXCEPT !.rows = rows, !.active = <<>>]
  <2>1. old \in Filing /\ IsRow(old)
    BY <1>3, <1>4 DEF Holds, IsDatabase
  <2>2. /\ new \in Filing /\ IsRow(new)
        /\ new.p = old.p /\ new.rev = old.rev /\ new.doc = old.doc
        /\ new.avail = old.fetched /\ new.fetched = old.fetched
    <3>1. new \in [p : {old.p}, doc : {old.doc}, rev : {old.rev}, avail : {old.fetched},
                   fetched : {old.fetched}, src : {"observed"}, note : {old.note}]
      BY <2>1 DEF Confirmed, Filing
    <3> HIDE DEF new
    <3>2. /\ new.p = old.p /\ new.rev = old.rev /\ new.doc = old.doc /\ new.src = "observed"
          /\ new.avail = old.fetched /\ new.fetched = old.fetched /\ new.note = old.note
      BY <3>1
    <3>3. new \in Filing
      BY <2>1, <3>1, <3>2 DEF Filing, Sources
    <3>4. IsRow(new)
      BY <2>1, <3>1, <3>2 DEF IsRow, Sources
    <3> QED
      BY <3>2, <3>3, <3>4
  <2> HIDE DEF new
  <2>3. /\ IsDatabase(d) /\ d.rows = rows /\ d.snaps = work.snaps /\ d.active = <<>>
        /\ d.corr = work.corr /\ d.ver = work.ver
    BY <1>3, <2>2 DEF IsDatabase, IsRow
  <2>4. Acknowledge(d, new)
    BY <1>1, <1>7 DEF new
  <2> HIDE DEF d
  <2>5. ASSUME NEW r \in work.rows \ {old}, r.p = new.p
        PROVE  r.rev < new.rev /\ r.doc # new.doc /\ r.avail <= new.avail
    <3>1. r.rev # old.rev /\ r.doc # old.doc /\ r.rev <= old.rev
      BY <1>3, <1>4, <2>2, <2>5 DEF Holds, Revisions
    <3>2. r.rev \in Nat /\ old.rev \in Nat /\ r.avail \in Int /\ old.avail \in Int
      BY <1>3, <1>4 DEF Holds, Revisions
    <3>3. r.rev < old.rev
      BY <3>1, <3>2
    <3>4. r.avail <= old.avail /\ old.avail <= old.fetched /\ old.fetched \in Int
      BY <1>3, <1>4, <2>1, <2>2, <2>5, <3>3 DEF Holds, Revisions, IsRow
    <3> QED
      BY <2>2, <3>1, <3>2, <3>3, <3>4
  <2>6. Revisions(rows)
    <3>1. \A r \in rows : r.p \in Periods /\ r.doc \in Docs /\ r.rev \in Nat /\ r.avail \in Int
      BY <1>3, <1>4, <2>2 DEF Holds, Revisions, IsRow
    <3>2. ASSUME NEW r \in rows, NEW q \in rows, r.p = q.p
          PROVE  /\ r.rev = q.rev \/ r.doc = q.doc => r = q
                 /\ r.rev < q.rev => r.avail <= q.avail
      <4>1. CASE r = new /\ q = new
        BY <3>1, <4>1
      <4>2. CASE r = new /\ q # new
        BY <2>5, <3>1, <3>2, <4>2
      <4>3. CASE r # new /\ q = new
        BY <2>5, <3>1, <3>2, <4>3
      <4>4. CASE r # new /\ q # new
        BY <1>3, <3>2, <4>4 DEF Holds, Revisions
      <4> QED
        BY <4>1, <4>2, <4>3, <4>4
    <3>3. \E n \in Nat : \A r \in rows : r.rev <= n
      BY <1>3, <1>4, <2>2 DEF Holds, Revisions
    <3> QED
      BY <3>1, <3>2, <3>3 DEF Revisions
  <2>7. Holds(d, asked, originals', lost, Published)
    <3>1. rows \subseteq Filing
      BY <1>3, <2>2 DEF Holds
    <3>2. \A r \in rows : /\ r.fetched <= asked /\ <<r.p, r.doc>> \in originals' \cup lost
                          /\ r.p \in Published
      BY <1>3, <1>4, <2>2 DEF Holds
    <3>3. Len(<<>>) <= 1
      OBVIOUS
    <3> QED
      BY <1>3, <2>3, <2>6, <3>1, <3>2, <3>3 DEF Holds
  <2>8. new \in d.rows /\ \A r \in d.rows : r.avail <= signal \/ r = new
    BY <1>5, <2>3
  <2> QED
    BY <1>2, <2>3, <2>4, <2>7, <2>8, AnswerAcknowledge
<1> QED
  BY <1>6, <1>7

LEMMA AnswerSave ==
  ASSUME AnswerInv, PastInv', SaveRevision
  PROVE  AnswerInv'
<1> USE DEF AnswerInv
<1>1. /\ pc = "held" /\ seen[cur] # None /\ originals' = originals \cup {<<cur, held>>}
      /\ UNCHANGED <<now, hist, db, lost, seen, began, reuse>>
  BY DEF SaveRevision, site, RawWritten
<1>2. cur \in Periods /\ cur \in Published /\ held \in Docs /\ asked \in Times
  BY <1>1 DEF Loading, Published
<1>3. Disk' /\ originals \subseteq originals'
  BY <1>1, <1>2 DEF Disk
<1>4. Holds(work, asked, originals', lost, Published) /\ IsDatabase(work)
  BY <1>1, <1>2, <1>3, HoldsGrows, TimesAreNumbers DEF Horizon, PastInv
<1>5. \A r \in work.rows : r.avail <= signal
  BY <1>1 DEF Loading
<1>6. CASE \E row \in Of(work.rows, cur) : row.doc = held /\ Acknowledge(work, row)
  BY <1>1, <1>3, <1>4, <1>5, <1>6, AnswerAcknowledge DEF Of
<1>7. CASE /\ \A row \in Of(work.rows, cur) : row.doc # held
           /\ Acknowledge([work EXCEPT !.rows = @ \cup {NewRow}, !.active = <<>>], NewRow)
  <2> DEFINE new == NewRow
             rows == work.rows \cup {new}
             d == [work EXCEPT !.rows = rows, !.active = <<>>]
  <2>1. NextRevision \in Nat /\ \A r \in Of(work.rows, cur) : r.rev < NextRevision
    BY <1>2, <1>4, NextRevisionIsAbove DEF Holds
  <2>2. seen[cur] \in Nat /\ asked \in Nat
    BY <1>1, <1>2, TimesAreNumbers DEF Loading
  <2>3. /\ new \in Filing /\ IsRow(new)
        /\ new.p = cur /\ new.rev = NextRevision /\ new.doc = held
        /\ new.avail = asked /\ new.fetched = asked
    BY <1>2, <2>1, <2>2 DEF NewRow, Filing, IsRow, Sources
  <2> HIDE DEF new
  <2>4. /\ IsDatabase(d) /\ d.rows = rows /\ d.snaps = work.snaps /\ d.active = <<>>
        /\ d.corr = work.corr /\ d.ver = work.ver
    BY <1>4, <2>3 DEF IsDatabase, IsRow
  <2>5. Acknowledge(d, new)
    BY <1>7 DEF new
  <2> HIDE DEF d
  <2>6. ASSUME NEW r \in work.rows, r.p = new.p
        PROVE  r.rev < new.rev /\ r.doc # new.doc /\ r.avail <= new.avail
    <3>1. r \in Of(work.rows, cur)
      BY <2>3, <2>6 DEF Of
    <3>2. r.avail <= r.fetched /\ r.fetched <= asked /\ r.avail \in Int /\ r.fetched \in Int
      BY <1>4 DEF Holds, IsDatabase, IsRow
    <3> QED
      BY <1>7, <2>1, <2>2, <2>3, <3>1, <3>2
  <2>7. Revisions(rows)
    <3>1. \A r \in rows : r.p \in Periods /\ r.doc \in Docs /\ r.rev \in Nat /\ r.avail \in Int
      BY <1>2, <1>4, <2>1, <2>2, <2>3 DEF Holds, Revisions
    <3>2. ASSUME NEW r \in rows, NEW q \in rows, r.p = q.p
          PROVE  /\ r.rev = q.rev \/ r.doc = q.doc => r = q
                 /\ r.rev < q.rev => r.avail <= q.avail
      <4>1. CASE r = new /\ q = new
        BY <3>1, <4>1
      <4>2. CASE r = new /\ q # new
        BY <2>6, <3>1, <3>2, <4>2
      <4>3. CASE r # new /\ q = new
        BY <2>6, <3>1, <3>2, <4>3
      <4>4. CASE r # new /\ q # new
        BY <1>4, <3>2, <4>4 DEF Holds, Revisions
      <4> QED
        BY <4>1, <4>2, <4>3, <4>4
    <3>3. PICK n \in Nat : \A r \in work.rows : r.rev <= n
      BY <1>4 DEF Holds, Revisions
    <3>4. n + NextRevision \in Nat /\ \A r \in rows : r.rev <= n + NextRevision
      BY <2>1, <2>3, <3>1, <3>3
    <3> QED
      BY <3>1, <3>2, <3>4 DEF Revisions
  <2>8. Holds(d, asked, originals', lost, Published)
    <3>1. rows \subseteq Filing
      BY <1>4, <2>3 DEF Holds
    <3>2. \A r \in rows : /\ r.fetched <= asked /\ <<r.p, r.doc>> \in originals' \cup lost
                          /\ r.p \in Published
      <4> TAKE r \in rows
      <4>1. CASE r = new
        BY <1>1, <1>2, <2>2, <2>3, <4>1
      <4>2. CASE r \in work.rows
        BY <1>4, <4>2 DEF Holds
      <4> QED
        BY <4>1, <4>2
    <3>3. Len(<<>>) <= 1
      OBVIOUS
    <3> QED
      BY <1>4, <2>4, <2>7, <3>1, <3>2, <3>3 DEF Holds
  <2>9. new \in d.rows /\ \A r \in d.rows : r.avail <= signal \/ r = new
    BY <1>5, <2>4
  <2> QED
    BY <1>1, <1>3, <2>4, <2>5, <2>8, <2>9, AnswerAcknowledge
<1> QED
  BY <1>6, <1>7 DEF SaveRevision

\* A load commits its transaction, or it and a bundle; and gives that bundle, of
\* all the filings stored by then.
LEMMA AnswerCommits ==
  ASSUME AnswerInv, pc # "idle", NEW t \in {signal, now}, CommitWith(t)
  PROVE  /\ Holds(db', now, originals, lost, Published) /\ db'.rows = work.rows
         /\ \E bundle : Give(bundle, t, TRUE) /\ Fits(SnapshotKey(work.rows), bundle, lost)
<1> USE DEF AnswerInv
<1>1. Holds(work, now, originals, lost, Published) /\ IsDatabase(work)
  BY HoldsGrows, TimesAreNumbers DEF Horizon, Loading, Site, PastInv
<1>2. \A r \in work.rows : r.avail <= t
  <2>1. CASE t = signal
    BY <2>1 DEF Loading
  <2>2. CASE t = now
    <3> TAKE r \in work.rows
    <3>1. r.avail <= r.fetched /\ r.fetched <= now /\ r.avail \in Int /\ r.fetched \in Int
      BY <1>1 DEF Holds, IsDatabase, IsRow
    <3>2. now \in Nat
      BY TimesAreNumbers DEF Site
    <3> QED
      BY <2>2, <3>1, <3>2
  <2> QED
    BY <2>1, <2>2
<1> DEFINE rows == Visible(work.rows, t)
<1>3. rows = work.rows
  BY <1>1, <1>2, VisiblePart
<1>4. /\ db' = IF Reusable(rows) THEN work ELSE WithBundle(work, rows)
      /\ Give(IF Reusable(rows) THEN reuse[1].bundle ELSE BundleOf(work, rows), t, TRUE)
  BY DEF CommitWith
<1>5. Fits(SnapshotKey(rows), BundleOf(work, rows), lost)
      /\ Holds(WithBundle(work, rows), now, originals, lost, Published)
      /\ WithBundle(work, rows).rows = work.rows
  BY <1>1, BundleStored, BundleKeepsRows
<1>6. ASSUME Reusable(rows) PROVE Fits(SnapshotKey(rows), reuse[1].bundle, lost)
  BY <1>6 DEF Reusable, Loading, Reused
<1> QED
  BY <1>1, <1>3, <1>4, <1>5, <1>6

LEMMA AnswerNext ==
  ASSUME AnswerInv, [Next]_vars
  PROVE  AnswerInv'
<1> USE DEF AnswerInv
<1>1. PastInv'
  BY PastNext
<1>2. now \in Nat /\ now \in Times
  BY TimesAreNumbers DEF Site
<1>3. CASE UNCHANGED <<db, load, site, originals, lost>>
  <2>1. Site' /\ Disk' /\ Published' = Published /\ now' = now
    BY <1>3 DEF site, Site, Disk, Published
  <2>2. originals' = originals /\ lost' = lost /\ UNCHANGED <<db, load>>
    BY <1>3
  <2> QED
    BY <1>1, <1>2, <2>1, <2>2, AnswerBeside
<1>4. CASE World
  <2>1. CASE \E p \in Periods, doc \in Docs : Publish(p, doc) \/ Correct(p, doc)
    <3>1. PICK p \in Periods, doc \in Docs : Publish(p, doc) \/ Correct(p, doc)
      BY <2>1
    <3> DEFINE e == [doc |-> doc, at |-> now]
    <3>2. e \in [doc : Docs, at : Times]
      BY <1>2
    <3> HIDE DEF e
    <3>3. /\ \/ hist' = [hist EXCEPT ![p] = <<e>>]
             \/ hist' = [hist EXCEPT ![p] = Append(@, e)]
          /\ UNCHANGED <<now, db, load, originals, lost>>
      BY <3>1 DEF Publish, Correct, disk, e
    <3>4. hist[p] \in Seq([doc : Docs, at : Times])
      BY DEF Site
    <3>5. /\ <<e>> \in Seq([doc : Docs, at : Times]) /\ <<e>> # <<>>
          /\ Append(hist[p], e) \in Seq([doc : Docs, at : Times]) /\ Append(hist[p], e) # <<>>
      BY <3>2, <3>4
    <3>6. Site' /\ Published \subseteq Published'
      BY <3>3, <3>5 DEF Site, Published
    <3> QED
      BY <1>1, <1>2, <3>3, <3>6, AnswerBeside DEF Disk
  <2>2. CASE Tick
    <3>1. /\ now' = now + 1 /\ now < MaxTime
          /\ UNCHANGED <<hist, db, load, originals, lost>>
      BY <2>2 DEF Tick, disk
    <3>2. now' \in Times
      BY <1>2, <3>1, StoreAssumption DEF Times, StoreAssumption
    <3> QED
      <4>1. Site' /\ Disk' /\ Published' = Published
        BY <3>1, <3>2 DEF Site, Disk, Published
      <4> QED
        BY <1>1, <1>2, <3>1, <4>1, AnswerBeside
  <2>3. CASE \E f \in Periods \X Docs : LoseOriginal(f) \/ FindOriginal(f)
    <3>1. /\ originals' \subseteq Periods \X Docs /\ lost' \subseteq Periods \X Docs
          /\ lost \subseteq lost' /\ originals \cup lost \subseteq originals' \cup lost'
          /\ UNCHANGED <<now, hist, db, load>>
      BY <2>3 DEF LoseOriginal, FindOriginal, site, Disk
    <3> QED
      <4>1. Site' /\ Disk' /\ Published' = Published
        BY <3>1 DEF Site, Disk, Published
      <4> QED
        BY <1>1, <1>2, <3>1, <4>1, AnswerBeside
  <2>4. CASE Deploy
    BY <1>3, <2>4 DEF Deploy, disk
  <2> QED
    BY <1>4, <2>1, <2>2, <2>3, <2>4 DEF World
<1>5. CASE (\E t \in Times : Historical(t)) \/ Preload
  BY <1>3, <1>5 DEF Historical, Preload, disk
<1>6. CASE LoadLocally
  <2>1. /\ db' = WithBundle(db, Visible(db.rows, now)) /\ EndLoad
        /\ UNCHANGED <<now, hist, originals, lost>>
    BY <1>6 DEF LoadLocally, site
  <2>2. Holds(db', now, originals, lost, Published)
    BY <2>1, BundleStored DEF PastInv
  <2> QED
    BY <1>1, <2>1, <2>2, AnswerEnd DEF Disk
<1>7. CASE \E S, B \in SUBSET Periods : Begin(S, B)
  BY <1>1, <1>7, AnswerBegin
<1>8. CASE (\E p \in Periods : Request(p)) \/ Response \/ LookUp
  BY <1>1, <1>8, AnswerAsk
<1>9. CASE Verify
  BY <1>1, <1>9, AnswerVerify
<1>10. CASE SaveRevision
  BY <1>1, <1>10, AnswerSave
<1>11. CASE Finish \/ RemoteFails
  <2>1. /\ EndLoad /\ UNCHANGED <<now, hist, originals, lost>> /\ pc # "idle"
        /\ \E t \in {signal, now} : db' = work \/ CommitWith(t)
    BY <1>11 DEF Finish, RemoteFails, site
  <2>2. Holds(work, now, originals, lost, Published)
    BY HoldsGrows, TimesAreNumbers DEF Horizon, Loading, Site
  <2>3. Holds(db', now, originals, lost, Published)
    BY <2>1, <2>2, AnswerCommits
  <2> QED
    BY <1>1, <2>1, <2>3, AnswerEnd DEF Disk
<1>12. CASE Abort
  <2>1. EndLoad /\ db' = db /\ UNCHANGED <<now, hist, lost>>
    BY <1>12 DEF Abort, site
  <2>2. originals \subseteq originals' /\ Disk'
    <3>1. CASE originals' = originals
      BY <2>1, <3>1 DEF Disk
    <3>2. CASE pc = "held" /\ originals' = originals \cup {<<cur, held>>}
      BY <2>1, <3>2 DEF Disk, Loading, Published
    <3> QED
      BY <1>12, <3>1, <3>2 DEF Abort, RawWritten
  <2> QED
    BY <1>1, <2>1, <2>2, AnswerEnd
<1>13. CASE UNCHANGED vars
  BY <1>3, <1>13 DEF vars, disk
<1> QED
  BY <1>4, <1>5, <1>6, <1>7, <1>8, <1>9, <1>10, <1>11, <1>12, <1>13 DEF Next

---------------------------------------------------------------------------
(* The theorems                                                            *)

\* A fitting bundle of the filings of its cutoff is a sound answer.
LEMMA GivenIsSound ==
  ASSUME NEW rows, Revisions(rows), NEW bundle, Fits(SnapshotKey(rows), bundle, lost),
         NEW t, NEW live \in BOOLEAN, Give(bundle, t, live), UNCHANGED <<version, lost>>,
         rows = IF live THEN db'.rows ELSE Visible(db'.rows, t)
  PROVE  AnswerIsSound'
<1>1. answer'.bundle = bundle /\ answer'.at = t /\ answer'.live = live
  BY DEF Give
<1>2. /\ bundle.ver = version
      /\ \A p \in Periods :
           bundle.docs[p] = IF p \in Stored(rows) THEN Latest(rows, p).doc ELSE None
      /\ \A p \in Stored(rows) \ bundle.known : <<p, bundle.docs[p]>> \in lost
  BY FitsTells
<1> QED
  BY <1>1, <1>2 DEF AnswerIsSound

LEMMA SoundNext ==
  ASSUME AnswerInv, AnswerIsSound, [Next]_vars
  PROVE  AnswerIsSound'
<1> USE DEF AnswerInv
<1>1. CASE Silent
  BY <1>1 DEF Silent, NoAnswer, AnswerIsSound
<1>2. CASE World \/ (\E S, B \in SUBSET Periods : Begin(S, B)) \/ (\E p \in Periods : Request(p))
           \/ Response \/ Verify \/ LookUp \/ SaveRevision \/ Abort
  BY <1>1, <1>2 DEF World, Publish, Correct, Tick, LoseOriginal, FindOriginal, Deploy, Begin,
       Request, Response, Verify, LookUp, SaveRevision, Abort
<1>3. CASE \E t \in Times : Historical(t)
  <2>1. PICK t \in Times : Historical(t)
    BY <1>3
  <2> DEFINE rows == Visible(db.rows, t)
  <2>2. Give(Derived(rows), t, FALSE) /\ UNCHANGED <<db, version, lost>>
    BY <2>1 DEF Historical, disk
  <2>3. Revisions(rows) /\ Fits(SnapshotKey(rows), Derived(rows), lost)
    BY VisiblePart, BundleStored DEF PastInv
  <2> HIDE DEF rows
  <2>4. rows = Visible(db'.rows, t)
    BY <2>2 DEF rows
  <2> QED
    BY <2>2, <2>3, <2>4, GivenIsSound
<1> DEFINE all == Visible(db.rows, now)
<1>4. all = db.rows /\ Revisions(all)
  <2>1. ASSUME NEW r \in db.rows PROVE r.avail <= now
    <3>1. r.avail <= r.fetched /\ r.fetched <= now /\ r.avail \in Int /\ r.fetched \in Int
      BY DEF Holds, PastInv, IsDatabase, IsRow
    <3>2. now \in Nat
      BY TimesAreNumbers DEF Site
    <3> QED
      BY <3>1, <3>2
  <2> QED
    BY <2>1, VisiblePart
<1>5. CASE Preload
  <2> DEFINE bundle == db.snaps[SnapshotKey(all)]
  <2>1. /\ SnapshotKey(all) \in DOMAIN db.snaps
        /\ Give(bundle, now, TRUE) /\ UNCHANGED <<db, version, lost>>
    BY <1>5 DEF Preload, disk
  <2>2. Fits(SnapshotKey(all), bundle, lost)
    BY <2>1 DEF Holds
  <2> HIDE DEF bundle, all
  <2> QED
    BY <1>4, <2>1, <2>2, GivenIsSound
<1>6. CASE LoadLocally
  <2> DEFINE bundle == BundleOf(db, all)
  <2>1. db' = WithBundle(db, all) /\ Give(bundle, now, TRUE) /\ UNCHANGED <<version, lost>>
    BY <1>6 DEF LoadLocally
  <2>2. Fits(SnapshotKey(all), bundle, lost) /\ WithBundle(db, all).rows = db.rows
    BY BundleStored, BundleKeepsRows DEF PastInv
  <2> HIDE DEF bundle, all
  <2> QED
    BY <1>4, <2>1, <2>2, GivenIsSound
<1>7. CASE Finish \/ RemoteFails
  <2>1. pc # "idle" /\ UNCHANGED <<version, lost>>
        /\ \E t \in {signal, now} : Silent \/ CommitWith(t)
    BY <1>7 DEF Finish, RemoteFails
  <2>2. ASSUME NEW t \in {signal, now}, CommitWith(t) PROVE AnswerIsSound'
    <3>1. PICK bundle : Give(bundle, t, TRUE) /\ Fits(SnapshotKey(work.rows), bundle, lost)
      BY <2>1, <2>2, AnswerCommits
    <3>2. db'.rows = work.rows /\ Revisions(work.rows)
      BY <2>1, <2>2, AnswerCommits DEF Holds
    <3> QED
      BY <2>1, <3>1, <3>2, GivenIsSound
  <2> QED
    BY <1>1, <2>1, <2>2
<1>8. CASE UNCHANGED vars
  BY <1>8 DEF vars, disk, AnswerIsSound
<1> QED
  BY <1>2, <1>3, <1>5, <1>6, <1>7, <1>8 DEF Next

LEMMA InvariantHolds ==
  Spec => [](AnswerInv /\ AnswerIsSound)
<1>1. Init => AnswerIsSound
  BY DEF Init, NoAnswer, AnswerIsSound
<1> QED
  BY AnswerInit, <1>1, AnswerNext, SoundNext, PTL DEF Spec

\* The variables keep their types, and no two revisions of a period share a
\* number or a content (save_revision).
THEOREM TypeCorrect ==
  Spec => []TypeOK
<1>1. AnswerInv => TypeOK
  <2> SUFFICES ASSUME AnswerInv PROVE TypeOK
    OBVIOUS
  <2>1. Database(db) /\ Database(work)
    BY DEF AnswerInv, Database, Holds, Fits
  <2>2. \A r, q \in work.rows : r.p = q.p /\ (r.rev = q.rev \/ r.doc = q.doc) => r = q
    BY DEF AnswerInv, Holds, Revisions
  <2>3. batch \subseteq Periods
    BY DEF AnswerInv, Loading, Published
  <2> QED
    BY <2>1, <2>2, <2>3 DEF AnswerInv, TypeOK, Site, Disk, Loading
<1> QED
  BY InvariantHolds, <1>1, PTL

\* Whatever was cached, reused or derived before, an answer is what the
\* installed code derives from the filings of its cutoff; amounts are missing
\* only of a document whose original could not be read once.
THEOREM AnswersAreSound ==
  Spec => []AnswerIsSound
BY InvariantHolds, PTL
---------------------------------------------------------------------------
(* Notices and documents                                                   *)

\* The latest correction of p is the only one of its day.
Alone(p) == ~(Cardinality(SameDay(p)) > 1)

\* What d knows of the corrections of p the site has announced; a filing is the
\* document shown or was asked for before it; and a notice alone on its day that
\* was acknowledged has its document stored.
Informed(d) ==
  \A p \in Periods :
    /\ d.ver[p] <= d.corr[p] /\ d.corr[p] <= Notice(p)
    /\ \A r \in Of(d.rows, p) :
         r.note <= Notice(p) /\ (r.doc = Shown(p) \/ r.fetched <= Last(hist[p]).at)
    /\ p \in Stored(d.rows) /\ d.ver[p] = Notice(p) /\ Alone(p) =>
         \E r \in Of(d.rows, p) : r.doc = Shown(p)

\* Corrections are not of the day 0 that stands for no notice.
Calendar ==
  /\ TicksPerDay <= now
  /\ \A p \in Published :
       /\ Last(hist[p]).at <= now
       /\ Len(hist[p]) > 1 => TicksPerDay <= Last(hist[p]).at

\* The document held is the one shown, or was asked for before it; and before
\* the load knew of its notice, unless another was given the same day.
Asking ==
  /\ \A p \in Periods : seen[p] = None \/ seen[p] <= Notice(p)
  /\ pc = "held" =>
       /\ held = Shown(cur) \/ asked <= Last(hist[cur]).at
       /\ work.corr[cur] = Notice(cur) /\ Alone(cur) => held = Shown(cur)

MissInv == AnswerInv /\ Calendar /\ Informed(db) /\ Informed(work) /\ Asking

LEMMA Division ==
  ASSUME NEW k \in Nat \ {0}, NEW a \in Nat
  PROVE  a \div k \in Nat /\ k * (a \div k) <= a /\ a < k * (a \div k) + k
OBVIOUS

LEMMA DaysGoOn ==
  ASSUME NEW a \in Nat, NEW b \in Nat, a <= b
  PROVE  Day(a) \in Nat /\ Day(a) <= Day(b)
<1> DEFINE x == a \div TicksPerDay
           y == b \div TicksPerDay
           k == TicksPerDay
<1>1. k \in Nat \ {0}
  BY TimesAreNumbers
<1>2. x \in Nat /\ y \in Nat /\ k * x <= a /\ b < k * y + k
  BY <1>1, Division
<1>3. Day(a) = x /\ Day(b) = y
  BY DEF Day
<1> HIDE DEF x, y, k
<1>4. k * x < k * y + k /\ k * x \in Int /\ k * (y + 1) \in Int
  BY <1>1, <1>2
<1>5. k * y + k = k * (y + 1)
  BY <1>1, <1>2
<1>6. ASSUME y + 1 <= x PROVE k * (y + 1) <= k * x
  BY <1>1, <1>2, <1>6
<1>7. x <= y
  BY <1>2, <1>4, <1>5, <1>6
<1> QED
  BY <1>2, <1>3, <1>7

LEMMA FirstDayIsOver ==
  ASSUME NEW t \in Nat, TicksPerDay <= t
  PROVE  Day(t) \in Nat /\ 1 <= Day(t)
<1> DEFINE x == t \div TicksPerDay
           k == TicksPerDay
<1>1. k \in Nat \ {0}
  BY TimesAreNumbers
<1>2. x \in Nat /\ t < k * x + k
  BY <1>1, Division
<1>3. Day(t) = x
  BY DEF Day
<1> HIDE DEF x, k
<1>4. x # 0
  BY <1>1, <1>2 DEF k
<1> QED
  BY <1>2, <1>3, <1>4

\* What is shown now, and since when.
LEMMA LastShown ==
  ASSUME Site, Calendar, NEW p \in Published
  PROVE  /\ Last(hist[p]).at \in Nat /\ now \in Nat /\ Last(hist[p]).at <= now
         /\ Notice(p) \in Nat /\ Notice(p) <= Day(now)
<1>1. hist[p] \in Seq([doc : Docs, at : Times]) /\ hist[p] # <<>>
  BY DEF Site, Published
<1>2. Last(hist[p]) \in [doc : Docs, at : Times]
  BY <1>1, LastOf
<1>3. Last(hist[p]).at \in Nat /\ now \in Nat /\ Last(hist[p]).at <= now
  BY <1>2, TimesAreNumbers DEF Site, Calendar
<1>4. Day(Last(hist[p]).at) \in Nat /\ Day(Last(hist[p]).at) <= Day(now)
  BY <1>3, DaysGoOn
<1>5. Day(now) \in Nat
  BY <1>3, DaysGoOn
<1> QED
  BY <1>3, <1>4, <1>5 DEF Notice

\* Two corrections of one day.
LEMMA TwoOfOneDay ==
  ASSUME NEW S, IsFiniteSet(S), NEW a \in S, NEW b \in S, a # b
  PROVE  Cardinality(S) > 1
<1>1. IsFiniteSet({a}) /\ Cardinality({a}) = 1
  BY FS_Singleton
<1>2. IsFiniteSet({a} \cup {b}) /\ Cardinality({a} \cup {b}) = 2
  <2> DEFINE A == {a}
  <2>1. IsFiniteSet(A) /\ Cardinality(A) = 1 /\ b \notin A
    BY <1>1
  <2> HIDE DEF A
  <2>2. IsFiniteSet(A \cup {b}) /\ Cardinality(A \cup {b}) = Cardinality(A) + 1
    BY <2>1, FS_AddElement
  <2> QED
    BY <2>1, <2>2 DEF A
<1>3. {a} \cup {b} \in SUBSET S
  OBVIOUS
<1>4. Cardinality({a} \cup {b}) <= Cardinality(S) /\ Cardinality(S) \in Nat
  BY <1>3, FS_Subset, FS_CardinalityType
<1> QED
  BY <1>2, <1>4

---------------------------------------------------------------------------
(* The site goes on                                                        *)

SameSite(p) ==
  /\ Notice(p)' = Notice(p) /\ Shown(p)' = Shown(p)
  /\ Last(hist'[p]).at = Last(hist[p]).at /\ (Alone(p)' <=> Alone(p))
Replaced(p) ==
  /\ now <= Last(hist'[p]).at /\ Last(hist'[p]).at \in Nat
  /\ Notice(p)' = Notice(p) => ~Alone(p)'

\* A period keeps its document, or gets another with a later notice, or with
\* another one of the same day.
Moves(p) ==
  /\ Notice(p) \in Nat /\ Notice(p)' \in Nat /\ Notice(p) <= Notice(p)'
  /\ p \in Published => p \in Published' /\ (SameSite(p) \/ Replaced(p))

LEMMA SiteStays ==
  ASSUME Site, UNCHANGED hist
  PROVE  /\ \A p \in Periods : SameSite(p) /\ Moves(p)
         /\ Published' = Published
<1>1. \A p \in Periods : SameSite(p)
  BY DEF SameSite, Notice, Shown, Alone, SameDay
<1>2. Published' = Published
  BY DEF Published
<1>3. \A p \in Periods : Notice(p) \in Nat
  BY NoticeType
<1> QED
  BY <1>1, <1>2, <1>3 DEF Moves, SameSite

LEMMA CorrectMoves ==
  ASSUME Site, Calendar, NEW p \in Periods, NEW doc \in Docs, Correct(p, doc)
  PROVE  /\ Notice(p) \in Nat /\ Notice(p)' \in Nat /\ Notice(p) <= Notice(p)'
         /\ Replaced(p)
         /\ Last(hist'[p]).at = now
<1> DEFINE e == [doc |-> doc, at |-> now]
           S == [doc : Docs, at : Times]
           n == Len(hist[p])
<1>1. /\ hist[p] # <<>> /\ hist' = [hist EXCEPT ![p] = Append(hist[p], e)]
      /\ now' = now
  BY DEF Correct
<1>2. e \in S /\ e.at = now
  BY DEF Site
<1>3. hist[p] \in Seq(S) /\ hist'[p] = Append(hist[p], e)
  BY <1>1 DEF Site
<1> HIDE DEF e, S
<1>4. n \in Nat /\ n # 0 /\ n = Len(hist[p])
  BY <1>1, <1>3
<1> HIDE DEF n
<1>5. Len(hist'[p]) = n + 1 /\ hist'[p][n + 1] = e /\ (\A i \in 1..n : hist'[p][i] = hist[p][i])
  BY <1>2, <1>3, <1>4
<1>6. Last(hist'[p]) = e /\ Last(hist[p]) = hist[p][n]
  BY <1>4, <1>5 DEF Last
<1>7. p \in Published
  BY <1>1 DEF Published
<1>8. Notice(p)' = Day(now)
  BY <1>2, <1>4, <1>5, <1>6 DEF Notice
<1>9. now \in Nat /\ Notice(p) \in Nat /\ Notice(p) <= Day(now) /\ Day(now) \in Nat
  BY <1>7, LastShown, DaysGoOn
<1>10. ASSUME Notice(p)' = Notice(p) PROVE ~Alone(p)'
  <2>1. 1 <= Day(now)
    BY <1>9, FirstDayIsOver DEF Calendar
  <2>2. n > 1 /\ Notice(p) = Day(hist[p][n].at)
    BY <1>4, <1>6, <1>8, <1>9, <1>10, <2>1 DEF Notice
  <2>3. SameDay(p)' = {i \in 2..(n + 1) : Day(hist'[p][i].at) = Day(now)}
    BY <1>5, <1>8 DEF SameDay
  <2>4. hist'[p][n] = hist[p][n] /\ n \in 2..(n + 1) /\ n + 1 \in 2..(n + 1) /\ n # n + 1
    BY <1>4, <1>5, <2>2
  <2>5. n \in SameDay(p)' /\ n + 1 \in SameDay(p)'
    BY <1>2, <1>5, <1>8, <1>10, <2>2, <2>3, <2>4
  <2>6. IsFiniteSet(2..(n + 1)) /\ SameDay(p)' \in SUBSET (2..(n + 1))
    BY <1>4, <2>3, FS_Interval
  <2>7. PICK T : T = SameDay(p)'
    OBVIOUS
  <2>8. IsFiniteSet(T) /\ n \in T /\ n + 1 \in T
    BY <2>5, <2>6, <2>7, FS_Subset
  <2>9. Cardinality(T) > 1
    BY <2>4, <2>8, TwoOfOneDay
  <2> QED
    BY <2>7, <2>9 DEF Alone
<1> QED
  BY <1>2, <1>6, <1>8, <1>9, <1>10 DEF Replaced

---------------------------------------------------------------------------
(* The invariant is inductive                                              *)

LEMMA MissInit ==
  Init => MissInv
<1> SUFFICES ASSUME Init PROVE MissInv
  OBVIOUS
<1>1. AnswerInv
  BY AnswerInit
<1>2. PICK doc \in [Periods -> Docs], kept \in SUBSET Periods :
        /\ hist = [p \in Periods |-> IF p \in kept THEN <<[doc |-> doc[p], at |-> 0]>> ELSE <<>>]
        /\ db = [rows |-> {LegacyRow(p, doc[p]) : p \in kept}, snaps |-> <<>>, active |-> <<>>,
                 corr |-> [p \in Periods |-> 0], ver |-> [p \in Periods |-> 0]]
  BY DEF Init
<1>3. /\ now = TicksPerDay /\ pc = "idle" /\ work = db
      /\ seen = [p \in Periods |-> None] /\ TicksPerDay \in Nat \ {0}
  BY TimesAreNumbers DEF Init
<1>4. ASSUME NEW p \in kept
      PROVE  Len(hist[p]) = 1 /\ Last(hist[p]).doc = doc[p] /\ Last(hist[p]).at = 0
  <2> DEFINE e == [doc |-> doc[p], at |-> 0]
  <2>1. hist[p] = <<e>>
    BY <1>2
  <2> HIDE DEF e
  <2>2. Len(hist[p]) = 1 /\ hist[p][1] = e
    BY <2>1
  <2> QED
    BY <2>2 DEF Last, e
<1>5. \A p \in Periods \ kept : hist[p] = <<>> /\ Len(hist[p]) = 0
  BY <1>2
<1>6. \A p \in Periods : ~(Len(hist[p]) > 1) /\ Notice(p) = 0
  <2>1. ASSUME NEW p \in Periods PROVE ~(Len(hist[p]) > 1)
    <3> DEFINE n == Len(hist[p])
    <3>1. n = 0 \/ n = 1
      BY <1>4, <1>5
    <3> HIDE DEF n
    <3>2. ~(n > 1)
      BY <3>1
    <3> QED
      BY <3>2 DEF n
  <2> QED
    BY <2>1 DEF Notice
<1>7. Published \subseteq kept
  BY <1>5 DEF Published
<1>8. Calendar
  <2>1. \A p \in Published : Last(hist[p]).at = 0
    BY <1>4, <1>7
  <2>2. Published \subseteq Periods
    BY DEF Published
  <2> QED
    BY <1>3, <1>6, <2>1, <2>2 DEF Calendar
<1>9. Asking
  BY <1>3 DEF Asking
<1>10. Informed(db)
  <2>1. \A r \in db.rows : r.p \in kept /\ r.doc = doc[r.p] /\ r.note = 0
    BY <1>2 DEF LegacyRow
  <2>2. \A r \in db.rows : r.doc = Shown(r.p)
    BY <1>4, <2>1 DEF Shown
  <2>3. \A p \in Periods : db.ver[p] = 0 /\ db.corr[p] = 0
    BY <1>2
  <2> QED
    BY <1>6, <2>1, <2>2, <2>3 DEF Informed, Of, Stored
<1> QED
  BY <1>1, <1>3, <1>8, <1>9, <1>10 DEF MissInv

\* A database nothing is written to, while the site goes on.
LEMMA InformedMoves ==
  ASSUME \A p \in Periods : Moves(p), now \in Nat,
         NEW d, Informed(d), NEW kept, NEW gone, Holds(d, now, kept, gone, Published)
  PROVE  Informed(d)'
<1> SUFFICES ASSUME NEW p \in Periods
             PROVE  /\ d.ver[p] <= d.corr[p] /\ d.corr[p] <= Notice(p)'
                    /\ \A r \in Of(d.rows, p) :
                         r.note <= Notice(p)' /\ (r.doc = Shown(p)' \/ r.fetched <= Last(hist'[p]).at)
                    /\ p \in Stored(d.rows) /\ d.ver[p] = Notice(p)' /\ Alone(p)' =>
                         \E r \in Of(d.rows, p) : r.doc = Shown(p)'
  BY DEF Informed
<1>1. Notice(p) \in Nat /\ Notice(p)' \in Nat /\ Notice(p) <= Notice(p)'
  BY DEF Moves
<1>2. /\ d.ver[p] \in Nat /\ d.corr[p] \in Nat
      /\ d.ver[p] <= d.corr[p] /\ d.corr[p] <= Notice(p)
  BY DEF Holds, Informed
<1>3. d.ver[p] <= d.corr[p] /\ d.corr[p] <= Notice(p)'
  BY <1>1, <1>2
<1>4. ASSUME NEW r \in Of(d.rows, p)
      PROVE  /\ r.note \in Nat /\ r.note <= Notice(p) /\ r.fetched \in Nat /\ r.fetched <= now
             /\ r.doc = Shown(p) \/ r.fetched <= Last(hist[p]).at
             /\ p \in Published
  <2>1. r \in d.rows /\ r.p = p /\ r \in Filing
    BY DEF Of, Holds
  <2>2. r.note \in Nat /\ r.fetched \in Times
    BY <2>1 DEF Filing
  <2> QED
    BY <2>1, <2>2, TimesAreNumbers DEF Holds, Informed
<1>5. CASE p \notin Published
  <2>1. Of(d.rows, p) = {} /\ p \notin Stored(d.rows)
    BY <1>4, <1>5 DEF Of, Stored
  <2> QED
    BY <1>3, <2>1
<1>6. CASE SameSite(p)
  BY <1>3, <1>4, <1>6 DEF SameSite, Informed
<1>7. CASE Replaced(p)
  <2>1. ASSUME NEW r \in Of(d.rows, p)
        PROVE  r.note <= Notice(p)' /\ r.fetched <= Last(hist'[p]).at
    BY <1>1, <1>4, <1>7 DEF Replaced
  <2>2. ~(d.ver[p] = Notice(p)' /\ Alone(p)')
    BY <1>1, <1>2, <1>7 DEF Replaced
  <2> QED
    BY <1>3, <2>1, <2>2
<1> QED
  BY <1>5, <1>6, <1>7 DEF Moves

\* A database with the filings and the notices of d, while the site stays.
LEMMA InformedStays ==
  ASSUME Site, UNCHANGED hist, NEW d, Informed(d),
         NEW e, e.rows = d.rows, e.corr = d.corr, e.ver = d.ver
  PROVE  Informed(e)'
<1>1. \A p \in Periods : SameSite(p)
  BY SiteStays
<1> QED
  BY <1>1 DEF Informed, SameSite

LEMMA CalendarStays ==
  ASSUME Calendar, UNCHANGED <<now, hist>>
  PROVE  Calendar'
BY DEF Calendar, Published

\* The end of a load that keeps the filings and notices of e.
LEMMA MissEnd ==
  ASSUME MissInv, AnswerInv', EndLoad, UNCHANGED <<now, hist>>, NEW e, Informed(e),
         db'.rows = e.rows, db'.corr = e.corr, db'.ver = e.ver
  PROVE  MissInv'
<1>1. Site /\ Calendar
  BY DEF MissInv, AnswerInv
<1>2. PICK f : f = db'
  OBVIOUS
<1>3. Informed(f)'
  BY <1>1, <1>2, InformedStays
<1>4. work' = db' /\ pc' = "idle" /\ seen' = [p \in Periods |-> None]
  BY DEF EndLoad
<1>5. Informed(db)' /\ Informed(work)'
  BY <1>2, <1>3, <1>4 DEF Informed
<1>6. Asking'
  BY <1>4 DEF Asking
<1> QED
  BY <1>1, <1>5, <1>6, CalendarStays DEF MissInv

\* What is beside a load.
LEMMA MissBeside ==
  ASSUME MissInv, AnswerInv', UNCHANGED <<db, load>>, \A p \in Periods : Moves(p), Calendar'
  PROVE  MissInv'
<1> USE DEF MissInv
<1>1. now \in Nat /\ Holds(db, now, originals, lost, Published)
  BY TimesAreNumbers DEF AnswerInv, Site
<1>2. Holds(work, now, originals, lost, Published)
  BY HoldsGrows, TimesAreNumbers DEF AnswerInv, Horizon, Loading, Site
<1>3. PICK d, e : d = db /\ e = work
  OBVIOUS
<1>4. Informed(d)' /\ Informed(e)'
  BY <1>1, <1>2, <1>3, InformedMoves
<1>5. d = db' /\ e = work'
  BY <1>3 DEF load
<1>6. Informed(db)' /\ Informed(work)'
  BY <1>4, <1>5 DEF Informed
<1>7. UNCHANGED <<pc, work, seen, cur, asked, held>>
  BY DEF load, request
<1>8. \A p \in Periods : seen'[p] = None \/ seen'[p] <= Notice(p)'
  <2> TAKE p \in Periods
  <2>1. seen[p] \in Nat \cup {None} /\ (seen[p] = None \/ seen[p] <= Notice(p))
    BY DEF AnswerInv, Loading, Asking
  <2>2. Notice(p) \in Nat /\ Notice(p)' \in Nat /\ Notice(p) <= Notice(p)'
    BY DEF Moves
  <2> QED
    BY <1>7, <2>1, <2>2
<1>9. ASSUME pc = "held"
      PROVE  /\ held = Shown(cur)' \/ asked <= Last(hist'[cur]).at
             /\ work.corr[cur] = Notice(cur)' /\ Alone(cur)' => held = Shown(cur)'
  <2>1. PICK p : p = cur
    OBVIOUS
  <2>2. /\ p \in Published /\ p \in Periods /\ asked <= now /\ asked \in Nat
        /\ work.corr[p] \in Nat /\ work.corr[p] <= Notice(p)
    BY <1>2, <1>9, <2>1, TimesAreNumbers DEF AnswerInv, Loading, Published, Holds, Informed
  <2>3. /\ held = Shown(p) \/ asked <= Last(hist[p]).at
        /\ work.corr[p] = Notice(p) /\ Alone(p) => held = Shown(p)
    BY <1>9, <2>1 DEF Asking
  <2>4. /\ held = Shown(p)' \/ asked <= Last(hist'[p]).at
        /\ work.corr[p] = Notice(p)' /\ Alone(p)' => held = Shown(p)'
    <3>1. CASE SameSite(p)
      BY <2>3, <3>1 DEF SameSite
    <3>2. CASE Replaced(p)
      <4>1. Notice(p) \in Nat /\ Notice(p)' \in Nat /\ Notice(p) <= Notice(p)'
        BY <2>2 DEF Moves
      <4>2. asked <= Last(hist'[p]).at
        BY <1>1, <2>2, <3>2 DEF Replaced
      <4>3. ~(work.corr[p] = Notice(p)' /\ Alone(p)')
        BY <2>2, <3>2, <4>1 DEF Replaced
      <4> QED
        BY <4>2, <4>3
    <3> QED
      BY <2>2, <3>1, <3>2 DEF Moves
  <2>5. cur' = p
    BY <1>7, <2>1
  <2> QED
    BY <1>7, <2>1, <2>4, <2>5 DEF Notice, Shown, Alone, SameDay
<1>10. Asking'
  BY <1>7, <1>8, <1>9 DEF Asking
<1> QED
  BY <1>6, <1>10

\* A load begins: the notices merged into its catalog are the latest.
LEMMA MissBegin ==
  ASSUME MissInv, AnswerInv', NEW S, NEW B, Begin(S, B)
  PROVE  MissInv'
<1> USE DEF MissInv
<1> DEFINE rows == Visible(db.rows, now)
           local == IF rows = {} THEN db ELSE WithBundle(db, rows)
           news == [p \in Periods |-> IF p \in S THEN Notice(p) ELSE None]
           corr == Merged(local.corr, news)
<1>1. /\ IsDatabase(local) /\ local.rows = db.rows /\ local.corr = db.corr /\ local.ver = db.ver
  BY BundleKeepsRows DEF AnswerInv, PastInv
<1>2. /\ work' = [local EXCEPT !.corr = corr] /\ seen' = news
      /\ pc' = "fetch" /\ UNCHANGED <<now, hist, db>>
  BY DEF Begin, site, disk
<1>3. news \in [Periods -> Nat \cup {None}] /\ db.corr \in [Periods -> Nat]
  BY NoticeType DEF AnswerInv, Holds
<1>4. \A p \in Periods : news[p] = None \/ news[p] = Notice(p)
  OBVIOUS
<1> HIDE DEF news
<1>5. \A p \in Periods : corr[p] \in {db.corr[p], news[p]} \ {None} /\ db.corr[p] <= corr[p]
                         /\ corr[p] \in Nat
  BY <1>1, <1>3, MergedType
<1> HIDE DEF corr, local
<1>6. work'.rows = db.rows /\ work'.corr = corr /\ work'.ver = db.ver
  BY <1>1, <1>2 DEF IsDatabase
<1>7. \A p \in Periods : SameSite(p) /\ Notice(p) \in Nat
  BY <1>2, SiteStays, NoticeType DEF AnswerInv
<1>8. Informed(work)'
  <2>1. ASSUME NEW p \in Periods
        PROVE  db.ver[p] <= corr[p] /\ corr[p] <= Notice(p)'
    <3>1. db.ver[p] \in Nat /\ db.corr[p] \in Nat /\ db.ver[p] <= db.corr[p]
          /\ db.corr[p] <= Notice(p)
      BY DEF AnswerInv, Holds, Informed
    <3>2. corr[p] <= Notice(p)
      BY <1>4, <1>5, <1>7, <3>1
    <3> QED
      BY <1>5, <1>7, <3>1, <3>2 DEF SameSite
  <2> QED
    BY <1>6, <1>7, <2>1 DEF Informed, SameSite
<1>9. Informed(db)'
  <2>1. PICK d : d = db
    OBVIOUS
  <2>2. Informed(d)'
    BY <1>2, <2>1, InformedStays DEF AnswerInv
  <2> QED
    BY <1>2, <2>1, <2>2 DEF Informed
<1>10. Asking'
  BY <1>2, <1>4, <1>7 DEF Asking, SameSite
<1> QED
  BY <1>2, <1>8, <1>9, <1>10, CalendarStays

\* The request, its response, and the look at the notices.
LEMMA MissAsk ==
  ASSUME MissInv, AnswerInv', (\E p \in Periods : Request(p)) \/ Response \/ LookUp
  PROVE  MissInv'
<1> USE DEF MissInv
<1>1. UNCHANGED <<now, hist, db, work>>
  BY DEF Request, Response, LookUp, site, disk
<1>2. \A p \in Periods : SameSite(p) /\ Notice(p) \in Nat
  BY <1>1, SiteStays, NoticeType DEF AnswerInv
<1>3. Informed(db)' /\ Informed(work)'
  <2>1. PICK d, e : d = db /\ e = work
    OBVIOUS
  <2>2. Informed(d)' /\ Informed(e)'
    BY <1>1, <2>1, InformedStays DEF AnswerInv
  <2> QED
    BY <1>1, <2>1, <2>2 DEF Informed
<1>4. Asking'
  <2>1. CASE \E p \in Periods : Request(p)
    BY <1>2, <2>1 DEF Request, Asking, SameSite
  <2>2. CASE Response
    <3>1. pc' = "held" /\ held' = Shown(cur) /\ UNCHANGED <<seen, cur>> /\ cur \in Periods
      BY <2>2 DEF Response, AnswerInv, Loading, Published
    <3>2. held' = Shown(cur)'
      BY <1>1, <3>1 DEF Shown
    <3> QED
      BY <1>2, <3>1, <3>2 DEF Asking, SameSite
  <2>3. CASE LookUp
    <3>1. /\ pc = "held" /\ seen' = [seen EXCEPT ![cur] = Notice(cur)]
          /\ UNCHANGED <<pc, cur, asked, held>> /\ cur \in Periods
          /\ seen \in [Periods -> Nat \cup {None}]
      BY <2>3 DEF LookUp, request, AnswerInv, Loading, Published
    <3>2. \A p \in Periods : seen'[p] = None \/ seen'[p] <= Notice(p)'
      BY <1>2, <3>1 DEF Asking, SameSite
    <3>3. /\ held' = Shown(cur)' \/ asked' <= Last(hist'[cur']).at
          /\ work'.corr[cur'] = Notice(cur)' /\ Alone(cur)' => held' = Shown(cur)'
      BY <1>1, <3>1 DEF Asking, Notice, Shown, Alone, SameDay
    <3> QED
      BY <3>2, <3>3 DEF Asking
  <2> QED
    BY <2>1, <2>2, <2>3
<1> QED
  BY <1>1, <1>3, <1>4, CalendarStays

\* A filing with the document held is acknowledged: if the notice is the latest
\* and alone on its day, that document is the one shown.
LEMMA MissAcknowledge ==
  ASSUME MissInv, AnswerInv', pc = "held", UNCHANGED <<now, hist, db, seen>>,
         NEW d, IsDatabase(d), d.corr = work.corr, d.ver = work.ver, Informed(d),
         NEW row \in Of(d.rows, cur), row.doc = held, Acknowledge(d, row)
  PROVE  MissInv'
<1> USE DEF MissInv
<1>1. /\ work'.rows = d.rows /\ work'.corr = d.corr
      /\ work'.ver = [d.ver EXCEPT ![cur] = d.corr[cur]] /\ pc' = "fetch"
  BY AcknowledgedRows DEF Acknowledge
<1>2. \A p \in Periods : SameSite(p) /\ Notice(p) \in Nat
  BY SiteStays, NoticeType DEF AnswerInv
<1>3. d.ver \in [Periods -> Nat] /\ d.corr \in [Periods -> Nat]
  BY DEF AnswerInv, Holds
<1>4. Informed(work)'
  <2>1. ASSUME NEW p \in Periods
        PROVE  /\ work'.ver[p] <= work'.corr[p] /\ work'.corr[p] <= Notice(p)
               /\ p \in Stored(d.rows) /\ work'.ver[p] = Notice(p) /\ Alone(p) =>
                    \E r \in Of(d.rows, p) : r.doc = Shown(p)
    <3>1. CASE p = cur
      <4>1. work'.ver[p] = d.corr[p] /\ d.corr[p] \in Nat
        BY <1>1, <1>3, <3>1
      <4>2. d.corr[p] = Notice(p) /\ Alone(p) => held = Shown(p)
        BY <3>1 DEF Asking
      <4> QED
        BY <1>1, <3>1, <4>1, <4>2 DEF Informed
    <3>2. CASE p # cur
      <4>1. work'.ver[p] = d.ver[p]
        BY <1>1, <1>3, <3>2
      <4> QED
        BY <1>1, <4>1 DEF Informed
    <3> QED
      BY <3>1, <3>2
  <2> QED
    BY <1>1, <1>2, <2>1 DEF Informed, SameSite
<1>5. Informed(db)'
  <2>1. PICK e : e = db
    OBVIOUS
  <2>2. Informed(e)'
    BY <2>1, InformedStays DEF AnswerInv
  <2> QED
    BY <2>1, <2>2 DEF Informed
<1>6. Asking'
  BY <1>1, <1>2 DEF Asking, SameSite
<1> QED
  BY <1>4, <1>5, <1>6, CalendarStays

LEMMA MissVerify ==
  ASSUME MissInv, AnswerInv', Verify
  PROVE  MissInv'
<1> USE DEF MissInv
<1>1. PICK old \in Of(work.rows, cur) :
        /\ old.doc = held
        /\ IF old.src = "observed" THEN Acknowledge(work, old)
           ELSE Acknowledge([work EXCEPT !.rows = (@ \ {old}) \cup {Confirmed(old)},
                                         !.active = <<>>], Confirmed(old))
  BY DEF Verify
<1>2. pc = "held" /\ UNCHANGED <<now, hist, db, seen>> /\ IsDatabase(work)
  BY DEF Verify, site, disk, AnswerInv, PastInv
<1>3. CASE old.src = "observed"
  <2>1. PICK d : d = work
    OBVIOUS
  <2> QED
    BY <1>1, <1>2, <1>3, <2>1, MissAcknowledge
<1>4. CASE old.src # "observed"
  <2> DEFINE new == Confirmed(old)
             rows == (work.rows \ {old}) \cup {new}
             e == [work EXCEPT !.rows = rows, !.active = <<>>]
  <2>1. old \in work.rows /\ old.p = cur /\ old \in Filing
    BY DEF Of, AnswerInv, Holds
  <2>2. /\ new.p = old.p /\ new.doc = old.doc /\ new.fetched = old.fetched
        /\ new.note = old.note /\ new.avail = old.fetched /\ new.src = "observed"
        /\ IsRow(new)
    <3>1. new \in [p : {old.p}, doc : {old.doc}, rev : {old.rev}, avail : {old.fetched},
                   fetched : {old.fetched}, src : {"observed"}, note : {old.note}]
      BY <2>1 DEF Confirmed, Filing
    <3>2. old.fetched \in Int
      BY <1>2, <2>1 DEF IsDatabase, IsRow
    <3> HIDE DEF new
    <3> QED
      BY <3>1, <3>2 DEF IsRow, Sources
  <2>3. Acknowledge(e, new)
    BY <1>1, <1>4
  <2> HIDE DEF new
  <2>4. /\ IsDatabase(e) /\ e.rows = rows /\ e.corr = work.corr /\ e.ver = work.ver
    BY <1>2, <2>2 DEF IsDatabase, IsRow
  <2>5. new \in Of(e.rows, cur) /\ new.doc = held
    BY <1>1, <2>1, <2>2, <2>4 DEF Of
  <2> HIDE DEF e
  <2>6. Informed(e)
    <3>1. ASSUME NEW p \in Periods, NEW r \in Of(e.rows, p)
          PROVE  \E q \in Of(work.rows, p) : r.note = q.note /\ r.doc = q.doc /\ r.fetched = q.fetched
      BY <2>1, <2>2, <2>4 DEF Of
    <3>2. ASSUME NEW p \in Periods, NEW q \in Of(work.rows, p)
          PROVE  \E r \in Of(e.rows, p) : r.doc = q.doc
      <4>1. CASE q = old
        <5>1. new \in Of(e.rows, p)
          BY <2>2, <2>4, <4>1 DEF Of
        <5> QED
          BY <2>2, <4>1, <5>1
      <4>2. CASE q # old
        <5>1. q \in Of(e.rows, p)
          BY <2>4, <4>2 DEF Of
        <5> QED
          BY <5>1
      <4> QED
        BY <4>1, <4>2
    <3>3. ASSUME NEW p \in Periods
          PROVE  \A r \in Of(e.rows, p) :
                   r.note <= Notice(p) /\ (r.doc = Shown(p) \/ r.fetched <= Last(hist[p]).at)
      BY <3>1 DEF Informed
    <3>4. ASSUME NEW p \in Periods, p \in Stored(e.rows), e.ver[p] = Notice(p), Alone(p)
          PROVE  \E r \in Of(e.rows, p) : r.doc = Shown(p)
      <4>1. p \in Stored(work.rows)
        BY <3>1, <3>4 DEF Stored, Of
      <4>2. PICK q \in Of(work.rows, p) : q.doc = Shown(p)
        BY <2>4, <3>4, <4>1 DEF Informed
      <4> QED
        BY <3>2, <4>2
    <3> QED
      BY <2>4, <3>3, <3>4 DEF Informed
  <2>7. PICK d : d = e
    OBVIOUS
  <2>8. PICK row : row = new
    OBVIOUS
  <2> QED
    BY <1>2, <2>3, <2>4, <2>5, <2>6, <2>7, <2>8, MissAcknowledge
<1> QED
  BY <1>3, <1>4

LEMMA MissSave ==
  ASSUME MissInv, AnswerInv', SaveRevision
  PROVE  MissInv'
<1> USE DEF MissInv
<1>1. /\ pc = "held" /\ seen[cur] # None /\ UNCHANGED <<now, hist, db, seen>>
      /\ IsDatabase(work) /\ cur \in Periods
  BY DEF SaveRevision, site, AnswerInv, PastInv, Loading, Published
<1>2. CASE \E row \in Of(work.rows, cur) : row.doc = held /\ Acknowledge(work, row)
  <2>1. PICK d : d = work
    OBVIOUS
  <2> QED
    BY <1>1, <1>2, <2>1, MissAcknowledge
<1>3. CASE Acknowledge([work EXCEPT !.rows = @ \cup {NewRow}, !.active = <<>>], NewRow)
  <2> DEFINE new == NewRow
             rows == work.rows \cup {new}
             e == [work EXCEPT !.rows = rows, !.active = <<>>]
  <2>1. /\ new.p = cur /\ new.doc = held /\ new.fetched = asked /\ new.note = seen[cur]
        /\ IsRow(new)
    BY <1>1 DEF NewRow, IsRow, Sources, AnswerInv, PastInv, Clocks
  <2>2. Acknowledge(e, new)
    BY <1>3
  <2> HIDE DEF new
  <2>3. /\ IsDatabase(e) /\ e.rows = rows /\ e.corr = work.corr /\ e.ver = work.ver
    BY <1>1, <2>1 DEF IsDatabase, IsRow
  <2>4. new \in Of(e.rows, cur) /\ new.doc = held
    BY <2>1, <2>3 DEF Of
  <2> HIDE DEF e
  <2>5. Informed(e)
    <3>1. ASSUME NEW p \in Periods, NEW r \in Of(e.rows, p)
          PROVE  r.note <= Notice(p) /\ (r.doc = Shown(p) \/ r.fetched <= Last(hist[p]).at)
      <4>1. CASE r = new
        BY <1>1, <2>1, <4>1 DEF Of, Asking
      <4>2. CASE r # new
        BY <2>3, <4>2 DEF Of, Informed
      <4> QED
        BY <4>1, <4>2
    <3>2. ASSUME NEW p \in Periods, p \in Stored(e.rows), e.ver[p] = Notice(p), Alone(p)
          PROVE  \E r \in Of(e.rows, p) : r.doc = Shown(p)
      <4>1. CASE p = cur
        <5>1. work.ver[p] \in Nat /\ work.corr[p] \in Nat /\ Notice(p) \in Nat
              /\ work.ver[p] <= work.corr[p] /\ work.corr[p] <= Notice(p)
          BY NoticeType DEF AnswerInv, Holds, Informed
        <5>2. work.corr[p] = Notice(p)
          BY <2>3, <3>2, <5>1
        <5>3. held = Shown(p)
          BY <1>1, <3>2, <4>1, <5>2 DEF Asking
        <5> QED
          BY <2>4, <4>1, <5>3
      <4>2. CASE p # cur
        <5>1. Of(e.rows, p) = Of(work.rows, p)
          BY <2>1, <2>3, <4>2 DEF Of
        <5>2. p \in Stored(work.rows)
          BY <2>1, <2>3, <3>2, <4>2 DEF Stored
        <5> QED
          BY <2>3, <3>2, <5>1, <5>2 DEF Informed
      <4> QED
        BY <4>1, <4>2
    <3> QED
      BY <2>3, <3>1, <3>2 DEF Informed
  <2>6. PICK d : d = e
    OBVIOUS
  <2>7. PICK row : row = new
    OBVIOUS
  <2> QED
    BY <1>1, <2>2, <2>3, <2>4, <2>5, <2>6, <2>7, MissAcknowledge
<1> QED
  BY <1>2, <1>3 DEF SaveRevision

LEMMA CommittedKnows ==
  ASSUME PastInv, NEW t, db' = work \/ CommitWith(t)
  PROVE  db'.rows = work.rows /\ db'.corr = work.corr /\ db'.ver = work.ver
<1>1. CASE CommitWith(t)
  <2>1. db' = work \/ db' = WithBundle(work, Visible(work.rows, t))
    BY <1>1 DEF CommitWith
  <2>2. /\ WithBundle(work, Visible(work.rows, t)).rows = work.rows
        /\ WithBundle(work, Visible(work.rows, t)).corr = work.corr
        /\ WithBundle(work, Visible(work.rows, t)).ver = work.ver
    BY BundleKeepsRows DEF PastInv
  <2> QED
    BY <2>1, <2>2
<1> QED
  BY <1>1

\* The site publishes and corrects, and the clock goes on.
LEMMA WorldMoves ==
  ASSUME MissInv, World
  PROVE  (\A p \in Periods : Moves(p)) /\ Calendar' /\ UNCHANGED <<db, load>>
<1> USE DEF MissInv
<1>1. Site /\ now \in Nat
  BY TimesAreNumbers DEF AnswerInv, Site
<1>2. UNCHANGED <<db, load>>
  BY DEF World, Publish, Correct, Tick, LoseOriginal, FindOriginal, Deploy, disk
<1>3. CASE \E p \in Periods, doc \in Docs : Publish(p, doc) \/ Correct(p, doc)
  <2>1. PICK p \in Periods, doc \in Docs : Publish(p, doc) \/ Correct(p, doc)
    BY <1>3
  <2>2. /\ now' = now /\ DOMAIN hist = Periods
        /\ \A q \in Periods \ {p} : hist'[q] = hist[q]
    BY <1>1, <2>1 DEF Publish, Correct, Site
  <2>3. ASSUME NEW q \in Periods \ {p} PROVE Moves(q) /\ (q \in Published' <=> q \in Published)
    <3>1. hist'[q] = hist[q] /\ q \in Periods
      BY <2>2
    <3>2. SameSite(q) /\ (q \in Published' <=> q \in Published)
      BY <3>1 DEF SameSite, Notice, Shown, Alone, SameDay, Published
    <3> QED
      BY <1>1, <3>1, <3>2, NoticeType DEF Moves, SameSite
  <2>4. CASE Publish(p, doc)
    <3> DEFINE e == [doc |-> doc, at |-> now]
    <3>1. hist[p] = <<>> /\ hist'[p] = <<e>> /\ e.at = now
      BY <1>1, <2>4 DEF Publish, Site
    <3> HIDE DEF e
    <3>2. Len(hist[p]) = 0 /\ Len(hist'[p]) = 1 /\ Last(hist'[p]) = e
      BY <3>1 DEF Last
    <3>3. Notice(p) = 0 /\ Notice(p)' = 0
      BY <3>2 DEF Notice
    <3>4. Moves(p)
      BY <3>1, <3>3 DEF Moves, Published
    <3>5. Calendar'
      <4>1. Last(hist'[p]).at <= now' /\ ~(Len(hist'[p]) > 1)
        BY <1>1, <2>2, <3>1, <3>2
      <4> QED
        BY <2>2, <2>3, <4>1 DEF Calendar, Published
    <3> QED
      BY <1>2, <2>3, <3>4, <3>5
  <2>5. CASE Correct(p, doc)
    <3>1. /\ Notice(p) \in Nat /\ Notice(p)' \in Nat /\ Notice(p) <= Notice(p)'
          /\ Replaced(p) /\ Last(hist'[p]).at = now
      BY <1>1, <2>5, CorrectMoves
    <3>2. p \in Published'
      <4> DEFINE e == [doc |-> doc, at |-> now]
                 S == [doc : Docs, at : Times]
      <4>1. e \in S /\ hist[p] \in Seq(S) /\ hist'[p] = Append(hist[p], e)
        BY <1>1, <2>5 DEF Correct, Site
      <4> HIDE DEF e, S
      <4>2. Len(Append(hist[p], e)) = Len(hist[p]) + 1 /\ Len(hist[p]) \in Nat
        BY <4>1
      <4>3. Append(hist[p], e) # <<>>
        BY <4>2
      <4> QED
        BY <4>1, <4>3 DEF Published
    <3>3. Moves(p)
      BY <3>1, <3>2 DEF Moves
    <3>4. Calendar'
      BY <1>1, <2>2, <2>3, <3>1 DEF Calendar, Published
    <3> QED
      BY <1>2, <2>3, <3>3, <3>4
  <2> QED
    BY <2>1, <2>4, <2>5
<1>4. CASE Tick
  <2>1. now' = now + 1 /\ UNCHANGED hist
    BY <1>4 DEF Tick
  <2>2. \A p \in Published : Last(hist[p]).at \in Nat /\ Last(hist[p]).at <= now
    BY <1>1, LastShown
  <2>3. \A p \in Published : Last(hist[p]).at <= now'
    BY <1>1, <2>1, <2>2
  <2>4. TicksPerDay <= now'
    BY <1>1, <2>1, TimesAreNumbers DEF Calendar
  <2>5. Calendar'
    BY <2>1, <2>3, <2>4 DEF Calendar, Published
  <2> QED
    BY <1>1, <1>2, <2>1, <2>5, SiteStays
<1>5. CASE (\E f \in Periods \X Docs : LoseOriginal(f) \/ FindOriginal(f)) \/ Deploy
  <2>1. UNCHANGED <<now, hist>>
    BY <1>5 DEF LoseOriginal, FindOriginal, Deploy, site
  <2> QED
    BY <1>1, <1>2, <2>1, SiteStays, CalendarStays
<1> QED
  BY <1>3, <1>4, <1>5 DEF World

LEMMA MissNext ==
  ASSUME MissInv, [Next]_vars
  PROVE  MissInv'
<1> USE DEF MissInv
<1>1. AnswerInv' /\ Site
  BY AnswerNext DEF AnswerInv
<1>2. CASE UNCHANGED <<db, load, now, hist>>
  BY <1>1, <1>2, SiteStays, CalendarStays, MissBeside
<1>3. CASE World
  BY <1>1, <1>3, WorldMoves, MissBeside
<1>4. CASE (\E t \in Times : Historical(t)) \/ Preload \/ UNCHANGED vars
  BY <1>2, <1>4 DEF Historical, Preload, vars, disk, site
<1>5. PICK d, e : d = db /\ e = work
  OBVIOUS
<1>6. CASE LoadLocally
  <2>1. /\ db' = WithBundle(db, Visible(db.rows, now)) /\ EndLoad /\ UNCHANGED <<now, hist>>
    BY <1>6 DEF LoadLocally, site
  <2>2. db'.rows = db.rows /\ db'.corr = db.corr /\ db'.ver = db.ver
    BY <2>1, BundleKeepsRows DEF AnswerInv, PastInv
  <2> QED
    BY <1>1, <1>5, <2>1, <2>2, MissEnd
<1>7. CASE \E S, B \in SUBSET Periods : Begin(S, B)
  BY <1>1, <1>7, MissBegin
<1>8. CASE (\E p \in Periods : Request(p)) \/ Response \/ LookUp
  BY <1>1, <1>8, MissAsk
<1>9. CASE Verify
  BY <1>1, <1>9, MissVerify
<1>10. CASE SaveRevision
  BY <1>1, <1>10, MissSave
<1>11. CASE Finish \/ RemoteFails
  <2>1. /\ EndLoad /\ UNCHANGED <<now, hist>>
        /\ \E t \in {signal, now} : db' = work \/ CommitWith(t)
    BY <1>11 DEF Finish, RemoteFails, site
  <2>2. db'.rows = work.rows /\ db'.corr = work.corr /\ db'.ver = work.ver
    BY <2>1, CommittedKnows DEF AnswerInv
  <2> QED
    BY <1>1, <1>5, <2>1, <2>2, MissEnd
<1>12. CASE Abort
  <2>1. EndLoad /\ db' = db /\ UNCHANGED <<now, hist>>
    BY <1>12 DEF Abort, site
  <2> QED
    BY <1>1, <1>5, <2>1, MissEnd
<1> QED
  BY <1>3, <1>4, <1>6, <1>7, <1>8, <1>9, <1>10, <1>11, <1>12 DEF Next

---------------------------------------------------------------------------
(* The theorem                                                             *)

\* A notice that counts as answered without the document it announces has one of
\* three reasons: an earlier document came back (save_revision does not store it
\* again), it was the second of its day (notices are dated by the day), or it
\* came between the request and the look at the notices (latest_correction).
THEOREM MissesAreKnown ==
  Spec => []OnlyKnownMisses
<1>1. MissInv => OnlyKnownMisses
  <2> SUFFICES ASSUME MissInv, NEW p \in Published, Missed(p), Alone(p)
               PROVE  \/ \E r \in Of(db.rows, p) : r.doc = Shown(p)
                      \/ /\ Latest(db.rows, p).note = Notice(p)
                         /\ Latest(db.rows, p).fetched <= Last(hist[p]).at
    BY DEF OnlyKnownMisses, Alone
  <2> DEFINE last == Latest(db.rows, p)
             acked == db.ver[p]
             note == last.note
  <2>1. p \in Periods /\ Notice(p) \in Nat
    BY NoticeType DEF Published, MissInv, AnswerInv
  <2>2. last \in Of(db.rows, p) /\ p \in Stored(db.rows)
    BY LatestExists DEF Missed, MissInv, AnswerInv, Holds
  <2>3. last \in Filing
    BY <2>2 DEF Of, MissInv, AnswerInv, Holds
  <2>4. note \in Nat /\ acked \in Nat /\ db.corr[p] \in Nat
    BY <2>1, <2>3 DEF Filing, MissInv, AnswerInv, Holds
  <2>5. /\ acked <= db.corr[p] /\ db.corr[p] <= Notice(p)
        /\ note <= Notice(p) /\ (last.doc = Shown(p) \/ last.fetched <= Last(hist[p]).at)
    BY <2>1, <2>2 DEF MissInv, Informed
  <2>6. last.doc # Shown(p) /\ Max({acked, note}) >= Notice(p)
    BY DEF Missed, Answered
  <2> HIDE DEF acked, note
  <2>7. Max({acked, note}) \in {acked, note}
    <3>1. acked \in Int /\ note \in Int
      BY <2>4
    <3> QED
      BY <3>1, LargerOfTwo
  <2>8. acked = Notice(p) \/ note = Notice(p)
    BY <2>1, <2>4, <2>5, <2>6, <2>7
  <2>9. CASE acked = Notice(p)
    BY <2>1, <2>2, <2>9 DEF MissInv, Informed, acked
  <2>10. CASE note = Notice(p)
    BY <2>5, <2>6, <2>10 DEF note
  <2> QED
    BY <2>8, <2>9, <2>10
<1> QED
  BY MissInit, MissNext, <1>1, PTL DEF Spec
=============================================================================
