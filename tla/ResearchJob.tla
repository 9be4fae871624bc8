---------------------------- MODULE ResearchJob ----------------------------
(***************************************************************************)
(* The offline research archive of infrastructure/research_job.py: one     *)
(* pinned dataset, one directory of write-once daily artifacts, and one    *)
(* SQLite index that can be rebuilt from them.                             *)
(*                                                                         *)
(*   days/DAY/request.json   the inputs of the day                         *)
(*   days/DAY/intent.json    the predecessor state the day builds on       *)
(*   state.sqlite3           the session row (the native commit)           *)
(*   days/DAY/delta.json     the published row, chained to its predecessor *)
(*   days/DAY/complete.json  the receipt, written last                     *)
(*                                                                         *)
(* ResearchJob.run_day is cut at every point where the process may die or  *)
(* an exception may escape; each cut is a value of pc, and the action at   *)
(* that pc is the code up to the next cut.  An advisory lock on the root   *)
(* (LOCK_EX, LOCK_NB) admits one process at a time, so the model has one.  *)
(*                                                                         *)
(* SHA-256 digests are injective here: the digest of a request is the      *)
(* request, and the digest chain of a state (previous_state_id + row) is   *)
(* the sequence of rows it commits to.  A session row stands for itself    *)
(* and its PAE observations, inserted by the same transaction and checked  *)
(* against the row's result.  The engine is deterministic, so a result is  *)
(* named by the request it was computed from; `prev' is the result hash of *)
(* the predecessor that the result embeds (pae_state).                     *)
(***************************************************************************)
EXTENDS Integers, Sequences, FiniteSets, FiniteSetsExt

CONSTANTS
  DayCount,     \* the trading days a request may close at are numbered from 1
  Inputs,       \* account and window variants of a request
  Versions,     \* pinned source, parameter and environment versions
  Replays,      \* replay_id and universe: the rest of a job's identity
  CallDays,     \* the days callers ask for
  Snapshots,    \* v1 states that may be imported: sequences of rows
  None,         \* an absent file or value
  CrashPoints,  \* values of pc at which the process may be killed
  RaisePoints,  \* values of pc at which an exception may escape run_day
  MaxFaults,    \* bound on kills and escaped exceptions
  MaxDrifts,    \* bound on changes of the source tree
  MaxLosses     \* bound on deletions of the SQLite index

\* The cuts of run_day, _recover and export_bundle, in the order of the code.
Points == {"recoverBase", "recoverJob", "recoverScan", "recoverIndex",
           "admit", "folder", "request", "intent", "mark", "begin", "result",
           "commit", "delta", "objects", "receipt", "return", "export"}

Days == 1..DayCount
Doc == [day : Days, inp : Inputs, ver : Versions, replay : Replays]
Row == [doc : Doc, prev : Doc \cup {None}]
StateId == Seq(Row)
Delta == [prev : StateId, row : Row]
Intent == [doc : Doc, prev : StateId]
Receipt == [doc : Doc, prev : StateId, post : StateId, assets : Versions]
Identity == [ver : Versions, replay : Replays]
Base == [id : Identity, rows : StateId]
Manifest == [id : Identity, assets : Versions]

DaysAssumption == DayCount \in Nat /\ CallDays \subseteq Days
NoneAssumption ==
  /\ None \notin Doc
  /\ None \notin Delta
  /\ None \notin Intent
  /\ None \notin Receipt
  /\ None \notin Base
  /\ None \notin Manifest
  /\ None \notin Identity
  /\ None \notin Versions
PointAssumption == CrashPoints \subseteq Points /\ RaisePoints \subseteq Points
\* A v1 snapshot is a SELECT ... ORDER BY as_of under the key (replay_id, as_of).
SnapshotAssumption ==
  \A rows \in Snapshots :
    /\ rows \in StateId
    /\ \A i, j \in 1..Len(rows) : i < j => rows[i].doc.day < rows[j].doc.day
BoundAssumption == MaxFaults \in Nat /\ MaxDrifts \in Nat /\ MaxLosses \in Nat

ASSUME DaysAssumed == DaysAssumption
ASSUME NoneAssumed == NoneAssumption
ASSUME PointsAssumed == PointAssumption
ASSUME SnapshotsAssumed == SnapshotAssumption
ASSUME BoundsAssumed == BoundAssumption

VARIABLES
  base,        \* base.json: the identity and the imported rows
  manifest,    \* job.json: the identity and the version objects
  folder,      \* days/DAY for every day
  index,       \* state.sqlite3: absent, clean, or with a hot journal
  objects,     \* the content-addressed object store
  pc,          \* where the process is; "down" when none holds the lock
  call,        \* the operation and request being served
  pin,         \* the version pinned when the job was opened
  drifted,     \* the source changed since then
  recovered,   \* ResearchJob._recovered
  pending,     \* ResearchJob.pending (0 for None)
  head,        \* ResearchJob.head
  latest,      \* ResearchJob.latest (0 for None)
  template,    \* the identity in ResearchJob.request_template
  previous,    \* the local of run_day
  codeVersion, \* the version of the source tree on disk
  budget,      \* faults, drifts and losses still allowed
  acked,       \* history: the receipts returned to callers
  exported     \* history: the chains written to portable bundles

disk == <<base, manifest, folder, index, objects>>
process == <<pc, call, pin, drifted, recovered, pending, head, latest,
             template, previous>>
vars == <<disk, process, codeVersion, budget, acked, exported>>

IdentityOf(doc) == [ver |-> doc.ver, replay |-> doc.replay]
NoCall == [op |-> "none", doc |-> None, pred |-> None]
EmptyFolder == [made |-> FALSE, request |-> None, intent |-> None,
                delta |-> None, receipt |-> None]

(***************************************************************************)
(* Reading the archive.                                                    *)
(***************************************************************************)
LastDoc(rows) == IF rows = <<>> THEN None ELSE rows[Len(rows)].doc
LastDay(rows) == IF rows = <<>> THEN 0 ELSE rows[Len(rows)].doc.day
NextRow(rows, doc) == [doc |-> doc, prev |-> LastDoc(rows)]
Post(delta) == Append(delta.prev, delta.row)

Started == {d \in Days : folder[d].made}
Published == {d \in Days : folder[d].delta # None}
Completed == {d \in Days : folder[d].receipt # None}
BaseRows == IF base = None THEN <<>> ELSE base.rows

\* The state that the deltas of earlier days lead to.
StateBefore(d) ==
  LET earlier == {e \in Published : e < d}
  IN IF earlier = {} THEN BaseRows ELSE Post(folder[Max(earlier)].delta)

\* The whole published chain, which is also its state identifier.
Chain == IF Published = {} THEN BaseRows ELSE Post(folder[Max(Published)].delta)

References(receipt, delta) ==
  {<<"assets", receipt.assets>>, <<"request", receipt.doc>>,
   <<"result", delta.row.doc>>, <<"coverage", receipt.doc>>,
   <<"delta", delta>>}

\* _read: a receipt agrees with its delta, its request, the version objects
\* of the reading job and the object store.
ReadOK(d, assets) ==
  LET f == folder[d]
  IN /\ f.receipt # None /\ f.delta # None /\ f.request # None
     /\ f.receipt.assets = assets
     /\ References(f.receipt, f.delta) \subseteq objects
     /\ f.receipt.post = Post(f.delta)
     /\ f.receipt.doc = f.request
     /\ f.delta.row.doc = f.request

\* validate_delta against the state the earlier days lead to.
DeltaOK(d) ==
  LET delta == folder[d].delta
      before == StateBefore(d)
  IN /\ delta.prev = before
     /\ delta.row.doc.day > LastDay(before)
     /\ delta.row = NextRow(before, folder[d].request)
     /\ <<"result", delta.row.doc>> \in objects

\* The loop of _recover over days/*, in day order.
ScanOK(identity, assets) ==
  /\ \A d \in Started : folder[d].request # None
  /\ \A d \in Started :
       /\ folder[d].request.day = d
       /\ IdentityOf(folder[d].request) = identity
       /\ (\E e \in Started : e > d) => folder[d].receipt # None
       /\ folder[d].receipt # None => folder[d].delta # None
       /\ folder[d].delta # None => DeltaOK(d)
       /\ folder[d].delta = None => d > LastDay(StateBefore(d))
       /\ folder[d].receipt # None => ReadOK(d, assets)

\* The comparison of the SQLite rows with the chain at the end of _recover:
\* exactly one native commit may precede its delta, and it must carry the
\* intent of its day.
PendingCommitOK ==
  LET row == index.rows[Len(index.rows)]
      intent == folder[row.doc.day].intent
  IN /\ Len(index.rows) = Len(Chain) + 1
     /\ SubSeq(index.rows, 1, Len(Chain)) = Chain
     /\ intent # None
     /\ intent.prev = Chain
     /\ intent.doc = row.doc
     /\ row = NextRow(Chain, folder[row.doc.day].request)
     /\ row.doc.day > LastDay(Chain)
     /\ <<"result", row.doc>> \in objects

IndexOK ==
  \/ index.state = "absent"
  \/ index.state = "clean" /\ (index.rows = Chain \/ PendingCommitOK)

PendingDay ==
  LET open == {d \in Started : folder[d].receipt = None}
  IN IF open = {} THEN 0 ELSE Max(open)

(***************************************************************************)
(* Opening, importing and closing.                                         *)
(***************************************************************************)
\* Mutant: latest is cleared to None where the code compares dates.
ForgetLatest ==
  /\ recovered' = FALSE /\ pending' = 0 /\ head' = <<>> /\ latest' = None
  /\ template' = None /\ previous' = <<>> /\ call' = NoCall

Forget ==
  /\ recovered' = FALSE /\ pending' = 0 /\ head' = <<>> /\ latest' = 0
  /\ template' = None /\ previous' = <<>> /\ call' = NoCall

Init ==
  /\ base = None /\ manifest = None
  /\ folder = [d \in Days |-> EmptyFolder]
  /\ index = [state |-> "absent", rows |-> <<>>]
  /\ objects = {}
  /\ pc = "down" /\ call = NoCall /\ pin = None /\ drifted = FALSE
  /\ recovered = FALSE /\ pending = 0 /\ head = <<>> /\ latest = 0
  /\ template = None /\ previous = <<>>
  /\ codeVersion \in Versions
  /\ budget = [faults |-> MaxFaults, drifts |-> MaxDrifts, losses |-> MaxLosses]
  /\ acked = {} /\ exported = {}

\* __init__: take the lock, pin the version, retain the version objects.
Open ==
  /\ pc = "down"
  /\ pc' = "idle" /\ pin' = codeVersion /\ drifted' = FALSE
  /\ objects' = objects \cup {<<"assets", codeVersion>>}
  /\ Forget
  /\ UNCHANGED <<base, manifest, folder, index, codeVersion, budget, acked, exported>>

Close ==
  /\ pc = "idle"
  /\ pc' = "down" /\ pin' = None /\ drifted' = FALSE
  /\ Forget
  /\ UNCHANGED <<disk, codeVersion, budget, acked, exported>>

\* initialize_from_snapshot: an explicit predecessor for an empty archive.
ImportSnapshot(rows, doc) ==
  /\ pc = "idle" /\ ~drifted /\ doc.ver = pin
  /\ ~recovered /\ manifest = None
  /\ \A i \in 1..Len(rows) : rows[i].doc.day < doc.day
                             /\ IdentityOf(rows[i].doc) = IdentityOf(doc)
  /\ base = None
  /\ objects' = objects \cup {<<"result", rows[i].doc>> : i \in 1..Len(rows)}
  /\ base' = [id |-> IdentityOf(doc), rows |-> rows]
  /\ UNCHANGED <<manifest, folder, index, process, codeVersion, budget, acked, exported>>

(***************************************************************************)
(* run_day up to the recovery of the archive.  A call refused before the   *)
(* recovery changes nothing and is not a step.                             *)
(***************************************************************************)
RunDay(doc, pred) ==
  /\ pc = "idle" /\ ~drifted /\ doc.ver = pin
  /\ call' = [op |-> "run", doc |-> doc, pred |-> pred]
  /\ pc' = IF recovered THEN "admit" ELSE "recoverBase"
  /\ UNCHANGED <<disk, pin, drifted, recovered, pending, head, latest, template,
                 previous, codeVersion, budget, acked, exported>>

\* _verify_archive on behalf of export_bundle: the recovery is keyed by the
\* first request found under days/.
ExportBundle ==
  /\ pc = "idle" /\ ~drifted
  /\ Started # {}
  /\ LET first == folder[Min(Started)].request
     IN /\ first # None
        /\ call' = [op |-> "export", doc |-> first, pred |-> None]
  /\ pc' = IF recovered THEN "export" ELSE "recoverBase"
  /\ UNCHANGED <<disk, pin, drifted, recovered, pending, head, latest, template,
                 previous, codeVersion, budget, acked, exported>>

\* run_day leaves; its locals go with it.
Leave == pc' = "idle" /\ call' = NoCall /\ previous' = <<>>

\* An error raised to the caller: the job object stays open as it is.
Refuse ==
  /\ Leave
  /\ UNCHANGED <<disk, pin, drifted, recovered, pending, head, latest, template,
                 codeVersion, budget, acked, exported>>

Goto(next) ==
  /\ pc' = next
  /\ UNCHANGED <<call, pin, drifted, recovered, pending, head, latest, template, previous>>

(***************************************************************************)
(* _recover.                                                               *)
(***************************************************************************)
RecoverBase ==
  /\ pc = "recoverBase"
  /\ LET id == IdentityOf(call.doc)
     IN IF base # None /\ base.id # id
        THEN Refuse
        ELSE /\ base' = IF base = None THEN [id |-> id, rows |-> <<>>] ELSE base
             /\ Goto("recoverJob")
             /\ UNCHANGED <<manifest, folder, index, objects, codeVersion, budget,
                            acked, exported>>

RecoverJob ==
  /\ pc = "recoverJob"
  /\ LET job == [id |-> IdentityOf(call.doc), assets |-> pin]
     IN IF manifest \notin {None, job}
        THEN Refuse
        ELSE /\ manifest' = job
             /\ Goto("recoverScan")
             /\ UNCHANGED <<base, folder, index, objects, codeVersion, budget,
                            acked, exported>>

\* The assignments that end _recover, and the template set by its callers.
Recovered ==
  /\ recovered' = TRUE
  /\ pending' = PendingDay
  /\ head' = Chain /\ latest' = LastDay(Chain)
  /\ template' = IdentityOf(call.doc)
  /\ pc' = IF call.op = "run" THEN "admit" ELSE "export"
  /\ UNCHANGED <<call, pin, drifted, previous, base, manifest, folder, objects,
                 codeVersion, budget, acked, exported>>

RecoverScan ==
  /\ pc = "recoverScan"
  /\ \/ /\ ~ScanOK(IdentityOf(call.doc), pin) \/ ~IndexOK
        /\ Refuse
     \/ /\ ScanOK(IdentityOf(call.doc), pin) /\ index.state = "absent"
        /\ Goto("recoverIndex")
        /\ UNCHANGED <<disk, codeVersion, budget, acked, exported>>
     \/ /\ ScanOK(IdentityOf(call.doc), pin) /\ index.state = "clean" /\ IndexOK
        /\ Recovered
        /\ UNCHANGED index

\* restore_rows: the whole index is linked into place at once.
RecoverIndex ==
  /\ pc = "recoverIndex"
  /\ index' = [state |-> "clean", rows |-> Chain]
  /\ Recovered

(***************************************************************************)
(* run_day from the admission of the request to its receipt.               *)
(***************************************************************************)
\* Mutants: the identity of the second and later calls, or the pending day, is
\* not compared with the request.
AnyTemplate == TRUE
AnyPending == TRUE

SameTemplate == template = None \/ template = IdentityOf(call.doc)
PendingFirst == pending = 0 \/ pending = call.doc.day
InOrder == latest = 0 \/ call.doc.day >= latest
IntentOf(d) == IF folder[d].intent = None
               THEN [doc |-> call.doc, prev |-> head] ELSE folder[d].intent
ExpectedPredecessor(prev) == call.pred = None \/ call.pred = prev

\* Mutant: a completed day answers any request for its date.
AdmitCompleteAny ==
  LET d == call.doc.day
      receipt == folder[d].receipt
  IN /\ receipt # None /\ ReadOK(d, pin)
     /\ ExpectedPredecessor(receipt.prev)
     /\ head' = receipt.post /\ latest' = d /\ pending' = 0
     /\ acked' = acked \cup {[asked |-> call.doc, receipt |-> receipt]}
     /\ Leave
     /\ UNCHANGED <<disk, pin, drifted, recovered, codeVersion, budget, exported>>

\* Mutant: a completed day is returned without moving the head to it.
AdmitCompleteStale ==
  LET d == call.doc.day
      receipt == folder[d].receipt
  IN /\ receipt # None /\ ReadOK(d, pin)
     /\ receipt.doc = call.doc
     /\ ExpectedPredecessor(receipt.prev)
     /\ latest' = d /\ pending' = 0
     /\ acked' = acked \cup {[asked |-> call.doc, receipt |-> receipt]}
     /\ Leave
     /\ UNCHANGED <<disk, pin, drifted, recovered, head, codeVersion, budget, exported>>

\* The day is complete already: its receipt is read back and returned.
AdmitComplete ==
  LET d == call.doc.day
      receipt == folder[d].receipt
  IN /\ receipt # None /\ ReadOK(d, pin)
     /\ receipt.doc = call.doc
     /\ ExpectedPredecessor(receipt.prev)
     /\ head' = receipt.post /\ latest' = d /\ pending' = 0
     /\ acked' = acked \cup {[asked |-> call.doc, receipt |-> receipt]}
     /\ Leave
     /\ UNCHANGED <<disk, pin, drifted, recovered, codeVersion, budget, exported>>

\* The day is to be run, from its recorded intent if it has one.
AdmitFresh ==
  LET d == call.doc.day
  IN /\ folder[d].receipt = None
     /\ IntentOf(d).doc = call.doc
     /\ ExpectedPredecessor(IntentOf(d).prev)
     /\ previous' = IntentOf(d).prev
     /\ pc' = "folder"
     /\ UNCHANGED <<disk, call, pin, drifted, recovered, pending, head, latest,
                    codeVersion, budget, acked, exported>>

AdmitRefused ==
  LET d == call.doc.day
  IN /\ \/ ~PendingFirst
        \/ ~InOrder
        \/ folder[d].receipt # None
           /\ ~(ReadOK(d, pin) /\ folder[d].receipt.doc = call.doc
                /\ ExpectedPredecessor(folder[d].receipt.prev))
        \/ folder[d].receipt = None
           /\ ~(IntentOf(d).doc = call.doc /\ ExpectedPredecessor(IntentOf(d).prev))
     /\ Leave
     /\ UNCHANGED <<disk, pin, drifted, recovered, pending, head, latest,
                    codeVersion, budget, acked, exported>>

Admit ==
  /\ pc = "admit"
  /\ \/ SameTemplate /\ template' = IdentityOf(call.doc)
        /\ \/ PendingFirst /\ InOrder /\ (AdmitComplete \/ AdmitFresh)
           \/ AdmitRefused
     \/ ~SameTemplate /\ Refuse

(***************************************************************************)
(* write_once: an existing file is compared, never replaced.               *)
(***************************************************************************)
\* Mutant: os.replace instead of os.link.
WriteAlways(d, file, value, next) ==
  /\ folder' = [folder EXCEPT ![d][file] = value]
  /\ Goto(next)
  /\ UNCHANGED <<base, manifest, index, objects, codeVersion, budget, acked, exported>>

WriteOnce(d, file, value, next) ==
  IF folder[d][file] \notin {None, value}
  THEN Refuse
  ELSE /\ folder' = [folder EXCEPT ![d][file] = value]
       /\ Goto(next)
       /\ UNCHANGED <<base, manifest, index, objects, codeVersion, budget, acked,
                      exported>>

\* The first write under days/DAY makes the directory before it links the file.
MakeFolder ==
  /\ pc = "folder"
  /\ folder' = [folder EXCEPT ![call.doc.day].made = TRUE]
  /\ Goto("request")
  /\ UNCHANGED <<base, manifest, index, objects, codeVersion, budget, acked, exported>>

WriteRequest ==
  pc = "request" /\ WriteOnce(call.doc.day, "request", call.doc, "intent")

WriteIntent ==
  /\ pc = "intent"
  /\ WriteOnce(call.doc.day, "intent", [doc |-> call.doc, prev |-> previous], "mark")

\* self.pending = cutoff, between the intent and the engine.
MarkPending ==
  /\ pc = "mark"
  /\ pending' = call.doc.day
  /\ pc' = "begin"
  /\ UNCHANGED <<disk, call, pin, drifted, recovered, head, latest, template,
                 previous, codeVersion, budget, acked, exported>>

(***************************************************************************)
(* StrictReplayEngine.run_with_coverage in the session of the index.       *)
(***************************************************************************)
\* Mutant: the row of an interrupted day is not taken as its answer.
BeginSessionUncached ==
  /\ pc = "begin"
  /\ LET last == LastDay(index.rows)
         d == call.doc.day
     IN IF drifted \/ d < last \/ (d = last /\ LastDoc(index.rows) # call.doc)
        THEN Refuse
        ELSE /\ Goto("result")
             /\ UNCHANGED <<disk, codeVersion, budget, acked, exported>>

\* The latest row decides: a later request is evaluated, the same request is
\* answered from its row, anything else is refused.
BeginSession ==
  /\ pc = "begin"
  /\ LET last == LastDay(index.rows)
         d == call.doc.day
     IN IF drifted \/ d < last \/ (d = last /\ LastDoc(index.rows) # call.doc)
        THEN Refuse
        ELSE /\ Goto(IF d = last THEN "delta" ELSE "result")
             /\ UNCHANGED <<disk, codeVersion, budget, acked, exported>>

\* Mutant: the row is committed before the result object it names.
StoreResultLate ==
  /\ pc = "result"
  /\ IF drifted
     THEN Refuse
     ELSE /\ Goto("commit")
          /\ UNCHANGED <<disk, codeVersion, budget, acked, exported>>

\* The version is checked again, then the result object precedes its row.
StoreResult ==
  /\ pc = "result"
  /\ IF drifted
     THEN Refuse
     ELSE /\ objects' = objects \cup {<<"result", call.doc>>}
          /\ Goto("commit")
          /\ UNCHANGED <<base, manifest, folder, index, codeVersion, budget, acked,
                         exported>>

\* INSERT and COMMIT; the primary key (replay_id, as_of) admits a day once.
Commit ==
  /\ pc = "commit"
  /\ IF \E i \in 1..Len(index.rows) : index.rows[i].doc.day = call.doc.day
     THEN Refuse
     ELSE /\ index' = [index EXCEPT !.rows = Append(@, NextRow(@, call.doc))]
          /\ Goto("delta")
          /\ UNCHANGED <<base, manifest, folder, objects, codeVersion, budget, acked,
                         exported>>

(***************************************************************************)
(* Publication: delta, objects, receipt.                                   *)
(***************************************************************************)
CommittedRows == {i \in 1..Len(index.rows) : index.rows[i].doc = call.doc}

NewDelta == [prev |-> previous,
             row |-> index.rows[CHOOSE i \in CommittedRows : TRUE]]

WriteDelta ==
  /\ pc = "delta"
  /\ IF CommittedRows = {}
     THEN Refuse
     ELSE WriteOnce(call.doc.day, "delta", NewDelta, "objects")

\* Mutant: the coverage object is not stored before the receipt names it.
StoreObjectsPartly ==
  /\ pc = "objects"
  /\ objects' = objects \cup {<<"request", call.doc>>,
                              <<"delta", folder[call.doc.day].delta>>}
  /\ Goto("receipt")
  /\ UNCHANGED <<base, manifest, folder, index, codeVersion, budget, acked, exported>>

StoreObjects ==
  /\ pc = "objects"
  /\ objects' = objects \cup {<<"request", call.doc>>, <<"coverage", call.doc>>,
                              <<"delta", folder[call.doc.day].delta>>}
  /\ Goto("receipt")
  /\ UNCHANGED <<base, manifest, folder, index, codeVersion, budget, acked, exported>>

\* Mutant: the receipt names its predecessor state as its own.
NewReceiptUnmoved ==
  [doc |-> call.doc, prev |-> previous, post |-> previous, assets |-> pin]

NewReceipt ==
  [doc |-> call.doc, prev |-> previous, post |-> Post(folder[call.doc.day].delta),
   assets |-> pin]

WriteReceipt ==
  /\ pc = "receipt"
  /\ IF drifted THEN Refuse
     ELSE WriteOnce(call.doc.day, "receipt", NewReceipt, "return")

\* Mutant: the in-memory head stays behind the day just completed.
ReturnDayStale ==
  /\ pc = "return"
  /\ LET receipt == folder[call.doc.day].receipt
     IN /\ latest' = call.doc.day /\ pending' = 0
        /\ acked' = acked \cup {[asked |-> call.doc, receipt |-> receipt]}
  /\ Leave
  /\ UNCHANGED <<disk, pin, drifted, recovered, head, template, codeVersion, budget,
                 exported>>

ReturnDay ==
  /\ pc = "return"
  /\ LET receipt == folder[call.doc.day].receipt
     IN /\ head' = receipt.post /\ latest' = call.doc.day /\ pending' = 0
        /\ acked' = acked \cup {[asked |-> call.doc, receipt |-> receipt]}
  /\ Leave
  /\ UNCHANGED <<disk, pin, drifted, recovered, template, codeVersion, budget,
                 exported>>

\* Mutant: a pending day is exported with the others.
WriteBundleAnyway ==
  /\ pc = "export"
  /\ exported' = IF drifted THEN exported ELSE exported \cup {Chain}
  /\ Leave
  /\ UNCHANGED <<disk, pin, drifted, recovered, pending, head, latest, template,
                 codeVersion, budget, acked>>

\* export_bundle: only an archive without a pending day leaves as a bundle.
WriteBundle ==
  /\ pc = "export"
  /\ IF pending # 0 \/ drifted \/ \E d \in Started : ~ReadOK(d, pin)
     THEN UNCHANGED exported
     ELSE exported' = exported \cup {Chain}
  /\ Leave
  /\ UNCHANGED <<disk, pin, drifted, recovered, pending, head, latest, template,
                 codeVersion, budget, acked>>

(***************************************************************************)
(* Faults and the environment.                                             *)
(***************************************************************************)
\* The process is killed.  Killed inside a commit, SQLite may leave a hot
\* journal, which a read-only connection cannot roll back.
Crash ==
  /\ pc \in CrashPoints /\ budget.faults > 0
  /\ budget' = [budget EXCEPT !.faults = @ - 1]
  /\ pc' = "down" /\ pin' = None /\ drifted' = FALSE
  /\ Forget
  /\ \/ UNCHANGED index
     \/ pc = "commit" /\ index' = [index EXCEPT !.state = "hot"]
  /\ UNCHANGED <<base, manifest, folder, objects, codeVersion, acked, exported>>

\* An exception escapes run_day (a full disk, an evidence error); the open
\* transaction is rolled back and the caller keeps the job object.
Raise ==
  /\ pc \in RaisePoints /\ budget.faults > 0
  /\ budget' = [budget EXCEPT !.faults = @ - 1]
  /\ Leave
  /\ UNCHANGED <<disk, pin, drifted, recovered, pending, head, latest, template,
                 codeVersion, acked, exported>>

\* A source file, a parameter or the environment changes on disk.
SourceChange ==
  /\ budget.drifts > 0
  /\ budget' = [budget EXCEPT !.drifts = @ - 1]
  /\ codeVersion' \in Versions
  /\ drifted' = (pc # "down")
  /\ UNCHANGED <<disk, pc, call, pin, recovered, pending, head, latest, template,
                 previous, acked, exported>>

\* The index is removed between two runs: it is not part of a bundle.
LoseIndex ==
  /\ pc = "down" /\ budget.losses > 0
  /\ budget' = [budget EXCEPT !.losses = @ - 1]
  /\ index' = [state |-> "absent", rows |-> <<>>]
  /\ UNCHANGED <<base, manifest, folder, objects, process, codeVersion, acked, exported>>

Step ==
  \/ RecoverBase \/ RecoverJob \/ RecoverScan \/ RecoverIndex
  \/ Admit \/ MakeFolder \/ WriteRequest \/ WriteIntent \/ MarkPending
  \/ BeginSession \/ StoreResult \/ Commit
  \/ WriteDelta \/ StoreObjects \/ WriteReceipt \/ ReturnDay \/ WriteBundle

\* A caller may name the predecessor it expects: none, or the base state.
Call == \E doc \in {x \in Doc : x.day \in CallDays} :
          \E pred \in {None, BaseRows} : RunDay(doc, pred)

Environment ==
  \/ Open \/ Close \/ Call \/ ExportBundle
  \/ \E rows \in Snapshots : \E doc \in {x \in Doc : x.day \in CallDays} :
       ImportSnapshot(rows, doc)
  \/ Crash \/ Raise \/ SourceChange \/ LoseIndex

Next == Step \/ Environment

Spec == Init /\ [][Next]_vars


(***************************************************************************)
(* A caller that resumes where it stopped: the earliest day without a      *)
(* receipt is asked for again, with its request, until it has one.         *)
(***************************************************************************)
Resume ==
  LET open == CallDays \ Completed
  IN open # {} /\ RunDay(CHOOSE doc \in Doc : doc.day = Min(open), None)

ResumeNext == Step \/ Open \/ Resume \/ Crash \/ Raise \/ LoseIndex

ResumeSpec ==
  Init /\ [][ResumeNext]_vars /\ WF_vars(Step) /\ WF_vars(Open) /\ WF_vars(Resume)

-----------------------------------------------------------------------------
(***************************************************************************)
(* Properties.                                                             *)
(***************************************************************************)
Folder == [made : BOOLEAN, request : Doc \cup {None}, intent : Intent \cup {None},
           delta : Delta \cup {None}, receipt : Receipt \cup {None}]
CallType == [op : {"none", "run", "export"}, doc : Doc \cup {None},
             pred : StateId \cup {None}]

\* Type invariant.
TypeOK ==
  /\ base \in Base \cup {None}
  /\ manifest \in Manifest \cup {None}
  /\ folder \in [Days -> Folder]
  /\ index \in [state : {"absent", "clean", "hot"}, rows : StateId]
  /\ pc \in Points \cup {"down", "idle"}
  /\ call \in CallType
  /\ pin \in Versions \cup {None}
  /\ drifted \in BOOLEAN /\ recovered \in BOOLEAN
  /\ pending \in Days \cup {0} /\ latest \in Days \cup {0}
  /\ head \in StateId /\ previous \in StateId
  /\ template \in Identity \cup {None}
  /\ codeVersion \in Versions
  /\ budget \in [faults : Nat, drifts : Nat, losses : Nat]
  /\ acked \subseteq [asked : Doc, receipt : Receipt]
  /\ exported \subseteq StateId

\* A receipt is the last thing written: whenever complete.json exists, the
\* request, intent and delta it certifies exist and agree with it, and every
\* object it names is in the store, whatever was killed or retried before.
ReceiptLast ==
  \A d \in Completed :
    LET f == folder[d]
    IN /\ f.made /\ f.request = f.receipt.doc
       /\ f.intent = [doc |-> f.receipt.doc, prev |-> f.receipt.prev]
       /\ f.delta # None
       /\ f.delta.prev = f.receipt.prev
       /\ f.receipt.post = Post(f.delta)
       /\ References(f.receipt, f.delta) \subseteq objects

\* The deltas form one chain in day order: each builds on exactly the state
\* the earlier days lead to, counts a day after every day before it, and
\* embeds the result of its predecessor.
ChainUnbroken ==
  \A d \in Published :
    LET delta == folder[d].delta
        before == StateBefore(d)
    IN /\ delta.prev = before
       /\ LastDay(before) < d
       /\ delta.row = NextRow(before, folder[d].request)
       /\ delta.row.doc.day = d

\* The native SQLite rows are the published chain, or one commit ahead of it,
\* that commit being the one its day's intent announced.
IndexFollowsChain ==
  index.state # "absent" => index.rows = Chain \/ PendingCommitOK

\* What run_day once returned for a request stays in the archive for good, and
\* certifies the request that was asked, across kills, retries and index loss.
AckedIsDurable ==
  \A a \in acked : /\ folder[a.asked.day].receipt = a.receipt
                   /\ a.receipt.doc = a.asked

\* One archive holds one identity: no day of another replay_id, universe or
\* source version gets into it, through whichever process wrote it.
OneIdentity ==
  /\ \A d \in Days : folder[d].request # None =>
       base # None /\ IdentityOf(folder[d].request) = base.id
  /\ \A d \in Completed : folder[d].receipt.assets = base.id.ver
  /\ \A i \in 1..Len(index.rows) : IdentityOf(index.rows[i].doc) = base.id

\* Between calls, a recovered job with nothing pending remembers the state the
\* completed days lead to, so that the next intent names the right predecessor.
CompletedChain ==
  IF Completed = {} THEN BaseRows ELSE folder[Max(Completed)].receipt.post
MemoryAgreesWithDisk ==
  recovered /\ pc = "idle" /\ pending = 0 =>
    head = CompletedChain /\ latest = LastDay(CompletedChain)

\* The two copies of the chain agree with it: the index a commit ahead at most,
\* the memory of a job with nothing pending exactly.
CopiesFollowChain == IndexFollowsChain /\ MemoryAgreesWithDisk

\* What a kill at this very moment would leave for the next _recover.
Headless == \E d \in Started : folder[d].request = None
Skipped == \E d, e \in Started : d < e /\ folder[d].receipt = None
Reimported == \E d \in Started : d <= LastDay(BaseRows)
Reopens == base # None => ScanOK(base.id, base.id.ver) /\ IndexOK

\* Recovery fails for four reasons only: a day directory without a request, a
\* day skipped by a later one, a day the imported base already holds, or a hot
\* journal.  Nothing else that a kill, an exception, a change of the source or
\* the loss of the index leaves behind stops _recover.
OnlyKnownDamage ==
  Headless \/ Skipped \/ Reimported \/ index.state = "hot" \/ Reopens

\* No artifact is ever replaced or removed, whatever a retry brings.
Immutable ==
  [][\A d \in Days : \A file \in {"request", "intent", "delta", "receipt"} :
       folder[d][file] # None => folder'[d][file] = folder[d][file]]_vars

\* The archive implements the ledger of days: promises are the request files,
\* the ledger is the chain of receipts, those told are those answered, and the
\* copies are the exported bundles: as the ledger only grows, each stays a
\* prefix of the completed chain.
Ledger == INSTANCE DayLedger WITH
  Requests <- Doc,
  promised <- [d \in Days |-> folder[d].request],
  ledger <- CompletedChain,
  told <- {a.asked : a \in acked},
  copies <- exported
ImplementsLedger == Ledger!Spec

\* A day whose directory was made is completed, if interruptions stop, the
\* caller resumes, and no kill hit the two points that recovery cannot mend.
StartedDayCompletes ==
  \A d \in CallDays : folder[d].made ~> folder[d].receipt # None

\* The code comment at research_job.py:229 (an interruption before the delta
\* or the receipt is recovered by _recover) and the contract of write_once
\* ("atomic ... including ... retries"): an archive that nobody is writing to can
\* be reopened; and the refusal at research_job.py:202, that no day is started
\* over an incomplete one.
ArchiveReopens == pc \in {"down", "idle"} => Reopens

=============================================================================
