------------------------------ MODULE DailyRun ------------------------------
(***************************************************************************)
(* One analysis run, as the command line starts it: the run lock of the    *)
(* machine, the three evaluating stages with their version checkpoints,    *)
(* and the publication of the result into a data directory: evidence,      *)
(* history, table, bundle, candidate snapshot, one after the other.        *)
(*                                                                         *)
(* Two processes make runs: Daily, the user's own, into the directory      *)
(* "main" again and again, and Child, which a collection starts in a fresh *)
(* directory "stage" (module DailyCollection).  Of the child's runs a      *)
(* history variable remembers which session each has evaluated.            *)
(*                                                                         *)
(* The evidence store of a directory is the ledger EvidenceStore is shown  *)
(* to implement: a result is held from the commit on, for good.  What a    *)
(* run computes is its result, a number; results are numbered in the order *)
(* their processes were started.                                           *)
(***************************************************************************)
EXTENDS Integers, FiniteSets

CONSTANTS
    Daily, Child,   \* the two processes
    Nobody,
    DailyModel,     \* that the user's settings choose: "v6" or "v7"
    Versions,       \* of the source tree
    Listings,       \* universes the stock list may resolve to
    LastDay,        \* the clock stops there
    MaxResults,     \* bound on runs
    MaxEvents       \* bound on deployments, exceptions and kills together

ASSUME RunAssumption ==
    /\ Daily # Child /\ Nobody \notin {Daily, Child}
    /\ DailyModel \in {"v6", "v7"}
    /\ LastDay \in Nat \ {0} /\ {MaxResults, MaxEvents} \subseteq Nat

VARIABLES
    code,       \* [version, stamp]: the source tree, and its file stamps
    today,
    runLock,    \* holder of stockdataanalysis.lock
    run,        \* each process: [at, stage, dir, model, stamp, no, saw]
    made,       \* number of runs started
    result,     \* what went into each stored result
    files,      \* each data directory's artifacts, by result number
    evaluated,  \* history: [no, day] of the evaluations for the collection
    events      \* number of deployments, exceptions and kills

runVars == <<code, today, runLock, run, made, result, files, evaluated, events>>

Processes == {Daily, Child}
Dirs == {"main", "stage"}
Models == {"v6", "v7"}
Numbers == 1..MaxResults
LastStage == 3      \* market data, fundamentals, strategies
NoResult == 0

EmptyDir ==
    [store |-> {}, history |-> {}, table |-> NoResult, bundle |-> [m \in Models |-> NoResult], snapshots |-> {}]
Blank == [day |-> 0, listing |-> {}, loaded |-> {}, disk |-> {}]
NotRunning ==
    [at |-> "idle", stage |-> 1, dir |-> "main", model |-> "v7", stamp |-> 0, no |-> NoResult,
     saw |-> Blank]

RunInit ==
    /\ code \in [version : Versions, stamp : {0}]
    /\ today = 1
    /\ runLock = Nobody
    /\ run = [p \in Processes |-> NotRunning]
    /\ made = 0
    /\ result = [n \in Numbers |-> Blank]
    /\ files = [d \in Dirs |-> EmptyDir]
    /\ evaluated = {}
    /\ events = 0

At(p, phase) == run[p].at = phase
To(p, phase) == run' = [run EXCEPT ![p].at = phase]
Ended(p) == run[p].at \in {"idle", "ok", "failed"}
No(p) == run[p].no
Event == events < MaxEvents /\ events' = events + 1
Outside == <<code, today>>

(* A process is started and imports its modules.                            *)
Start(p, d, m) ==
    /\ Ended(p) /\ made < MaxResults
    /\ made' = made + 1
    /\ run' = [run EXCEPT ![p] = [NotRunning EXCEPT !.at = "lock", !.dir = d, !.model = m, !.no = made + 1,
                                                  !.saw = [Blank EXCEPT !.loaded = {code.version}]]]
    /\ UNCHANGED <<Outside, runLock, result, evaluated, events>>

(* Mutant: the run lock is taken without looking at its holder.             *)
TakeRunLockAnyway(p) ==
    /\ At(p, "lock")
    /\ runLock' = p
    /\ run' = [run EXCEPT ![p].at = "work", ![p].stamp = code.stamp]
    /\ UNCHANGED <<Outside, made, result, files, evaluated, events>>

(* The run lock; then open_daily_work, whose version guard remembers the    *)
(* stamps of the tree.                                                      *)
TakeRunLock(p) ==
    /\ At(p, "lock") /\ runLock = Nobody
    /\ runLock' = p
    /\ run' = [run EXCEPT ![p].at = "work", ![p].stamp = code.stamp]
    /\ UNCHANGED <<Outside, made, result, files, evaluated, events>>

(* The process is gone, and with it its lock and what it had in memory.     *)
Exit(p, answer) ==
    /\ run' = [run EXCEPT ![p] = [NotRunning EXCEPT !.at = answer, !.no = run[p].no]]
    /\ runLock' = IF runLock = p THEN Nobody ELSE runLock
    /\ UNCHANGED <<Outside, made, result, files, evaluated>>

(* RunAlreadyActiveError: exit code 4, and nothing was done.                *)
RunActive(p) ==
    /\ At(p, "lock") /\ runLock # Nobody
    /\ Exit(p, "failed") /\ UNCHANGED events

(* A stage imports what it still needs from the tree.  The strategies of a  *)
(* collection's run evaluate a session and the listed universe.             *)
Evaluate(p) ==
    LET series == p = Child /\ run[p].stage = LastStage
        disk == run[p].saw.disk \cup {code.version}
    IN  /\ At(p, "work")
        /\ \E u \in IF series THEN {{l} : l \in Listings} ELSE {{}} :
               run' = [run EXCEPT ![p].at = "check",
                   ![p].saw = [run[p].saw EXCEPT !.disk = disk, !.day = IF series THEN today ELSE run[p].saw.day,
                                               !.listing = u]]
        /\ evaluated' = IF series THEN evaluated \cup {[no |-> No(p), day |-> today]} ELSE evaluated
        /\ UNCHANGED <<Outside, runLock, made, result, files, events>>

(* Mutant: the bundle is published before the table is written.             *)
FollowingSwapped(m) ==
    IF m = "v6"
    THEN [work |-> "store", store |-> "history", history |-> "bundle", bundle |-> "table", table |-> "final"]
    ELSE [work |-> "store", store |-> "bundle", bundle |-> "table", table |-> "snapshot", snapshot |-> "final"]

(* Mutant: the history is recorded before the evidence is committed.        *)
FollowingEarly(m) ==
    IF m = "v6"
    THEN [work |-> "history", history |-> "store", store |-> "table", table |-> "bundle", bundle |-> "final"]
    ELSE [work |-> "store", store |-> "table", table |-> "bundle", bundle |-> "snapshot", snapshot |-> "final"]

(* The order in which a model's artifacts are written after the last stage. *)
Following(m) ==
    IF m = "v6"
    THEN [work |-> "store", store |-> "history", history |-> "table", table |-> "bundle", bundle |-> "final"]
    ELSE [work |-> "store", store |-> "table", table |-> "bundle", bundle |-> "snapshot", snapshot |-> "final"]

(* Mutant: the checkpoint compares the version, not the stamps.             *)
CheckpointByVersion(p) ==
    /\ At(p, "check") /\ run[p].saw.loaded = {code.version}
    /\ run' = [run EXCEPT ![p].at = IF run[p].stage = LastStage THEN Following(run[p].model).work ELSE "work",
                          ![p].stage = IF @ = LastStage THEN @ ELSE @ + 1]
    /\ UNCHANGED <<Outside, runLock, made, result, files, evaluated, events>>

(* _check_version after each stage: any new stamp ends the run.             *)
Checkpoint(p) ==
    /\ At(p, "check") /\ run[p].stamp = code.stamp
    /\ run' = [run EXCEPT ![p].at = IF run[p].stage = LastStage THEN Following(run[p].model).work ELSE "work",
                          ![p].stage = IF @ = LastStage THEN @ ELSE @ + 1]
    /\ UNCHANGED <<Outside, runLock, made, result, files, evaluated, events>>

VersionChanged(p) ==
    /\ At(p, "check") \/ At(p, "final")
    /\ run[p].stamp # code.stamp
    /\ Exit(p, "failed") /\ UNCHANGED events

(***************************************************************************)
(* Publication: write_analysis_dataset.                                    *)
(***************************************************************************)
(* A file of the run's directory is written.                                *)
Write(p, phase, dir) ==
    /\ At(p, phase)
    /\ files' = [files EXCEPT ![run[p].dir] = dir]
    /\ To(p, Following(run[p].model)[phase])
    /\ UNCHANGED <<Outside, runLock, made, result, evaluated, events>>

Dir(p) == files[run[p].dir]

(* One transaction of the evidence store: all reports of the result.        *)
StoreEvidence(p) ==
    /\ At(p, "store")
    /\ files' = [files EXCEPT ![run[p].dir].store = @ \cup {No(p)}]
    /\ result' = [result EXCEPT ![No(p)] = run[p].saw]
    /\ To(p, Following(run[p].model).store)
    /\ UNCHANGED <<Outside, runLock, made, evaluated, events>>

RecordHistory(p) == Write(p, "history", [Dir(p) EXCEPT !.history = @ \cup {No(p)}])

(* The table is written in place.                                           *)
WriteTable(p) == Write(p, "table", [Dir(p) EXCEPT !.table = No(p)])

(* The bundle is written aside and given its name.                          *)
PublishBundle(p) == Write(p, "bundle", [Dir(p) EXCEPT !.bundle[run[p].model] = No(p)])

PublishSnapshot(p) == Write(p, "snapshot", [Dir(p) EXCEPT !.snapshots = @ \cup {No(p)}])

(* before_notification and the check on leaving the work scope.             *)
Finish(p) ==
    /\ At(p, "final") /\ run[p].stamp = code.stamp
    /\ Exit(p, "ok") /\ UNCHANGED events

(* Any other exception, or a kill, at any point.                            *)
Abort(p) ==
    /\ ~Ended(p) /\ Event
    /\ Exit(p, "failed")

RunStep(p) ==
    \/ TakeRunLock(p) \/ RunActive(p) \/ Evaluate(p) \/ Checkpoint(p)
    \/ VersionChanged(p) \/ StoreEvidence(p) \/ RecordHistory(p) \/ WriteTable(p)
    \/ PublishBundle(p) \/ PublishSnapshot(p) \/ Finish(p)

(***************************************************************************)
(* The environment.                                                        *)
(***************************************************************************)
(* New source, or the old source written again: the stamps change.          *)
Deploy ==
    /\ Event
    /\ \E v \in Versions : code' = [version |-> v, stamp |-> code.stamp + 1]
    /\ UNCHANGED <<today, runLock, run, made, result, files, evaluated>>

NextDay ==
    /\ today < LastDay
    /\ today' = today + 1
    /\ UNCHANGED <<code, runLock, run, made, result, files, evaluated, events>>
-----------------------------------------------------------------------------
Working(p) == ~Ended(p) /\ ~At(p, "lock")

(* What a directory's artifacts refer to.                                   *)
Referenced(dir) ==
    (dir.history \cup dir.snapshots \cup {dir.table} \cup {dir.bundle[m] : m \in Models}) \ {NoResult}

Evidence == [day : 0..LastDay, listing : SUBSET Listings, loaded : SUBSET Versions, disk : SUBSET Versions]

RunState ==
    [at : {"idle", "lock", "work", "check", "store", "history", "table", "bundle", "snapshot", "final", "ok",
           "failed"},
     stage : 1..LastStage, dir : Dirs, model : Models, stamp : 0..MaxEvents, no : 0..MaxResults, saw : Evidence]
Artifacts ==
    [store : SUBSET Numbers, history : SUBSET Numbers, table : 0..MaxResults, bundle : [Models -> 0..MaxResults],
     snapshots : SUBSET Numbers]

RunTypeOK ==
    /\ code \in [version : Versions, stamp : 0..MaxEvents]
    /\ today \in 1..LastDay
    /\ runLock \in Processes \cup {Nobody}
    /\ run \in [Processes -> RunState]
    /\ made \in 0..MaxResults
    /\ result \in [Numbers -> Evidence]
    /\ files \in [Dirs -> Artifacts]
    /\ evaluated \subseteq [no : Numbers, day : 1..LastDay]
    /\ events \in 0..MaxEvents
    /\ \A p \in Processes : Working(p) => runLock = p

(* Whatever is found in a directory, also after a run that was killed half  *)
(* way, refers to results whose evidence the store of the directory holds.  *)
NothingDangling == \A d \in Dirs : Referenced(files[d]) \subseteq files[d].store

(* A reader that starts from the bundle or from a snapshot finds a table    *)
(* that is at least as new, and one that starts from a snapshot a bundle:   *)
(* what is left of an interrupted run is never ahead of what it rests on.   *)
PublishedInOrder ==
    \A d \in Dirs :
        /\ \A m \in Models : files[d].bundle[m] <= files[d].table
        /\ \A n \in files[d].snapshots : n <= files[d].bundle["v7"]

(* The stages behind a published bundle all saw one state of the tree, also *)
(* when it was changed and changed back between them.                       *)
OneVersionPublished ==
    \A d \in Dirs, m \in Models :
        LET n == files[d].bundle[m]
        IN  n # NoResult => Cardinality(result[n].disk) = 1
=============================================================================
