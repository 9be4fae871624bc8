----------------------- MODULE DailyCollectionProofs -----------------------
(***************************************************************************)
(* Runs and collections, for every set of collectors, versions and         *)
(* listings and any number of runs, deployments and kills.                 *)
(***************************************************************************)
EXTENDS DailyCollection, FiniteSetTheorems, TLAPS

Publishing == {"store", "history", "table", "bundle", "snapshot", "final"}
Owner(d) == IF d = "main" THEN Daily ELSE Child

(* Who runs where, and that every run has a number of its own.              *)
RunInv ==
    /\ RunTypeOK
    /\ code.stamp <= events
    /\ \A p \in Processes :
           /\ No(p) <= made
           /\ run[p].stamp <= code.stamp
           /\ ~Ended(p) => /\ No(p) \in Numbers
                           /\ run[p].dir = (IF p = Daily THEN "main" ELSE "stage")
                           /\ run[p].model = (IF p = Daily THEN DailyModel ELSE "v7")
           /\ At(p, "history") => run[p].model = "v6"
           /\ At(p, "snapshot") => run[p].model = "v7"
    /\ No(Daily) = No(Child) => No(Daily) = NoResult

(* What a run has seen is of one version from its last checkpoint on.       *)
Saw(r) ==
    /\ r.at = "lock" => r.saw.disk = {}
    /\ r.at \in {"work", "check"} /\ r.stamp = code.stamp => r.saw.disk \subseteq {code.version}
    /\ r.at = "check" => r.saw.disk # {}
    /\ r.at \in Publishing => \E v \in Versions : r.saw.disk = {v}
    /\ r.at \notin {"idle", "ok", "failed"} => \E v \in Versions : r.saw.loaded = {v}

SawInv == \A p \in Processes : Saw(run[p])

(* What is stored, and how far a run has come in publishing it.             *)
DirOK(dir, latest) ==
    /\ \A n \in dir.store : n <= latest
    /\ Referenced(dir) \subseteq dir.store
    /\ \A m \in Models : dir.bundle[m] <= dir.table
    /\ \A n \in dir.snapshots : n <= dir.bundle["v7"]

PhaseOK(r, dir) ==
    /\ r.at \in Publishing \ {"store"} => r.no \in dir.store
    /\ r.at \in {"bundle", "snapshot", "final"} => dir.table = r.no
    /\ r.at = "snapshot" => dir.bundle["v7"] = r.no

FilesInv ==
    /\ \A d \in Dirs : DirOK(files[d], No(Owner(d)))
    /\ \A d \in Dirs : \A n \in files[d].store : \E v \in Versions : result[n].disk = {v}
    /\ \A p \in Processes : PhaseOK(run[p], files[run[p].dir])

(* The child works in the attempt; a collector knows whom it waits for.     *)
Waits(c) ==
    /\ collector[c].day <= today
    /\ ~In(c, "idle") => collector[c].day >= 1
    /\ In(c, "launch") => attempt = [day |-> collector[c].day, no |-> NoResult]
    /\ collector[c].at \in {"wait", "seal"} =>
           /\ attempt = [day |-> collector[c].day, no |-> collector[c].no]
           /\ collector[c].no = No(Child) /\ collector[c].no \in Numbers
    /\ In(c, "seal") => At(Child, "ok")

AttemptInv ==
    /\ ~Ended(Child) => attempt.no = No(Child)
    /\ attempt # NoAttempt => attempt.day \in 1..today /\ \A s \in sessions : s.day < attempt.day
    /\ attempt.no # NoResult => \A s \in sessions : s.no # attempt.no
    /\ attempt.no <= made
    /\ \A s \in sessions : s.no <= made /\ s.no # No(Daily)
    /\ \A c \in Collectors : Waits(c)

(* A collector is of the bound version, and so is its run as long as nobody *)
(* touched the tree.                                                        *)
OfVersion(seen, v) == seen.loaded \cup seen.disk \subseteq {v}

OfIdentity(c) ==
    /\ In(c, "bind") => identity = None /\ sessions = {} /\ collector[c].version \in Versions
    /\ collector[c].at \in {"guard", "admit", "launch", "wait", "seal"} =>
           identity = collector[c].version /\ identity # None
    /\ collector[c].at \in {"admit", "launch", "wait", "seal"} => runtime = identity
    /\ collector[c].at \in {"admit", "launch", "wait"} =>
           /\ collector[c].stamp <= code.stamp
           /\ collector[c].stamp = code.stamp => code.version = collector[c].version
    /\ In(c, "wait") /\ collector[c].stamp = code.stamp =>
           /\ ~Ended(Child) => OfVersion(run[Child].saw, collector[c].version)
           /\ No(Child) \in files["stage"].store => OfVersion(result[No(Child)], collector[c].version)
    /\ In(c, "seal") => result[No(Child)].loaded \cup result[No(Child)].disk = {collector[c].version}

VersionInv == SealedIsOneVersion /\ \A c \in Collectors : OfIdentity(c)

(* The stage holds the result of the attempt's run, or nothing.             *)
StageInv ==
    /\ files["stage"].store \subseteq {No(Child)}
    /\ \A c \in Collectors : In(c, "launch") => files["stage"].store = {}

(* The universe a child evaluated is one listing.                           *)
Strategies == run[Child].at \in Publishing \/ (At(Child, "check") /\ run[Child].stage = LastStage)

ListingInv ==
    /\ UniverseIsFrozen
    /\ Strategies => \E u \in Listings : run[Child].saw.listing = {u}
    /\ \A n \in files["stage"].store : \E u \in Listings : result[n].listing = {u}
    /\ \A c \in Collectors : In(c, "seal") =>
           IF universe # None THEN result[No(Child)].listing = {universe} ELSE result[No(Child)].listing \cap Full = {}

(* The evaluation of a run is made once, and its day is the result's.       *)
Evaluation(n, d) == [no |-> n, day |-> d]

EvaluationInv ==
    /\ EvaluationAccounted
    /\ OncePerDay
    /\ \A r \in evaluated : r.no <= No(Child) /\ r.day <= today
    /\ \A r, q \in evaluated : r.no = q.no => r = q
    /\ run[Child].at \in Publishing => run[Child].stage = LastStage
    /\ ~Ended(Child) /\ ~Strategies => No(Child) \notin Evaluated
    /\ Strategies => Evaluation(No(Child), run[Child].saw.day) \in evaluated
    /\ \A n \in files["stage"].store : Evaluation(n, result[n].day) \in evaluated
    /\ \A s \in sessions : \A r \in evaluated : r.no = s.no => r.day = s.day
    /\ \A c \in Collectors : In(c, "seal") => Evaluation(No(Child), collector[c].day) \in evaluated

LEMMA Apart == Daily # Child /\ Daily \in Processes /\ Child \in Processes
  BY RunAssumption DEF Processes

LEMMA FollowingPhase ==
    ASSUME NEW m \in Models, NEW phase \in Publishing \cup {"work"}, phase # "final"
    PROVE  /\ m = "v6" /\ phase # "snapshot" => Following(m)[phase] \in Publishing \ {"snapshot"}
           /\ m = "v7" /\ phase # "history" => Following(m)[phase] \in Publishing \ {"history"}
  BY DEF Following, Publishing, Models

(* What an evaluation leaves in the memory of its process.                  *)
Series(p) == p = Child /\ run[p].stage = LastStage
Seen(p, u) ==
    [run[p].saw EXCEPT !.disk = run[p].saw.disk \cup {code.version},
                       !.day = IF Series(p) THEN today ELSE run[p].saw.day, !.listing = u]

LEMMA EvaluateSees ==
    ASSUME NEW p, Evaluate(p)
    PROVE  \E u \in SUBSET Listings :
               /\ run' = [run EXCEPT ![p] = [run[p] EXCEPT !.at = "check", !.saw = Seen(p, u)]]
               /\ Series(p) => \E l \in Listings : u = {l}
  <1>1. PICK u \in IF Series(p) THEN {{l} : l \in Listings} ELSE {{}} :
            run' = [run EXCEPT ![p] = [run[p] EXCEPT !.at = "check", !.saw = Seen(p, u)]]
    BY DEF Evaluate, Seen, Series
  <1>2. CASE Series(p)
    <2>1. PICK l \in Listings : u = {l}
      BY <1>1, <1>2
    <2> QED
      BY <1>1, <2>1
  <1>3. CASE ~Series(p)
    <2>1. u = {}
      BY <1>1, <1>3
    <2> QED
      BY <1>1, <1>3, <2>1
  <1> QED
    BY <1>2, <1>3

-----------------------------------------------------------------------------
LEMMA BlankTypes ==
    /\ Blank \in Evidence
    /\ NotRunning \in RunState
    /\ EmptyDir \in Artifacts
  <1>1. Blank \in Evidence
    BY RunAssumption DEF Blank, Evidence
  <1>2. NotRunning \in RunState
    BY <1>1, RunAssumption DEF NotRunning, RunState, Dirs, Models, LastStage, NoResult
  <1>3. EmptyDir \in Artifacts
    BY RunAssumption DEF EmptyDir, Artifacts, NoResult
  <1> QED
    BY <1>1, <1>2, <1>3

LEMMA InitRun == Init => RunInv
  <1> SUFFICES ASSUME Init PROVE RunInv
    OBVIOUS
  <1> USE RunAssumption DEF Init, RunInit
  <1>4. RunTypeOK
    BY BlankTypes DEF RunTypeOK, Working, Ended, At, Processes, NotRunning
  <1>5. code.stamp <= events
    OBVIOUS
  <1>6. \A p \in Processes : No(p) = 0 /\ run[p].stamp = 0 /\ Ended(p) /\ made = 0 /\ code.stamp = 0
    BY DEF No, Ended, NotRunning, NoResult
  <1>7. No(Daily) = 0
    BY <1>6, Apart
  <1>8. \A p \in Processes : ~At(p, "history") /\ ~At(p, "snapshot")
    BY DEF At, NotRunning
  <1> HIDE DEF Init, RunInit
  <1> QED
    BY <1>4, <1>5, <1>6, <1>7, <1>8 DEF RunInv, NoResult

(* One process moves on, under its number.                                  *)
LEMMA OneMoves ==
    ASSUME RunInv, NEW p \in Processes, NEW r \in RunState,
           run' = [run EXCEPT ![p] = r],
           r.no = No(p), r.stamp <= code.stamp,
           r.at \in {"idle", "ok", "failed"} \/ (~Ended(p) /\ r.dir = run[p].dir /\ r.model = run[p].model),
           r.at = "history" => r.model = "v6", r.at = "snapshot" => r.model = "v7",
           r.at \in {"idle", "lock", "ok", "failed"} \/ runLock' = p,
           runLock' = runLock \/ runLock' = p \/ (runLock = p /\ runLock' = Nobody),
           r.at \in {"idle", "lock", "ok", "failed"} \/ runLock \in {p, Nobody},
           runLock' = p => runLock \in {p, Nobody},
           result' \in [Numbers -> Evidence],
           files' \in [Dirs -> Artifacts],
           evaluated' \subseteq [no : Numbers, day : 1..LastDay],
           events' \in 0..MaxEvents, events <= events',
           UNCHANGED <<Outside, made>>
    PROVE  RunInv'
  <1>1. /\ code \in [version : Versions, stamp : 0..MaxEvents] /\ today \in 1..LastDay
        /\ runLock \in Processes \cup {Nobody} /\ run \in [Processes -> RunState] /\ made \in 0..MaxResults
        /\ \A q \in Processes : Working(q) => runLock = q
    BY DEF RunInv, RunTypeOK
  <1>2. UNCHANGED <<code, today, made>>
    BY DEF Outside
  <1>3. run'[p] = r /\ \A q \in Processes \ {p} : run'[q] = run[q]
    BY <1>1
  <1>4. run' \in [Processes -> RunState]
    BY <1>1
  <1>5. \A q \in Processes : No(q)' = No(q)
    BY <1>3 DEF No
  <1>6. ASSUME NEW q \in Processes, Working(q)' PROVE runLock' = q
    <2>1. CASE q = p
      BY <2>1, <1>3, <1>6 DEF Working, Ended, At
    <2>2. CASE q # p
      <3>1. Working(q)
        BY <2>2, <1>3, <1>6 DEF Working, Ended, At
      <3>2. runLock = q
        BY <3>1, <1>1
      <3>3. Nobody # q
        BY RunAssumption DEF Processes
      <3> QED
        BY <2>2, <3>2, <3>3
    <2> QED
      BY <2>1, <2>2
  <1>7. runLock' \in Processes \cup {Nobody}
    BY <1>1
  <1>8. RunTypeOK'
    BY <1>1, <1>2, <1>4, <1>6, <1>7 DEF RunTypeOK
  <1>9. code'.stamp <= events'
    <2>1. code.stamp <= events /\ events \in 0..MaxEvents /\ code.stamp \in 0..MaxEvents
      BY DEF RunInv, RunTypeOK
    <2> QED
      BY <1>2, <2>1
  <1>10. ASSUME NEW q \in Processes
         PROVE  /\ No(q)' <= made' /\ run'[q].stamp <= code'.stamp
                /\ ~Ended(q)' => /\ No(q)' \in Numbers
                                 /\ run'[q].dir = (IF q = Daily THEN "main" ELSE "stage")
                                 /\ run'[q].model = (IF q = Daily THEN DailyModel ELSE "v7")
                /\ At(q, "history")' => run'[q].model = "v6"
                /\ At(q, "snapshot")' => run'[q].model = "v7"
    <2>1. /\ No(q) <= made /\ run[q].stamp <= code.stamp
          /\ ~Ended(q) => /\ No(q) \in Numbers
                          /\ run[q].dir = (IF q = Daily THEN "main" ELSE "stage")
                          /\ run[q].model = (IF q = Daily THEN DailyModel ELSE "v7")
          /\ At(q, "history") => run[q].model = "v6"
          /\ At(q, "snapshot") => run[q].model = "v7"
      BY DEF RunInv
    <2>2. CASE q = p
      <3>1. Ended(p)' \/ (~Ended(p) /\ r.dir = run[p].dir /\ r.model = run[p].model)
        BY <1>3 DEF Ended
      <3> QED
        BY <2>1, <2>2, <3>1, <1>2, <1>3, <1>5 DEF At
    <2>3. CASE q # p
      <3>1. run'[q] = run[q] /\ (Ended(q)' <=> Ended(q))
        BY <2>3, <1>3 DEF Ended
      <3> QED
        BY <2>1, <3>1, <1>2, <1>5 DEF At
    <2> QED
      BY <2>2, <2>3
  <1>11. No(Daily)' = No(Child)' => No(Daily)' = NoResult
    BY <1>5, Apart DEF RunInv
  <1> QED
    BY <1>8, <1>9, <1>10, <1>11 DEF RunInv

LEMMA StepKeepsRun ==
    ASSUME RunInv, NEW p \in Processes, RunStep(p) \/ Abort(p)
    PROVE  RunInv'
  <1>1. /\ code \in [version : Versions, stamp : 0..MaxEvents] /\ today \in 1..LastDay
        /\ runLock \in Processes \cup {Nobody} /\ run \in [Processes -> RunState] /\ made \in 0..MaxResults
        /\ result \in [Numbers -> Evidence] /\ files \in [Dirs -> Artifacts]
        /\ evaluated \subseteq [no : Numbers, day : 1..LastDay] /\ events \in 0..MaxEvents
        /\ Working(p) => runLock = p
    BY DEF RunInv, RunTypeOK
  <1>2. run[p] \in RunState /\ run[p].stamp <= code.stamp
    BY <1>1 DEF RunInv
  <1>3. ASSUME NEW answer \in {"ok", "failed"}, Exit(p, answer), events' \in 0..MaxEvents, events <= events'
        PROVE  RunInv'
    <2> DEFINE r == [NotRunning EXCEPT !.at = answer, !.no = run[p].no]
    <2>1. r \in RunState /\ r.no = No(p) /\ r.at = answer /\ r.stamp = 0
      BY <1>2, BlankTypes DEF RunState, NotRunning, No
    <2>2. run' = [run EXCEPT ![p] = r] /\ runLock' = IF runLock = p THEN Nobody ELSE runLock
      BY <1>3 DEF Exit
    <2>3. UNCHANGED <<Outside, made, result, files, evaluated>>
      BY <1>3 DEF Exit
    <2>4. 0 <= code.stamp
      BY <1>1
    <2>5. runLock' = p => runLock \in {p, Nobody}
      BY <2>2, RunAssumption DEF Processes
    <2> HIDE DEF r
    <2> QED
      BY <1>1, <1>3, <2>1, <2>2, <2>3, <2>4, <2>5, OneMoves
  <1>4. ASSUME RunActive(p) \/ VersionChanged(p) \/ Finish(p) \/ Abort(p) PROVE RunInv'
    <2>1. \E answer \in {"ok", "failed"} : Exit(p, answer)
      BY <1>4 DEF RunActive, VersionChanged, Finish, Abort
    <2>2. events' \in 0..MaxEvents /\ events <= events'
      BY <1>1, <1>4, RunAssumption DEF RunActive, VersionChanged, Finish, Abort, Event
    <2> QED
      BY <2>1, <2>2, <1>3
  <1>5. CASE TakeRunLock(p)
    <2> DEFINE r == [run[p] EXCEPT !.at = "work", !.stamp = code.stamp]
    <2>1. r \in RunState /\ r.at = "work" /\ r.no = No(p) /\ r.stamp = code.stamp /\ r.dir = run[p].dir /\ r.model = run[p].model
      BY <1>1, <1>2 DEF RunState, No
    <2>2. ~Ended(p) /\ run' = [run EXCEPT ![p] = r] /\ runLock = Nobody /\ runLock' = p
      BY <1>5 DEF TakeRunLock, Ended, At
    <2>3. UNCHANGED <<Outside, made, result, files, evaluated, events>>
      BY <1>5 DEF TakeRunLock
    <2>4. r.stamp <= code.stamp
      BY <1>1, <2>1
    <2>5. result' \in [Numbers -> Evidence] /\ files' \in [Dirs -> Artifacts]
          /\ evaluated' \subseteq [no : Numbers, day : 1..LastDay] /\ events' \in 0..MaxEvents /\ events <= events'
      BY <1>1, <2>3
    <2> HIDE DEF r
    <2> QED
      BY <2>1, <2>2, <2>3, <2>4, <2>5, OneMoves
  <1>6. ASSUME NEW r \in RunState, run' = [run EXCEPT ![p] = r], ~Ended(p), Working(p),
               r.no = No(p), r.stamp = run[p].stamp, r.dir = run[p].dir, r.model = run[p].model,
               r.at = "history" => r.model = "v6", r.at = "snapshot" => r.model = "v7",
               runLock' = runLock, result' \in [Numbers -> Evidence], files' \in [Dirs -> Artifacts],
               evaluated' \subseteq [no : Numbers, day : 1..LastDay],
               UNCHANGED <<Outside, made, events>>
        PROVE  RunInv'
    <2>1. runLock = p /\ runLock' = p /\ r.stamp <= code.stamp
      BY <1>1, <1>2, <1>6
    <2>2. events' \in 0..MaxEvents /\ events <= events'
      BY <1>1, <1>6
    <2> QED
      BY <1>6, <2>1, <2>2, OneMoves
  <1>7. CASE Evaluate(p)
    <2>1. PICK u \in SUBSET Listings : run' = [run EXCEPT ![p] = [run[p] EXCEPT !.at = "check", !.saw = Seen(p, u)]]
      BY <1>7, EvaluateSees
    <2> DEFINE saw == Seen(p, u)
               r == [run[p] EXCEPT !.at = "check", !.saw = saw]
    <2>2. saw \in Evidence
      <3> DEFINE disk == run[p].saw.disk \cup {code.version}
                 on == IF Series(p) THEN today ELSE run[p].saw.day
      <3>1. run[p].saw \in Evidence
        BY <1>2 DEF RunState
      <3>2. disk \in SUBSET Versions
        BY <1>1, <3>1 DEF Evidence
      <3>3. on \in 0..LastDay
        BY <1>1, <3>1 DEF Evidence
      <3>4. saw = [run[p].saw EXCEPT !.disk = disk, !.day = on, !.listing = u]
        BY DEF Seen
      <3> HIDE DEF disk, on, saw
      <3> QED
        BY <3>1, <3>2, <3>3, <3>4 DEF Evidence
    <2>3. r \in RunState /\ r.at = "check" /\ r.no = No(p) /\ r.stamp = run[p].stamp /\ r.dir = run[p].dir /\ r.model = run[p].model
      <3> HIDE DEF saw
      <3> QED
        BY <1>2, <2>2 DEF RunState, No
    <2>4. run' = [run EXCEPT ![p] = r]
      BY <2>1
    <2>5. ~Ended(p) /\ Working(p) /\ UNCHANGED <<Outside, runLock, made, result, files, events>>
      BY <1>7 DEF Evaluate, Ended, At, Working
    <2>6. evaluated' \subseteq [no : Numbers, day : 1..LastDay]
      <3>1. No(p) \in Numbers
        BY <2>5 DEF RunInv
      <3> QED
        BY <3>1, <1>1, <1>7 DEF Evaluate
    <2> HIDE DEF r
    <2> QED
      BY <1>1, <1>6, <2>3, <2>4, <2>5, <2>6
  <1>8. CASE Checkpoint(p)
    <2> DEFINE r == [run[p] EXCEPT !.at = IF run[p].stage = LastStage THEN Following(run[p].model).work ELSE "work",
                                   !.stage = IF run[p].stage = LastStage THEN run[p].stage ELSE run[p].stage + 1]
    <2>1. Following(run[p].model).work = "store"
      BY DEF Following
    <2> DEFINE at == IF run[p].stage = LastStage THEN Following(run[p].model).work ELSE "work"
               stage == IF run[p].stage = LastStage THEN run[p].stage ELSE run[p].stage + 1
    <2>a. at \in {"store", "work"} /\ stage \in 1..LastStage
      BY <1>2, <2>1 DEF RunState, LastStage
    <2>2. r \in RunState /\ r.at = at /\ r.no = No(p) /\ r.stamp = run[p].stamp /\ r.dir = run[p].dir /\ r.model = run[p].model
      <3>1. r = [run[p] EXCEPT !.at = at, !.stage = stage]
        OBVIOUS
      <3> HIDE DEF at, stage, r
      <3> QED
        BY <1>2, <2>a, <3>1 DEF RunState, No
    <2>3. run' = [run EXCEPT ![p] = r]
      BY <1>8 DEF Checkpoint
    <2>4. ~Ended(p) /\ Working(p) /\ UNCHANGED <<Outside, runLock, made, result, files, evaluated, events>>
      BY <1>8 DEF Checkpoint, Ended, At, Working
    <2>5. (r.at = "history" => r.model = "v6") /\ (r.at = "snapshot" => r.model = "v7")
      <3> HIDE DEF r, at
      <3> QED
        BY <2>a, <2>2
    <2> HIDE DEF r
    <2> QED
      BY <1>1, <1>6, <2>2, <2>3, <2>4, <2>5
  <1>9. ASSUME NEW phase \in Publishing, phase # "final", At(p, phase), To(p, Following(run[p].model)[phase]),
               \/ run[p].model = "v6" /\ phase # "snapshot"
               \/ run[p].model = "v7" /\ phase # "history",
               result' \in [Numbers -> Evidence], files' \in [Dirs -> Artifacts],
               UNCHANGED <<Outside, runLock, made, evaluated, events>>
        PROVE  RunInv'
    <2> DEFINE r == [run[p] EXCEPT !.at = Following(run[p].model)[phase]]
    <2>1. Following(run[p].model)[phase] \in Publishing
      BY <1>9, FollowingPhase DEF Models
    <2>2. r \in RunState /\ r.no = No(p) /\ r.stamp = run[p].stamp /\ r.dir = run[p].dir /\ r.model = run[p].model
      BY <1>2, <2>1 DEF RunState, No, Publishing
    <2>5. (r.at = "history" => r.model = "v6") /\ (r.at = "snapshot" => r.model = "v7")
      <3>1. r.at = Following(run[p].model)[phase] /\ r.model = run[p].model
        BY <1>2 DEF RunState
      <3> HIDE DEF r
      <3> QED
        BY <1>9, <3>1, FollowingPhase DEF Models
    <2>3. run' = [run EXCEPT ![p] = r]
      BY <1>9 DEF To
    <2>4. ~Ended(p) /\ Working(p)
      BY <1>9 DEF Ended, At, Working, Publishing
    <2> HIDE DEF r
    <2> QED
      BY <1>1, <1>6, <1>9, <2>2, <2>3, <2>4, <2>5
  <1>10. run[p].model \in Models /\ Dir(p) \in Artifacts /\ run[p].dir \in Dirs
    BY <1>1, <1>2 DEF RunState, Dir
  <1>11. At(p, "history") => run[p].model = "v6"
    BY DEF RunInv
  <1>12. At(p, "snapshot") => run[p].model = "v7"
    BY DEF RunInv
  <1>13. ~Ended(p) => No(p) \in Numbers /\ No(p) \in 0..MaxResults
    BY DEF RunInv, Numbers
  <1>14. CASE StoreEvidence(p)
    <2>1. At(p, "store") /\ To(p, Following(run[p].model).store) /\ UNCHANGED <<Outside, runLock, made, evaluated, events>>
      BY <1>14 DEF StoreEvidence
    <2>2. No(p) \in Numbers /\ run[p].saw \in Evidence
      BY <1>2, <1>13, <2>1 DEF Ended, At, RunState
    <2>3. result' \in [Numbers -> Evidence]
      BY <1>1, <1>14, <2>2 DEF StoreEvidence
    <2>4. files' = [files EXCEPT ![run[p].dir] = [Dir(p) EXCEPT !.store = Dir(p).store \cup {No(p)}]]
      BY <1>14 DEF StoreEvidence, Dir
    <2>5. [Dir(p) EXCEPT !.store = Dir(p).store \cup {No(p)}] \in Artifacts
      BY <1>10, <2>2 DEF Artifacts
    <2>6. files' \in [Dirs -> Artifacts]
      BY <1>1, <2>4, <2>5
    <2> QED
      BY <1>9, <1>10, <2>1, <2>3, <2>6 DEF Publishing, Models
  <1>15. ASSUME NEW phase \in {"history", "table", "bundle", "snapshot"}, NEW dir, Write(p, phase, dir),
                No(p) \in Numbers /\ No(p) \in 0..MaxResults => dir \in Artifacts
         PROVE  RunInv'
    <2>1. At(p, phase) /\ To(p, Following(run[p].model)[phase])
          /\ UNCHANGED <<Outside, runLock, made, result, evaluated, events>>
          /\ files' = [files EXCEPT ![run[p].dir] = dir]
      BY <1>15 DEF Write
    <2>2. dir \in Artifacts
      BY <1>13, <1>15, <2>1 DEF Ended, At
    <2>3. files' \in [Dirs -> Artifacts]
      BY <1>1, <2>1, <2>2
    <2>4. \/ run[p].model = "v6" /\ phase # "snapshot"
          \/ run[p].model = "v7" /\ phase # "history"
      BY <1>10, <1>11, <1>12, <2>1 DEF Models
    <2> QED
      BY <1>1, <1>9, <1>15, <2>1, <2>3, <2>4 DEF Publishing
  <1>16. ASSUME RecordHistory(p) \/ WriteTable(p) \/ PublishBundle(p) \/ PublishSnapshot(p) PROVE RunInv'
    <2>1. ASSUME No(p) \in Numbers /\ No(p) \in 0..MaxResults
          PROVE  /\ [Dir(p) EXCEPT !.history = Dir(p).history \cup {No(p)}] \in Artifacts
                 /\ [Dir(p) EXCEPT !.table = No(p)] \in Artifacts
                 /\ [Dir(p) EXCEPT !.bundle[run[p].model] = No(p)] \in Artifacts
                 /\ [Dir(p) EXCEPT !.snapshots = Dir(p).snapshots \cup {No(p)}] \in Artifacts
      BY <1>10, <2>1 DEF Artifacts
    <2>2. CASE RecordHistory(p)
      BY <1>15, <2>1, <2>2 DEF RecordHistory
    <2>3. CASE WriteTable(p)
      BY <1>15, <2>1, <2>3 DEF WriteTable
    <2>4. CASE PublishBundle(p)
      BY <1>15, <2>1, <2>4 DEF PublishBundle
    <2>5. CASE PublishSnapshot(p)
      BY <1>15, <2>1, <2>5 DEF PublishSnapshot
    <2> QED
      BY <1>16, <2>2, <2>3, <2>4, <2>5
  <1> QED
    BY <1>4, <1>5, <1>7, <1>8, <1>14, <1>16 DEF RunStep

LEMMA StartKeepsRun ==
    ASSUME RunInv, NEW p \in Processes,
           \/ p = Daily /\ Start(Daily, "main", DailyModel)
           \/ p = Child /\ Start(Child, "stage", "v7"),
           files' \in [Dirs -> Artifacts]
    PROVE  /\ RunInv'
           /\ made' = made + 1 /\ made' \in Numbers
           /\ No(p)' = made' /\ At(p, "lock")' /\ run'[p].saw.loaded = {code.version} /\ code.version \in Versions
           /\ \A q \in Processes \ {p} : run'[q] = run[q]
  <1> DEFINE r == [NotRunning EXCEPT !.at = "lock", !.dir = IF p = Daily THEN "main" ELSE "stage",
                                     !.model = IF p = Daily THEN DailyModel ELSE "v7",
                                     !.no = made + 1, !.saw = [Blank EXCEPT !.loaded = {code.version}]]
  <1>1. /\ code \in [version : Versions, stamp : 0..MaxEvents] /\ made \in 0..MaxResults
        /\ run \in [Processes -> RunState]
        /\ \A q \in Processes : Working(q) => runLock = q
    BY DEF RunInv, RunTypeOK
  <1>2. /\ made < MaxResults /\ made' = made + 1 /\ run' = [run EXCEPT ![p] = r] /\ Ended(p)
        /\ UNCHANGED <<code, today, runLock, result, evaluated, events>>
    BY Apart DEF Start, Outside
  <1>3. made' \in Numbers
    BY <1>1, <1>2, RunAssumption DEF Numbers
  <1>4. r \in RunState /\ r.at = "lock" /\ r.no = made' /\ r.stamp = 0 /\ r.saw.loaded = {code.version}
        /\ r.dir = (IF p = Daily THEN "main" ELSE "stage") /\ r.model = (IF p = Daily THEN DailyModel ELSE "v7")
    <2>1. [Blank EXCEPT !.loaded = {code.version}] \in Evidence
      BY <1>1, BlankTypes DEF Evidence
    <2>2. r.saw = [Blank EXCEPT !.loaded = {code.version}]
      BY DEF NotRunning
    <2> DEFINE d == IF p = Daily THEN "main" ELSE "stage"
               m == IF p = Daily THEN DailyModel ELSE "v7"
               saw == [Blank EXCEPT !.loaded = {code.version}]
    <2>3. r = [NotRunning EXCEPT !.at = "lock", !.dir = d, !.model = m, !.no = made + 1, !.saw = saw]
      OBVIOUS
    <2>4. r.saw \in Evidence /\ r.saw.loaded = {code.version}
      BY <2>1, <2>2 DEF Blank
    <2>7. d \in Dirs /\ m \in Models /\ saw \in Evidence
      BY <2>1, RunAssumption DEF Dirs, Models
    <2>5. made + 1 \in 0..MaxResults
      BY <1>1, <1>2, <1>3 DEF Numbers
    <2> HIDE DEF r, d, m, saw
    <2>6. r \in RunState /\ r.at = "lock" /\ r.no = made + 1 /\ r.stamp = 0 /\ r.dir = d /\ r.model = m
      BY <2>3, <2>5, <2>7, BlankTypes DEF RunState, NotRunning
    <2> QED
      BY <2>4, <2>6, <1>2 DEF d, m
  <1> HIDE DEF r
  <1>5. run'[p] = r /\ (\A q \in Processes \ {p} : run'[q] = run[q]) /\ run' \in [Processes -> RunState]
    BY <1>1, <1>2, <1>4
  <1>6. No(p)' = made' /\ \A q \in Processes \ {p} : No(q)' = No(q)
    BY <1>4, <1>5 DEF No
  <1>7. \A q \in Processes : Working(q)' => q # p /\ Working(q)
    BY <1>4, <1>5 DEF Working, Ended, At
  <1>8. RunTypeOK'
    BY <1>1, <1>2, <1>3, <1>5, <1>7 DEF RunInv, RunTypeOK, Numbers
  <1>9. code'.stamp <= events' /\ 0 <= code.stamp
    BY <1>1, <1>2 DEF RunInv
  <1>10. ASSUME NEW q \in Processes
         PROVE  /\ No(q)' <= made' /\ run'[q].stamp <= code'.stamp
                /\ ~Ended(q)' => /\ No(q)' \in Numbers
                                 /\ run'[q].dir = (IF q = Daily THEN "main" ELSE "stage")
                                 /\ run'[q].model = (IF q = Daily THEN DailyModel ELSE "v7")
                /\ At(q, "history")' => run'[q].model = "v6"
                /\ At(q, "snapshot")' => run'[q].model = "v7"
    <2>1. CASE q = p
      BY <2>1, <1>2, <1>3, <1>4, <1>5, <1>6, <1>9 DEF At, Numbers
    <2>2. CASE q # p
      <3>1. run'[q] = run[q] /\ (Ended(q)' <=> Ended(q)) /\ (At(q, "history")' <=> At(q, "history"))
            /\ (At(q, "snapshot")' <=> At(q, "snapshot")) /\ No(q)' = No(q)
        BY <2>2, <1>5, <1>6 DEF Ended, At
      <3>2. No(q) \in Int
        BY <1>1 DEF No, RunState
      <3> QED
        BY <3>1, <3>2, <1>1, <1>2 DEF RunInv
    <2> QED
      BY <2>1, <2>2
  <1>11. No(Daily)' = No(Child)' => No(Daily)' = NoResult
    <2>1. \A q \in Processes : No(q) <= made /\ No(q) \in Int
      BY <1>1 DEF RunInv, No, RunState
    <2> QED
      BY <2>1, <1>1, <1>2, <1>6, Apart
  <1> QED
    BY <1>2, <1>3, <1>4, <1>5, <1>6, <1>8, <1>9, <1>10, <1>11, <1>1 DEF RunInv, At

-----------------------------------------------------------------------------
LEMMA InitSaw == Init => SawInv
  BY DEF Init, RunInit, SawInv, Saw, NotRunning, Publishing

LEMMA StepKeepsSaw ==
    ASSUME RunInv, SawInv, NEW p \in Processes, RunStep(p) \/ Abort(p)
    PROVE  SawInv'
  <1>1. run \in [Processes -> RunState] /\ run[p] \in RunState /\ code.version \in Versions
    BY DEF RunInv, RunTypeOK
  <1>2. code' = code
    BY DEF RunStep, Abort, TakeRunLock, RunActive, Evaluate, Checkpoint, VersionChanged, StoreEvidence,
           RecordHistory, WriteTable, PublishBundle, PublishSnapshot, Finish, Exit, Write, Outside
  <1>3. Saw(run[p])
    BY DEF SawInv
  <1>4. ASSUME NEW r, run' = [run EXCEPT ![p] = r], Saw(r) PROVE SawInv'
    <2>1. \A q \in Processes : run'[q] = IF q = p THEN r ELSE run[q]
      BY <1>1, <1>4
    <2>2. \A q \in Processes : Saw(run'[q])
      BY <2>1, <1>4 DEF SawInv
    <2> QED
      BY <1>2, <2>2 DEF SawInv, Saw
  <1>5. CASE RunActive(p) \/ VersionChanged(p) \/ Finish(p) \/ Abort(p)
    <2>1. PICK answer \in {"ok", "failed"} : run' = [run EXCEPT ![p] = [NotRunning EXCEPT !.at = answer, !.no = run[p].no]]
      BY <1>5 DEF RunActive, VersionChanged, Finish, Abort, Exit
    <2>2. Saw([NotRunning EXCEPT !.at = answer, !.no = run[p].no])
      BY DEF Saw, NotRunning, Publishing
    <2> QED
      BY <2>1, <2>2, <1>4
  <1>6. CASE TakeRunLock(p)
    <2>1. run' = [run EXCEPT ![p] = [run[p] EXCEPT !.at = "work", !.stamp = code.stamp]] /\ run[p].at = "lock"
      BY <1>6 DEF TakeRunLock, At
    <2>2. Saw([run[p] EXCEPT !.at = "work", !.stamp = code.stamp])
      BY <1>1, <1>3, <2>1 DEF Saw, RunState, Publishing
    <2> QED
      BY <2>1, <2>2, <1>4
  <1>7. CASE Evaluate(p)
    <2>1. run[p].at = "work"
      BY <1>7 DEF Evaluate, At
    <2>2. PICK u : run' = [run EXCEPT ![p] = [run[p] EXCEPT !.at = "check", !.saw = Seen(p, u)]]
      BY <1>7, EvaluateSees
    <2> DEFINE saw == Seen(p, u)
               r == [run[p] EXCEPT !.at = "check", !.saw = saw]
    <2>3. saw.disk = run[p].saw.disk \cup {code.version} /\ saw.loaded = run[p].saw.loaded
      BY <1>1 DEF RunState, Evidence, Seen
    <2>4. r.at = "check" /\ r.saw = saw /\ r.stamp = run[p].stamp
      <3> HIDE DEF saw
      <3> QED
        BY <1>1 DEF RunState
    <2>5. Saw(r)
      <3> HIDE DEF saw, r
      <3> QED
        BY <1>3, <2>1, <2>3, <2>4 DEF Saw, Publishing
    <2> QED
      BY <2>2, <2>5, <1>4
  <1>8. CASE Checkpoint(p)
    <2> DEFINE at == IF run[p].stage = LastStage THEN Following(run[p].model).work ELSE "work"
               stage == IF run[p].stage = LastStage THEN run[p].stage ELSE run[p].stage + 1
               r == [run[p] EXCEPT !.at = at, !.stage = stage]
    <2>1. run' = [run EXCEPT ![p] = r] /\ run[p].at = "check" /\ run[p].stamp = code.stamp
      BY <1>8 DEF Checkpoint, At
    <2>2. at \in {"store", "work"}
      BY DEF Following
    <2>3. r.at = at /\ r.saw = run[p].saw /\ r.stamp = run[p].stamp
      <3> HIDE DEF at, stage
      <3> QED
        BY <1>1 DEF RunState
    <2>4. run[p].saw.disk = {code.version}
      BY <1>3, <2>1 DEF Saw
    <2>5. Saw(r)
      <3> HIDE DEF at, r
      <3> QED
        BY <1>1, <1>3, <2>1, <2>2, <2>3, <2>4 DEF Saw, Publishing
    <2> HIDE DEF r
    <2> QED
      BY <2>1, <2>5, <1>4
  <1>9. CASE StoreEvidence(p) \/ RecordHistory(p) \/ WriteTable(p) \/ PublishBundle(p) \/ PublishSnapshot(p)
    <2>1. PICK at : run' = [run EXCEPT ![p] = [run[p] EXCEPT !.at = at]] /\ run[p].at \in Publishing /\ at \in Publishing
      <3>1. RunInv'
        BY StepKeepsRun
      <3>2. PICK phase \in Publishing \ {"final"} :
                run' = [run EXCEPT ![p] = [run[p] EXCEPT !.at = Following(run[p].model)[phase]]] /\ run[p].at = phase
        BY <1>9 DEF StoreEvidence, RecordHistory, WriteTable, PublishBundle, PublishSnapshot, Write, To, At, Publishing
      <3>3. run[p].model \in Models /\ (phase = "history" => run[p].model = "v6")
            /\ (phase = "snapshot" => run[p].model = "v7")
        BY <1>1, <3>2 DEF RunInv, At, RunState
      <3>4. Following(run[p].model)[phase] \in Publishing
        BY <3>3, FollowingPhase DEF Models
      <3> QED
        BY <3>2, <3>4
    <2>2. Saw([run[p] EXCEPT !.at = at])
      BY <1>1, <1>3, <2>1 DEF Saw, RunState, Publishing
    <2> QED
      BY <2>1, <2>2, <1>4
  <1> QED
    BY <1>5, <1>6, <1>7, <1>8, <1>9 DEF RunStep

-----------------------------------------------------------------------------
LEMMA OrderedOfFiles == FilesInv => NothingDangling /\ PublishedInOrder
  BY DEF FilesInv, DirOK, NothingDangling, PublishedInOrder

LEMMA InitFiles == Init => FilesInv
  <1> SUFFICES ASSUME Init PROVE FilesInv
    OBVIOUS
  <1>1. \A d \in Dirs : files[d] = EmptyDir
    BY DEF Init, RunInit
  <1>2. \A p \in Processes : run[p].at = "idle"
    BY DEF Init, RunInit, NotRunning
  <1>3. \A n : DirOK(EmptyDir, n)
    BY DEF DirOK, EmptyDir, Referenced, Models, NoResult
  <1>4. EmptyDir.store = {}
    BY DEF EmptyDir
  <1> QED
    BY <1>1, <1>2, <1>3, <1>4 DEF FilesInv, PhaseOK, Publishing

(* A process that moves within its own directory.                           *)
LEMMA OneWrites ==
    ASSUME RunInv, FilesInv, NEW p \in Processes, ~Ended(p), NEW r \in RunState, NEW dir \in Artifacts,
           run' = [run EXCEPT ![p] = r], r.no = No(p), r.dir = run[p].dir,
           files' = [files EXCEPT ![run[p].dir] = dir],
           DirOK(dir, No(p)), PhaseOK(r, dir),
           \A n \in dir.store : \E v \in Versions : result'[n].disk = {v},
           \A d \in Dirs : \A n \in files[d].store : \E v \in Versions : result'[n].disk = {v}
    PROVE  FilesInv'
  <1>1. run \in [Processes -> RunState] /\ files \in [Dirs -> Artifacts] /\ run[p].dir \in Dirs
    BY DEF RunInv, RunTypeOK, RunState
  <1>2. \A q \in Processes : run'[q] = IF q = p THEN r ELSE run[q]
    BY <1>1
  <1>3. \A d \in Dirs : files'[d] = IF d = run[p].dir THEN dir ELSE files[d]
    BY <1>1
  <1>4. Owner(run[p].dir) = p /\ \A q \in Processes \ {p} : ~Ended(q) => run[q].dir # run[p].dir
    BY Apart DEF RunInv, Owner, Processes
  <1>5. \A q \in Processes : No(q)' = No(q)
    BY <1>2 DEF No
  <1>6. ASSUME NEW d \in Dirs PROVE DirOK(files'[d], No(Owner(d))')
    <2>1. Owner(d) \in Processes
      BY Apart DEF Owner
    <2>2. No(Owner(d))' = No(Owner(d))
      BY <2>1, <1>5
    <2>3. DirOK(files[d], No(Owner(d)))
      BY DEF FilesInv
    <2> QED
      BY <2>2, <2>3, <1>3, <1>4
  <1>7. ASSUME NEW q \in Processes PROVE PhaseOK(run'[q], files'[run'[q].dir])
    <2>1. CASE q = p
      BY <2>1, <1>1, <1>2, <1>3
    <2>2. CASE q # p /\ Ended(q)
      BY <2>2, <1>2 DEF PhaseOK, Publishing, Ended
    <2>3. CASE q # p /\ ~Ended(q)
      <3>1. run[q].dir \in Dirs /\ run[q].dir # run[p].dir /\ run'[q] = run[q]
        BY <2>3, <1>1, <1>2, <1>4 DEF RunState
      <3>2. files'[run[q].dir] = files[run[q].dir]
        BY <3>1, <1>3
      <3> QED
        BY <3>1, <3>2 DEF FilesInv
    <2> QED
      BY <2>1, <2>2, <2>3
  <1>8. ASSUME NEW d \in Dirs, NEW n \in files'[d].store PROVE \E v \in Versions : result'[n].disk = {v}
    BY <1>3
  <1> QED
    BY <1>6, <1>7, <1>8 DEF FilesInv

(* A process that writes nothing.                                           *)
LEMMA OneKeepsFiles ==
    ASSUME RunInv, FilesInv, NEW p \in Processes, NEW r,
           run' = [run EXCEPT ![p] = r], r.no = No(p), r.at \notin Publishing \ {"store"},
           UNCHANGED <<files, result>>
    PROVE  FilesInv'
  <1>1. run \in [Processes -> RunState]
    BY DEF RunInv, RunTypeOK
  <1>2. \A q \in Processes : run'[q] = IF q = p THEN r ELSE run[q]
    BY <1>1
  <1>3. \A q \in Processes : No(q)' = No(q)
    BY <1>2 DEF No
  <1>4. \A d \in Dirs : No(Owner(d))' = No(Owner(d))
    BY <1>3, Apart DEF Owner
  <1>5. ASSUME NEW q \in Processes PROVE PhaseOK(run'[q], files'[run'[q].dir])
    <2>1. CASE q = p
      BY <2>1, <1>2 DEF PhaseOK, Publishing
    <2>2. CASE q # p
      BY <2>2, <1>2 DEF FilesInv
    <2> QED
      BY <2>1, <2>2
  <1> QED
    BY <1>4, <1>5 DEF FilesInv

LEMMA StepKeepsFiles ==
    ASSUME RunInv, SawInv, FilesInv, NEW p \in Processes, RunStep(p) \/ Abort(p)
    PROVE  FilesInv'
  <1>1. /\ run \in [Processes -> RunState] /\ run[p] \in RunState /\ files \in [Dirs -> Artifacts]
        /\ result \in [Numbers -> Evidence] /\ run[p].dir \in Dirs /\ run[p].model \in Models
        /\ Dir(p) \in Artifacts /\ Dir(p) = files[run[p].dir]
    BY DEF RunInv, RunTypeOK, RunState, Dir
  <1>2. RunInv'
    BY StepKeepsRun
  <1>3. PhaseOK(run[p], Dir(p))
    BY <1>1 DEF FilesInv
  <1>4. \A d \in Dirs : \A n \in files[d].store : \E v \in Versions : result[n].disk = {v}
    BY DEF FilesInv
  <1>5. CASE RunActive(p) \/ VersionChanged(p) \/ Finish(p) \/ Abort(p)
    <2>1. PICK answer \in {"ok", "failed"} : Exit(p, answer)
      BY <1>5 DEF RunActive, VersionChanged, Finish, Abort
    <2>2. [NotRunning EXCEPT !.at = answer, !.no = run[p].no].no = No(p)
          /\ [NotRunning EXCEPT !.at = answer, !.no = run[p].no].at = answer
      BY DEF NotRunning, No
    <2> QED
      BY <2>1, <2>2, OneKeepsFiles DEF Exit, Publishing
  <1>6. CASE TakeRunLock(p)
    <2>1. [run[p] EXCEPT !.at = "work", !.stamp = code.stamp].no = No(p)
          /\ [run[p] EXCEPT !.at = "work", !.stamp = code.stamp].at = "work"
      BY <1>1 DEF No, RunState
    <2> QED
      BY <2>1, <1>6, OneKeepsFiles DEF TakeRunLock, Publishing
  <1>7. CASE Evaluate(p)
    <2>1. PICK u : run' = [run EXCEPT ![p] = [run[p] EXCEPT !.at = "check", !.saw = Seen(p, u)]]
      BY <1>7, EvaluateSees
    <2>2. [run[p] EXCEPT !.at = "check", !.saw = Seen(p, u)].no = No(p)
          /\ [run[p] EXCEPT !.at = "check", !.saw = Seen(p, u)].at = "check"
      BY <1>1 DEF No, RunState
    <2> QED
      BY <2>1, <2>2, <1>7, OneKeepsFiles DEF Evaluate, Publishing
  <1>8. CASE Checkpoint(p)
    <2> DEFINE at == IF run[p].stage = LastStage THEN Following(run[p].model).work ELSE "work"
               stage == IF run[p].stage = LastStage THEN run[p].stage ELSE run[p].stage + 1
               r == [run[p] EXCEPT !.at = at, !.stage = stage]
    <2>1. run' = [run EXCEPT ![p] = r] /\ UNCHANGED <<files, result>>
      BY <1>8 DEF Checkpoint
    <2>2. at \in {"store", "work"}
      BY DEF Following
    <2>3. r.no = No(p) /\ r.at = at
      <3> HIDE DEF at, stage
      <3> QED
        BY <1>1 DEF RunState, No
    <2>4. r.at \notin Publishing \ {"store"}
      BY <2>2, <2>3 DEF Publishing
    <2> HIDE DEF r, at, stage
    <2> QED
      BY <2>1, <2>3, <2>4, OneKeepsFiles
  (* The publishing steps.                                                  *)
  <1>9. ~Ended(p) => No(p) \in Numbers /\ No(p) # NoResult /\ run[p].no = No(p)
    BY DEF RunInv, Numbers, NoResult, No
  <1>a. No(p) \in 0..MaxResults
    BY <1>1 DEF No, RunState
  <1>10. DirOK(Dir(p), No(p)) \/ Ended(p)
    <2>1. ~Ended(p) => Owner(run[p].dir) = p
      BY Apart DEF RunInv, Owner, Processes
    <2> QED
      BY <2>1, <1>1 DEF FilesInv
  <1>11. CASE StoreEvidence(p)
    <2> DEFINE at == Following(run[p].model).store
               r == [run[p] EXCEPT !.at = at]
               dir == [Dir(p) EXCEPT !.store = Dir(p).store \cup {No(p)}]
    <2>1. run' = [run EXCEPT ![p] = r] /\ files' = [files EXCEPT ![run[p].dir] = dir]
          /\ result' = [result EXCEPT ![No(p)] = run[p].saw] /\ run[p].at = "store"
      BY <1>1, <1>11 DEF StoreEvidence, To, At
    <2>2. at \in {"history", "table", "bundle"} /\ (at = "bundle" => run[p].model = "v7") /\ at # "bundle"
      BY <1>1 DEF Following, Models
    <2>3. ~Ended(p)
      BY <2>1 DEF Ended
    <2>4. PICK v \in Versions : run[p].saw.disk = {v}
      BY <2>1 DEF SawInv, Saw, Publishing
    <2>5. \A n \in Numbers : result'[n] = IF n = No(p) THEN run[p].saw ELSE result[n]
      BY <1>1, <2>1
    <2>6. dir \in Artifacts /\ dir.store = Dir(p).store \cup {No(p)} /\ dir.table = Dir(p).table
          /\ dir.bundle = Dir(p).bundle /\ dir.snapshots = Dir(p).snapshots /\ dir.history = Dir(p).history
      BY <1>1, <1>9, <2>3 DEF Artifacts
    <2>7. r \in RunState /\ r.no = No(p) /\ r.dir = run[p].dir /\ r.at = at
      <3>1. r.no = No(p) /\ r.dir = run[p].dir /\ r.at = at
        BY <1>1 DEF RunState, No
      <3>2. run'[p] = r /\ run'[p] \in RunState
        BY <1>1, <1>2, <2>1 DEF RunInv, RunTypeOK
      <3> QED
        BY <3>1, <3>2
    <2>8. No(p) \in Int
      BY <1>9, <2>3 DEF Numbers
    <2> HIDE DEF r, dir, at
    <2>9. DirOK(dir, No(p))
      BY <1>10, <2>3, <2>6, <2>8 DEF DirOK, Referenced
    <2>10. PhaseOK(r, dir)
      BY <2>2, <2>6, <2>7 DEF PhaseOK, Publishing
    <2>11. \A d \in Dirs : \A n \in files[d].store : \E w \in Versions : result'[n].disk = {w}
      <3>1. \A d \in Dirs : files[d].store \subseteq Numbers
        BY <1>1 DEF Artifacts
      <3> QED
        BY <3>1, <1>4, <2>4, <2>5
    <2>12. \A n \in dir.store : \E w \in Versions : result'[n].disk = {w}
      BY <2>6, <2>11, <2>4, <2>5, <1>1, <1>9, <2>3
    <2> QED
      BY <2>1, <2>3, <2>6, <2>7, <2>9, <2>10, <2>11, <2>12, OneWrites
  <1>12. ASSUME NEW phase \in {"history", "table", "bundle", "snapshot"}, NEW dir, Write(p, phase, dir),
                dir.store = Dir(p).store,
                dir \in Artifacts, DirOK(dir, No(p)),
                LET next == Following(run[p].model)[phase]
                IN  /\ next \in {"bundle", "snapshot", "final"} => dir.table = No(p)
                    /\ next = "snapshot" => dir.bundle["v7"] = No(p)
         PROVE  FilesInv'
    <2> DEFINE at == Following(run[p].model)[phase]
               r == [run[p] EXCEPT !.at = at]
    <2>1. run' = [run EXCEPT ![p] = r] /\ files' = [files EXCEPT ![run[p].dir] = dir]
          /\ result' = result /\ run[p].at = phase
      BY <1>12 DEF Write, To, At
    <2>2. ~Ended(p)
      BY <2>1 DEF Ended
    <2>3. r \in RunState /\ r.no = No(p) /\ r.dir = run[p].dir /\ r.at = at
      <3>1. r.no = No(p) /\ r.dir = run[p].dir /\ r.at = at
        BY <1>1 DEF RunState, No
      <3>2. run'[p] = r /\ run'[p] \in RunState
        BY <1>1, <1>2, <2>1 DEF RunInv, RunTypeOK
      <3> QED
        BY <3>1, <3>2
    <2>4. No(p) \in Dir(p).store
      BY <1>3, <1>9, <2>1, <2>2 DEF PhaseOK, Publishing
    <2>5. PhaseOK(r, dir)
      <3> HIDE DEF r
      <3> QED
        BY <1>12, <2>3, <2>4 DEF PhaseOK
    <2>6. \A n \in dir.store : \E v \in Versions : result'[n].disk = {v}
      BY <1>1, <1>4, <1>12, <2>1
    <2>7. \A d \in Dirs : \A n \in files[d].store : \E v \in Versions : result'[n].disk = {v}
      BY <1>4, <2>1
    <2> HIDE DEF r, at
    <2> QED
      BY <1>12, <2>1, <2>2, <2>3, <2>5, <2>6, <2>7, OneWrites
  <1>13. CASE RecordHistory(p)
    <2> DEFINE dir == [Dir(p) EXCEPT !.history = Dir(p).history \cup {No(p)}]
    <2>1. Write(p, "history", dir) /\ run[p].at = "history" /\ ~Ended(p)
      BY <1>13 DEF RecordHistory, Write, At, Ended
    <2>2. dir \in Artifacts /\ dir.store = Dir(p).store /\ dir.table = Dir(p).table
          /\ dir.bundle = Dir(p).bundle /\ dir.snapshots = Dir(p).snapshots
          /\ dir.history = Dir(p).history \cup {No(p)}
      BY <1>1, <1>9, <2>1 DEF Artifacts
    <2>3. No(p) \in Dir(p).store
      BY <1>3, <1>9, <2>1 DEF PhaseOK, Publishing
    <2>4. run[p].model = "v6"
      BY <2>1 DEF RunInv, At
    <2>5. Following(run[p].model)["history"] = "table"
      BY <2>4 DEF Following
    <2> HIDE DEF dir
    <2>6. DirOK(dir, No(p))
      BY <1>10, <2>1, <2>2, <2>3 DEF DirOK, Referenced
    <2> QED
      BY <1>12, <2>1, <2>2, <2>5, <2>6
  <1>14. CASE WriteTable(p)
    <2> DEFINE dir == [Dir(p) EXCEPT !.table = No(p)]
    <2>1. Write(p, "table", dir) /\ run[p].at = "table" /\ ~Ended(p)
      BY <1>14 DEF WriteTable, Write, At, Ended
    <2>2. dir \in Artifacts /\ dir.store = Dir(p).store /\ dir.table = No(p)
          /\ dir.bundle = Dir(p).bundle /\ dir.snapshots = Dir(p).snapshots /\ dir.history = Dir(p).history
      BY <1>1, <1>a DEF Artifacts
    <2>3. No(p) \in Dir(p).store
      BY <1>3, <1>9, <2>1 DEF PhaseOK, Publishing
    <2>4. Following(run[p].model)["table"] \in {"bundle", "snapshot"}
          /\ Following(run[p].model)["table"] = "bundle"
      BY <1>1 DEF Following, Models
    <2>5. \A m \in Models : Dir(p).bundle[m] \in Nat /\ Dir(p).bundle[m] <= No(p)
      <3> SUFFICES ASSUME NEW m \in Models PROVE Dir(p).bundle[m] \in Nat /\ Dir(p).bundle[m] <= No(p)
        OBVIOUS
      <3>1. Dir(p).bundle[m] \in Nat /\ No(p) \in Nat
        BY <1>1, <1>9, <2>1 DEF Artifacts, Numbers
      <3>2. Dir(p).bundle[m] = NoResult \/ Dir(p).bundle[m] \in Dir(p).store
        BY <1>10, <2>1 DEF DirOK, Referenced
      <3> QED
        BY <3>1, <3>2, <1>10, <2>1 DEF DirOK, NoResult
    <2> HIDE DEF dir
    <2>6. DirOK(dir, No(p))
      BY <1>10, <2>1, <2>2, <2>3, <2>5 DEF DirOK, Referenced
    <2> QED
      BY <1>12, <2>1, <2>2, <2>4, <2>6
  <1>15. CASE PublishBundle(p)
    <2> DEFINE m == run[p].model
               dir == [Dir(p) EXCEPT !.bundle[m] = No(p)]
    <2>1. Write(p, "bundle", dir) /\ run[p].at = "bundle" /\ ~Ended(p)
      BY <1>15 DEF PublishBundle, Write, At, Ended
    <2>a. [Dir(p).bundle EXCEPT ![m] = No(p)] \in [Models -> 0..MaxResults]
      BY <1>1, <1>a DEF Artifacts
    <2>2. dir \in Artifacts /\ dir.store = Dir(p).store /\ dir.table = Dir(p).table
          /\ dir.bundle = [Dir(p).bundle EXCEPT ![m] = No(p)]
          /\ dir.snapshots = Dir(p).snapshots /\ dir.history = Dir(p).history
      <3> DEFINE bundle == [Dir(p).bundle EXCEPT ![m] = No(p)]
      <3>1. dir = [Dir(p) EXCEPT !.bundle = bundle]
        OBVIOUS
      <3> HIDE DEF bundle, dir
      <3>2. dir \in Artifacts /\ dir.store = Dir(p).store /\ dir.table = Dir(p).table
            /\ dir.snapshots = Dir(p).snapshots /\ dir.history = Dir(p).history /\ dir.bundle = bundle
        BY <1>1, <2>a, <3>1 DEF Artifacts, bundle
      <3> QED
        BY <3>2 DEF bundle
    <2>3. No(p) \in Dir(p).store /\ Dir(p).table = No(p)
      BY <1>3, <1>9, <2>1 DEF PhaseOK, Publishing
    <2>4. \A k \in Models : dir.bundle[k] = IF k = m THEN No(p) ELSE Dir(p).bundle[k]
      BY <1>1, <2>2 DEF Artifacts
    <2>5. Following(run[p].model)["bundle"] = IF run[p].model = "v6" THEN "final" ELSE "snapshot"
      BY DEF Following
    <2>6. Dir(p).snapshots \subseteq Dir(p).store /\ \A n \in Dir(p).store : n \in Int /\ n <= No(p)
      <3>1. Dir(p).store \subseteq Numbers /\ Dir(p).snapshots \subseteq Numbers
        BY <1>1 DEF Artifacts
      <3> QED
        BY <3>1, <1>10, <2>1 DEF DirOK, Referenced, Numbers, NoResult
    <2>7. No(p) \in Int
      BY <1>9, <2>1 DEF Numbers
    <2>8. m \in Models /\ "v7" \in Models
      BY <1>1 DEF Models
    <2> HIDE DEF dir
    <2>9. DirOK(dir, No(p))
      <3>1. \A n \in dir.store : n <= No(p)
        BY <1>10, <2>1, <2>2 DEF DirOK
      <3>2. Referenced(dir) \subseteq dir.store
        BY <1>10, <2>1, <2>2, <2>3, <2>4 DEF DirOK, Referenced
      <3>3. \A k \in Models : dir.bundle[k] <= dir.table
        BY <1>10, <2>1, <2>2, <2>3, <2>4, <2>7 DEF DirOK
      <3>4. \A n \in dir.snapshots : n <= dir.bundle["v7"]
        BY <1>10, <2>1, <2>2, <2>4, <2>6, <2>8 DEF DirOK
      <3> QED
        BY <3>1, <3>2, <3>3, <3>4 DEF DirOK
    <2>10. Following(m)["bundle"] = "snapshot" => dir.bundle["v7"] = No(p)
      BY <2>4, <2>5, <2>8 DEF Models
    <2> QED
      BY <1>12, <2>1, <2>2, <2>3, <2>9, <2>10
  <1>16. CASE PublishSnapshot(p)
    <2> DEFINE dir == [Dir(p) EXCEPT !.snapshots = Dir(p).snapshots \cup {No(p)}]
    <2>1. Write(p, "snapshot", dir) /\ run[p].at = "snapshot" /\ ~Ended(p)
      BY <1>16 DEF PublishSnapshot, Write, At, Ended
    <2>2. dir \in Artifacts /\ dir.store = Dir(p).store /\ dir.table = Dir(p).table
          /\ dir.bundle = Dir(p).bundle /\ dir.history = Dir(p).history
          /\ dir.snapshots = Dir(p).snapshots \cup {No(p)}
      BY <1>1, <1>9, <2>1 DEF Artifacts
    <2>3. No(p) \in Dir(p).store /\ Dir(p).table = No(p) /\ Dir(p).bundle["v7"] = No(p)
      BY <1>3, <1>9, <2>1 DEF PhaseOK, Publishing
    <2>4. run[p].model = "v7"
      BY <2>1 DEF RunInv, At
    <2>5. Following(run[p].model)["snapshot"] = "final" /\ No(p) \in Int
      BY <1>9, <2>1, <2>4 DEF Following, Numbers
    <2> HIDE DEF dir
    <2>6. DirOK(dir, No(p))
      BY <1>10, <2>1, <2>2, <2>3, <2>5 DEF DirOK, Referenced
    <2> QED
      BY <1>12, <2>1, <2>2, <2>3, <2>5, <2>6
  <1> QED
    BY <1>5, <1>6, <1>7, <1>8, <1>11, <1>13, <1>14, <1>15, <1>16 DEF RunStep

-----------------------------------------------------------------------------
RunPart == RunInv /\ SawInv /\ FilesInv

LEMMA StartKeeps ==
    ASSUME RunPart, NEW p \in Processes, UNCHANGED files,
           \/ p = Daily /\ Start(Daily, "main", DailyModel)
           \/ p = Child /\ Start(Child, "stage", "v7")
    PROVE  RunPart'
  <1>1. files \in [Dirs -> Artifacts] /\ run \in [Processes -> RunState] /\ made \in Nat
    BY DEF RunPart, RunInv, RunTypeOK
  <1>2. /\ RunInv' /\ made' = made + 1 /\ No(p)' = made' /\ run'[p].at = "lock"
        /\ run'[p].saw.loaded = {code.version} /\ code.version \in Versions
        /\ \A q \in Processes \ {p} : run'[q] = run[q]
    BY <1>1, StartKeepsRun DEF RunPart, At
  <1>3. code' = code /\ result' = result /\ files' = files
    BY DEF Start, Outside
  <1>4. run'[p].saw.disk = {}
    <2>1. PICK d, m : run' = [run EXCEPT ![p] = [NotRunning EXCEPT !.at = "lock", !.dir = d, !.model = m, !.no = made + 1,
                                  !.saw = [Blank EXCEPT !.loaded = {code.version}]]]
      BY DEF Start
    <2>2. run'[p].saw = [Blank EXCEPT !.loaded = {code.version}]
      BY <2>1, <1>1 DEF NotRunning
    <2> QED
      BY <2>2 DEF Blank
  <1>5. SawInv'
    <2>1. \A q \in Processes : Saw(run'[q])
      BY <1>2, <1>4 DEF RunPart, SawInv, Saw, Publishing
    <2> QED
      BY <2>1, <1>3 DEF SawInv, Saw
  <1>6. FilesInv'
    <2>1. ASSUME NEW d \in Dirs PROVE DirOK(files[d], No(Owner(d))')
      <3>1. DirOK(files[d], No(Owner(d))) /\ Owner(d) \in Processes
        BY Apart DEF RunPart, FilesInv, Owner
      <3>2. CASE Owner(d) # p
        <4>1. No(Owner(d))' = No(Owner(d))
          BY <3>1, <3>2, <1>2 DEF No
        <4> QED
          BY <3>1, <4>1
      <3>3. CASE Owner(d) = p
        <4>1. No(p) <= made /\ No(p) \in Int /\ \A n \in files[d].store : n \in Int
          BY <1>1 DEF RunPart, RunInv, No, RunState, Artifacts, Numbers
        <4>2. \A n \in files[d].store : n <= No(p)
          BY <3>1, <3>3 DEF DirOK
        <4>3. \A n \in files[d].store : n <= made'
          BY <4>1, <4>2, <1>1, <1>2
        <4> QED
          BY <3>1, <3>3, <4>3, <1>2 DEF DirOK
      <3> QED
        BY <3>2, <3>3
    <2>2. ASSUME NEW q \in Processes PROVE PhaseOK(run'[q], files[run'[q].dir])
      <3>1. CASE q = p
        BY <3>1, <1>2 DEF PhaseOK, Publishing
      <3>2. CASE q # p
        BY <3>2, <1>2 DEF RunPart, FilesInv
      <3> QED
        BY <3>1, <3>2
    <2> QED
      BY <2>1, <2>2, <1>3 DEF RunPart, FilesInv
  <1> QED
    BY <1>2, <1>5, <1>6 DEF RunPart

(* New source: whoever is at work has older stamps.                         *)
LEMMA DeployKeeps == ASSUME RunPart, Deploy PROVE RunPart'
  <1>1. PICK v \in Versions : code' = [version |-> v, stamp |-> code.stamp + 1]
    BY DEF Deploy
  <1>2. /\ UNCHANGED <<today, runLock, run, made, result, files, evaluated>>
        /\ events < MaxEvents /\ events' = events + 1
    BY DEF Deploy, Event
  <1>3. /\ code \in [version : Versions, stamp : 0..MaxEvents] /\ events \in 0..MaxEvents /\ code.stamp <= events
        /\ run \in [Processes -> RunState] /\ \A p \in Processes : run[p].stamp <= code.stamp
    BY DEF RunPart, RunInv, RunTypeOK
  <1>4. /\ code'.stamp \in Nat /\ code'.stamp <= events' /\ events' \in 0..MaxEvents /\ code'.version = v
        /\ code' \in [version : Versions, stamp : 0..MaxEvents]
    BY <1>1, <1>2, <1>3, RunAssumption
  <1>5. \A p \in Processes : run[p].stamp < code'.stamp /\ run[p].stamp <= code'.stamp
    BY <1>1, <1>3, RunAssumption DEF RunState
  <1>6. RunInv'
    <2>1. RunTypeOK'
      BY <1>2, <1>4 DEF RunPart, RunInv, RunTypeOK, Working, Ended, At
    <2> QED
      BY <2>1, <1>2, <1>4, <1>5 DEF RunPart, RunInv, No, Ended, At
  <1>7. SawInv'
    BY <1>2, <1>5, <1>3 DEF RunPart, SawInv, Saw, RunState
  <1>8. FilesInv'
    BY <1>2 DEF RunPart, FilesInv, No
  <1> QED
    BY <1>6, <1>7, <1>8 DEF RunPart

LEMMA QuietKeeps ==
    ASSUME RunPart, UNCHANGED <<code, runLock, run, made, result, files, evaluated>>,
           today' \in 1..LastDay, events' \in 0..MaxEvents, events <= events'
    PROVE  RunPart'
  <1>1. RunInv'
    <2>1. RunTypeOK'
      BY DEF RunPart, RunInv, RunTypeOK, Working, Ended, At
    <2>2. code'.stamp <= events'
      <3>1. code.stamp \in 0..MaxEvents /\ events \in 0..MaxEvents /\ code.stamp <= events
        BY DEF RunPart, RunInv, RunTypeOK
      <3> QED
        BY <3>1
    <2> QED
      BY <2>1, <2>2 DEF RunPart, RunInv, No, Ended, At
  <1>2. SawInv'
    BY DEF RunPart, SawInv, Saw
  <1>3. FilesInv'
    BY DEF RunPart, FilesInv, No
  <1> QED
    BY <1>1, <1>2, <1>3 DEF RunPart

(* The stage of a new attempt is empty; nobody works there.                 *)
LEMMA FreshStageKeeps ==
    ASSUME RunPart, Ended(Child), files' = [files EXCEPT !["stage"] = EmptyDir],
           UNCHANGED <<code, today, runLock, run, made, result, evaluated, events>>
    PROVE  RunPart'
  <1>1. files \in [Dirs -> Artifacts] /\ files' \in [Dirs -> Artifacts]
    BY BlankTypes DEF RunPart, RunInv, RunTypeOK
  <1>2. \A d \in Dirs : files'[d] = IF d = "stage" THEN EmptyDir ELSE files[d]
    BY <1>1
  <1>3. RunInv'
    <2>1. RunTypeOK'
      BY <1>1 DEF RunPart, RunInv, RunTypeOK, Working, Ended, At
    <2> QED
      BY <2>1 DEF RunPart, RunInv, No, Ended, At
  <1>4. SawInv'
    BY DEF RunPart, SawInv, Saw
  <1>5. ASSUME NEW n PROVE DirOK(EmptyDir, n)
    BY DEF DirOK, EmptyDir, Referenced, Models, NoResult
  <1>6. ASSUME NEW p \in Processes PROVE PhaseOK(run[p], files'[run[p].dir])
    <2>1. CASE p = Child
      BY <2>1 DEF PhaseOK, Publishing, Ended
    <2>2. CASE p = Daily /\ Ended(Daily)
      BY <2>2 DEF PhaseOK, Publishing, Ended
    <2>3. CASE p = Daily /\ ~Ended(Daily)
      <3>1. run[p].dir = "main"
        BY <2>3 DEF RunPart, RunInv
      <3> QED
        BY <3>1, <1>2 DEF RunPart, FilesInv, Dirs
    <2> QED
      BY <2>1, <2>2, <2>3 DEF Processes
  <1>7. EmptyDir.store = {}
    BY DEF EmptyDir
  <1>8. FilesInv'
    BY <1>2, <1>5, <1>6, <1>7 DEF RunPart, FilesInv, No
  <1> QED
    BY <1>3, <1>4, <1>8 DEF RunPart

LEMMA NextKeepsRunPart ==
    ASSUME RunPart, attempt = NoAttempt => Ended(Child), [Next]_allVars
    PROVE  RunPart'
  <1>1. today \in 1..LastDay /\ events \in 0..MaxEvents /\ events <= events /\ MaxEvents \in Nat /\ LastDay \in Nat
    BY RunAssumption DEF RunPart, RunInv, RunTypeOK
  <1>2. ASSUME NEW p \in Processes, RunStep(p) \/ Abort(p) PROVE RunPart'
    BY <1>2, StepKeepsRun, StepKeepsSaw, StepKeepsFiles DEF RunPart
  <1>3. CASE Start(Daily, "main", DailyModel) /\ UNCHANGED files
    BY <1>3, Apart, StartKeeps
  <1>4. CASE Deploy
    BY <1>4, DeployKeeps
  <1>5. CASE NextDay
    BY <1>1, <1>5, QuietKeeps DEF NextDay
  <1>6. ASSUME NEW c \in Collectors, Launch(c) PROVE RunPart'
    BY <1>6, Apart, StartKeeps DEF Launch
  <1>7. ASSUME NEW c \in Collectors, Admit(c) PROVE RunPart'
    BY <1>7, FreshStageKeeps DEF Admit, MayAttempt, Outside
  <1>8. ASSUME NEW c \in Collectors, CollectorDies(c) PROVE RunPart'
    BY <1>1, <1>8, QuietKeeps DEF CollectorDies, Event, Outside
  <1>9. CASE UNCHANGED runVars
    BY <1>1, <1>9, QuietKeeps DEF runVars
  <1>10. ASSUME NEW c \in Collectors,
                Call(c) \/ Identify(c) \/ BindIdentity(c) \/ TakeGuard(c) \/ Accept(c) \/ Seal(c) \/ Refused(c)
         PROVE  RunPart'
    BY <1>9, <1>10 DEF Call, Identify, BindIdentity, TakeGuard, Accept, Seal, Refused
  <1>11. CASE Review
    BY <1>9, <1>11 DEF Review
  <1>12. CASE UNCHANGED allVars
    BY <1>9, <1>12 DEF allVars
  <1> QED
    BY <1>2, <1>3, <1>4, <1>5, <1>6, <1>7, <1>8, <1>10, <1>11, <1>12 DEF Next, Running, Collect, Environment

-----------------------------------------------------------------------------
SeriesPart == TypeOK /\ AttemptInv

LEMMA InitSeries == Init => SeriesPart
  <1> SUFFICES ASSUME Init PROVE SeriesPart
    OBVIOUS
  <1>1. RunTypeOK
    BY InitRun DEF RunInv
  <1>2. \A c \in Collectors : collector[c] = Away /\ collector[c].at = "idle"
    BY DEF Init, Away
  <1>3. TypeOK
    <2>1. collector \in [Collectors -> Waiting]
      BY RunAssumption DEF Init, Away, Waiting, NoResult
    <2>2. NoAttempt \in [day : 0..LastDay, no : 0..MaxResults]
      BY RunAssumption DEF NoAttempt, NoResult
    <2>3. \A c \in Collectors : In(c, "idle")
      BY <1>2 DEF In
    <2> QED
      BY <1>1, <2>1, <2>2, <2>3 DEF Init, TypeOK
  <1>4. Ended(Child)
    BY Apart DEF Init, RunInit, Ended, NotRunning
  <1>5. AttemptInv
    BY <1>2, <1>4, RunAssumption DEF Init, RunInit, AttemptInv, Waits, NoAttempt, NoResult, In, Away
  <1> QED
    BY <1>3, <1>5 DEF SeriesPart

LEMMA StepFacts ==
    ASSUME RunInv, NEW p \in Processes, RunStep(p) \/ Abort(p)
    PROVE  /\ ~Ended(p)
           /\ \A q \in Processes \ {p} : run'[q] = run[q]
           /\ \A q \in Processes : No(q)' = No(q)
           /\ UNCHANGED <<code, today, made>>
  <1>1. run \in [Processes -> RunState] /\ run[p] \in RunState
    BY DEF RunInv, RunTypeOK
  <1>2. UNCHANGED <<code, today, made>>
    BY DEF RunStep, Abort, TakeRunLock, RunActive, Evaluate, Checkpoint, VersionChanged, StoreEvidence,
           RecordHistory, WriteTable, PublishBundle, PublishSnapshot, Finish, Exit, Write, Outside
  <1>3. ~Ended(p)
    BY DEF RunStep, Abort, TakeRunLock, RunActive, Evaluate, Checkpoint, VersionChanged, StoreEvidence,
           RecordHistory, WriteTable, PublishBundle, PublishSnapshot, Finish, Write, Ended, At
  <1>4. ASSUME NEW r, run' = [run EXCEPT ![p] = r], r.no = run[p].no
        PROVE  (\A q \in Processes \ {p} : run'[q] = run[q]) /\ (\A q \in Processes : No(q)' = No(q))
    BY <1>1, <1>4 DEF No
  <1>5. \E r : run' = [run EXCEPT ![p] = r] /\ r.no = run[p].no
    <2>1. CASE RunActive(p) \/ VersionChanged(p) \/ Finish(p) \/ Abort(p)
      <3>1. PICK answer : Exit(p, answer)
        BY <2>1 DEF RunActive, VersionChanged, Finish, Abort
      <3>2. [NotRunning EXCEPT !.at = answer, !.no = run[p].no].no = run[p].no
        BY DEF NotRunning
      <3> QED
        BY <3>1, <3>2 DEF Exit
    <2>2. CASE TakeRunLock(p)
      <3>1. [run[p] EXCEPT !.at = "work", !.stamp = code.stamp].no = run[p].no
        BY <1>1 DEF RunState
      <3> QED
        BY <2>2, <3>1 DEF TakeRunLock
    <2>3. CASE Evaluate(p)
      <3>1. PICK u : run' = [run EXCEPT ![p] = [run[p] EXCEPT !.at = "check", !.saw = Seen(p, u)]]
        BY <2>3, EvaluateSees
      <3>2. [run[p] EXCEPT !.at = "check", !.saw = Seen(p, u)].no = run[p].no
        BY <1>1 DEF RunState
      <3> QED
        BY <3>1, <3>2
    <2>4. CASE Checkpoint(p)
      <3> DEFINE at == IF run[p].stage = LastStage THEN Following(run[p].model).work ELSE "work"
                 stage == IF run[p].stage = LastStage THEN run[p].stage ELSE run[p].stage + 1
      <3>1. run' = [run EXCEPT ![p] = [run[p] EXCEPT !.at = at, !.stage = stage]]
        BY <2>4 DEF Checkpoint
      <3> HIDE DEF at, stage
      <3>2. [run[p] EXCEPT !.at = at, !.stage = stage].no = run[p].no
        BY <1>1 DEF RunState
      <3> QED
        BY <3>1, <3>2
    <2>5. CASE StoreEvidence(p) \/ RecordHistory(p) \/ WriteTable(p) \/ PublishBundle(p) \/ PublishSnapshot(p)
      <3>1. PICK at : run' = [run EXCEPT ![p] = [run[p] EXCEPT !.at = at]]
        BY <2>5 DEF StoreEvidence, RecordHistory, WriteTable, PublishBundle, PublishSnapshot, Write, To
      <3>2. [run[p] EXCEPT !.at = at].no = run[p].no
        BY <1>1 DEF RunState
      <3> QED
        BY <3>1, <3>2
    <2> QED
      BY <2>1, <2>2, <2>3, <2>4, <2>5 DEF RunStep
  <1> QED
    BY <1>2, <1>3, <1>4, <1>5

(* A step of a run, a start of the user's run, a deployment or a new day.   *)
LEMMA RunsKeepSeries ==
    ASSUME RunPart, RunPart', SeriesPart, UNCHANGED seriesVars,
           \/ \E p \in Processes : RunStep(p) \/ Abort(p)
           \/ Environment
    PROVE  SeriesPart'
  <1>1. UNCHANGED <<collector, seriesLock, identity, litter, runtime, attempt, universe, sessions, reviewed>>
    BY DEF seriesVars
  <1>2. TypeOK'
    BY <1>1 DEF RunPart, RunInv, SeriesPart, TypeOK, In
  <1>3. today \in Int /\ made \in Int /\ \A c \in Collectors : collector[c].day \in Int
    BY DEF SeriesPart, TypeOK, RunTypeOK, Waiting
  <1>4. ASSUME today' >= today, made' >= made, today' \in Int, made' \in Int,
               ~Ended(Child)' => ~Ended(Child), No(Child)' = No(Child), At(Child, "ok") => At(Child, "ok")',
               \A s \in sessions : s.no # No(Daily)'
        PROVE  AttemptInv'
    <2>1. (~Ended(Child) => attempt.no = No(Child))' /\ attempt'.no <= made'
      BY <1>1, <1>3, <1>4 DEF SeriesPart, AttemptInv, TypeOK
    <2>2. attempt # NoAttempt => attempt.day \in 1..today'
      BY <1>3, <1>4 DEF SeriesPart, AttemptInv, TypeOK
    <2>3. \A s \in sessions : s.no <= made'
      BY <1>3, <1>4 DEF SeriesPart, AttemptInv, TypeOK, Numbers
    <2>4. \A c \in Collectors : collector[c].day <= today'
      BY <1>3, <1>4 DEF SeriesPart, AttemptInv, Waits
    <2> QED
      BY <1>1, <1>4, <2>1, <2>2, <2>3, <2>4 DEF SeriesPart, AttemptInv, Waits, In, NoAttempt
  <1>5. ASSUME NEW p \in Processes, RunStep(p) \/ Abort(p) PROVE AttemptInv'
    <2>1. /\ ~Ended(p) /\ (\A q \in Processes \ {p} : run'[q] = run[q])
          /\ (\A q \in Processes : No(q)' = No(q)) /\ UNCHANGED <<today, made>>
      BY <1>5, StepFacts DEF RunPart
    <2>2. (~Ended(Child)' => ~Ended(Child)) /\ (At(Child, "ok") => At(Child, "ok")')
      <3>1. CASE p = Child
        BY <3>1, <2>1 DEF Ended, At
      <3>2. CASE p # Child
        BY <3>2, <2>1, Apart DEF Ended, At
      <3> QED
        BY <3>1, <3>2
    <2>3. \A s \in sessions : s.no # No(Daily)'
      BY <2>1, Apart DEF SeriesPart, AttemptInv
    <2> QED
      BY <1>3, <1>4, <2>1, <2>2, <2>3, Apart
  <1>6. ASSUME Start(Daily, "main", DailyModel), UNCHANGED files PROVE AttemptInv'
    <2>1. made' = made + 1 /\ No(Daily)' = made' /\ run'[Child] = run[Child]
      BY <1>6, Apart, StartKeepsRun DEF RunPart, RunInv, RunTypeOK
    <2>2. today' = today
      BY <1>6 DEF Start, Outside
    <2>3. \A s \in sessions : s.no # made'
      BY <1>3, <2>1 DEF SeriesPart, AttemptInv, TypeOK, Numbers
    <2>4. (~Ended(Child)' => ~Ended(Child)) /\ (At(Child, "ok") => At(Child, "ok")') /\ No(Child)' = No(Child)
      BY <2>1 DEF Ended, At, No
    <2>5. today' >= today /\ made' >= made /\ today' \in Int /\ made' \in Int
      BY <1>3, <2>1, <2>2
    <2>6. \A s \in sessions : s.no # No(Daily)'
      BY <2>1, <2>3
    <2> QED
      BY <1>4, <2>4, <2>5, <2>6
  <1>7. ASSUME Deploy \/ NextDay PROVE AttemptInv'
    <2>1. UNCHANGED <<run, made>> /\ today' >= today /\ today' \in Int
      BY <1>3, <1>7 DEF Deploy, NextDay
    <2>2. (~Ended(Child)' => ~Ended(Child)) /\ (At(Child, "ok") => At(Child, "ok")')
          /\ No(Child)' = No(Child) /\ No(Daily)' = No(Daily)
      BY <2>1 DEF Ended, At, No
    <2>3. made' >= made /\ made' \in Int
      BY <1>3, <2>1
    <2>4. \A s \in sessions : s.no # No(Daily)'
      BY <2>2 DEF SeriesPart, AttemptInv
    <2> QED
      BY <1>4, <2>1, <2>2, <2>3, <2>4
  <1> QED
    BY <1>2, <1>5, <1>6, <1>7 DEF SeriesPart, Environment

(* Whoever is past the series lock holds it: the others are idle or at it.  *)
LEMMA Turn ==
    ASSUME TypeOK, NEW c \in Collectors, collector[c].at \notin {"idle", "lock"} \/ seriesLock = None
    PROVE  \A d \in Collectors \ {c} : collector[d].at \in {"idle", "lock"}
  BY SeriesAssumption DEF TypeOK, In

(* A collector moves, and takes or gives up the lock by doing so.           *)
LEMMA Turned ==
    ASSUME TypeOK, RunTypeOK', NEW c \in Collectors, NEW w \in Waiting, collector' = [collector EXCEPT ![c] = w],
           seriesLock' \in Collectors \cup {None}, seriesLock' = seriesLock \/ seriesLock \in {None, c},
           w.at \in {"idle", "lock"} \/ seriesLock' = c,
           identity' \in Versions \cup {None}, runtime' \in Versions \cup {None}, litter' \in BOOLEAN,
           attempt' \in [day : 0..LastDay, no : 0..MaxResults], universe' \in Full \cup {None},
           sessions' \subseteq [day : 1..LastDay, no : Numbers, version : Versions, frozen : BOOLEAN],
           reviewed' \in SUBSET Numbers
    PROVE  TypeOK'
  <1>1. collector \in [Collectors -> Waiting]
    BY DEF TypeOK
  <1>2. collector'[c] = w /\ \A d \in Collectors \ {c} : collector'[d] = collector[d]
    BY <1>1
  <1>3. collector' \in [Collectors -> Waiting]
    BY <1>1
  <1>4. ASSUME NEW d \in Collectors PROVE collector'[d].at \in {"idle", "lock"} \/ seriesLock' = d
    <2>1. CASE d = c
      BY <1>2, <2>1
    <2>2. CASE d # c
      <3>1. collector[d].at \in {"idle", "lock"} \/ seriesLock = d
        BY DEF TypeOK, In
      <3> QED
        BY <3>1, <2>2, <1>2, SeriesAssumption
    <2> QED
      BY <2>1, <2>2
  <1> QED
    BY <1>3, <1>4 DEF TypeOK, In

(* A collector that neither has nor makes an attempt disturbs none.         *)
LEMMA QuietTurn ==
    ASSUME SeriesPart, NEW c \in Collectors, NEW w \in Waiting, collector' = [collector EXCEPT ![c] = w],
           w.at \notin {"launch", "wait", "seal"}, w.day <= today, w.at # "idle" => w.day >= 1,
           UNCHANGED <<run, made, today, attempt, sessions>>
    PROVE  AttemptInv'
  <1>1. collector'[c] = w /\ \A d \in Collectors \ {c} : collector'[d] = collector[d]
    BY DEF SeriesPart, TypeOK
  <1>2. ASSUME NEW d \in Collectors PROVE Waits(d)'
    <2>1. CASE d = c
      BY <1>1, <2>1 DEF Waits, In
    <2>2. CASE d # c
      BY <1>1, <2>2 DEF SeriesPart, AttemptInv, Waits, In, At, No
    <2> QED
      BY <2>1, <2>2
  <1> QED
    BY <1>2 DEF SeriesPart, AttemptInv, Ended, No, NoAttempt

LEMMA QuietActions ==
    ASSUME SeriesPart, RunPart', NEW c \in Collectors,
           Call(c) \/ Identify(c) \/ BindIdentity(c) \/ TakeGuard(c) \/ Refused(c) \/ CollectorDies(c)
    PROVE  SeriesPart'
  <1>1. /\ collector[c] \in Waiting /\ RunTypeOK' /\ TypeOK /\ today \in 1..LastDay /\ LastDay \in Nat
        /\ code \in [version : Versions, stamp : 0..MaxEvents]
    BY RunAssumption DEF SeriesPart, TypeOK, RunTypeOK, RunPart, RunInv
  <1>2. /\ identity \in Versions \cup {None} /\ runtime \in Versions \cup {None} /\ litter \in BOOLEAN
        /\ attempt \in [day : 0..LastDay, no : 0..MaxResults] /\ universe \in Full \cup {None}
        /\ sessions \subseteq [day : 1..LastDay, no : Numbers, version : Versions, frozen : BOOLEAN]
        /\ reviewed \in SUBSET Numbers /\ seriesLock \in Collectors \cup {None}
        /\ (In(c, "idle") \/ In(c, "lock") \/ seriesLock = c)
    BY DEF SeriesPart, TypeOK
  <1>3. UNCHANGED <<run, made, today, attempt, sessions>>
    BY DEF Call, Identify, BindIdentity, TakeGuard, Refused, CollectorDies, Leave, runVars, Outside
  <1>4. Away \in Waiting /\ Away.at = "idle" /\ Away.day = 0
    BY RunAssumption DEF Away, Waiting, NoResult
  <1>5. /\ collector[c].day <= today
        /\ ~In(c, "idle") => collector[c].day >= 1
        /\ today \in 0..LastDay /\ 0 <= today /\ today <= today /\ today >= 1
    BY <1>1 DEF SeriesPart, AttemptInv, Waits
  <1>6. ASSUME Call(c) PROVE SeriesPart'
    <2> DEFINE w == [Away EXCEPT !.at = "lock", !.day = today]
    <2>1. w \in Waiting /\ w.at = "lock" /\ w.day = today
      BY <1>4, <1>5 DEF Waiting
    <2>2. collector' = [collector EXCEPT ![c] = w]
      BY <1>6 DEF Call, Go
    <2>3. UNCHANGED <<seriesLock, identity, litter, runtime, attempt, universe, sessions, reviewed>>
      BY <1>6 DEF Call
    <2> HIDE DEF w
    <2>4. TypeOK'
      BY <1>1, <1>2, <2>1, <2>2, <2>3, Turned
    <2>5. AttemptInv'
      BY <1>1, <1>3, <1>5, <2>1, <2>2, QuietTurn
    <2> QED
      BY <2>4, <2>5 DEF SeriesPart
  <1>7. ASSUME Identify(c) PROVE SeriesPart'
    <2> DEFINE w == [collector[c] EXCEPT !.at = IF identity = None THEN "bind" ELSE "guard",
                                         !.version = code.version]
    <2>1. w \in Waiting /\ w.at \in {"bind", "guard"} /\ w.day = collector[c].day
      BY <1>1 DEF Waiting
    <2>2. collector' = [collector EXCEPT ![c] = w] /\ seriesLock = None /\ seriesLock' = c /\ In(c, "lock")
      BY <1>7 DEF Identify, Go
    <2>3. UNCHANGED <<identity, runtime, attempt, universe, sessions, reviewed>> /\ litter' \in BOOLEAN
      BY <1>7, <1>2 DEF Identify
    <2>4. w.day >= 1 /\ w.day <= today
      BY <1>5, <2>1, <2>2 DEF In
    <2> HIDE DEF w
    <2>5. TypeOK'
      BY <1>1, <1>2, <2>1, <2>2, <2>3, Turned
    <2>6. AttemptInv'
      BY <1>1, <1>3, <2>1, <2>2, <2>4, QuietTurn
    <2> QED
      BY <2>5, <2>6 DEF SeriesPart
  <1>8. ASSUME BindIdentity(c) PROVE SeriesPart'
    <2> DEFINE w == [collector[c] EXCEPT !.at = "guard"]
    <2>1. w \in Waiting /\ w.at = "guard" /\ w.day = collector[c].day /\ collector[c].version \in Versions \cup {None}
      BY <1>1 DEF Waiting
    <2>2. collector' = [collector EXCEPT ![c] = w] /\ In(c, "bind")
      BY <1>8 DEF BindIdentity, On, Go
    <2>3. UNCHANGED <<seriesLock, runtime, attempt, universe, sessions, reviewed>> /\ litter' \in BOOLEAN
          /\ identity' \in Versions \cup {None}
      BY <1>8, <2>1 DEF BindIdentity
    <2>4. w.day >= 1 /\ w.day <= today /\ seriesLock = c
      BY <1>2, <1>5, <2>1, <2>2 DEF In
    <2> HIDE DEF w
    <2>5. TypeOK'
      BY <1>1, <1>2, <2>1, <2>2, <2>3, <2>4, Turned
    <2>6. AttemptInv'
      BY <1>1, <1>3, <2>1, <2>2, <2>4, QuietTurn
    <2> QED
      BY <2>5, <2>6 DEF SeriesPart
  <1>9. ASSUME TakeGuard(c) PROVE SeriesPart'
    <2> DEFINE w == [collector[c] EXCEPT !.at = "admit", !.stamp = code.stamp]
    <2>1. w \in Waiting /\ w.at = "admit" /\ w.day = collector[c].day
      BY <1>1 DEF Waiting
    <2>2. collector' = [collector EXCEPT ![c] = w] /\ In(c, "guard")
      BY <1>9 DEF TakeGuard, Go
    <2>3. UNCHANGED <<seriesLock, identity, litter, attempt, universe, sessions, reviewed>>
          /\ runtime' \in Versions \cup {None}
      BY <1>9, <1>1 DEF TakeGuard
    <2>4. w.day >= 1 /\ w.day <= today /\ seriesLock = c
      BY <1>2, <1>5, <2>1, <2>2 DEF In
    <2> HIDE DEF w
    <2>5. TypeOK'
      BY <1>1, <1>2, <2>1, <2>2, <2>3, <2>4, Turned
    <2>6. AttemptInv'
      BY <1>1, <1>3, <2>1, <2>2, <2>4, QuietTurn
    <2> QED
      BY <2>5, <2>6 DEF SeriesPart
  <1>10. ASSUME Leave(c), litter' \in BOOLEAN PROVE SeriesPart'
    <2>1. collector' = [collector EXCEPT ![c] = Away] /\ seriesLock' = (IF seriesLock = c THEN None ELSE seriesLock)
          /\ UNCHANGED <<identity, runtime, attempt, universe, sessions, reviewed>>
      BY <1>10 DEF Leave, Go
    <2>2. TypeOK'
      BY <1>1, <1>2, <1>4, <1>10, <2>1, Turned
    <2>3. AttemptInv'
      BY <1>1, <1>3, <1>4, <1>5, <2>1, QuietTurn
    <2> QED
      BY <2>2, <2>3 DEF SeriesPart
  <1>11. ASSUME Refused(c) \/ CollectorDies(c) PROVE Leave(c) /\ litter' \in BOOLEAN
    BY <1>2, <1>11 DEF Refused, CollectorDies
  <1> QED
    BY <1>6, <1>7, <1>8, <1>9, <1>10, <1>11

LEMMA AttemptActions ==
    ASSUME RunPart, RunPart', SeriesPart, NEW c \in Collectors, Admit(c) \/ Launch(c) \/ Accept(c) \/ Seal(c)
    PROVE  SeriesPart'
  <1>1. /\ collector[c] \in Waiting /\ RunTypeOK' /\ TypeOK /\ made \in Nat /\ today \in 1..LastDay
    BY RunAssumption DEF SeriesPart, TypeOK, RunTypeOK, RunPart, RunInv
  <1>2. /\ identity \in Versions \cup {None} /\ runtime \in Versions \cup {None} /\ litter \in BOOLEAN
        /\ attempt \in [day : 0..LastDay, no : 0..MaxResults] /\ universe \in Full \cup {None}
        /\ sessions \subseteq [day : 1..LastDay, no : Numbers, version : Versions, frozen : BOOLEAN]
        /\ reviewed \in SUBSET Numbers /\ seriesLock \in Collectors \cup {None}
        /\ (In(c, "idle") \/ In(c, "lock") \/ seriesLock = c)
    BY DEF SeriesPart, TypeOK
  <1>3. In(c, "admit") \/ In(c, "launch") \/ In(c, "wait") \/ In(c, "seal")
    BY DEF Admit, Launch, Accept, Seal
  <1>4. /\ seriesLock = c /\ collector[c].day <= today /\ collector[c].day >= 1 /\ collector[c].day \in 0..LastDay
        /\ Waits(c) /\ \A d \in Collectors : Waits(d)
    BY <1>1, <1>2, <1>3 DEF SeriesPart, AttemptInv, Waits, In, Waiting
  <1>5. \A d \in Collectors \ {c} : collector[d].at \in {"idle", "lock"}
    BY <1>1, <1>3, Turn DEF In
  <1>6. ASSUME NEW w \in Waiting, collector' = [collector EXCEPT ![c] = w], today' = today
        PROVE  /\ \A d \in Collectors \ {c} : Waits(d)'
               /\ collector'[c] = w
    <2>1. collector'[c] = w /\ \A d \in Collectors \ {c} : collector'[d] = collector[d]
      BY <1>6 DEF SeriesPart, TypeOK
    <2> QED
      BY <1>4, <1>5, <1>6, <2>1 DEF Waits, In
  <1>7. ASSUME NEW w \in Waiting, collector' = [collector EXCEPT ![c] = w],
               w.at \in {"idle", "lock"} \/ seriesLock' = c, seriesLock' \in Collectors \cup {None},
               UNCHANGED <<identity, litter, runtime, reviewed>>,
               attempt' \in [day : 0..LastDay, no : 0..MaxResults], universe' \in Full \cup {None},
               sessions' \subseteq [day : 1..LastDay, no : Numbers, version : Versions, frozen : BOOLEAN]
        PROVE  TypeOK'
    BY <1>1, <1>2, <1>4, <1>7, Turned
  <1>8. ASSUME Admit(c) PROVE SeriesPart'
    <2> DEFINE w == [collector[c] EXCEPT !.at = "launch"]
    <2>1. w \in Waiting /\ w.at = "launch" /\ w.day = collector[c].day
      BY <1>1 DEF Waiting
    <2>2. collector' = [collector EXCEPT ![c] = w] /\ seriesLock' = seriesLock /\ today' = today
          /\ UNCHANGED <<identity, litter, runtime, reviewed, universe, sessions, run, made>>
          /\ attempt' = [day |-> collector[c].day, no |-> NoResult] /\ MayAttempt(c)
      BY <1>8 DEF Admit, On, Go, Outside
    <2> HIDE DEF w
    <2>3. attempt' \in [day : 0..LastDay, no : 0..MaxResults]
      BY <1>4, <2>2, RunAssumption DEF NoResult
    <2>4. TypeOK'
      BY <1>2, <1>4, <1>7, <2>1, <2>2, <2>3
    <2>5. Waits(c)'
      BY <1>4, <1>6, <2>1, <2>2 DEF Waits, In
    <2>6. \A d \in Collectors : Waits(d)'
      BY <1>6, <2>1, <2>2, <2>5
    <2>7. Ended(Child)
      BY <2>2, Apart DEF MayAttempt, SeriesPart, AttemptInv, RunPart, RunInv, NoAttempt, NoResult, Numbers
    <2>8. (\A s \in sessions : s.day < collector[c].day) /\ collector[c].day \in 1..today
      BY <1>1, <1>4, <2>2 DEF MayAttempt, Days
    <2>9. AttemptInv'
      BY <1>1, <2>2, <2>6, <2>7, <2>8 DEF SeriesPart, AttemptInv, Ended, No, NoResult
    <2> QED
      BY <2>4, <2>9 DEF SeriesPart
  <1>9. ASSUME Launch(c) PROVE SeriesPart'
    <2> DEFINE w == [collector[c] EXCEPT !.at = "wait", !.no = made + 1]
    <2>1. made < MaxResults /\ made' = made + 1 /\ run'[Child].no = made + 1 /\ run'[Daily] = run[Daily]
          /\ made + 1 \in Numbers /\ made + 1 \in 0..MaxResults
      BY <1>9, <1>1, Apart, StartKeepsRun, RunAssumption DEF Launch, Start, RunPart, RunInv, RunTypeOK, Numbers
    <2>2. w \in Waiting /\ w.at = "wait" /\ w.day = collector[c].day /\ w.no = made + 1
      BY <1>1, <2>1 DEF Waiting, Numbers
    <2>3. collector' = [collector EXCEPT ![c] = w] /\ seriesLock' = seriesLock /\ today' = today
          /\ UNCHANGED <<identity, litter, runtime, reviewed, universe, sessions>>
          /\ attempt' = [attempt EXCEPT !.no = made + 1] /\ In(c, "launch")
      BY <1>9 DEF Launch, Go, Start, Outside
    <2> HIDE DEF w
    <2>4. attempt' = [day |-> collector[c].day, no |-> made + 1]
      BY <1>4, <2>3 DEF Waits
    <2>5. attempt' \in [day : 0..LastDay, no : 0..MaxResults]
      BY <1>4, <2>1, <2>4 DEF Numbers
    <2>6. TypeOK'
      BY <1>2, <1>4, <1>7, <2>2, <2>3, <2>5
    <2>7. Waits(c)'
      <3>1. collector'[c] = w
        BY <1>6, <2>2, <2>3
      <3> QED
        BY <1>4, <2>1, <2>2, <2>3, <2>4, <3>1 DEF Waits, In, No
    <2>8. \A d \in Collectors : Waits(d)'
      BY <1>6, <2>2, <2>3, <2>7
    <2>9. attempt # NoAttempt /\ attempt.day = collector[c].day
      BY <1>4, <2>3 DEF Waits, NoAttempt
    <2>10. \A s \in sessions : s.no <= made /\ s.no \in Int
      BY <1>2 DEF SeriesPart, AttemptInv, Numbers
    <2>11. AttemptInv'
      BY <1>1, <2>1, <2>3, <2>4, <2>8, <2>9, <2>10 DEF SeriesPart, AttemptInv, No
    <2> QED
      BY <2>6, <2>11 DEF SeriesPart
  <1>10. ASSUME Accept(c) PROVE SeriesPart'
    <2> DEFINE w == [collector[c] EXCEPT !.at = "seal"]
    <2>1. w \in Waiting /\ w.at = "seal" /\ w.day = collector[c].day /\ w.no = collector[c].no
      BY <1>1 DEF Waiting
    <2>2. collector' = [collector EXCEPT ![c] = w] /\ seriesLock' = seriesLock /\ today' = today
          /\ UNCHANGED <<identity, litter, runtime, reviewed, attempt, sessions, run, made>>
          /\ In(c, "wait") /\ At(Child, "ok")
      BY <1>10 DEF Accept, On, Go, runVars
    <2>3. universe' \in Full \cup {None}
      BY <1>2, <1>10 DEF Accept, Frozen
    <2> HIDE DEF w
    <2>4. TypeOK'
      BY <1>2, <1>4, <1>7, <2>1, <2>2, <2>3
    <2>5. Waits(c)'
      BY <1>4, <1>6, <2>1, <2>2 DEF Waits, In, No, At
    <2>6. \A d \in Collectors : Waits(d)'
      BY <1>6, <2>1, <2>2, <2>5
    <2>7. AttemptInv'
      BY <1>1, <2>2, <2>6 DEF SeriesPart, AttemptInv, Ended, No, NoAttempt
    <2> QED
      BY <2>4, <2>7 DEF SeriesPart
  <1>11. ASSUME Seal(c) PROVE SeriesPart'
    <2> DEFINE s == [day |-> collector[c].day, no |-> collector[c].no, version |-> identity,
                     frozen |-> universe # None]
    <2>1. Away \in Waiting /\ Away.at = "idle" /\ Away.day = 0
      BY RunAssumption DEF Away, Waiting, NoResult
    <2>2. collector' = [collector EXCEPT ![c] = Away] /\ seriesLock' = None /\ today' = today
          /\ UNCHANGED <<identity, litter, runtime, reviewed, universe, run, made>>
          /\ attempt' = NoAttempt /\ In(c, "seal") /\ identity = code.version
          /\ sessions' = sessions \cup {s}
      BY <1>11 DEF Seal, Go, runVars
    <2>3. NoAttempt \in [day : 0..LastDay, no : 0..MaxResults]
      BY RunAssumption DEF NoAttempt, NoResult
    <2>4. collector[c].no = No(Child) /\ collector[c].no \in Numbers /\ At(Child, "ok")
      BY <1>4, <2>2 DEF Waits, In
    <2>5. code.version \in Versions
      BY DEF RunPart, RunInv, RunTypeOK
    <2>6. s \in [day : 1..LastDay, no : Numbers, version : Versions, frozen : BOOLEAN]
      BY <1>4, <2>2, <2>4, <2>5
    <2>7. s.no = No(Child) /\ s.no # No(Daily) /\ s.no <= made
      BY <2>4, Apart DEF RunPart, RunInv, Numbers, NoResult
    <2> HIDE DEF s
    <2>8. TypeOK'
      BY <1>2, <1>7, <2>1, <2>2, <2>3, <2>6
    <2>9. Waits(c)'
      <3>1. collector'[c] = Away
        BY <1>6, <2>1, <2>2
      <3> QED
        BY <1>1, <2>1, <2>2, <3>1 DEF Waits, In
    <2>10. \A d \in Collectors : Waits(d)'
      BY <1>6, <2>1, <2>2, <2>9
    <2>11. Ended(Child)'
      BY <2>2, <2>4 DEF Ended, At
    <2>12. AttemptInv'
      BY <1>1, <2>2, <2>7, <2>10, <2>11 DEF SeriesPart, AttemptInv, No, NoAttempt, NoResult
    <2> QED
      BY <2>8, <2>12 DEF SeriesPart
  <1> QED
    BY <1>8, <1>9, <1>10, <1>11

LEMMA ReviewKeepsSeries == ASSUME RunPart, RunPart', SeriesPart, Review PROVE SeriesPart'
  <1>1. /\ UNCHANGED <<run, made, today, collector, seriesLock, identity, runtime, universe, sessions>>
        /\ attempt' = NoAttempt /\ litter' = FALSE /\ seriesLock = None /\ Ended(Child)
        /\ reviewed' = reviewed \cup ({attempt.no} \cap Evaluated)
    BY DEF Review, runVars
  <1>2. Evaluated \subseteq Numbers
    BY DEF RunPart, RunInv, RunTypeOK, Evaluated
  <1>3. NoAttempt \in [day : 0..LastDay, no : 0..MaxResults]
    BY RunAssumption DEF NoAttempt, NoResult
  <1>4. TypeOK'
    BY <1>1, <1>2, <1>3 DEF SeriesPart, TypeOK, In, RunPart, RunInv
  <1>5. \A c \in Collectors : collector[c].at \in {"idle", "lock"}
    BY <1>1, SeriesAssumption DEF SeriesPart, TypeOK, In
  <1>6. \A c \in Collectors : Waits(c)'
    BY <1>1, <1>5 DEF SeriesPart, AttemptInv, Waits, In
  <1>7. made \in Nat
    BY RunAssumption DEF SeriesPart, TypeOK, RunTypeOK
  <1>8. AttemptInv'
    BY <1>1, <1>6, <1>7 DEF SeriesPart, AttemptInv, Ended, No, NoAttempt, NoResult
  <1> QED
    BY <1>4, <1>8 DEF SeriesPart

LEMMA NoWorkWithoutAttempt == ASSUME RunPart, SeriesPart, attempt = NoAttempt PROVE Ended(Child)
  BY Apart DEF SeriesPart, AttemptInv, RunPart, RunInv, NoAttempt, NoResult, Numbers

LEMMA NextKeepsSeries == ASSUME RunPart, RunPart', SeriesPart, [Next]_allVars PROVE SeriesPart'
  <1>1. CASE \E p \in Processes : Running(p)
    BY <1>1, RunsKeepSeries DEF Running
  <1>2. CASE Environment /\ UNCHANGED seriesVars
    BY <1>2, RunsKeepSeries
  <1>3. CASE \E c \in Collectors : Call(c) \/ Collect(c) \/ CollectorDies(c)
    BY <1>3, QuietActions, AttemptActions DEF Collect
  <1>4. CASE Review
    BY <1>4, ReviewKeepsSeries
  <1>5. CASE UNCHANGED allVars
    <2>1. UNCHANGED <<collector, seriesLock, identity, litter, runtime, attempt, universe, sessions, reviewed>>
          /\ UNCHANGED <<run, made, today>>
      BY <1>5 DEF allVars, runVars, seriesVars
    <2>2. TypeOK'
      BY <2>1 DEF RunPart, RunInv, SeriesPart, TypeOK, In
    <2>3. AttemptInv'
      BY <2>1 DEF SeriesPart, AttemptInv, Waits, In, At, No, Ended, NoAttempt
    <2> QED
      BY <2>2, <2>3 DEF SeriesPart
  <1> QED
    BY <1>1, <1>2, <1>3, <1>4, <1>5 DEF Next

LEMMA SingleVersion == FilesInv => OneVersionPublished
  <1> SUFFICES ASSUME FilesInv, NEW d \in Dirs, NEW m \in Models, files[d].bundle[m] # NoResult
               PROVE  Cardinality(result[files[d].bundle[m]].disk) = 1
    BY DEF OneVersionPublished
  <1>1. files[d].bundle[m] \in files[d].store
    BY DEF FilesInv, DirOK, Referenced
  <1>2. PICK v \in Versions : result[files[d].bundle[m]].disk = {v}
    BY <1>1 DEF FilesInv
  <1> QED
    BY <1>2, FS_Singleton

CoreInv == RunPart /\ SeriesPart

LEMMA CoreInvariant == Spec => []CoreInv
  <1>1. Init => CoreInv
    <2>1. Init => RunPart
      BY InitRun, InitSaw, InitFiles DEF RunPart
    <2> QED
      BY <2>1, InitSeries DEF CoreInv
  <1>2. CoreInv /\ [Next]_allVars => CoreInv'
    BY NextKeepsRunPart, NextKeepsSeries, NoWorkWithoutAttempt DEF CoreInv
  <1> QED
    BY <1>1, <1>2, PTL DEF Spec

(* Every state of runs, directories and collectors is well formed, and only *)
(* the holder of the run lock works, only the holder of .collector.lock is  *)
(* past it.                                                                 *)
THEOREM TypeCorrect == Spec => []TypeOK
  <1>1. CoreInv => TypeOK
    BY DEF CoreInv, SeriesPart
  <1> QED
    BY <1>1, CoreInvariant, PTL

(* Whatever an interrupted publication leaves behind in a data directory    *)
(* refers to stored evidence only: write_analysis_dataset commits first.    *)
THEOREM NeverDangling == Spec => []NothingDangling
  <1>1. CoreInv => NothingDangling
    BY OrderedOfFiles DEF CoreInv, RunPart
  <1> QED
    BY <1>1, CoreInvariant, PTL

(* A bundle is never ahead of its table, nor a snapshot of its bundle: the  *)
(* order of the writes, under the run lock, also when runs are killed.      *)
THEOREM InOrder == Spec => []PublishedInOrder
  <1>1. CoreInv => PublishedInOrder
    BY OrderedOfFiles DEF CoreInv, RunPart
  <1> QED
    BY <1>1, CoreInvariant, PTL

(* All stages behind a published bundle imported one version of the tree:   *)
(* the checkpoints compare file stamps, not contents.                       *)
THEOREM SingleVersionBundles == Spec => []OneVersionPublished
  <1>1. CoreInv => OneVersionPublished
    BY SingleVersion DEF CoreInv, RunPart
  <1> QED
    BY <1>1, CoreInvariant, PTL

-----------------------------------------------------------------------------
(* What a step of the child changes of what a collection looks at.          *)
SameStore == files'["stage"].store = files["stage"].store
Unwritten == UNCHANGED <<result, evaluated>> /\ SameStore

ChildLocks ==
    At(Child, "lock") /\ At(Child, "work")' /\ run'[Child].saw = run[Child].saw /\ Unwritten
ChildEvaluates ==
    /\ At(Child, "work") /\ At(Child, "check")' /\ run'[Child].stage = run[Child].stage
    /\ UNCHANGED result /\ SameStore
    /\ \E u \in SUBSET Listings :
           /\ run'[Child].saw = Seen(Child, u)
           /\ run[Child].stage = LastStage => \E l \in Listings : u = {l}
    /\ evaluated' = IF run[Child].stage = LastStage THEN evaluated \cup {Evaluation(No(Child), today)}
                                                    ELSE evaluated
ChildChecks ==
    /\ At(Child, "check") /\ run'[Child].saw = run[Child].saw /\ Unwritten
    /\ IF run[Child].stage = LastStage THEN run'[Child].stage = LastStage /\ run'[Child].at \in Publishing
                                       ELSE At(Child, "work")'
ChildStores == result' = [result EXCEPT ![No(Child)] = run[Child].saw]
               /\ files'["stage"].store = files["stage"].store \cup {No(Child)}
ChildPublishes ==
    /\ run[Child].at \in Publishing /\ run'[Child].at \in Publishing
    /\ run'[Child].saw = run[Child].saw /\ run'[Child].stage = run[Child].stage
    /\ UNCHANGED evaluated
    /\ Unwritten \/ ChildStores

LEMMA ChildSteps ==
    ASSUME RunInv, RunStep(Child) \/ Abort(Child)
    PROVE  (Ended(Child)' /\ Unwritten) \/ ChildLocks \/ ChildEvaluates \/ ChildChecks \/ ChildPublishes
  <1>1. /\ Child \in Processes /\ run \in [Processes -> RunState] /\ run[Child] \in RunState
        /\ files \in [Dirs -> Artifacts] /\ "stage" \in Dirs
    BY Apart DEF RunInv, RunTypeOK, Dirs
  <1>2. ~Ended(Child)
    BY <1>1, StepFacts
  <1>3. run[Child].dir = "stage" /\ run[Child].model = "v7" /\ ~At(Child, "history")
    BY <1>1, <1>2, Apart DEF RunInv
  <1>4. CASE RunActive(Child) \/ VersionChanged(Child) \/ Finish(Child) \/ Abort(Child)
    <2>1. PICK answer \in {"ok", "failed"} : Exit(Child, answer)
      BY <1>4 DEF RunActive, VersionChanged, Finish, Abort
    <2>2. run'[Child] = [NotRunning EXCEPT !.at = answer, !.no = run[Child].no]
      BY <1>1, <2>1 DEF Exit
    <2>3. run'[Child].at = answer
      BY <2>2 DEF NotRunning
    <2> QED
      BY <2>1, <2>3 DEF Exit, Ended, Unwritten, SameStore
  <1>5. CASE TakeRunLock(Child)
    <2>1. run'[Child] = [run[Child] EXCEPT !.at = "work", !.stamp = code.stamp]
      BY <1>1, <1>5 DEF TakeRunLock
    <2>2. run'[Child].at = "work" /\ run'[Child].saw = run[Child].saw
      BY <1>1, <2>1 DEF RunState
    <2> QED
      BY <1>5, <2>2 DEF TakeRunLock, ChildLocks, Unwritten, SameStore, At
  <1>6. CASE Evaluate(Child)
    <2>1. PICK u \in SUBSET Listings :
              /\ run' = [run EXCEPT ![Child] = [run[Child] EXCEPT !.at = "check", !.saw = Seen(Child, u)]]
              /\ Series(Child) => \E l \in Listings : u = {l}
      BY <1>6, EvaluateSees
    <2>2. run'[Child] = [run[Child] EXCEPT !.at = "check", !.saw = Seen(Child, u)]
      BY <1>1, <2>1
    <2>3. run'[Child].at = "check" /\ run'[Child].saw = Seen(Child, u) /\ run'[Child].stage = run[Child].stage
      BY <1>1, <2>2 DEF RunState
    <2>4. evaluated' = (IF run[Child].stage = LastStage THEN evaluated \cup {Evaluation(No(Child), today)}
                                                        ELSE evaluated)
          /\ UNCHANGED <<result, files>> /\ At(Child, "work")
      BY <1>6 DEF Evaluate, Evaluation
    <2> QED
      BY <2>1, <2>3, <2>4 DEF ChildEvaluates, SameStore, Series, At
  <1>7. CASE Checkpoint(Child)
    <2> DEFINE at == IF run[Child].stage = LastStage THEN Following(run[Child].model).work ELSE "work"
               stage == IF run[Child].stage = LastStage THEN run[Child].stage ELSE run[Child].stage + 1
    <2>1. run' = [run EXCEPT ![Child] = [run[Child] EXCEPT !.at = at, !.stage = stage]]
          /\ UNCHANGED <<files, result, evaluated>> /\ At(Child, "check")
      BY <1>7 DEF Checkpoint
    <2>2. IF run[Child].stage = LastStage THEN at \in Publishing /\ stage = LastStage ELSE at = "work"
      BY <1>3 DEF Following, Publishing
    <2> HIDE DEF at, stage
    <2>3. run'[Child].at = at /\ run'[Child].stage = stage /\ run'[Child].saw = run[Child].saw
      BY <1>1, <2>1 DEF RunState
    <2> QED
      BY <2>1, <2>2, <2>3 DEF ChildChecks, Unwritten, SameStore, At
  <1>8. ASSUME NEW phase \in Publishing \ {"final", "history"}, At(Child, phase),
               To(Child, Following(run[Child].model)[phase]), UNCHANGED evaluated, Unwritten \/ ChildStores
        PROVE  ChildPublishes
    <2> DEFINE at == Following(run[Child].model)[phase]
    <2>1. at \in Publishing
      BY <1>3, FollowingPhase DEF Models
    <2>2. run' = [run EXCEPT ![Child] = [run[Child] EXCEPT !.at = at]]
      BY <1>8 DEF To
    <2> HIDE DEF at
    <2>3. run'[Child].at = at /\ run'[Child].stage = run[Child].stage /\ run'[Child].saw = run[Child].saw
      BY <1>1, <2>2 DEF RunState
    <2> QED
      BY <1>8, <2>1, <2>3 DEF ChildPublishes, At
  <1>9. CASE StoreEvidence(Child)
    <2>1. files' = [files EXCEPT !["stage"] = [files["stage"] EXCEPT !.store = files["stage"].store \cup {No(Child)}]]
      BY <1>3, <1>9 DEF StoreEvidence
    <2>2. files'["stage"].store = files["stage"].store \cup {No(Child)}
      BY <1>1, <2>1 DEF Artifacts
    <2>3. To(Child, Following(run[Child].model)["store"])
      BY <1>9, <1>3 DEF StoreEvidence, Following
    <2> QED
      BY <1>8, <1>9, <2>2, <2>3 DEF StoreEvidence, ChildStores, Publishing
  <1>10. ASSUME NEW phase \in {"table", "bundle", "snapshot"}, NEW dir, Write(Child, phase, dir),
                dir.store = Dir(Child).store
         PROVE  ChildPublishes
    <2>1. files'["stage"] = dir /\ UNCHANGED <<result, evaluated>>
      BY <1>1, <1>3, <1>10 DEF Write
    <2>2. Unwritten
      BY <1>3, <1>10, <2>1 DEF Unwritten, SameStore, Dir
    <2> QED
      BY <1>8, <1>10, <2>2 DEF Write, Publishing
  <1>11. Dir(Child) \in Artifacts
    BY <1>1, <1>3 DEF Dir
  <1>12. CASE WriteTable(Child)
    <2>1. [Dir(Child) EXCEPT !.table = No(Child)].store = Dir(Child).store
      BY <1>11 DEF Artifacts
    <2> QED
      BY <1>10, <1>12, <2>1 DEF WriteTable
  <1>13. CASE PublishBundle(Child)
    <2>1. [Dir(Child) EXCEPT !.bundle[run[Child].model] = No(Child)].store = Dir(Child).store
      BY <1>11 DEF Artifacts
    <2> QED
      BY <1>10, <1>13, <2>1 DEF PublishBundle
  <1>14. CASE PublishSnapshot(Child)
    <2>1. [Dir(Child) EXCEPT !.snapshots = Dir(Child).snapshots \cup {No(Child)}].store = Dir(Child).store
      BY <1>11 DEF Artifacts
    <2> QED
      BY <1>10, <1>14, <2>1 DEF PublishSnapshot
  <1>15. ~RecordHistory(Child)
    BY <1>3 DEF RecordHistory, Write
  <1> QED
    BY <1>4, <1>5, <1>6, <1>7, <1>9, <1>12, <1>13, <1>14, <1>15 DEF RunStep

(* The user's own run leaves the child and its directory alone.             *)
LEMMA DailySteps ==
    ASSUME RunInv, RunStep(Daily) \/ Abort(Daily)
    PROVE  /\ run'[Child] = run[Child] /\ SameStore /\ UNCHANGED evaluated
           /\ \A n \in Numbers \ {No(Daily)} : result'[n] = result[n]
  <1>1. /\ Daily \in Processes /\ Child \in Processes \ {Daily} /\ run[Daily] \in RunState
        /\ files \in [Dirs -> Artifacts] /\ result \in [Numbers -> Evidence]
    BY Apart DEF RunInv, RunTypeOK
  <1>2. ~Ended(Daily) /\ run'[Child] = run[Child]
    BY <1>1, StepFacts
  <1>3. run[Daily].dir = "main"
    BY <1>1, <1>2 DEF RunInv
  <1>4. evaluated' = evaluated
    BY Apart DEF RunStep, Abort, TakeRunLock, RunActive, Evaluate, Checkpoint, VersionChanged, StoreEvidence,
           RecordHistory, WriteTable, PublishBundle, PublishSnapshot, Finish, Exit, Write
  <1>5. \A n \in Numbers \ {No(Daily)} : result'[n] = result[n]
    BY <1>1 DEF RunStep, Abort, TakeRunLock, RunActive, Evaluate, Checkpoint, VersionChanged, StoreEvidence,
           RecordHistory, WriteTable, PublishBundle, PublishSnapshot, Finish, Exit, Write
  <1>6. files' = files \/ \E dir : files' = [files EXCEPT !["main"] = dir]
    <2>1. CASE StoreEvidence(Daily)
      BY <1>3, <2>1 DEF StoreEvidence
    <2>2. CASE RecordHistory(Daily) \/ WriteTable(Daily) \/ PublishBundle(Daily) \/ PublishSnapshot(Daily)
      BY <1>3, <2>2 DEF RecordHistory, WriteTable, PublishBundle, PublishSnapshot, Write
    <2> QED
      BY <2>1, <2>2 DEF RunStep, Abort, TakeRunLock, RunActive, Evaluate, Checkpoint, VersionChanged, Finish, Exit
  <1>7. files'["stage"] = files["stage"]
    BY <1>1, <1>6 DEF Dirs
  <1> QED
    BY <1>2, <1>4, <1>5, <1>7 DEF SameStore

-----------------------------------------------------------------------------
LEMMA Basics ==
    ASSUME CoreInv
    PROVE  /\ code \in [version : Versions, stamp : 0..MaxEvents] /\ MaxEvents \in Nat
           /\ run \in [Processes -> RunState] /\ run[Child] \in RunState /\ No(Child) \in 0..MaxResults
           /\ result \in [Numbers -> Evidence] /\ files["stage"] \in Artifacts
           /\ today \in 1..LastDay /\ LastDay \in Nat /\ made \in 0..MaxResults /\ MaxResults \in Nat
           /\ collector \in [Collectors -> Waiting]
           /\ sessions \subseteq [day : 1..LastDay, no : Numbers, version : Versions, frozen : BOOLEAN]
           /\ evaluated \subseteq [no : Numbers, day : 1..LastDay]
           /\ \A s \in sessions : s.no # No(Daily)
           /\ No(Child) \in Numbers => No(Child) # No(Daily)
           /\ ~Ended(Child) => No(Child) \in Numbers /\ \A s \in sessions : s.no # No(Child)
  <1>1. RunTypeOK
    BY DEF CoreInv, RunPart, RunInv
  <1>2. Child \in Processes /\ "stage" \in Dirs
    BY Apart DEF Dirs
  <1>3. run[Child] \in RunState /\ files["stage"] \in Artifacts /\ No(Child) \in 0..MaxResults
    BY <1>1, <1>2 DEF RunTypeOK, RunState, No
  <1>4. No(Child) \in Numbers => No(Child) # No(Daily)
    BY DEF CoreInv, RunPart, RunInv, Numbers, NoResult
  <1>5. ~Ended(Child) => No(Child) \in Numbers /\ No(Child) # NoResult /\ attempt.no = No(Child)
    BY <1>2 DEF CoreInv, RunPart, RunInv, SeriesPart, AttemptInv, Numbers, NoResult
  <1>6. \A s \in sessions : s.no # No(Daily) /\ (~Ended(Child) => s.no # No(Child))
    BY <1>5 DEF CoreInv, SeriesPart, AttemptInv
  <1> QED
    BY <1>1, <1>3, <1>4, <1>5, <1>6, RunAssumption DEF RunTypeOK, CoreInv, SeriesPart, TypeOK

(* A step in which the child and its results stay what they are.            *)
LEMMA ElsewhereKeepsVersion ==
    ASSUME CoreInv, VersionInv, UNCHANGED seriesVars, run'[Child] = run[Child], SameStore,
           \A n \in Numbers \ {No(Daily)} : result'[n] = result[n],
           UNCHANGED code \/ (code'.stamp \in Nat /\ code'.stamp > code.stamp)
    PROVE  VersionInv'
  <1>1. UNCHANGED <<collector, identity, runtime, sessions>>
    BY DEF seriesVars
  <1>2. \A s \in sessions : result'[s.no] = result[s.no]
    BY Basics
  <1>3. SealedIsOneVersion'
    BY <1>1, <1>2 DEF VersionInv, SealedIsOneVersion
  <1>4. ASSUME NEW c \in Collectors PROVE OfIdentity(c)'
    <2>1. Ended(Child)' = Ended(Child) /\ No(Child)' = No(Child) /\ run'[Child].saw = run[Child].saw
      BY DEF Ended, No
    <2>2. No(Child) \in Numbers => result'[No(Child)] = result[No(Child)]
      BY Basics
    <2>3. collector[c].at \in {"wait", "seal"} => No(Child) \in Numbers
      BY DEF CoreInv, SeriesPart, AttemptInv, Waits
    <2>4. collector[c].stamp \in Nat /\ code.stamp \in Nat
      BY Basics DEF Waiting
    <2>5. OfIdentity(c)
      BY DEF VersionInv
    <2>6. CASE UNCHANGED code
      BY <1>1, <2>1, <2>2, <2>3, <2>5, <2>6 DEF OfIdentity, In, SameStore
    <2>7. CASE code'.stamp \in Nat /\ code'.stamp > code.stamp
      BY <1>1, <2>1, <2>2, <2>3, <2>4, <2>5, <2>7 DEF OfIdentity, In
    <2> QED
      BY <2>6, <2>7
  <1> QED
    BY <1>1, <1>3, <1>4 DEF VersionInv

LEMMA ChildKeepsVersion ==
    ASSUME CoreInv, VersionInv, UNCHANGED seriesVars, RunStep(Child) \/ Abort(Child)
    PROVE  VersionInv'
  <1>1. UNCHANGED <<collector, identity, runtime, sessions>>
    BY DEF seriesVars
  <1>2. ~Ended(Child) /\ No(Child)' = No(Child) /\ UNCHANGED code
    BY Apart, StepFacts DEF CoreInv, RunPart
  <1>3. (Ended(Child)' /\ Unwritten) \/ ChildLocks \/ ChildEvaluates \/ ChildChecks \/ ChildPublishes
    BY ChildSteps DEF CoreInv, RunPart
  <1>4. \A n \in Numbers \ {No(Child)} : result'[n] = result[n]
    BY <1>3, Basics DEF Unwritten, ChildLocks, ChildEvaluates, ChildChecks, ChildPublishes, ChildStores
  <1>5. SealedIsOneVersion'
    BY <1>1, <1>2, <1>4, Basics DEF VersionInv, SealedIsOneVersion
  <1>6. ASSUME NEW c \in Collectors PROVE OfIdentity(c)'
    <2>1. OfIdentity(c)
      BY DEF VersionInv
    <2>2. ~In(c, "seal")
      BY <1>2 DEF CoreInv, SeriesPart, AttemptInv, Waits, Ended, At
    <2>3. ASSUME In(c, "wait"), collector[c].stamp = code.stamp
          PROVE  /\ ~Ended(Child)' => OfVersion(run'[Child].saw, collector[c].version)
                 /\ No(Child) \in files'["stage"].store => OfVersion(result'[No(Child)], collector[c].version)
      <3>1. /\ OfVersion(run[Child].saw, collector[c].version) /\ code.version = collector[c].version
            /\ No(Child) \in files["stage"].store => OfVersion(result[No(Child)], collector[c].version)
        BY <1>2, <2>1, <2>3 DEF OfIdentity, In
      <3>2. CASE Ended(Child)' /\ Unwritten
        BY <3>1, <3>2 DEF Unwritten, SameStore
      <3>3. CASE ChildLocks \/ ChildChecks
        BY <3>1, <3>3 DEF ChildLocks, ChildChecks, Unwritten, SameStore
      <3>4. CASE ChildEvaluates
        <4>1. PICK u : run'[Child].saw = Seen(Child, u)
          BY <3>4 DEF ChildEvaluates
        <4>2. Seen(Child, u).loaded = run[Child].saw.loaded
              /\ Seen(Child, u).disk = run[Child].saw.disk \cup {code.version}
          BY Basics DEF Seen, RunState, Evidence
        <4> QED
          BY <3>1, <3>4, <4>1, <4>2 DEF ChildEvaluates, SameStore, OfVersion
      <3>5. CASE ChildPublishes /\ Unwritten
        BY <3>1, <3>5 DEF ChildPublishes, Unwritten, SameStore
      <3>6. CASE ChildPublishes /\ ChildStores
        <4>1. result'[No(Child)] = run[Child].saw
          BY <1>2, <3>6, Basics DEF ChildStores
        <4> QED
          BY <3>1, <3>6, <4>1 DEF ChildPublishes
      <3> QED
        BY <1>3, <3>2, <3>3, <3>4, <3>5, <3>6 DEF ChildPublishes
    <2> QED
      BY <1>1, <1>2, <2>1, <2>2, <2>3 DEF OfIdentity, In
  <1> QED
    BY <1>1, <1>5, <1>6 DEF VersionInv

LEMMA QuietKeepsVersion ==
    ASSUME CoreInv, VersionInv, NEW c \in Collectors, Call(c) \/ Refused(c) \/ CollectorDies(c)
    PROVE  VersionInv'
  <1>1. /\ UNCHANGED <<run, result, files, code, identity, runtime, sessions>>
        /\ \E w : collector' = [collector EXCEPT ![c] = w] /\ w.at \in {"idle", "lock"}
    <2>1. [Away EXCEPT !.at = "lock", !.day = today].at = "lock" /\ Away.at = "idle"
      BY DEF Away
    <2> QED
      BY <2>1 DEF Call, Refused, CollectorDies, Leave, Go, runVars, Outside
  <1>2. PICK w : collector' = [collector EXCEPT ![c] = w] /\ w.at \in {"idle", "lock"}
    BY <1>1
  <1>3. collector'[c] = w /\ \A d \in Collectors \ {c} : collector'[d] = collector[d]
    BY <1>2, Basics
  <1>4. ASSUME NEW d \in Collectors PROVE OfIdentity(d)'
    <2>1. CASE d = c
      BY <2>1, <1>2, <1>3 DEF OfIdentity, In
    <2>2. CASE d # c
      BY <2>2, <1>1, <1>3 DEF VersionInv, OfIdentity, In, No, Ended
    <2> QED
      BY <2>1, <2>2
  <1> QED
    BY <1>1, <1>4 DEF VersionInv, SealedIsOneVersion

LEMMA CollectKeepsVersion ==
    ASSUME CoreInv, VersionInv, NEW c \in Collectors,
           \/ Identify(c) \/ BindIdentity(c) \/ TakeGuard(c) \/ Admit(c) \/ Launch(c) \/ Accept(c) \/ Seal(c)
    PROVE  VersionInv'
  <1>1. \A d \in Collectors \ {c} : collector[d].at \in {"idle", "lock"}
    <2>1. TypeOK
      BY DEF CoreInv, SeriesPart
    <2>2. seriesLock = None \/ collector[c].at \notin {"idle", "lock"}
      BY DEF Identify, BindIdentity, TakeGuard, Admit, Launch, Accept, Seal, In
    <2> QED
      BY <2>1, <2>2, Turn
  <1>2. /\ code.version \in Versions /\ code.version # None /\ code.stamp \in Nat /\ code.stamp <= code.stamp
        /\ None \notin Versions /\ collector[c] \in Waiting /\ collector[c].stamp \in Nat
    BY Basics, SeriesAssumption DEF Waiting
  <1>3. OfIdentity(c) /\ SealedIsOneVersion /\ Waits(c)
    BY DEF VersionInv, CoreInv, SeriesPart, AttemptInv
  <1>4. ASSUME NEW w, collector' = [collector EXCEPT ![c] = w]
        PROVE  collector'[c] = w /\ \A d \in Collectors \ {c} : OfIdentity(d)'
    <2>1. collector'[c] = w /\ \A d \in Collectors \ {c} : collector'[d] = collector[d]
      BY <1>4, Basics
    <2> QED
      BY <1>1, <2>1 DEF OfIdentity, In
  <1>5. ASSUME Identify(c) PROVE VersionInv'
    <2> DEFINE w == [collector[c] EXCEPT !.at = IF identity = None THEN "bind" ELSE "guard",
                                         !.version = code.version]
    <2>1. w.at = (IF identity = None THEN "bind" ELSE "guard") /\ w.version = code.version
      BY <1>2 DEF Waiting
    <2>2. collector' = [collector EXCEPT ![c] = w] /\ (identity = code.version \/ Unbound)
          /\ UNCHANGED <<run, result, code, identity, runtime, sessions>>
      BY <1>5 DEF Identify, Go, runVars
    <2> HIDE DEF w
    <2>3. OfIdentity(c)'
      <3>1. collector'[c] = w
        BY <1>4, <2>2
      <3> QED
        BY <1>2, <2>1, <2>2, <3>1 DEF OfIdentity, In, Unbound
    <2>4. SealedIsOneVersion'
      BY <1>3, <2>2 DEF SealedIsOneVersion
    <2> QED
      BY <1>4, <2>2, <2>3, <2>4 DEF VersionInv
  <1>6. ASSUME BindIdentity(c) PROVE VersionInv'
    <2> DEFINE w == [collector[c] EXCEPT !.at = "guard"]
    <2>1. w.at = "guard" /\ w.version = collector[c].version
      BY <1>2 DEF Waiting
    <2>2. collector' = [collector EXCEPT ![c] = w] /\ identity' = collector[c].version
          /\ UNCHANGED <<run, result, code, runtime, sessions>> /\ sessions = {}
          /\ collector[c].version \in Versions
      BY <1>3, <1>6 DEF BindIdentity, On, Go, runVars, OfIdentity
    <2> HIDE DEF w
    <2>3. OfIdentity(c)'
      <3>1. collector'[c] = w
        BY <1>4, <2>2
      <3> QED
        BY <1>2, <2>1, <2>2, <3>1 DEF OfIdentity, In
    <2>4. SealedIsOneVersion'
      BY <2>2 DEF SealedIsOneVersion
    <2> QED
      BY <1>4, <2>2, <2>3, <2>4 DEF VersionInv
  <1>7. ASSUME TakeGuard(c) PROVE VersionInv'
    <2> DEFINE w == [collector[c] EXCEPT !.at = "admit", !.stamp = code.stamp]
    <2>1. w.at = "admit" /\ w.version = collector[c].version /\ w.stamp = code.stamp
      BY <1>2 DEF Waiting
    <2>2. collector' = [collector EXCEPT ![c] = w] /\ runtime' = code.version /\ identity = code.version
          /\ UNCHANGED <<run, result, code, identity, sessions>> /\ collector[c].version = code.version
      BY <1>3, <1>7 DEF TakeGuard, Go, runVars, OfIdentity, In
    <2> HIDE DEF w
    <2>3. OfIdentity(c)'
      <3>1. collector'[c] = w
        BY <1>4, <2>2
      <3> QED
        BY <1>2, <2>1, <2>2, <3>1 DEF OfIdentity, In
    <2>4. SealedIsOneVersion'
      BY <1>3, <2>2 DEF SealedIsOneVersion
    <2> QED
      BY <1>4, <2>2, <2>3, <2>4 DEF VersionInv
  <1>8. ASSUME Admit(c) PROVE VersionInv'
    <2> DEFINE w == [collector[c] EXCEPT !.at = "launch"]
    <2>1. w.at = "launch" /\ w.version = collector[c].version /\ w.stamp = collector[c].stamp
      BY <1>2 DEF Waiting
    <2>2. collector' = [collector EXCEPT ![c] = w] /\ In(c, "admit")
          /\ UNCHANGED <<run, result, code, identity, sessions, runtime>>
      BY <1>8 DEF Admit, On, Go, Outside
    <2> HIDE DEF w
    <2>3. OfIdentity(c)'
      <3>1. collector'[c] = w
        BY <1>4, <2>2
      <3> QED
        BY <1>2, <1>3, <2>1, <2>2, <3>1 DEF OfIdentity, In
    <2>4. SealedIsOneVersion'
      BY <1>3, <2>2 DEF SealedIsOneVersion
    <2> QED
      BY <1>4, <2>2, <2>3, <2>4 DEF VersionInv
  <1>9. ASSUME Launch(c) PROVE VersionInv'
    <2> DEFINE w == [collector[c] EXCEPT !.at = "wait", !.no = made + 1]
    <2>1. w.at = "wait" /\ w.version = collector[c].version /\ w.stamp = collector[c].stamp
      BY <1>2 DEF Waiting
    <2>2. collector' = [collector EXCEPT ![c] = w] /\ In(c, "launch")
          /\ UNCHANGED <<files, result, code, identity, sessions, runtime>>
      BY <1>9 DEF Launch, Go, Start, Outside
    <2>3. No(Child)' = made + 1 /\ run'[Child].saw.loaded = {code.version}
      BY <1>9, Apart, StartKeepsRun DEF Launch, CoreInv, RunPart, RunInv, RunTypeOK
    <2>4. run'[Child].saw.disk = {}
      <3>1. At(Child, "lock")' /\ SawInv'
        BY <1>9, Apart, StartKeeps, StartKeepsRun DEF Launch, CoreInv, RunPart, RunInv, RunTypeOK
      <3> QED
        BY <3>1, Apart DEF SawInv, Saw, At
    <2>5. No(Child)' \notin files["stage"].store
      <3>1. "stage" \in Dirs /\ Owner("stage") = Child
        BY DEF Dirs, Owner
      <3>2. \A n \in files["stage"].store : n <= No(Child)
        BY <3>1 DEF CoreInv, RunPart, FilesInv, DirOK
      <3>3. No(Child) <= made
        BY Apart DEF CoreInv, RunPart, RunInv
      <3> QED
        BY <2>3, <3>2, <3>3, Basics
    <2> HIDE DEF w
    <2>6. OfIdentity(c)'
      <3>1. collector'[c] = w
        BY <1>4, <2>2
      <3> QED
        BY <1>2, <1>3, <2>1, <2>2, <2>3, <2>4, <2>5, <3>1 DEF OfIdentity, OfVersion, In
    <2>7. SealedIsOneVersion'
      BY <1>3, <2>2 DEF SealedIsOneVersion
    <2> QED
      BY <1>4, <2>2, <2>6, <2>7 DEF VersionInv
  <1>10. ASSUME Accept(c) PROVE VersionInv'
    <2> DEFINE w == [collector[c] EXCEPT !.at = "seal"]
    <2>1. w.at = "seal" /\ w.version = collector[c].version
      BY <1>2 DEF Waiting
    <2>2. collector' = [collector EXCEPT ![c] = w] /\ In(c, "wait") /\ Untouched(c) /\ ValidOutputs(c)
          /\ UNCHANGED <<run, result, code, identity, sessions, runtime>>
      BY <1>10 DEF Accept, On, Go, runVars
    <2>3. No(Child) \in files["stage"].store /\ collector[c].no = No(Child)
      BY <1>3, <2>2 DEF ValidOutputs, Waits, In
    <2>4. OfVersion(result[No(Child)], collector[c].version)
      BY <1>3, <2>2, <2>3 DEF OfIdentity, Untouched
    <2>5. \E v \in Versions : result[No(Child)].disk = {v}
      BY <2>3 DEF CoreInv, RunPart, FilesInv, Dirs
    <2>6. result[No(Child)].loaded \cup result[No(Child)].disk = {collector[c].version}
      BY <2>4, <2>5 DEF OfVersion
    <2> HIDE DEF w
    <2>7. OfIdentity(c)'
      <3>1. collector'[c] = w
        BY <1>4, <2>2
      <3> QED
        BY <1>2, <1>3, <2>1, <2>2, <2>6, <3>1 DEF OfIdentity, In, No
    <2>8. SealedIsOneVersion'
      BY <1>3, <2>2 DEF SealedIsOneVersion
    <2> QED
      BY <1>4, <2>2, <2>7, <2>8 DEF VersionInv
  <1>11. ASSUME Seal(c) PROVE VersionInv'
    <2> DEFINE s == [day |-> collector[c].day, no |-> collector[c].no, version |-> identity,
                     frozen |-> universe # None]
    <2>1. collector' = [collector EXCEPT ![c] = Away] /\ sessions' = sessions \cup {s} /\ In(c, "seal")
          /\ UNCHANGED <<run, result, code, identity, runtime>>
      BY <1>11 DEF Seal, Go, runVars
    <2>2. s.no = No(Child) /\ s.version = identity
      BY <1>3, <2>1 DEF Waits, In
    <2> HIDE DEF s
    <2>3. SealedIsOneVersion'
      BY <1>3, <2>1, <2>2 DEF SealedIsOneVersion, OfIdentity, In
    <2>4. collector'[c] = Away
      BY <1>4, <2>1
    <2>5. OfIdentity(c)'
      BY <2>4 DEF OfIdentity, In, Away
    <2> QED
      BY <1>4, <2>1, <2>3, <2>5 DEF VersionInv
  <1> QED
    BY <1>5, <1>6, <1>7, <1>8, <1>9, <1>10, <1>11

LEMMA NextKeepsVersion == ASSUME CoreInv, VersionInv, [Next]_allVars PROVE VersionInv'
  <1>1. CASE \E p \in Processes : Running(p) \/ (Abort(p) /\ UNCHANGED seriesVars)
    <2>1. CASE UNCHANGED seriesVars /\ (RunStep(Child) \/ Abort(Child))
      BY <2>1, ChildKeepsVersion
    <2>2. CASE UNCHANGED seriesVars /\ (RunStep(Daily) \/ Abort(Daily))
      BY <2>2, Apart, StepFacts, DailySteps, ElsewhereKeepsVersion DEF CoreInv, RunPart
    <2> QED
      BY <1>1, <2>1, <2>2 DEF Running, Processes
  <1>2. CASE (Deploy \/ NextDay \/ (Start(Daily, "main", DailyModel) /\ UNCHANGED files)) /\ UNCHANGED seriesVars
    <2>1. run'[Child] = run[Child] /\ SameStore /\ UNCHANGED result
      BY <1>2, Apart, Basics DEF Deploy, NextDay, Start, SameStore
    <2>2. code.stamp \in Nat
      BY Basics
    <2>3. UNCHANGED code \/ (code'.stamp \in Nat /\ code'.stamp > code.stamp)
      BY <1>2, <2>2 DEF Deploy, NextDay, Start, Outside
    <2> QED
      BY <1>2, <2>1, <2>3, ElsewhereKeepsVersion
  <1>3. CASE \E c \in Collectors : Call(c) \/ Collect(c) \/ CollectorDies(c)
    BY <1>3, QuietKeepsVersion, CollectKeepsVersion DEF Collect
  <1>4. CASE Review \/ UNCHANGED allVars
    <2>1. UNCHANGED <<collector, identity, runtime, sessions, code, run, result, files>>
      BY <1>4 DEF Review, allVars, runVars, seriesVars
    <2> QED
      BY <2>1 DEF VersionInv, SealedIsOneVersion, OfIdentity, In, No, Ended
  <1> QED
    BY <1>1, <1>2, <1>3, <1>4 DEF Next, Environment

(* A sealed session is wholly of the bound version: whoever touched the     *)
(* tree after the guard was taken is found out before the seal.             *)
THEOREM SealedByOneVersion == Spec => []SealedIsOneVersion
  <1>1. Init => VersionInv
    <2>1. ASSUME Init PROVE sessions = {} /\ \A c \in Collectors : collector[c].at = "idle"
      BY <2>1 DEF Init, Away
    <2> QED
      BY <2>1 DEF VersionInv, SealedIsOneVersion, OfIdentity, In
  <1>2. CoreInv /\ VersionInv /\ [Next]_allVars => VersionInv'
    BY NextKeepsVersion
  <1>3. VersionInv => SealedIsOneVersion
    BY DEF VersionInv
  <1> QED
    BY <1>1, <1>2, <1>3, CoreInvariant, PTL DEF Spec

(* Both together.                                                           *)
THEOREM OfOneVersion == Spec => []OneVersion
  <1>1. OneVersionPublished /\ SealedIsOneVersion => OneVersion
    BY DEF OneVersion
  <1> QED
    BY <1>1, SingleVersionBundles, SealedByOneVersion, PTL

-----------------------------------------------------------------------------
LateInv == StageInv /\ ListingInv /\ EvaluationInv

LEMMA InitLate == Init => LateInv
  <1> SUFFICES ASSUME Init PROVE LateInv
    OBVIOUS
  <1>1. /\ files["stage"].store = {} /\ run[Child].at = "idle" /\ evaluated = {} /\ sessions = {}
        /\ \A c \in Collectors : collector[c].at = "idle"
    BY Apart DEF Init, RunInit, EmptyDir, NotRunning, Away, Dirs
  <1>2. StageInv
    BY <1>1 DEF StageInv, In
  <1>3. ListingInv
    BY <1>1 DEF ListingInv, UniverseIsFrozen, Strategies, Publishing, At, In
  <1>4. EvaluationInv
    BY <1>1 DEF EvaluationInv, EvaluationAccounted, OncePerDay, Evaluated, Strategies, Publishing, At, In, Ended
  <1> QED
    BY <1>2, <1>3, <1>4 DEF LateInv

LEMMA ElsewhereKeepsLate ==
    ASSUME CoreInv, LateInv, UNCHANGED seriesVars, run'[Child] = run[Child], SameStore, UNCHANGED evaluated,
           \A n \in Numbers \ {No(Daily)} : result'[n] = result[n], today' \in Int, today' >= today
    PROVE  LateInv'
  <1>1. UNCHANGED <<collector, attempt, universe, sessions, reviewed>>
    BY DEF seriesVars
  <1>2. (\A s \in sessions : result'[s.no] = result[s.no])
        /\ (No(Child) \in Numbers => result'[No(Child)] = result[No(Child)])
    BY Basics
  <1>3. \A n \in files["stage"].store : n = No(Child) /\ result'[n] = result[n]
    BY <1>2, Basics DEF LateInv, StageInv, Artifacts
  <1>4. \A c \in Collectors : In(c, "seal") => result'[No(Child)] = result[No(Child)]
    BY <1>2 DEF CoreInv, SeriesPart, AttemptInv, Waits, In
  <1>5. No(Child)' = No(Child) /\ Strategies' = Strategies /\ Ended(Child)' = Ended(Child)
    BY DEF No, Strategies, At, Ended
  <1>6. StageInv'
    BY <1>1, <1>5 DEF LateInv, StageInv, SameStore, In
  <1>7. ListingInv'
    <2>1. UniverseIsFrozen'
      BY <1>1, <1>2 DEF LateInv, ListingInv, UniverseIsFrozen
    <2> QED
      BY <1>1, <1>3, <1>4, <1>5, <2>1 DEF LateInv, ListingInv, SameStore, In
  <1>8. EvaluationInv'
    <2>1. EvaluationAccounted' /\ OncePerDay' /\ Evaluated' = Evaluated
      BY <1>1 DEF LateInv, EvaluationInv, EvaluationAccounted, OncePerDay, Evaluated
    <2>2. \A r \in evaluated : r.no <= No(Child) /\ r.day <= today'
      BY Basics DEF LateInv, EvaluationInv
    <2> QED
      BY <1>1, <1>3, <1>5, <2>1, <2>2 DEF LateInv, EvaluationInv, SameStore, In
  <1> QED
    BY <1>6, <1>7, <1>8 DEF LateInv

(* A collector moves, and no attempt, run or session with it.               *)
LEMMA QuietKeepsLate ==
    ASSUME CoreInv, LateInv, NEW c \in Collectors,
           Call(c) \/ Identify(c) \/ BindIdentity(c) \/ TakeGuard(c) \/ Refused(c) \/ CollectorDies(c)
    PROVE  LateInv'
  <1>1. \E w : collector' = [collector EXCEPT ![c] = w] /\ w.at \notin {"launch", "seal"}
    <2>1. /\ [Away EXCEPT !.at = "lock", !.day = today].at = "lock" /\ Away.at = "idle"
          /\ [collector[c] EXCEPT !.at = IF identity = None THEN "bind" ELSE "guard",
                                  !.version = code.version].at \in {"bind", "guard"}
          /\ [collector[c] EXCEPT !.at = "guard"].at = "guard"
          /\ [collector[c] EXCEPT !.at = "admit", !.stamp = code.stamp].at = "admit"
      BY Basics DEF Away, Waiting
    <2> QED
      BY <2>1 DEF Call, Identify, BindIdentity, TakeGuard, Refused, CollectorDies, Leave, Go, On
  <1>2. UNCHANGED <<run, result, files, evaluated, today, attempt, universe, sessions, reviewed>>
    BY DEF Call, Identify, BindIdentity, TakeGuard, Refused, CollectorDies, Leave, runVars, Outside
  <1>3. \A d \in Collectors : collector'[d].at \in {"launch", "seal"} => collector'[d] = collector[d]
    BY <1>1, Basics
  <1>4. No(Child)' = No(Child) /\ Strategies' = Strategies /\ Ended(Child)' = Ended(Child)
    BY <1>2 DEF No, Strategies, At, Ended
  <1>5. StageInv'
    BY <1>2, <1>3, <1>4 DEF LateInv, StageInv, In
  <1>6. ListingInv'
    <2>1. UniverseIsFrozen'
      BY <1>2 DEF LateInv, ListingInv, UniverseIsFrozen
    <2> QED
      BY <1>2, <1>3, <1>4, <2>1 DEF LateInv, ListingInv, In
  <1>7. EvaluationInv'
    <2>1. EvaluationAccounted' /\ OncePerDay' /\ Evaluated' = Evaluated
      BY <1>2 DEF LateInv, EvaluationInv, EvaluationAccounted, OncePerDay, Evaluated
    <2> QED
      BY <1>2, <1>3, <1>4, <2>1 DEF LateInv, EvaluationInv, In
  <1> QED
    BY <1>5, <1>6, <1>7 DEF LateInv

LEMMA ChildKeepsLate ==
    ASSUME CoreInv, LateInv, UNCHANGED seriesVars, RunStep(Child) \/ Abort(Child)
    PROVE  LateInv'
  <1>1. UNCHANGED <<collector, attempt, universe, sessions, reviewed>>
    BY DEF seriesVars
  <1>2. ~Ended(Child) /\ No(Child)' = No(Child) /\ UNCHANGED today
    BY Apart, StepFacts DEF CoreInv, RunPart
  <1>3. (Ended(Child)' /\ Unwritten) \/ ChildLocks \/ ChildEvaluates \/ ChildChecks \/ ChildPublishes
    BY ChildSteps DEF CoreInv, RunPart
  <1>4. /\ No(Child) \in Numbers /\ attempt.no = No(Child) /\ attempt # NoAttempt
        /\ (\A c \in Collectors : ~In(c, "seal") /\ ~In(c, "launch"))
    <2>1. No(Child) \in Numbers /\ attempt.no = No(Child)
      BY <1>2, Basics DEF CoreInv, SeriesPart, AttemptInv
    <2> QED
      BY <1>2, <2>1 DEF CoreInv, SeriesPart, AttemptInv, Waits, Ended, At, In, NoAttempt, NoResult, Numbers
  <1>5. \A s \in sessions : result'[s.no] = result[s.no]
    BY <1>2, <1>3, Basics DEF Unwritten, ChildLocks, ChildEvaluates, ChildChecks, ChildPublishes, ChildStores
  <1>6. UniverseIsFrozen'
    BY <1>1, <1>5 DEF LateInv, ListingInv, UniverseIsFrozen
  <1>7. \A c \in Collectors : ~In(c, "seal")' /\ ~In(c, "launch")'
    BY <1>1, <1>4 DEF In
  <1>8. ASSUME UNCHANGED evaluated PROVE EvaluationAccounted' /\ OncePerDay' /\ Evaluated' = Evaluated
    BY <1>1, <1>8 DEF LateInv, EvaluationInv, EvaluationAccounted, OncePerDay, Evaluated
  <1>9. ASSUME Unwritten, Strategies' => Strategies /\ run'[Child].saw = run[Child].saw,
               run'[Child].at \in Publishing => run'[Child].stage = LastStage,
               Ended(Child)' \/ Strategies' \/ ~Strategies
        PROVE  LateInv'
    <2>1. StageInv'
      BY <1>2, <1>7, <1>9 DEF LateInv, StageInv, Unwritten, SameStore
    <2>2. ListingInv'
      BY <1>6, <1>7, <1>9 DEF LateInv, ListingInv, Unwritten, SameStore
    <2>3. EvaluationInv'
      <3>1. \A n \in files'["stage"].store : Evaluation(n, result'[n].day) \in evaluated'
        BY <1>9 DEF LateInv, EvaluationInv, Unwritten, SameStore
      <3>2. Strategies' => Evaluation(No(Child)', run'[Child].saw.day) \in evaluated'
        BY <1>2, <1>9 DEF LateInv, EvaluationInv, Unwritten
      <3>3. ~Ended(Child)' /\ ~Strategies' => No(Child)' \notin Evaluated'
        BY <1>2, <1>8, <1>9 DEF LateInv, EvaluationInv, Unwritten
      <3>4. EvaluationAccounted' /\ OncePerDay'
        BY <1>8, <1>9 DEF Unwritten
      <3>5. (\A r \in evaluated' : r.no <= No(Child)' /\ r.day <= today') /\ (\A r, q \in evaluated' : r.no = q.no => r = q)
        BY <1>2, <1>9 DEF LateInv, EvaluationInv, Unwritten
      <3>6. \A s \in sessions' : \A r \in evaluated' : r.no = s.no => r.day = s.day
        BY <1>1, <1>9 DEF LateInv, EvaluationInv, Unwritten
      <3> QED
        BY <1>7, <1>9, <3>1, <3>2, <3>3, <3>4, <3>5, <3>6 DEF EvaluationInv
    <2> QED
      BY <2>1, <2>2, <2>3 DEF LateInv
  <1>10. CASE Ended(Child)' /\ Unwritten
    <2>1. run'[Child].at \notin Publishing /\ ~Strategies'
      BY <1>10 DEF Ended, Publishing, Strategies, At
    <2> QED
      BY <1>9, <1>10, <2>1
  <1>11. CASE ChildLocks
    <2>1. run'[Child].at \notin Publishing /\ ~Strategies' /\ ~Strategies
      BY <1>11 DEF ChildLocks, Publishing, Strategies, At
    <2> QED
      BY <1>9, <1>11, <2>1 DEF ChildLocks
  <1>12. CASE ChildChecks
    <2>1. CASE run[Child].stage = LastStage
      BY <1>9, <1>12, <2>1 DEF ChildChecks, Strategies
    <2>2. CASE run[Child].stage # LastStage
      <3>1. run'[Child].at \notin Publishing /\ ~Strategies' /\ ~Strategies
        BY <1>12, <2>2 DEF ChildChecks, Publishing, Strategies, At
      <3> QED
        BY <1>9, <1>12, <3>1 DEF ChildChecks
    <2> QED
      BY <2>1, <2>2
  <1>13. CASE ChildPublishes /\ Unwritten
    <2>1. Strategies /\ Strategies' /\ run'[Child].stage = LastStage
      BY <1>13 DEF ChildPublishes, Strategies, LateInv, EvaluationInv
    <2> QED
      BY <1>9, <1>13, <2>1 DEF ChildPublishes
  <1>14. CASE ChildPublishes /\ ChildStores
    <2>1. Strategies /\ Strategies' /\ run'[Child].stage = LastStage /\ run'[Child].saw = run[Child].saw
          /\ UNCHANGED evaluated
      BY <1>14 DEF ChildPublishes, Strategies, LateInv, EvaluationInv
    <2>2. result'[No(Child)] = run[Child].saw /\ \A n \in files["stage"].store : n = No(Child)
      BY <1>4, <1>14, Basics DEF ChildStores, LateInv, StageInv
    <2>3. \A n \in files'["stage"].store : n = No(Child) /\ result'[n] = run[Child].saw
      BY <1>14, <2>2 DEF ChildStores
    <2>4. StageInv'
      BY <1>2, <1>7, <2>3 DEF StageInv
    <2>5. ListingInv'
      BY <1>6, <1>7, <2>1, <2>3 DEF LateInv, ListingInv
    <2>6. EvaluationInv'
      <3>1. Evaluation(No(Child), run[Child].saw.day) \in evaluated
        BY <2>1 DEF LateInv, EvaluationInv
      <3>2. (\A r \in evaluated' : r.no <= No(Child)' /\ r.day <= today') /\ (\A r, q \in evaluated' : r.no = q.no => r = q)
            /\ \A s \in sessions' : \A r \in evaluated' : r.no = s.no => r.day = s.day
        BY <1>1, <1>2, <2>1 DEF LateInv, EvaluationInv
      <3> QED
        BY <1>2, <1>7, <1>8, <2>1, <2>3, <3>1, <3>2 DEF EvaluationInv
    <2> QED
      BY <2>4, <2>5, <2>6 DEF LateInv
  <1>15. CASE ChildEvaluates
    <2>1. PICK u \in SUBSET Listings : run'[Child].saw = Seen(Child, u) /\ (run[Child].stage = LastStage => \E l \in Listings : u = {l})
      BY <1>15 DEF ChildEvaluates
    <2>2. Seen(Child, u).listing = u /\ (run[Child].stage = LastStage => Seen(Child, u).day = today)
      BY Basics DEF Seen, RunState, Evidence, Series
    <2>3. At(Child, "check")' /\ run'[Child].at \notin Publishing /\ run'[Child].stage = run[Child].stage
          /\ UNCHANGED result /\ SameStore /\ (Strategies' <=> run[Child].stage = LastStage) /\ ~Strategies /\ ~Ended(Child)'
      BY <1>15 DEF ChildEvaluates, Publishing, Strategies, At, Ended
    <2>4. No(Child) \notin Evaluated /\ \A r \in evaluated : r.no # No(Child)
      BY <1>2, <2>3 DEF LateInv, EvaluationInv, Evaluated
    <2>5. StageInv'
      BY <1>2, <1>7, <2>3 DEF LateInv, StageInv, SameStore
    <2>6. ListingInv'
      BY <1>6, <1>7, <2>1, <2>2, <2>3 DEF LateInv, ListingInv, SameStore
    <2>7. CASE run[Child].stage # LastStage
      <3>1. UNCHANGED evaluated
        BY <1>15, <2>7 DEF ChildEvaluates
      <3>2. (\A r \in evaluated' : r.no <= No(Child)' /\ r.day <= today') /\ (\A r, q \in evaluated' : r.no = q.no => r = q)
            /\ (\A s \in sessions' : \A r \in evaluated' : r.no = s.no => r.day = s.day)
            /\ (\A n \in files'["stage"].store : Evaluation(n, result'[n].day) \in evaluated')
        BY <1>1, <1>2, <2>3, <3>1 DEF LateInv, EvaluationInv, SameStore
      <3>3. EvaluationInv'
        BY <1>2, <1>7, <1>8, <2>3, <2>4, <2>7, <3>1, <3>2 DEF EvaluationInv
      <3> QED
        BY <2>5, <2>6, <3>3 DEF LateInv
    <2>8. CASE run[Child].stage = LastStage
      <3> DEFINE e == Evaluation(No(Child), today)
      <3>1. e.no = No(Child) /\ e.day = today /\ today \in Int /\ today <= today /\ No(Child) <= No(Child)
        BY Basics DEF Evaluation
      <3>2. evaluated' = evaluated \cup {e}
        BY <1>15, <2>8 DEF ChildEvaluates
      <3> HIDE DEF e
      <3>3. Evaluated' = Evaluated \cup {No(Child)}
        BY <3>1, <3>2 DEF Evaluated
      <3>4. EvaluationAccounted'
        BY <1>1, <1>4, <3>3 DEF LateInv, EvaluationInv, EvaluationAccounted
      <3>5. ASSUME NEW q \in evaluated, q.day = today, q.no \notin reviewed PROVE FALSE
        <4>1. q.no \in Evaluated /\ q.no # No(Child)
          BY <2>4 DEF Evaluated
        <4>2. PICK s \in sessions : q.no = s.no
          BY <4>1, <3>5, <1>4 DEF LateInv, EvaluationInv, EvaluationAccounted
        <4>3. s.day = today
          BY <3>5, <4>2 DEF LateInv, EvaluationInv
        <4>4. s.day < attempt.day /\ attempt.day \in 1..today
          BY <1>4 DEF CoreInv, SeriesPart, AttemptInv
        <4> QED
          BY <3>1, <4>3, <4>4
      <3>6. OncePerDay'
        BY <1>1, <3>1, <3>2, <3>5 DEF LateInv, EvaluationInv, OncePerDay
      <3>7. \A r \in evaluated' : r.no <= No(Child)' /\ r.day <= today'
        BY <1>2, <3>1, <3>2, Basics DEF LateInv, EvaluationInv
      <3>8. \A r, q \in evaluated' : r.no = q.no => r = q
        BY <2>4, <3>1, <3>2 DEF LateInv, EvaluationInv
      <3>9. \A s \in sessions' : \A r \in evaluated' : r.no = s.no => r.day = s.day
        BY <1>1, <1>2, <3>1, <3>2, Basics DEF LateInv, EvaluationInv
      <3>10. \A n \in files'["stage"].store : Evaluation(n, result'[n].day) \in evaluated'
        BY <2>3, <3>2 DEF LateInv, EvaluationInv, SameStore
      <3>11. Evaluation(No(Child)', run'[Child].saw.day) \in evaluated'
        BY <1>2, <2>1, <2>2, <2>8, <3>2 DEF e
      <3>12. EvaluationInv'
        BY <1>7, <2>3, <2>8, <3>4, <3>6, <3>7, <3>8, <3>9, <3>10, <3>11 DEF EvaluationInv
      <3> QED
        BY <2>5, <2>6, <3>12 DEF LateInv
    <2> QED
      BY <2>7, <2>8
  <1> QED
    BY <1>3, <1>10, <1>11, <1>12, <1>13, <1>14, <1>15 DEF ChildPublishes

LEMMA AttemptKeepsLate ==
    ASSUME CoreInv, LateInv, NEW c \in Collectors, Admit(c) \/ Launch(c) \/ Accept(c) \/ Seal(c)
    PROVE  LateInv'
  <1>1. \A d \in Collectors \ {c} : collector[d].at \in {"idle", "lock"}
    <2>1. TypeOK /\ collector[c].at \notin {"idle", "lock"}
      BY DEF CoreInv, SeriesPart, Admit, Launch, Accept, Seal, In
    <2> QED
      BY <2>1, Turn
  <1>2. collector[c] \in Waiting /\ Waits(c)
    BY Basics DEF CoreInv, SeriesPart, AttemptInv
  <1>3. ASSUME NEW w, collector' = [collector EXCEPT ![c] = w]
        PROVE  /\ collector'[c] = w
               /\ w.at # "launch" => \A d \in Collectors : ~In(d, "launch")'
               /\ w.at # "seal" => \A d \in Collectors : ~In(d, "seal")'
    <2>1. collector'[c] = w /\ \A d \in Collectors \ {c} : collector'[d] = collector[d]
      BY <1>3, Basics
    <2> QED
      BY <1>1, <2>1 DEF In
  <1>4. ASSUME Admit(c) PROVE LateInv'
    <2>1. /\ collector' = [collector EXCEPT ![c] = [collector[c] EXCEPT !.at = "launch"]]
          /\ UNCHANGED <<run, result, evaluated, today, universe, sessions, reviewed>>
          /\ attempt = NoAttempt /\ attempt'.no = NoResult /\ files' = [files EXCEPT !["stage"] = EmptyDir]
      BY <1>4 DEF Admit, MayAttempt, On, Go, Outside
    <2>2. [collector[c] EXCEPT !.at = "launch"].at = "launch"
      BY <1>2 DEF Waiting
    <2>3. \A d \in Collectors : ~In(d, "seal")'
      BY <1>3, <2>1, <2>2
    <2>4. files'["stage"].store = {}
      BY <2>1 DEF CoreInv, RunPart, RunInv, RunTypeOK, EmptyDir, Dirs
    <2>5. No(Child)' = No(Child) /\ Strategies' = Strategies /\ Ended(Child)' = Ended(Child)
      BY <2>1 DEF No, Strategies, At, Ended
    <2>6. StageInv'
      BY <2>4 DEF StageInv
    <2>7. ListingInv'
      <3>1. UniverseIsFrozen'
        BY <2>1 DEF LateInv, ListingInv, UniverseIsFrozen
      <3> QED
        BY <2>1, <2>3, <2>4, <2>5, <3>1 DEF LateInv, ListingInv
    <2>8. EvaluationInv'
      <3>1. EvaluationAccounted' /\ OncePerDay' /\ Evaluated' = Evaluated
        BY <2>1 DEF LateInv, EvaluationInv, EvaluationAccounted, OncePerDay, Evaluated, NoAttempt
      <3> QED
        BY <2>1, <2>3, <2>4, <2>5, <3>1 DEF LateInv, EvaluationInv
    <2> QED
      BY <2>6, <2>7, <2>8 DEF LateInv
  <1>5. ASSUME Launch(c) PROVE LateInv'
    <2>1. /\ collector' = [collector EXCEPT ![c] = [collector[c] EXCEPT !.at = "wait", !.no = made + 1]]
          /\ UNCHANGED <<files, result, evaluated, today, universe, sessions, reviewed>>
          /\ attempt' = [attempt EXCEPT !.no = made + 1] /\ In(c, "launch")
      BY <1>5 DEF Launch, Go, Start, Outside
    <2>2. [collector[c] EXCEPT !.at = "wait", !.no = made + 1].at = "wait"
      BY <1>2 DEF Waiting
    <2>3. \A d \in Collectors : ~In(d, "seal")' /\ ~In(d, "launch")'
      BY <1>3, <2>1, <2>2
    <2>4. No(Child)' = made + 1 /\ At(Child, "lock")'
      BY <1>5, Apart, StartKeepsRun DEF Launch, CoreInv, RunPart, RunInv, RunTypeOK
    <2>5. files'["stage"].store = {}
      BY <2>1 DEF LateInv, StageInv
    <2>6. run'[Child].at \notin Publishing /\ ~Strategies'
      BY <2>4 DEF Strategies, Publishing, At
    <2>7. attempt.no = NoResult
      BY <1>2, <2>1 DEF Waits
    <2>8. \A r \in evaluated : r.no <= made /\ r.no <= made + 1 /\ r.no # made + 1 /\ r.no \in Numbers
      <3>1. No(Child) <= made
        BY Apart DEF CoreInv, RunPart, RunInv
      <3>2. \A r \in evaluated : r.no <= No(Child)
        BY DEF LateInv, EvaluationInv
      <3> QED
        BY <3>1, <3>2, Basics DEF Numbers
    <2>9. Evaluated' = Evaluated /\ NoResult \notin Evaluated /\ made + 1 \notin Evaluated
      BY <2>1, <2>8 DEF Evaluated, NoResult, Numbers
    <2>10. StageInv'
      BY <2>5 DEF StageInv
    <2>11. ListingInv'
      <3>1. UniverseIsFrozen'
        BY <2>1 DEF LateInv, ListingInv, UniverseIsFrozen
      <3> QED
        BY <2>3, <2>5, <2>6, <3>1 DEF ListingInv
    <2>12. EvaluationInv'
      <3>1. EvaluationAccounted' /\ OncePerDay'
        BY <2>1, <2>7, <2>9 DEF LateInv, EvaluationInv, EvaluationAccounted, OncePerDay
      <3>2. (\A r \in evaluated' : r.no <= No(Child)' /\ r.day <= today') /\ (\A r, q \in evaluated' : r.no = q.no => r = q)
            /\ \A s \in sessions' : \A r \in evaluated' : r.no = s.no => r.day = s.day
        BY <2>1, <2>4, <2>8 DEF LateInv, EvaluationInv
      <3> QED
        BY <2>3, <2>4, <2>5, <2>6, <2>9, <3>1, <3>2 DEF EvaluationInv
    <2> QED
      BY <2>10, <2>11, <2>12 DEF LateInv
  <1>6. ASSUME Accept(c) PROVE LateInv'
    <2>1. /\ collector' = [collector EXCEPT ![c] = [collector[c] EXCEPT !.at = "seal"]]
          /\ UNCHANGED <<run, files, result, evaluated, today, attempt, sessions, reviewed>>
          /\ In(c, "wait") /\ ValidOutputs(c)
      BY <1>6 DEF Accept, On, Go, runVars
    <2>2. PICK u \in result[No(Child)].listing : Accepts(u) /\ universe' = Frozen(u)
      BY <1>2, <1>6 DEF Accept, Waits, In
    <2>3. [collector[c] EXCEPT !.at = "seal"].at = "seal" /\ [collector[c] EXCEPT !.at = "seal"].day = collector[c].day
      BY <1>2 DEF Waiting
    <2>4. collector'[c].at = "seal" /\ collector'[c].day = collector[c].day /\ \A d \in Collectors : ~In(d, "launch")'
          /\ \A x \in Collectors \ {c} : ~In(x, "seal")'
      BY <1>1, <1>3, <2>1, <2>3, Basics DEF In
    <2>5. No(Child)' = No(Child) /\ Strategies' = Strategies /\ Ended(Child)' = Ended(Child)
      BY <2>1 DEF No, Strategies, At, Ended
    <2>6. No(Child) \in files["stage"].store /\ result[No(Child)].day = collector[c].day
      BY <1>2, <2>1 DEF ValidOutputs, Waits, In
    <2>7. result[No(Child)].listing = {u} /\ u \in Listings /\ u # None /\ Full \subseteq Listings /\ None \notin Full
      BY <2>2, <2>6, SeriesAssumption DEF LateInv, ListingInv
    <2>8. StageInv'
      BY <2>1, <2>4, <2>5 DEF LateInv, StageInv
    <2>9. ListingInv'
      <3>1. ASSUME NEW s \in sessions
            PROVE  IF s.frozen THEN result[s.no].listing = {universe'} ELSE result[s.no].listing \cap Full = {}
        <4>1. IF s.frozen THEN result[s.no].listing = {universe} ELSE result[s.no].listing \cap Full = {}
          BY DEF LateInv, ListingInv, UniverseIsFrozen
        <4>2. result[s.no].listing \subseteq Listings
          BY Basics DEF Evidence
        <4>3. universe' = universe \/ universe = None
          BY <2>2 DEF Frozen
        <4> QED
          BY <4>1, <4>2, <4>3, SeriesAssumption
      <3>2. UniverseIsFrozen'
        BY <2>1, <3>1 DEF UniverseIsFrozen
      <3>3. IF universe' # None THEN result[No(Child)].listing = {universe'} ELSE result[No(Child)].listing \cap Full = {}
        BY <2>2, <2>7 DEF Accepts, Frozen
      <3> QED
        BY <2>1, <2>4, <2>5, <3>2, <3>3 DEF LateInv, ListingInv, In
    <2>10. EvaluationInv'
      <3>1. EvaluationAccounted' /\ OncePerDay' /\ Evaluated' = Evaluated
        BY <2>1 DEF LateInv, EvaluationInv, EvaluationAccounted, OncePerDay, Evaluated
      <3>2. Evaluation(No(Child), collector[c].day) \in evaluated
        BY <2>6 DEF LateInv, EvaluationInv
      <3> QED
        BY <2>1, <2>4, <2>5, <3>1, <3>2 DEF LateInv, EvaluationInv, In
    <2> QED
      BY <2>8, <2>9, <2>10 DEF LateInv
  <1>7. ASSUME Seal(c) PROVE LateInv'
    <2> DEFINE s == [day |-> collector[c].day, no |-> collector[c].no, version |-> identity,
                     frozen |-> universe # None]
    <2>1. /\ collector' = [collector EXCEPT ![c] = Away] /\ In(c, "seal")
          /\ UNCHANGED <<run, files, result, evaluated, today, universe, reviewed>>
          /\ sessions' = sessions \cup {s} /\ attempt' = NoAttempt
      BY <1>7 DEF Seal, Go, runVars
    <2>2. s.day = collector[c].day /\ s.no = No(Child) /\ attempt.no = No(Child) /\ s.frozen = (universe # None)
      <3>1. s.frozen = (universe # None)
        BY Zenon
      <3>2. s.day = collector[c].day /\ s.no = collector[c].no
        OBVIOUS
      <3> QED
        BY <1>2, <2>1, <3>1, <3>2 DEF Waits, In
    <2> HIDE DEF s
    <2>3. \A d \in Collectors : ~In(d, "launch")' /\ ~In(d, "seal")'
      BY <1>3, <2>1 DEF Away
    <2>4. No(Child)' = No(Child) /\ Strategies' = Strategies /\ Ended(Child)' = Ended(Child)
      BY <2>1 DEF No, Strategies, At, Ended
    <2>5. StageInv'
      BY <2>1, <2>3, <2>4 DEF LateInv, StageInv
    <2>6. ListingInv'
      <3>1. IF universe # None THEN result[No(Child)].listing = {universe} ELSE result[No(Child)].listing \cap Full = {}
        BY <2>1 DEF LateInv, ListingInv
      <3>2. ASSUME NEW t \in sessions'
            PROVE  IF t.frozen THEN result[t.no].listing = {universe} ELSE result[t.no].listing \cap Full = {}
        <4>1. CASE t = s
          <5>1. t.no = No(Child) /\ t.frozen = (universe # None)
            BY <2>2, <4>1
          <5>2. CASE universe = None
            BY <3>1, <5>1, <5>2
          <5>3. CASE universe # None
            BY <3>1, <5>1, <5>3
          <5> QED
            BY <5>2, <5>3
        <4>2. CASE t \in sessions
          BY <4>2 DEF LateInv, ListingInv, UniverseIsFrozen
        <4> QED
          BY <2>1, <4>1, <4>2
      <3>3. UniverseIsFrozen'
        BY <2>1, <3>2 DEF UniverseIsFrozen
      <3> QED
        BY <2>1, <2>3, <2>4, <3>3 DEF LateInv, ListingInv
    <2>7. EvaluationInv'
      <3>1. EvaluationAccounted' /\ OncePerDay' /\ Evaluated' = Evaluated
        BY <2>1, <2>2 DEF LateInv, EvaluationInv, EvaluationAccounted, OncePerDay, Evaluated
      <3>2. \A r \in evaluated : r.no = No(Child) => r.day = collector[c].day
        <4>1. Evaluation(No(Child), collector[c].day) \in evaluated
          BY <2>1 DEF LateInv, EvaluationInv
        <4>2. Evaluation(No(Child), collector[c].day).no = No(Child)
              /\ Evaluation(No(Child), collector[c].day).day = collector[c].day
          BY DEF Evaluation
        <4> QED
          BY <4>1, <4>2 DEF LateInv, EvaluationInv
      <3>3. \A t \in sessions' : \A r \in evaluated' : r.no = t.no => r.day = t.day
        BY <2>1, <2>2, <3>2 DEF LateInv, EvaluationInv
      <3> QED
        BY <2>1, <2>3, <2>4, <3>1, <3>3 DEF LateInv, EvaluationInv
    <2> QED
      BY <2>5, <2>6, <2>7 DEF LateInv
  <1> QED
    BY <1>4, <1>5, <1>6, <1>7

LEMMA ReviewKeepsLate == ASSUME CoreInv, LateInv, Review PROVE LateInv'
  <1>1. /\ UNCHANGED <<run, result, files, evaluated, today, collector, universe, sessions>>
        /\ attempt' = NoAttempt /\ reviewed' = reviewed \cup ({attempt.no} \cap Evaluated)
    BY DEF Review, runVars
  <1>2. No(Child)' = No(Child) /\ Strategies' = Strategies /\ Ended(Child)' = Ended(Child) /\ Evaluated' = Evaluated
    BY <1>1 DEF No, Strategies, At, Ended, Evaluated
  <1>3. StageInv'
    BY <1>1, <1>2 DEF LateInv, StageInv, In
  <1>4. ListingInv'
    <2>1. UniverseIsFrozen'
      BY <1>1 DEF LateInv, ListingInv, UniverseIsFrozen
    <2> QED
      BY <1>1, <1>2, <2>1 DEF LateInv, ListingInv, In
  <1>5. EvaluationInv'
    <2>1. EvaluationAccounted' /\ OncePerDay'
      BY <1>1, <1>2 DEF LateInv, EvaluationInv, EvaluationAccounted, OncePerDay
    <2> QED
      BY <1>1, <1>2, <2>1 DEF LateInv, EvaluationInv, In
  <1> QED
    BY <1>3, <1>4, <1>5 DEF LateInv

LEMMA NextKeepsLate == ASSUME CoreInv, LateInv, [Next]_allVars PROVE LateInv'
  <1>1. today \in Int /\ today >= today
    BY Basics
  <1>2. CASE UNCHANGED seriesVars /\ (RunStep(Child) \/ Abort(Child))
    BY <1>2, ChildKeepsLate
  <1>3. CASE UNCHANGED seriesVars /\ (RunStep(Daily) \/ Abort(Daily))
    <2>1. UNCHANGED today
      BY <1>3, Apart, StepFacts DEF CoreInv, RunPart
    <2> QED
      BY <1>1, <1>3, <2>1, DailySteps, ElsewhereKeepsLate DEF CoreInv, RunPart
  <1>4. CASE (Deploy \/ NextDay \/ (Start(Daily, "main", DailyModel) /\ UNCHANGED files)) /\ UNCHANGED seriesVars
    <2>1. run'[Child] = run[Child] /\ SameStore /\ UNCHANGED <<result, evaluated>>
      BY <1>4, Apart, Basics DEF Deploy, NextDay, Start, SameStore
    <2>2. today' \in Int /\ today' >= today
      BY <1>1, <1>4 DEF Deploy, NextDay, Start, Outside
    <2> QED
      BY <1>4, <2>1, <2>2, ElsewhereKeepsLate
  <1>5. CASE \E c \in Collectors : Call(c) \/ Collect(c) \/ CollectorDies(c)
    BY <1>5, QuietKeepsLate, AttemptKeepsLate DEF Collect
  <1>6. CASE Review
    BY <1>6, ReviewKeepsLate
  <1>7. CASE UNCHANGED allVars
    BY <1>1, <1>7, ElsewhereKeepsLate DEF allVars, runVars, SameStore
  <1> QED
    BY <1>2, <1>3, <1>4, <1>5, <1>6, <1>7 DEF Next, Running, Environment, Processes

LEMMA LateInvariant == Spec => []LateInv
  <1>1. CoreInv /\ LateInv /\ [Next]_allVars => LateInv'
    BY NextKeepsLate
  <1> QED
    BY <1>1, InitLate, CoreInvariant, PTL DEF Spec

(* Whichever listing the first full session froze, every later one has it.  *)
THEOREM FrozenUniverse == Spec => []UniverseIsFrozen
  <1>1. LateInv => UniverseIsFrozen
    BY DEF LateInv, ListingInv
  <1> QED
    BY <1>1, LateInvariant, PTL

(* No result of the strategies is lost sight of, whoever is killed when, and *)
(* a session is evaluated once, or a person has reviewed the first result.   *)
THEOREM FinalEvaluations == Spec => []EvaluationsAreFinal
  <1>1. LateInv => EvaluationsAreFinal
    BY DEF LateInv, EvaluationInv, EvaluationsAreFinal
  <1> QED
    BY <1>1, LateInvariant, PTL
=============================================================================
