--------------------------- MODULE DailyCollection ---------------------------
(***************************************************************************)
(* The forward collection of daily results: a series of sealed sessions,   *)
(* each one run of DailyRun, all under one identity (source version,       *)
(* parameters, stock list) that the first collection binds.                *)
(*                                                                         *)
(* A collector is a process of its own.  It starts the run as a child and  *)
(* waits for it; when the collector is killed, the child goes on.  What is *)
(* left of a failed collection, an attempt directory or the litter of an   *)
(* interrupted first write, is not touched again before somebody has       *)
(* reviewed and removed it.                                                *)
(***************************************************************************)
EXTENDS DailyRun

CONSTANTS
    Collectors,
    Full,           \* listings of the full expected size
    None

ASSUME SeriesAssumption ==
    /\ Full \subseteq Listings /\ None \notin Versions \cup Listings \cup Collectors

VARIABLES
    collector,      \* each collector: [at, day, version, stamp, no]
    seriesLock,     \* holder of .collector.lock
    identity,       \* identity.json
    litter,         \* a .publish- file beside it
    runtime,        \* runtime.json: the retained source of that version
    attempt,        \* .DAY.attempt-*: [day, no], day 0 when there is none
    universe,       \* universe.json
    sessions,       \* sealed: [day, no, version, frozen]
    reviewed        \* results of removed attempts

seriesVars == <<collector, seriesLock, identity, litter, runtime, attempt, universe, sessions, reviewed>>
allVars == <<runVars, seriesVars>>

NoAttempt == [day |-> 0, no |-> NoResult]
Away == [at |-> "idle", day |-> 0, version |-> None, stamp |-> 0, no |-> NoResult]

Init ==
    /\ RunInit
    /\ collector = [c \in Collectors |-> Away]
    /\ seriesLock = None
    /\ identity = None
    /\ litter = FALSE
    /\ runtime = None
    /\ attempt = NoAttempt
    /\ universe = None
    /\ sessions = {}
    /\ reviewed = {}

In(c, phase) == collector[c].at = phase
Go(c, changed) == collector' = [collector EXCEPT ![c] = changed]
On(c, phase) == Go(c, [collector[c] EXCEPT !.at = phase])
Days == {s.day : s \in sessions}
Evaluated == {r.no : r \in evaluated}

(* The collector's clock is read before it asks for the lock.               *)
Call(c) ==
    /\ In(c, "idle")
    /\ Go(c, [Away EXCEPT !.at = "lock", !.day = today])
    /\ UNCHANGED <<runVars, seriesLock, identity, litter, runtime, attempt, universe, sessions, reviewed>>

(* Mutant: a failed collection removes its attempt.                         *)
LeaveClean(c) ==
    /\ Go(c, Away)
    /\ seriesLock' = IF seriesLock = c THEN None ELSE seriesLock
    /\ attempt' = IF In(c, "wait") THEN NoAttempt ELSE attempt
    /\ UNCHANGED <<identity, runtime, universe, sessions, reviewed>>

(* The collector ends, by an answer, an error or a kill.                    *)
Leave(c) ==
    /\ Go(c, Away)
    /\ seriesLock' = IF seriesLock = c THEN None ELSE seriesLock
    /\ UNCHANGED <<identity, runtime, attempt, universe, sessions, reviewed>>

Unbound == identity = None /\ ~litter /\ attempt = NoAttempt /\ sessions = {}

(* The lock, which only one collector holds; then the identity is computed  *)
(* from the tree, and a bound one must equal it.                            *)
Identify(c) ==
    /\ In(c, "lock") /\ seriesLock = None
    /\ identity = code.version \/ Unbound
    /\ seriesLock' = c
    /\ Go(c, [collector[c] EXCEPT !.at = IF identity = None THEN "bind" ELSE "guard", !.version = code.version])
    /\ litter' = (litter \/ identity = None)
    /\ UNCHANGED <<runVars, identity, runtime, attempt, universe, sessions, reviewed>>

(* write_once links what it wrote aside, and removes the other name.        *)
BindIdentity(c) ==
    /\ In(c, "bind")
    /\ identity' = collector[c].version
    /\ litter' = FALSE
    /\ On(c, "guard")
    /\ UNCHANGED <<runVars, seriesLock, runtime, attempt, universe, sessions, reviewed>>

(* The version guard, and the source it retains.                            *)
TakeGuard(c) ==
    /\ In(c, "guard") /\ code.version = collector[c].version
    /\ runtime \in {None, code.version}
    /\ runtime' = code.version
    /\ Go(c, [collector[c] EXCEPT !.at = "admit", !.stamp = code.stamp])
    /\ UNCHANGED <<runVars, seriesLock, identity, litter, attempt, universe, sessions, reviewed>>

(* Mutant: a session that is older than a sealed one is collected.          *)
MayAttemptLate(c) == attempt = NoAttempt /\ collector[c].day \notin Days

MayAttempt(c) == attempt = NoAttempt /\ \A d \in Days : d < collector[c].day

Admit(c) ==
    /\ In(c, "admit") /\ MayAttempt(c)
    /\ attempt' = [day |-> collector[c].day, no |-> NoResult]
    /\ files' = [files EXCEPT !["stage"] = EmptyDir]
    /\ On(c, "launch")
    /\ UNCHANGED <<Outside, runLock, run, made, result, evaluated, events>>
    /\ UNCHANGED <<seriesLock, identity, litter, runtime, universe, sessions, reviewed>>

Launch(c) ==
    /\ In(c, "launch")
    /\ Start(Child, "stage", "v7") /\ UNCHANGED files
    /\ attempt' = [attempt EXCEPT !.no = made + 1]
    /\ Go(c, [collector[c] EXCEPT !.at = "wait", !.no = made + 1])
    /\ UNCHANGED <<seriesLock, identity, litter, runtime, universe, sessions, reviewed>>

(* Mutant: the guard compares versions, not stamps.                         *)
UntouchedVersion(c) == collector[c].version = code.version

(* guard.check(): the tree was not touched since before the child started.  *)
Untouched(c) == collector[c].stamp = code.stamp

(* What the child published, evaluated on the collector's day.              *)
ValidOutputs(c) ==
    LET n == collector[c].no
        d == files["stage"]
    IN  d.bundle["v7"] = n /\ d.snapshots = {n} /\ n \in d.store /\ result[n].day = collector[c].day

(* The first full universe is frozen; every later one must equal it.        *)
Frozen(u) == IF universe = None /\ u \in Full THEN u ELSE universe

(* Mutant: a universe that is no longer full passes for the frozen one.     *)
AcceptsSmaller(u) == universe \in {None, u} \/ u \notin Full

Accepts(u) == universe \in {None, u}

(* The child is awaited; its outputs are accepted or not.                   *)
Accept(c) ==
    /\ In(c, "wait") /\ At(Child, "ok")
    /\ Untouched(c) /\ ValidOutputs(c)
    /\ \E u \in result[collector[c].no].listing : Accepts(u) /\ universe' = Frozen(u)
    /\ On(c, "seal")
    /\ UNCHANGED <<runVars, seriesLock, identity, litter, runtime, attempt, sessions, reviewed>>

(* The identity is computed once more, manifest and receipt are written     *)
(* into the attempt, and the attempt is given the session's name.           *)
Seal(c) ==
    /\ In(c, "seal") /\ identity = code.version
    /\ sessions' = sessions \cup {[day |-> collector[c].day, no |-> collector[c].no,
                                   version |-> identity, frozen |-> universe # None]}
    /\ attempt' = NoAttempt
    /\ Go(c, Away)
    /\ seriesLock' = None
    /\ UNCHANGED <<runVars, identity, litter, runtime, universe, reviewed>>

(* The answers and errors that need no fault: somebody else collects, the   *)
(* identity or the root is not as it should be, the day is sealed or too    *)
(* late, an attempt waits for review, the run failed or is not acceptable.  *)
Refused(c) ==
    /\ \/ In(c, "lock") /\ ~(seriesLock = None /\ (identity = code.version \/ Unbound))
       \/ In(c, "guard") /\ (code.version # collector[c].version \/ runtime \notin {None, code.version})
       \/ In(c, "admit") /\ ~MayAttempt(c)
       \/ In(c, "wait") /\ At(Child, "failed")
       \/ In(c, "wait") /\ At(Child, "ok")
          /\ ~(Untouched(c) /\ ValidOutputs(c) /\ \E u \in result[collector[c].no].listing : Accepts(u))
       \/ In(c, "seal") /\ identity # code.version
    /\ Leave(c)
    /\ UNCHANGED <<runVars, litter>>

(* An exception or a kill anywhere; only a kill leaves the litter.          *)
CollectorDies(c) ==
    /\ ~In(c, "idle") /\ Event
    /\ Leave(c)
    /\ litter' \in {litter, litter /\ ~In(c, "bind")}
    /\ UNCHANGED <<Outside, runLock, run, made, result, files, evaluated>>

(* A person looks at what is left, when no collector and no orphaned child  *)
(* works on it any more, and removes it.                                    *)
Review ==
    /\ litter \/ attempt # NoAttempt
    /\ seriesLock = None /\ Ended(Child)
    /\ attempt' = NoAttempt
    /\ litter' = FALSE
    /\ reviewed' = reviewed \cup ({attempt.no} \cap Evaluated)
    /\ UNCHANGED <<runVars, collector, seriesLock, identity, runtime, universe, sessions>>

Collect(c) ==
    \/ Identify(c) \/ BindIdentity(c) \/ TakeGuard(c) \/ Admit(c) \/ Launch(c)
    \/ Accept(c) \/ Seal(c) \/ Refused(c)

Running(p) == RunStep(p) /\ UNCHANGED seriesVars

Environment ==
    \/ Deploy \/ NextDay
    \/ \E p \in Processes : Abort(p)
    \/ Start(Daily, "main", DailyModel) /\ UNCHANGED files

Next ==
    \/ \E p \in Processes : Running(p)
    \/ \E c \in Collectors : Call(c) \/ Collect(c) \/ CollectorDies(c)
    \/ Review
    \/ Environment /\ UNCHANGED seriesVars

Spec == Init /\ [][Next]_allVars
-----------------------------------------------------------------------------
Waiting ==
    [at : {"idle", "lock", "bind", "guard", "admit", "launch", "wait", "seal"},
     day : 0..LastDay, version : Versions \cup {None}, stamp : 0..MaxEvents, no : 0..MaxResults]

(* Every variable has its type; only the holder of a lock is past it.       *)
TypeOK ==
    /\ RunTypeOK
    /\ collector \in [Collectors -> Waiting]
    /\ seriesLock \in Collectors \cup {None}
    /\ identity \in Versions \cup {None} /\ runtime \in Versions \cup {None}
    /\ litter \in BOOLEAN
    /\ attempt \in [day : 0..LastDay, no : 0..MaxResults]
    /\ universe \in Full \cup {None}
    /\ sessions \subseteq [day : 1..LastDay, no : Numbers, version : Versions, frozen : BOOLEAN]
    /\ reviewed \in SUBSET Numbers
    /\ \A c \in Collectors : In(c, "idle") \/ In(c, "lock") \/ seriesLock = c

(* A sealed session is wholly the work of the bound version: what the child *)
(* imported when it started and what its stages imported later, also when   *)
(* the tree was changed and changed back meanwhile.                         *)
SealedIsOneVersion ==
    \A s \in sessions :
        /\ result[s.no].loaded \cup result[s.no].disk = {identity}
        /\ s.version = identity /\ runtime = identity

(* Nothing that two versions of the tree had a hand in is published by an   *)
(* ordinary run or sealed by a collection.                                  *)
OneVersion == OneVersionPublished /\ SealedIsOneVersion

(* Once the universe is frozen every later session has it; before, none is  *)
(* full.                                                                    *)
UniverseIsFrozen ==
    \A s \in sessions :
        IF s.frozen THEN result[s.no].listing = {universe} ELSE result[s.no].listing \cap Full = {}

(* No evaluation for the collection is dropped silently: it is sealed, or   *)
(* waits for review in its attempt, or a person has reviewed and removed it.*)
EvaluationAccounted == Evaluated \subseteq {s.no : s \in sessions} \cup {attempt.no} \cup reviewed

(* No session is evaluated twice for the collection, and the better result  *)
(* kept, unless a person has reviewed the first one: a retry of the same    *)
(* day is a no-op, also when a collection died, its run went on without it, *)
(* or a collector read the clock long before it got the lock.               *)
OncePerDay ==
    \A r, q \in evaluated : r.day = q.day /\ r.no \notin reviewed /\ q.no \notin reviewed => r = q

(* Evaluations are final: none is dropped and none is replaced by a second. *)
EvaluationsAreFinal == EvaluationAccounted /\ OncePerDay
=============================================================================
