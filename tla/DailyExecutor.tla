--------------------------- MODULE DailyExecutor ---------------------------
(***************************************************************************)
(* The bounded pool that computes the stocks of one analysis:              *)
(* DailyThreadExecutor.evaluate and DailyProcessExecutor.evaluate, their   *)
(* workers, the pools of concurrent.futures they run on, and the source    *)
(* tree every worker compares with the version the caller pinned.          *)
(*                                                                         *)
(* The owner, the thread that called evaluate, reads jobs lazily from a    *)
(* generator, encodes one at a time, submits it when workers and bytes are *)
(* free, waits for the first results and collects them in any order.  Any  *)
(* error or interrupt ends the whole calculation: queued packets are       *)
(* cancelled and the pool is shut down.                                    *)
(*                                                                         *)
(* A packet is its position in the list of jobs; of its content only the   *)
(* stock index and the encoded size are kept, and of a result the version  *)
(* of the code that computed it.                                           *)
(***************************************************************************)
EXTENDS Integers, Sequences, FiniteSets, Functions

CONSTANTS
    Workers,            \* the threads or processes of the pool
    MaxPacketBytes,
    MaxInflightBytes,
    JobLists,           \* what the caller's generator may yield: [item, size] each
    NoItem,             \* the item of a job whose preparation raises
    Kinds,              \* "thread": threads; "process": processes that are waited for;
                        \* "terminable": processes of a Python with terminate_workers
    MaxEdits,           \* bound on the changes of the source tree
    MaxFaults,          \* bound on failing kernels and dying workers
    MaxInterrupts       \* bound on the places interrupted

ASSUME CapacityAssumption ==
    /\ Workers # {} /\ IsFiniteSet(Workers)
    /\ MaxPacketBytes \in Nat \ {0} /\ MaxInflightBytes \in Nat
    /\ MaxPacketBytes <= MaxInflightBytes
    /\ NoItem \notin Nat
    /\ JobLists \subseteq Seq([item : Nat \cup {NoItem}, size : Nat \ {0}])
    /\ Kinds \subseteq {"thread", "process", "terminable"}
    /\ MaxEdits \in Nat /\ MaxFaults \in Nat /\ MaxInterrupts \in Nat

VARIABLES
    jobs, kind,         \* the call: never change
    tree, text,         \* the source on disk: its size and times, of which the caller
                        \* pinned 0, and whether its content is the pinned one
    pc,                 \* where the owner is
    read,               \* how many jobs it has read
    exhausted,          \* the generator is
    waiting,            \* the packet encoded and not yet submitted, or 0
    pending,            \* the packets submitted and not yet collected
    inflight,           \* their bytes, as the owner counts them
    batch,              \* those the last wait returned, not yet collected
    results,            \* stock index -> the version that computed it
    future,             \* packet -> state of its future
    worker,             \* the workers of the pool
    broken,             \* the pool is
    closed,             \* the work contexts of the threads are
    failed,             \* an error or an interrupt ends the calculation
    interrupted,        \* in the guarded "loop", in the "shutdown"
    faults

owner == <<pc, read, exhausted, waiting, pending, inflight, batch, results, closed, failed>>
pool == <<future, worker, broken>>
source == <<tree, text>>
vars == <<jobs, kind, source, owner, pool, interrupted, faults>>

Pinned == 0
Versions == 0..MaxEdits
Packets == 1..Len(jobs)
None == -1

Absent == [at |-> "absent", packet |-> 0, pin |-> None, code |-> None]
Unmade == [at |-> "none", code |-> None]

Init ==
    /\ jobs \in JobLists /\ kind \in Kinds
    /\ tree = Pinned /\ text = "pinned"
    /\ pc = "fill" /\ read = 0 /\ exhausted = FALSE /\ waiting = 0
    /\ pending = {} /\ inflight = 0 /\ batch = {} /\ results = <<>>
    /\ future = [p \in Packets |-> Unmade]
    /\ worker = [w \in Workers |-> Absent]
    /\ broken = FALSE /\ closed = FALSE /\ failed = FALSE
    /\ interrupted = {} /\ faults = 0

-----------------------------------------------------------------------------
(* The pool (concurrent.futures).                                           *)

At(w, where) == worker[w].at = where
Alive(w) == worker[w].at \in {"starting", "idle", "busy"}
FutureAt(where) == {p \in Packets : future[p].at = where}
Done == FutureAt("done") \cup FutureAt("failed") \cup FutureAt("cancelled")

(* A future once settled keeps its state.                                   *)
Settle(S, state) ==
    [p \in Packets |-> IF p \in S THEN [future[p] EXCEPT !.at = state] ELSE future[p]]

(* submit starts another worker unless an idle one is left for the packet.  *)
Started ==
    LET absent == {w \in Workers : At(w, "absent")}
        idle == {w \in Workers : At(w, "idle")}
    IN  IF absent # {} /\ Cardinality(idle) <= Cardinality(FutureAt("queued"))
        THEN [worker EXCEPT ![CHOOSE w \in absent : TRUE].at = "starting"]
        ELSE worker

(* A pool of processes breaks as a whole: its workers are gone and whatever *)
(* was not finished fails.  A pool of threads fails what is queued only.    *)
ProcessesBreak ==
    /\ broken' = TRUE
    /\ future' = Settle(FutureAt("queued") \cup FutureAt("running"), "failed")
    /\ worker' = [w \in Workers |-> [worker[w] EXCEPT !.at = "gone"]]

ThreadsBreak(w) ==
    /\ broken' = TRUE
    /\ future' = Settle(FutureAt("queued"), "failed")
    /\ worker' = [worker EXCEPT ![w].at = "gone"]

(* shutdown was called; a pool whose shutdown was interrupted ends when it  *)
(* is collected.                                                            *)
ShutDown == pc \in {"join", "close", "returned", "raised"}

(* After shutdown a worker without work ends.                               *)
Leave(w) ==
    /\ At(w, "idle") /\ ShutDown /\ FutureAt("queued") = {}
    /\ worker' = [worker EXCEPT ![w].at = "gone"]
    /\ UNCHANGED <<jobs, kind, source, owner, future, broken, interrupted, faults>>

Die(w) ==
    /\ kind # "thread" /\ Alive(w) /\ faults < MaxFaults
    /\ ProcessesBreak
    /\ faults' = faults + 1
    /\ UNCHANGED <<jobs, kind, source, owner, interrupted>>

(* terminate_workers has sent its signals and did not wait ...              *)
Terminating ==
    /\ kind = "terminable" /\ failed /\ pc \in {"close", "raised"}
    /\ "shutdown" \notin interrupted

(* ... and a worker obeys, which breaks the pool.                           *)
Terminated(w) ==
    /\ Terminating /\ Alive(w)
    /\ ProcessesBreak
    /\ UNCHANGED <<jobs, kind, source, owner, interrupted, faults>>

-----------------------------------------------------------------------------
(* The workers.                                                             *)

(* The initializer pins the tree as it is found and compares its content    *)
(* with the version of the caller; a failure breaks the pool.               *)
Initialize(w) ==
    /\ At(w, "starting")
    /\ IF text = "pinned"
       THEN /\ worker' = [worker EXCEPT ![w].at = "idle", ![w].pin = tree,
                                        ![w].code = IF kind = "thread" THEN Pinned ELSE None]
            /\ UNCHANGED <<future, broken>>
       ELSE IF kind = "thread" THEN ThreadsBreak(w) ELSE ProcessesBreak
    /\ UNCHANGED <<jobs, kind, source, owner, interrupted, faults>>

(* A worker takes the oldest packet.  A process imports the kernel with its *)
(* first one, a thread has the kernel of the caller.  Activating the work   *)
(* context compares the tree with the worker's pin.                         *)
Take(w) ==
    /\ At(w, "idle")
    /\ \E p \in FutureAt("queued") :
        LET code == IF worker[w].code = None THEN tree ELSE worker[w].code
        IN  /\ \A q \in FutureAt("queued") : p <= q
            /\ IF tree = worker[w].pin
               THEN /\ worker' = [worker EXCEPT ![w].at = "busy", ![w].packet = p, ![w].code = code]
                    /\ future' = Settle({p}, "running")
               ELSE /\ worker' = [worker EXCEPT ![w].code = code]
                    /\ future' = Settle({p}, "failed")
    /\ UNCHANGED <<jobs, kind, source, owner, broken, interrupted, faults>>

(* The kernel is done; leaving the work context compares the tree again.    *)
Compute(w) ==
    /\ At(w, "busy")
    /\ LET p == worker[w].packet
       IN  future' = IF tree = worker[w].pin
                     THEN [future EXCEPT ![p] = [at |-> "done", code |-> worker[w].code]]
                     ELSE Settle({p}, "failed")
    /\ worker' = [worker EXCEPT ![w].at = "idle", ![w].packet = 0]
    /\ UNCHANGED <<jobs, kind, source, owner, broken, interrupted, faults>>

(* The kernel raises, by itself or because the context of its thread was    *)
(* closed.                                                                  *)
KernelFails(w) ==
    /\ At(w, "busy")
    /\ \/ faults < MaxFaults /\ faults' = faults + 1
       \/ kind = "thread" /\ closed /\ UNCHANGED faults
    /\ future' = Settle({worker[w].packet}, "failed")
    /\ worker' = [worker EXCEPT ![w].at = "idle", ![w].packet = 0]
    /\ UNCHANGED <<jobs, kind, source, owner, broken, interrupted>>

WorkerStep(w) == Initialize(w) \/ Take(w) \/ Compute(w) \/ Leave(w) \/ Terminated(w)

-----------------------------------------------------------------------------
(* The owner.                                                               *)

FreeWorker == Cardinality(pending) < Cardinality(Workers) /\ ~exhausted

(* Mutant: a packet is read ahead as soon as any byte is free.              *)
RoomToReadAny == inflight < MaxInflightBytes

(* Nothing is read ahead unless the largest packet would fit.               *)
RoomToRead == pending = {} \/ inflight + MaxPacketBytes <= MaxInflightBytes

RoomFor(p) == inflight + jobs[p].size <= MaxInflightBytes

Fail == pc' = "cancel" /\ failed' = TRUE

(* Index and size of a job are checked before anything is submitted.        *)
Acceptable(p) ==
    /\ jobs[p].item # NoItem
    /\ \A q \in 1..(p - 1) : jobs[q].item # jobs[p].item
    /\ jobs[p].size <= MaxPacketBytes

Read ==
    /\ pc = "fill" /\ FreeWorker /\ waiting = 0 /\ RoomToRead
    /\ IF read = Len(jobs)
       THEN /\ exhausted' = TRUE /\ pc' = "wait"
            /\ UNCHANGED <<read, waiting, failed>>
       ELSE /\ read' = read + 1
            /\ IF Acceptable(read + 1)
               THEN waiting' = read + 1 /\ UNCHANGED <<pc, failed>>
               ELSE Fail /\ UNCHANGED waiting
            /\ UNCHANGED exhausted
    /\ UNCHANGED <<jobs, kind, source, pending, inflight, batch, results, closed, pool,
                   interrupted, faults>>

Submit ==
    /\ pc = "fill" /\ FreeWorker /\ waiting # 0 /\ RoomFor(waiting)
    /\ IF broken
       THEN Fail /\ UNCHANGED pool
       ELSE /\ pc' = "book"
            /\ future' = Settle({waiting}, "queued")
            /\ worker' = Started
            /\ UNCHANGED <<broken, failed>>
    /\ UNCHANGED <<jobs, kind, source, read, exhausted, waiting, pending, inflight, batch,
                   results, closed, interrupted, faults>>

Book ==
    /\ pc = "book"
    /\ pending' = pending \cup {waiting}
    /\ inflight' = inflight + jobs[waiting].size
    /\ waiting' = 0
    /\ pc' = "fill"
    /\ UNCHANGED <<jobs, kind, source, read, exhausted, batch, results, closed, failed, pool,
                   interrupted, faults>>

(* The filling loop is left when no worker is free or there is no room.      *)
StopFilling ==
    /\ pc = "fill"
    /\ ~(FreeWorker /\ IF waiting = 0 THEN RoomToRead ELSE RoomFor(waiting))
    /\ pc' = "wait"
    /\ UNCHANGED <<jobs, kind, source, read, exhausted, waiting, pending, inflight, batch,
                   results, closed, failed, pool, interrupted, faults>>

(* wait(pending, FIRST_COMPLETED): whatever has finished by then.           *)
Wait ==
    /\ pc = "wait" /\ pending \cap Done # {}
    /\ batch' = pending \cap Done
    /\ pc' = "collect"
    /\ UNCHANGED <<jobs, kind, source, read, exhausted, waiting, pending, inflight, results,
                   closed, failed, pool, interrupted, faults>>

(* Mutant: the end of the generator is forgotten.                           *)
AfterRoundAgain == "fill"

AfterRound == IF exhausted THEN "check" ELSE "fill"

(* Nothing to wait for: a packet that does not fit even now is an error,    *)
(* otherwise the next round begins, or all jobs are done.                   *)
NothingPending ==
    /\ pc = "wait" /\ pending = {}
    /\ IF waiting # 0
       THEN Fail
       ELSE pc' = AfterRound /\ UNCHANGED failed
    /\ UNCHANGED <<jobs, kind, source, read, exhausted, waiting, pending, inflight, batch,
                   results, closed, pool, interrupted, faults>>

(* Mutant: the room reserved for a packet is freed instead of its bytes.    *)
FreedReserve(p) == MaxPacketBytes

(* Mutant: the bytes of a collected packet stay in the count.               *)
FreedNever(p) == 0

Freed(p) == jobs[p].size

(* The finished packets are collected in whatever order the set has.  When  *)
(* one has failed the others of the batch are not looked at.                *)
Collect(p) ==
    /\ pc = "collect" /\ p \in batch
    /\ pending' = pending \ {p} /\ batch' = batch \ {p}
    /\ IF future[p].at # "done" \/ jobs[p].item \in DOMAIN results
       THEN Fail /\ UNCHANGED <<results, inflight>>
       ELSE /\ results' = [i \in DOMAIN results \cup {jobs[p].item} |->
                              IF i = jobs[p].item THEN future[p].code ELSE results[i]]
            /\ inflight' = inflight - Freed(p)
            /\ pc' = IF batch = {p} THEN "fill" ELSE "collect"
            /\ UNCHANGED failed
    /\ UNCHANGED <<jobs, kind, source, read, exhausted, waiting, closed, pool, interrupted, faults>>

(* All stocks of 0..n-1 are there and the tree is still the pinned one.     *)
Check ==
    /\ pc = "check"
    /\ IF DOMAIN results = 0..(Cardinality(DOMAIN results) - 1) /\ tree = Pinned
       THEN pc' = "join" /\ UNCHANGED failed
       ELSE Fail
    /\ UNCHANGED <<jobs, kind, source, read, exhausted, waiting, pending, inflight, batch,
                   results, closed, pool, interrupted, faults>>

MayInterrupt(place) ==
    Cardinality(interrupted) < MaxInterrupts /\ interrupted' = interrupted \cup {place}

(* KeyboardInterrupt, at any point of the guarded loop.                     *)
Interrupt ==
    /\ pc \in {"fill", "book", "wait", "collect", "check"}
    /\ MayInterrupt("loop")
    /\ Fail
    /\ UNCHANGED <<jobs, kind, source, read, exhausted, waiting, pending, inflight, batch,
                   results, closed, pool, faults>>

(* A packet that a process pool has handed to the call queue of its workers *)
(* is not cancelled any more, although no worker has taken it yet.          *)
Cancelled(S) ==
    \E C \in SUBSET S :
        /\ kind = "thread" => C = S
        /\ future' = Settle(C, "cancelled")

(* future.cancel of every pending packet.                                   *)
Cancel ==
    /\ pc = "cancel"
    /\ Cancelled(pending \cap FutureAt("queued"))
    /\ pc' = "stop"
    /\ UNCHANGED <<jobs, kind, source, read, exhausted, waiting, pending, inflight, batch,
                   results, closed, failed, worker, broken, interrupted, faults>>

(* terminate_workers, which returns at once, or shutdown(wait=True): both   *)
(* cancel what is queued.                                                   *)
Stop ==
    /\ pc = "stop"
    /\ Cancelled(FutureAt("queued"))
    /\ pc' = IF kind = "terminable" THEN "close" ELSE "join"
    /\ UNCHANGED <<jobs, kind, source, read, exhausted, waiting, pending, inflight, batch,
                   results, closed, failed, worker, broken, interrupted, faults>>

(* Mutant: shutdown does not wait.                                          *)
PoolEndedAtOnce == TRUE

PoolEnded == \A w \in Workers : ~Alive(w)

Join ==
    /\ pc = "join" /\ PoolEnded
    /\ pc' = "close"
    /\ UNCHANGED <<jobs, kind, source, read, exhausted, waiting, pending, inflight, batch,
                   results, closed, failed, pool, interrupted, faults>>

(* finally: the work contexts of the threads are closed.                    *)
Close ==
    /\ pc = "close"
    /\ closed' = TRUE
    /\ pc' = IF failed THEN "raised" ELSE "returned"
    /\ UNCHANGED <<jobs, kind, source, read, exhausted, waiting, pending, inflight, batch,
                   results, failed, pool, interrupted, faults>>

(* KeyboardInterrupt while the pool is stopped: some packets are cancelled, *)
(* nobody is waited for any more, and finally closes the contexts; or it    *)
(* cuts that loop short.                                                    *)
InterruptShutdown ==
    /\ pc \in {"cancel", "stop", "join"} \/ (pc = "close" /\ kind = "thread")
    /\ MayInterrupt("shutdown")
    /\ \E C \in SUBSET {p \in FutureAt("queued") : pc = "stop" \/ (pc = "cancel" /\ p \in pending)} :
          future' = Settle(C, "cancelled")
    /\ failed' = TRUE
    /\ pc' = IF pc = "close" THEN "raised" ELSE "close"
    /\ UNCHANGED <<jobs, kind, source, read, exhausted, waiting, pending, inflight, batch,
                   results, closed, worker, broken, faults>>

OwnerStep ==
    \/ Read \/ Submit \/ Book \/ StopFilling \/ Wait \/ NothingPending
    \/ \E p \in Packets : Collect(p)
    \/ Check \/ Cancel \/ Stop \/ Join \/ Close

(* Somebody edits, updates or restores the source, which then has other     *)
(* times, if not another content.                                           *)
Edit ==
    /\ tree < MaxEdits
    /\ tree' = tree + 1
    /\ text' \in {"pinned", "other"}
    /\ UNCHANGED <<jobs, kind, owner, pool, interrupted, faults>>

Next ==
    \/ OwnerStep \/ Interrupt \/ InterruptShutdown \/ Edit
    \/ \E w \in Workers : WorkerStep(w) \/ KernelFails(w) \/ Die(w)

(* The owner and the workers are scheduled, and the kernel of one stock     *)
(* ends: nothing in evaluate limits its time.                               *)
Spec ==
    /\ Init /\ [][Next]_vars
    /\ WF_vars(OwnerStep)
    /\ \A w \in Workers : WF_vars(WorkerStep(w))

-----------------------------------------------------------------------------
(* Properties.                                                              *)

(* Type invariant.                                                          *)
TypeOK ==
    /\ jobs \in JobLists /\ kind \in Kinds
    /\ tree \in Versions /\ text \in {"pinned", "other"}
    /\ pc \in {"fill", "book", "wait", "collect", "check", "cancel", "stop", "join", "close",
               "returned", "raised"}
    /\ read \in 0..Len(jobs) /\ waiting \in 0..Len(jobs)
    /\ exhausted \in BOOLEAN /\ broken \in BOOLEAN /\ closed \in BOOLEAN
    /\ failed \in BOOLEAN /\ interrupted \subseteq {"loop", "shutdown"}
    /\ pending \subseteq Packets /\ batch \subseteq pending
    /\ inflight \in Nat
    /\ DOMAIN results \subseteq Nat /\ \A i \in DOMAIN results : results[i] \in Versions
    /\ future \in [Packets -> [at : {"none", "queued", "running", "done", "failed", "cancelled"},
                               code : Versions \cup {None}]]
    /\ worker \in [Workers -> [at : {"absent", "starting", "idle", "busy", "gone"},
                               packet : 0..Len(jobs), pin : Versions \cup {None},
                               code : Versions \cup {None}]]
    /\ faults \in 0..MaxFaults

Ended == pc \in {"returned", "raised"}
Encoded == pending \cup ({waiting} \ {0})
Bytes(S) == SumFunctionOnSet([p \in Packets |-> jobs[p].size], S)

(* Types; and the packets encoded and not collected, the one read ahead too,*)
(* stay within the bytes and the workers allowed, whatever was computed and *)
(* collected in which order, and the owner's count of the bytes is theirs.  *)
WithinCapacity ==
    /\ TypeOK
    /\ Cardinality(Encoded) <= Cardinality(Workers)
    /\ Bytes(Encoded) <= MaxInflightBytes
    /\ ~failed => inflight = Bytes(pending)

WellFormed ==
    /\ \A p \in Packets : Acceptable(p)
    /\ {jobs[p].item : p \in Packets} = 0..(Len(jobs) - 1)

(* An answer has every stock of the analysis, each computed by the pinned   *)
(* version.                                                                 *)
AnswerIsWhole ==
    pc = "returned" => /\ DOMAIN results = 0..(Len(jobs) - 1)
                       /\ \A i \in DOMAIN results : results[i] = Pinned

(* It is refused for a reason only: a bad job, a failing kernel or worker,  *)
(* an edit or an interrupt; never because of an order of events or because  *)
(* the packets read do not fit.                                             *)
RefusalIsEarned ==
    pc = "raised" => ~WellFormed \/ tree # Pinned \/ faults > 0 \/ interrupted # {}

OutcomeIsEarned == AnswerIsWhole /\ RefusalIsEarned

(* Nothing of the calculation runs or waits to run.                         *)
Quiet == PoolEnded /\ FutureAt("queued") \cup FutureAt("running") = {}

(* When evaluate ends the contexts of the threads are closed, no packet is  *)
(* queued or running and no worker is left that could use a context, also   *)
(* after an error or an interrupt; unless processes were sent a signal      *)
(* nobody waits for, or the shutdown itself was interrupted.                *)
QuietAtEnd ==
    /\ pc = "returned" => closed /\ Quiet
    /\ pc = "raised" => (closed /\ Quiet) \/ Terminating \/ "shutdown" \in interrupted

(* evaluate comes to an end, never waiting for packets nobody computes, and *)
(* so does, even after an interrupted shutdown, all that it started.        *)
AlwaysEnds == <>[](Ended /\ Quiet)
=============================================================================
