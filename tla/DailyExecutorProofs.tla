------------------------ MODULE DailyExecutorProofs ------------------------
(***************************************************************************)
(* The pool keeps its bounds, ends quietly and refuses for a reason only,  *)
(* for every list of jobs, any number of workers, every capacity and any   *)
(* number of edits and faults.  Its count of bytes is a sum over the       *)
(* packets in hand.                                                        *)
(***************************************************************************)
EXTENDS DailyExecutor, FiniteSetTheorems, FunctionTheorems, SumTheorems, TLAPS

USE DEF source

---------------------------------------------------------------------------
(* The invariant                                                           *)

\* The stock index and the encoded size of a packet.
Item(p) == jobs[p].item
Size(p) == jobs[p].size

LEMMA Limits ==
  /\ Workers # {} /\ IsFiniteSet(Workers) /\ Cardinality(Workers) \in Nat
  /\ Cardinality(Workers) > 0
  /\ MaxPacketBytes \in Nat /\ MaxInflightBytes \in Nat /\ MaxPacketBytes <= MaxInflightBytes
  /\ MaxEdits \in Nat /\ MaxFaults \in Nat /\ NoItem \notin Nat
  /\ 0 \in Versions /\ Versions \subseteq Nat
<1>1. Cardinality(Workers) \in Nat /\ Cardinality(Workers) # 0
  BY CapacityAssumption, FS_CardinalityType, FS_EmptySet
<1> QED
  BY <1>1, CapacityAssumption DEF CapacityAssumption, Versions

\* Where the owner is, and whether it has failed.
Guarded == {"fill", "book", "wait", "collect", "check"}
PlaceInv ==
  /\ pc \in Guarded \cup {"cancel", "stop", "join", "close", "returned", "raised"}
  /\ pc \in Guarded \cup {"returned"} => ~failed
  /\ pc \in {"cancel", "stop", "raised"} => failed
  /\ closed => pc \in {"returned", "raised"}
  /\ pc \in {"returned", "raised"} => closed \/ "shutdown" \in interrupted
  /\ interrupted # {} => failed
  /\ failed \in BOOLEAN /\ closed \in BOOLEAN /\ exhausted \in BOOLEAN
  /\ broken \in BOOLEAN /\ interrupted \subseteq {"loop", "shutdown"}

\* The source; another content is another version.
SourceInv ==
  /\ tree \in Versions /\ text \in {"pinned", "other"}
  /\ text # "pinned" => tree # Pinned

\* A version the source has had.
Past(v) == v \in Nat /\ v <= tree

\* What the owner has read and what it has in hand.
QueueInv ==
  /\ jobs \in JobLists /\ kind \in Kinds /\ SourceInv /\ faults \in 0..MaxFaults
  /\ read \in 0..Len(jobs) /\ waiting \in 0..read
  /\ pending \subseteq 1..read /\ waiting \notin pending
  /\ batch \subseteq pending
  /\ exhausted => read = Len(jobs) /\ waiting = 0
  /\ pc \in {"wait", "collect", "check"} => waiting = 0
  /\ pc = "book" => waiting # 0
  /\ pc = "check" => pending = {} /\ exhausted
  /\ ~failed => \A p \in 1..read : Acceptable(p)

\* The bytes and workers of what it has in hand; nothing read is ever too large
\* for the room left.
CountInv ==
  /\ Cardinality(pending) <= Cardinality(Workers)
  /\ Bytes(pending) <= MaxInflightBytes
  /\ waiting # 0 => /\ Cardinality(pending) < Cardinality(Workers)
                    /\ Bytes(pending) + Size(waiting) <= MaxInflightBytes
  /\ inflight \in Nat
  /\ ~failed => inflight = Bytes(pending)

\* The results are those of the packets read and collected; in an answer all
\* are of the pinned version.
ResultInv ==
  /\ DOMAIN results \subseteq Nat
  /\ \A i \in DOMAIN results : Past(results[i])
  /\ ~failed => DOMAIN results = {Item(p) : p \in 1..read \ (pending \cup {waiting})}
  /\ pc \in {"join", "close", "returned"} /\ ~failed =>
        /\ DOMAIN results = 0..(Len(jobs) - 1)
        /\ \A i \in DOMAIN results : results[i] = Pinned

\* A packet is queued only while a worker lives, runs on a busy one, and is
\* computed by a version there has been.  Workers survive the owner only when
\* they were sent a signal or their shutdown was interrupted.
FutureType ==
  future \in [Packets -> [at : {"none", "queued", "running", "done", "failed", "cancelled"},
                          code : Versions \cup {None}]]
WorkerType ==
  worker \in [Workers -> [at : {"absent", "starting", "idle", "busy", "gone"},
                          packet : 0..Len(jobs), pin : Versions \cup {None},
                          code : Versions \cup {None}]]
WorkerOK(w) ==
  /\ worker[w].at \in {"idle", "busy"} => Past(worker[w].pin)
  /\ At(w, "idle") => worker[w].code = None \/ Past(worker[w].code)
  /\ At(w, "busy") => Past(worker[w].code) /\ worker[w].packet \in Packets
  /\ At(w, "gone") => broken \/ ShutDown
Left == pc \in {"close", "returned", "raised"}
Abandoned == Terminating \/ "shutdown" \in interrupted
PoolInv ==
  /\ FutureType /\ WorkerType
  /\ \A w \in Workers : WorkerOK(w)
  /\ \A p \in Packets : future[p].at = "done" => Past(future[p].code)
  /\ FutureAt("queued") # {} => \E w \in Workers : Alive(w)
  /\ \A p \in FutureAt("running") :
        \E w \in Workers : At(w, "busy") /\ worker[w].packet = p
  /\ Left => PoolEnded \/ Abandoned

\* What excuses a refusal; it stays true.
Excuse == ~WellFormed \/ tree # Pinned \/ faults > 0 \/ interrupted # {}
ExcuseInv ==
  /\ failed \/ broken => Excuse
  /\ FutureAt("failed") \cup FutureAt("cancelled") # {} => Excuse
  /\ batch \subseteq Done

IInv == PlaceInv /\ QueueInv /\ CountInv /\ ResultInv /\ PoolInv /\ ExcuseInv

LEMMA JobFacts ==
  ASSUME jobs \in JobLists
  PROVE  /\ Len(jobs) \in Nat /\ Packets = 1..Len(jobs) /\ IsFiniteSet(Packets)
         /\ \A p \in Packets : Item(p) \in Nat \cup {NoItem} /\ Size(p) \in Nat /\ Size(p) > 0
<1> DEFINE Job == [item : Nat \cup {NoItem}, size : Nat \ {0}]
<1>1. jobs \in Seq(Job)
  BY CapacityAssumption DEF CapacityAssumption
<1>2. Len(jobs) \in Nat
  BY <1>1
<1>3. \A p \in 1..Len(jobs) : jobs[p] \in Job
  <2> HIDE DEF Job
  <2> QED
    BY <1>1
<1>4. \A p \in 1..Len(jobs) :
         jobs[p].item \in Nat \cup {NoItem} /\ jobs[p].size \in Nat \ {0}
  BY <1>3
<1>5. IsFiniteSet(1..Len(jobs))
  BY <1>2, FS_Interval
<1> QED
  BY <1>2, <1>4, <1>5 DEF Packets, Item, Size

\* The bytes of a set of packets.
LEMMA BytesFacts ==
  ASSUME jobs \in JobLists, NEW S \in SUBSET Packets
  PROVE  /\ IsFiniteSet(S) /\ Cardinality(S) \in Nat
         /\ Bytes(S) \in Nat /\ Bytes({}) = 0
         /\ \A p \in Packets \ S : Bytes(S \cup {p}) = Bytes(S) + Size(p)
         /\ \A p \in S : Bytes(S \ {p}) = Bytes(S) - Size(p)
<1> DEFINE f == [p \in Packets |-> jobs[p].size]
<1>1. IsFiniteSet(S) /\ Cardinality(S) \in Nat
  BY JobFacts, FS_Subset, FS_CardinalityType
<1>2. \A p \in Packets : f[p] = Size(p) /\ f[p] \in Nat /\ f[p] \in Int
  <2>1. \A p \in Packets : f[p] = Size(p)
    BY DEF Size
  <2> HIDE DEF f
  <2> QED
    BY <2>1, JobFacts
<1>3. \A R : Bytes(R) = SumFunctionOnSet(f, R)
  BY DEF Bytes
<1> HIDE DEF f
<1>4. SumFunctionOnSet(f, S) \in Nat /\ SumFunctionOnSet(f, {}) = 0
  <2>1. \A p \in S : f[p] \in Nat
    BY <1>2
  <2> QED
    BY <1>1, <2>1, SumIsNat, SumOfNothing
<1>5. ASSUME NEW p \in Packets \ S PROVE Bytes(S \cup {p}) = Bytes(S) + Size(p)
  <2>1. f[p] \in Int /\ p \notin S /\ \A q \in S : f[q] \in Int
    BY <1>2
  <2>2. SumFunctionOnSet(f, S \cup {p}) = SumFunctionOnSet(f, S) + f[p]
    BY <1>1, <2>1, SumWith
  <2> QED
    BY <1>2, <1>3, <2>2
<1>6. ASSUME NEW p \in S PROVE Bytes(S \ {p}) = Bytes(S) - Size(p)
  <2>1. \A q \in S : f[q] \in Int
    BY <1>2
  <2>2. SumFunctionOnSet(f, S \ {p}) = SumFunctionOnSet(f, S) - f[p]
    BY <1>1, <2>1, SumWithout
  <2> QED
    BY <1>2, <1>3, <2>2
<1> QED
  BY <1>1, <1>3, <1>4, <1>5, <1>6

LEMMA PendingFacts ==
  ASSUME QueueInv
  PROVE  /\ pending \in SUBSET Packets /\ Len(jobs) \in Nat /\ 1..read \subseteq Packets
         /\ waiting # 0 => waiting \in Packets \ pending
         /\ read \in Nat /\ waiting \in Nat
BY JobFacts DEF QueueInv

---------------------------------------------------------------------------
(* What the invariant implies                                              *)

LEMMA CapacityImplied ==
  ASSUME IInv
  PROVE  WithinCapacity
<1> USE DEF IInv
<1>1. TypeOK
  <2>1. /\ pending \subseteq Packets /\ Len(jobs) \in Nat
        /\ read \in 0..Len(jobs) /\ waiting \in 0..Len(jobs)
    BY PendingFacts DEF QueueInv
  <2>2. DOMAIN results \subseteq Nat /\ \A i \in DOMAIN results : results[i] \in Versions
    BY Limits DEF ResultInv, Past, QueueInv, SourceInv, Versions
  <2> QED
    BY <2>1, <2>2 DEF TypeOK, PlaceInv, QueueInv, SourceInv, CountInv, PoolInv, FutureType,
                      WorkerType, Guarded
<1>2. CASE waiting = 0
  <2>1. Encoded = pending
    BY <1>2, PendingFacts, JobFacts DEF Encoded, QueueInv
  <2> QED
    BY <1>1, <2>1 DEF WithinCapacity, CountInv
<1>3. CASE waiting # 0
  <2>1. Encoded = pending \cup {waiting}
    BY <1>3 DEF Encoded
  <2>2. waiting \in Packets \ pending /\ pending \in SUBSET Packets /\ jobs \in JobLists
    BY <1>3, PendingFacts DEF QueueInv
  <2>3. Bytes(Encoded) = Bytes(pending) + Size(waiting) /\ IsFiniteSet(pending)
        /\ Cardinality(pending) \in Nat
    BY <2>1, <2>2, BytesFacts
  <2>4. Cardinality(Encoded) = Cardinality(pending) + 1
    BY <2>1, <2>2, <2>3, FS_AddElement
  <2>5. Cardinality(Encoded) <= Cardinality(Workers)
    BY <1>3, <2>3, <2>4, Limits DEF CountInv
  <2>6. Bytes(Encoded) <= MaxInflightBytes
    BY <1>3, <2>3 DEF CountInv
  <2> QED
    BY <1>1, <2>5, <2>6 DEF WithinCapacity, CountInv
<1> QED
  BY <1>2, <1>3

LEMMA OutcomeImplied ==
  ASSUME IInv
  PROVE  OutcomeIsEarned
BY DEF IInv, OutcomeIsEarned, AnswerIsWhole, RefusalIsEarned, PlaceInv, ResultInv, ExcuseInv,
       Excuse

LEMMA QuietImplied ==
  ASSUME IInv
  PROVE  QuietAtEnd
<1> USE DEF IInv
<1>1. PoolEnded => Quiet
  <2>1. ASSUME PoolEnded PROVE FutureAt("queued") = {} /\ FutureAt("running") = {}
    BY <2>1 DEF PoolInv, PoolEnded, Alive, At
  <2> QED
    BY <2>1 DEF Quiet
<1>2. CASE pc = "returned"
  <2>1. ~failed /\ interrupted = {} /\ closed
    BY <1>2 DEF PlaceInv
  <2>2. PoolEnded
    BY <1>2, <2>1 DEF PoolInv, Left, Abandoned, Terminating
  <2> QED
    BY <1>1, <1>2, <2>1, <2>2 DEF QuietAtEnd
<1>3. CASE pc = "raised"
  BY <1>1, <1>3 DEF QuietAtEnd, PlaceInv, PoolInv, Left, Abandoned
<1>4. CASE pc \notin {"returned", "raised"}
  BY <1>4 DEF QuietAtEnd
<1> QED
  BY <1>2, <1>3, <1>4

---------------------------------------------------------------------------
(* It holds at first                                                       *)

LEMMA InitIInv ==
  Init => IInv
<1> SUFFICES ASSUME Init PROVE IInv
  OBVIOUS
<1> USE DEF Init
<1>1. PlaceInv
  BY DEF PlaceInv, Guarded
<1>2. QueueInv
  BY JobFacts, Limits DEF QueueInv, SourceInv, Pinned
<1>3. CountInv
  <2>1. Bytes({}) = 0
    BY BytesFacts
  <2> QED
    BY <2>1, Limits, FS_EmptySet DEF CountInv
<1>4. ResultInv
  BY DEF ResultInv
<1>5. PoolInv
  <2>1. FutureType
    BY DEF FutureType, Unmade
  <2>2. WorkerType
    BY JobFacts DEF WorkerType, Absent
  <2> QED
    BY <2>1, <2>2 DEF PoolInv, WorkerOK, FutureAt, At, Absent, Unmade, Left
<1>6. ExcuseInv
  BY DEF ExcuseInv, FutureAt, Unmade
<1> QED
  BY <1>1, <1>2, <1>3, <1>4, <1>5, <1>6 DEF IInv

---------------------------------------------------------------------------
(* What a step leaves alone                                                *)

LEMMA QueueFrame ==
  ASSUME QueueInv, UNCHANGED <<jobs, kind, read, waiting, pending, batch, exhausted>>,
         SourceInv', faults' \in 0..MaxFaults, failed => failed',
         pc' = pc \/ pc' \notin {"book", "wait", "collect", "check"}
  PROVE  QueueInv'
BY DEF QueueInv, Acceptable

LEMMA CountFrame ==
  ASSUME CountInv, UNCHANGED <<jobs, waiting, pending, inflight>>, failed => failed'
  PROVE  CountInv'
BY DEF CountInv, Bytes, Packets, Size

LEMMA ResultFrame ==
  ASSUME ResultInv, QueueInv, UNCHANGED <<jobs, read, waiting, pending, results>>,
         failed => failed', tree' = tree \/ tree' = tree + 1,
         failed' \/ pc' \notin {"join", "close", "returned"} \/ pc \in {"join", "close"}
         \/ UNCHANGED <<pc, failed>>
  PROVE  ResultInv'
BY Limits DEF ResultInv, Item, QueueInv, SourceInv, Past

LEMMA PoolFrame ==
  ASSUME PoolInv, UNCHANGED <<jobs, tree, future, worker, broken>>, ShutDown => ShutDown',
         Left' => PoolEnded \/ Abandoned'
  PROVE  PoolInv'
<1>1. FutureType' /\ WorkerType'
  BY DEF PoolInv, FutureType, WorkerType, Packets
<1>2. /\ FutureAt("queued")' = FutureAt("queued") /\ FutureAt("running")' = FutureAt("running")
      /\ Packets' = Packets
      /\ \A w \in Workers : (At(w, "busy")' <=> At(w, "busy")) /\ (Alive(w)' <=> Alive(w))
      /\ PoolEnded' <=> PoolEnded
  BY DEF FutureAt, Packets, At, Alive, PoolEnded
<1>3. \A w \in Workers : WorkerOK(w)'
  BY DEF PoolInv, WorkerOK, At, Packets, Past
<1> QED
  BY <1>1, <1>2, <1>3 DEF PoolInv, Past

LEMMA ExcuseFrame ==
  ASSUME ExcuseInv, UNCHANGED <<jobs, tree, faults, future, broken>>,
         batch' \subseteq batch, interrupted # {} => interrupted' # {},
         failed' => failed \/ Excuse'
  PROVE  ExcuseInv'
<1>1. Excuse => Excuse'
  BY DEF Excuse, WellFormed, Acceptable, Packets
<1>2. Done' = Done /\ FutureAt("failed")' = FutureAt("failed")
      /\ FutureAt("cancelled")' = FutureAt("cancelled")
  BY DEF Done, FutureAt, Packets
<1> QED
  BY <1>1, <1>2 DEF ExcuseInv

\* Steps of the owner that change neither its work nor the pool.
OwnerMoves == UNCHANGED <<jobs, kind, source, read, exhausted, waiting, pending, inflight,
                          results, pool, faults>>

LEMMA Moved ==
  ASSUME IInv, OwnerMoves, batch' = batch, failed => failed',
         interrupted # {} => interrupted' # {}, failed' => failed \/ Excuse',
         PlaceInv', ShutDown => ShutDown',
         pc' = pc \/ pc' \notin {"book", "wait", "collect", "check"},
         failed' \/ pc' \notin {"join", "close", "returned"} \/ pc \in {"join", "close"},
         Left' => PoolEnded \/ Abandoned'
  PROVE  IInv'
<1> USE DEF IInv, OwnerMoves, pool
<1>1. QueueInv'
  <2>1. SourceInv' /\ faults' \in 0..MaxFaults
    BY DEF QueueInv, SourceInv
  <2> QED
    BY <2>1, QueueFrame
<1>2. CountInv'
  BY CountFrame
<1>3. ResultInv'
  BY ResultFrame
<1>4. PoolInv'
  BY PoolFrame
<1>5. ExcuseInv'
  BY ExcuseFrame
<1> QED
  BY <1>1, <1>2, <1>3, <1>4, <1>5

---------------------------------------------------------------------------
(* The owner                                                               *)

LEMMA InterruptKeeps ==
  ASSUME IInv, Interrupt PROVE IInv'
<1> USE DEF Interrupt, Fail, MayInterrupt
<1>1. PlaceInv'
  BY DEF IInv, PlaceInv, Guarded, pool
<1>2. OwnerMoves /\ batch' = batch /\ interrupted' # {} /\ Excuse' /\ ~ShutDown
  BY DEF OwnerMoves, Excuse, ShutDown
<1> QED
  BY <1>1, <1>2, Moved DEF Left

\* n different values are n values.
LEMMA AllDifferent ==
  ASSUME NEW n \in Nat, NEW f, \A a, b \in 1..n : f[a] = f[b] => a = b
  PROVE  Cardinality({f[p] : p \in 1..n}) = n
<1> DEFINE T == {f[p] : p \in 1..n}
           F == [p \in 1..n |-> f[p]]
<1>1. F \in [1..n -> T] /\ (\A t \in T : \E p \in 1..n : F[p] = t)
      /\ \A a, b \in 1..n : F[a] = F[b] => a = b
  OBVIOUS
<1> HIDE DEF T, F
<1>2. F \in Bijection(1..n, T)
  BY <1>1, Fun_IsBij
<1>3. ExistsBijection(1..n, T)
  BY <1>2, Fun_ExistsBij
<1>4. Cardinality(T) = n
  BY <1>3, FS_CountingElements
<1> QED
  BY <1>4 DEF T

\* At the end every job was read, and there is one result for each.
LEMMA AllCollected ==
  ASSUME IInv, pc = "check"
  PROVE  /\ DOMAIN results = {jobs[p].item : p \in Packets}
         /\ Cardinality(DOMAIN results) = Len(jobs)
<1>1. jobs \in JobLists /\ read = Len(jobs) /\ pending = {} /\ waiting = 0 /\ ~failed
  BY DEF IInv, QueueInv, PlaceInv, Guarded
<1>2. Len(jobs) \in Nat /\ Packets = 1..Len(jobs)
  BY <1>1, JobFacts
<1>3. DOMAIN results = {jobs[p].item : p \in Packets}
  BY <1>1, <1>2 DEF IInv, ResultInv, Item
<1>4. \A p \in Packets : Acceptable(p)
  BY <1>1, <1>2 DEF IInv, QueueInv
<1>5. \A a, b \in 1..Len(jobs) : jobs[a].item = jobs[b].item => a = b
  <2>1. ASSUME NEW a \in 1..Len(jobs), NEW b \in 1..Len(jobs), a < b
        PROVE  jobs[a].item # jobs[b].item
    <3>1. a \in 1..(b - 1) /\ Acceptable(b)
      BY <1>2, <1>4, <2>1
    <3> QED
      BY <3>1 DEF Acceptable
  <2> QED
    BY <1>2, <2>1
<1>6. Cardinality({jobs[p].item : p \in Packets}) = Len(jobs)
  <2> DEFINE f == [p \in Packets |-> jobs[p].item]
  <2>1. \A a, b \in 1..Len(jobs) : f[a] = f[b] => a = b
    BY <1>2, <1>5
  <2>2. {f[p] : p \in 1..Len(jobs)} = {jobs[p].item : p \in Packets}
    BY <1>2
  <2> HIDE DEF f
  <2>3. Cardinality({f[p] : p \in 1..Len(jobs)}) = Len(jobs)
    <3>1. PICK n \in Nat : n = Len(jobs)
      BY <1>2
    <3>2. PICK g : g = f
      OBVIOUS
    <3>3. \A a, b \in 1..n : g[a] = g[b] => a = b
      BY <2>1, <3>1, <3>2
    <3>4. Cardinality({g[p] : p \in 1..n}) = n
      BY <3>3, AllDifferent
    <3> QED
      BY <3>1, <3>2, <3>4
  <2> QED
    BY <2>2, <2>3
<1> QED
  BY <1>3, <1>6

LEMMA CheckKeeps ==
  ASSUME IInv, Check PROVE IInv'
<1> USE DEF Check, Fail
<1>1. PlaceInv'
  BY DEF IInv, PlaceInv, Guarded, pool
<1>2. OwnerMoves /\ batch' = batch /\ interrupted' = interrupted /\ ~ShutDown
      /\ (failed => failed')
  BY DEF OwnerMoves, ShutDown
<1>3. CASE failed'
  <2>1. ~(DOMAIN results = 0..(Cardinality(DOMAIN results) - 1) /\ tree = Pinned)
    BY <1>3 DEF IInv, PlaceInv, Guarded
  <2>2. Excuse
    BY <2>1, AllCollected DEF Excuse, WellFormed
  <2>3. Excuse'
    BY <2>2 DEF Excuse, WellFormed, Acceptable, Packets
  <2>4. pc' = "cancel"
    BY <2>1
  <2> QED
    BY <1>1, <1>2, <1>3, <2>3, <2>4, Moved DEF Left
<1>4. CASE ~failed'
  <2>1. DOMAIN results = 0..(Len(jobs) - 1) /\ pc' = "join" /\ tree = Pinned
    <3>1. /\ DOMAIN results = 0..(Cardinality(DOMAIN results) - 1) /\ tree = Pinned
          /\ pc = "check" /\ pc' = "join"
      BY <1>4
    <3>2. Cardinality(DOMAIN results) = Len(jobs)
      BY <3>1, AllCollected
    <3> QED
      BY <3>1, <3>2
  <2>2. ResultInv'
    <3>1. \A i \in DOMAIN results : results[i] = Pinned
      BY <2>1 DEF IInv, ResultInv, Past, Pinned
    <3> QED
      BY <1>2, <2>1, <3>1 DEF IInv, ResultInv, Item, OwnerMoves, Past
  <2>3. QueueInv'
    BY <1>2, <2>1, QueueFrame DEF IInv, QueueInv, OwnerMoves, SourceInv
  <2>4. CountInv'
    BY <1>2, CountFrame DEF IInv, OwnerMoves
  <2>5. PoolInv'
    BY <1>2, <2>1, PoolFrame DEF IInv, OwnerMoves, pool, Left
  <2>6. ExcuseInv'
    BY <1>2, <1>4, ExcuseFrame DEF IInv, OwnerMoves, pool
  <2> QED
    BY <1>1, <2>2, <2>3, <2>4, <2>5, <2>6 DEF IInv
<1> QED
  BY <1>3, <1>4

LEMMA StopFillingKeeps ==
  ASSUME IInv, StopFilling PROVE IInv'
<1> USE DEF StopFilling
<1>1. PlaceInv'
  BY DEF IInv, PlaceInv, Guarded, pool
<1>2. waiting = 0
  <2>1. ASSUME waiting # 0 PROVE FALSE
    <3>1. ~exhausted /\ ~failed
      BY <2>1 DEF IInv, QueueInv, PlaceInv, Guarded
    <3>2. FreeWorker /\ RoomFor(waiting)
      BY <2>1, <3>1 DEF IInv, CountInv, FreeWorker, RoomFor, Size
    <3> QED
      BY <2>1, <3>2
  <2> QED
    BY <2>1
<1>3. QueueInv'
  BY <1>2 DEF IInv, QueueInv, SourceInv, Acceptable
<1>4. CountInv' /\ ResultInv' /\ PoolInv' /\ ExcuseInv'
  BY CountFrame, ResultFrame, PoolFrame, ExcuseFrame DEF IInv, pool, ShutDown, Left
<1> QED
  BY <1>1, <1>3, <1>4 DEF IInv

LEMMA ReadKeeps ==
  ASSUME IInv, Read PROVE IInv'
<1> USE DEF Read
<1>1. ~failed /\ waiting = 0 /\ ~exhausted
  BY DEF IInv, PlaceInv, Guarded, FreeWorker
<1>2. PlaceInv'
  BY <1>1 DEF IInv, PlaceInv, Guarded, pool, Fail
<1>3. Len(jobs) \in Nat /\ jobs \in JobLists /\ read \in Nat /\ read <= Len(jobs)
  BY PendingFacts DEF IInv, QueueInv
<1>4. QueueInv'
  <2>1. CASE read = Len(jobs)
    BY <1>1, <2>1 DEF IInv, QueueInv, SourceInv, Acceptable
  <2>2. CASE read # Len(jobs) /\ Acceptable(read + 1)
    <3>1. read' = read + 1 /\ waiting' = read + 1 /\ pc' = pc /\ failed' = failed
          /\ exhausted' = exhausted /\ read + 1 \in 1..Len(jobs)
      BY <1>3, <2>2
    <3>2. \A p \in 1..(read + 1) : Acceptable(p)
      BY <1>1, <1>3, <2>2 DEF IInv, QueueInv
    <3>3. pending \subseteq 1..read /\ read + 1 \notin pending /\ pending \subseteq 1..(read + 1)
      BY <1>3 DEF IInv, QueueInv
    <3> QED
      BY <1>1, <1>3, <3>1, <3>2, <3>3 DEF IInv, QueueInv, SourceInv, Acceptable
  <2>3. CASE read # Len(jobs) /\ ~Acceptable(read + 1)
    <3>1. read' = read + 1 /\ waiting' = waiting /\ pc' = "cancel" /\ failed'
          /\ exhausted' = exhausted /\ read + 1 \in 1..Len(jobs)
      BY <1>3, <2>3 DEF Fail
    <3>2. pending \subseteq 1..(read + 1)
      BY <1>3 DEF IInv, QueueInv
    <3> QED
      BY <1>1, <1>3, <3>1, <3>2 DEF IInv, QueueInv, SourceInv
  <2> QED
    BY <2>1, <2>2, <2>3
<1>5. CountInv'
  <2>1. CASE waiting' = 0
    <3>1. failed => failed'
      BY <1>1
    <3> QED
      BY <1>1, <2>1, <3>1, CountFrame DEF IInv
  <2>2. CASE waiting' # 0
    <3>1. /\ waiting' = read + 1 /\ Acceptable(read + 1) /\ failed' = failed
          /\ read + 1 \in Packets
      BY <1>1, <1>3, <2>2 DEF Packets
    <3>2. Size(read + 1) <= MaxPacketBytes /\ Size(read + 1) \in Nat
      BY <1>3, <3>1, JobFacts DEF Acceptable, Size
    <3>3. pending \in SUBSET Packets /\ Bytes(pending) \in Nat /\ IsFiniteSet(pending)
          /\ Cardinality(pending) \in Nat /\ Bytes({}) = 0
      BY <1>3, PendingFacts, BytesFacts DEF IInv
    <3>4. Bytes(pending) + Size(read + 1) <= MaxInflightBytes
      <4>1. CASE pending = {}
        BY <3>2, <3>3, <4>1, Limits
      <4>2. CASE pending # {}
        <5>1. Bytes(pending) + MaxPacketBytes <= MaxInflightBytes
          BY <1>1, <4>2 DEF RoomToRead, IInv, CountInv
        <5> QED
          BY <3>2, <3>3, <5>1, Limits
      <4> QED
        BY <4>1, <4>2
    <3>5. Cardinality(pending) < Cardinality(Workers)
      BY DEF FreeWorker
    <3>6. Bytes(pending)' = Bytes(pending) /\ Size(waiting)' = Size(read + 1)
      BY <3>1 DEF Bytes, Packets, Size
    <3> QED
      BY <3>1, <3>4, <3>5, <3>6 DEF IInv, CountInv
  <2> QED
    BY <2>1, <2>2
<1>6. ResultInv'
  <2>1. ~failed' => 1..read' \ (pending' \cup {waiting'}) = 1..read \ (pending \cup {waiting})
    BY <1>1, <1>3 DEF Fail
  <2>2. pc' \notin {"join", "close", "returned"}
    BY DEF Fail
  <2>3. jobs' = jobs /\ results' = results /\ tree' = tree
    OBVIOUS
  <2> HIDE DEF Read
  <2> QED
    BY <1>1, <2>1, <2>2, <2>3 DEF IInv, ResultInv, Item, Past
<1>7. PoolInv'
  BY PoolFrame DEF IInv, pool, ShutDown, Fail, Left
<1>8. ExcuseInv'
  <2>1. ASSUME failed' PROVE Excuse'
    <3>1. read # Len(jobs) /\ ~Acceptable(read + 1)
      BY <1>1, <2>1
    <3>2. read + 1 \in Packets
      BY <1>3, <3>1 DEF Packets
    <3> QED
      BY <3>1, <3>2 DEF Excuse, WellFormed, Acceptable, Packets
  <2> QED
    BY <2>1, ExcuseFrame DEF IInv, pool
<1> QED
  BY <1>2, <1>4, <1>5, <1>6, <1>7, <1>8 DEF IInv

LEMMA NothingPendingKeeps ==
  ASSUME IInv, NothingPending PROVE IInv'
<1> USE DEF NothingPending
<1>1. waiting = 0 /\ pc' = AfterRound /\ failed' = failed /\ ~failed
  BY DEF IInv, QueueInv, PlaceInv, Guarded
<1>2. PlaceInv'
  BY <1>1 DEF IInv, PlaceInv, Guarded, AfterRound, pool
<1>3. QueueInv'
  BY <1>1 DEF IInv, QueueInv, SourceInv, AfterRound, Acceptable
<1>4. pc' \in {"fill", "check"} /\ ~ShutDown
  BY <1>1 DEF AfterRound, ShutDown
<1>5. CountInv' /\ ResultInv' /\ PoolInv' /\ ExcuseInv'
  BY <1>1, <1>4, CountFrame, ResultFrame, PoolFrame, ExcuseFrame DEF IInv, pool, Left
<1> QED
  BY <1>2, <1>3, <1>5 DEF IInv

LEMMA WaitKeeps ==
  ASSUME IInv, Wait PROVE IInv'
<1> USE DEF Wait
<1>1. PlaceInv'
  BY DEF IInv, PlaceInv, Guarded, pool
<1>2. QueueInv'
  BY DEF IInv, QueueInv, SourceInv, Acceptable
<1>3. CountInv' /\ ResultInv' /\ PoolInv'
  BY CountFrame, ResultFrame, PoolFrame DEF IInv, pool, ShutDown, Left
<1>4. ExcuseInv'
  <2>1. Excuse => Excuse'
    BY DEF Excuse, WellFormed, Acceptable, Packets
  <2>2. Done' = Done /\ FutureAt("failed")' = FutureAt("failed")
        /\ FutureAt("cancelled")' = FutureAt("cancelled")
    BY DEF Done, FutureAt, Packets, pool
  <2> QED
    BY <2>1, <2>2 DEF IInv, ExcuseInv, pool
<1> QED
  BY <1>1, <1>2, <1>3, <1>4 DEF IInv

\* Settling futures.
LEMMA Settled ==
  ASSUME FutureType, NEW S, NEW state \in {"queued", "running", "failed", "cancelled"},
         future' = Settle(S, state), jobs' = jobs
  PROVE  /\ FutureType' /\ Packets' = Packets
         /\ \A p \in Packets :
              /\ future'[p].at = IF p \in S THEN state ELSE future[p].at
              /\ future'[p].code = future[p].code
<1>1. Packets' = Packets
  BY DEF Packets
<1>2. ASSUME NEW p \in Packets
      PROVE  /\ future'[p] \in [at : {"none", "queued", "running", "done", "failed", "cancelled"},
                                code : Versions \cup {None}]
             /\ future'[p].at = IF p \in S THEN state ELSE future[p].at
             /\ future'[p].code = future[p].code
  BY DEF FutureType, Settle
<1>3. future' = [p \in Packets |-> future'[p]]
  BY DEF Settle
<1>4. FutureType'
  <2>1. Versions' = Versions
    BY DEF Versions
  <2> QED
    BY <1>1, <1>2, <1>3, <2>1 DEF FutureType
<1> QED
  BY <1>1, <1>2, <1>4

\* submit starts at most one worker, and one lives afterwards.
LEMMA StartedFacts ==
  ASSUME PoolInv, jobs \in JobLists, ~broken, ~ShutDown, worker' = Started, jobs' = jobs
  PROVE  /\ WorkerType'
         /\ \A w \in Workers : \/ worker'[w] = worker[w]
                               \/ At(w, "absent") /\ worker'[w].at = "starting"
         /\ \E w \in Workers : Alive(w)'
<1> DEFINE absent == {w \in Workers : At(w, "absent")}
           idle == {w \in Workers : At(w, "idle")}
           chosen == CHOOSE w \in absent : TRUE
<1>1. CASE absent # {} /\ Cardinality(idle) <= Cardinality(FutureAt("queued"))
  <2> DEFINE Kind == [at : {"absent", "starting", "idle", "busy", "gone"},
                      packet : 0..Len(jobs), pin : Versions \cup {None},
                      code : Versions \cup {None}]
  <2>1. PICK v \in absent : v = chosen
    BY <1>1
  <2>2. worker' = [worker EXCEPT ![v].at = "starting"] /\ v \in Workers /\ At(v, "absent")
    BY <1>1, <2>1 DEF Started
  <2>3. worker \in [Workers -> Kind]
    BY DEF PoolInv, WorkerType
  <2>4. \A w \in Workers :
           worker'[w] = IF w = v THEN [worker[w] EXCEPT !.at = "starting"] ELSE worker[w]
    BY <2>2, <2>3
  <2>5. \A r \in Kind : [r EXCEPT !.at = "starting"] \in Kind
                        /\ [r EXCEPT !.at = "starting"].at = "starting"
    OBVIOUS
  <2>6. \A w \in Workers : worker[w] \in Kind
    BY <2>3
  <2>7. worker' = [w \in Workers |-> worker'[w]]
    BY <2>2, <2>3
  <2>8. worker' \in [Workers -> Kind] /\ worker'[v].at = "starting"
    <3> HIDE DEF Kind
    <3> QED
      BY <2>2, <2>4, <2>5, <2>6, <2>7
  <2>9. WorkerType'
    BY <2>8 DEF WorkerType, Versions
  <2>10. \A w \in Workers : \/ worker'[w] = worker[w]
                            \/ At(w, "absent") /\ worker'[w].at = "starting"
    BY <2>2, <2>4, <2>8
  <2>11. \E w \in Workers : Alive(w)'
    BY <2>2, <2>8 DEF Alive
  <2> QED
    BY <2>9, <2>10, <2>11
<1>2. CASE ~(absent # {} /\ Cardinality(idle) <= Cardinality(FutureAt("queued")))
  <2>1. worker' = worker
    BY <1>2 DEF Started
  <2>2. WorkerType'
    BY <2>1 DEF PoolInv, WorkerType, Versions
  <2>3. \E w \in Workers : Alive(w)
    <3>1. CASE absent = {}
      <4>1. PICK w \in Workers : TRUE
        BY Limits
      <4>2. worker[w].at \in {"starting", "idle", "busy"}
        BY <3>1 DEF PoolInv, WorkerType, WorkerOK, At
      <4> QED
        BY <4>2 DEF Alive
    <3>2. CASE absent # {}
      <4>1. ~(Cardinality(idle) <= Cardinality(FutureAt("queued")))
        BY <1>2, <3>2
      <4>2. Cardinality(FutureAt("queued")) \in Nat
        BY JobFacts, FS_Subset, FS_CardinalityType DEF FutureAt
      <4>3. idle # {}
        <5>1. Cardinality({}) = 0
          BY FS_EmptySet
        <5> QED
          BY <4>1, <4>2, <5>1
      <4> QED
        BY <4>3 DEF Alive, At
    <3> QED
      BY <3>1, <3>2
  <2> QED
    BY <2>1, <2>2, <2>3 DEF Alive
<1> QED
  BY <1>1, <1>2

LEMMA SubmitKeeps ==
  ASSUME IInv, Submit PROVE IInv'
<1> USE DEF Submit
<1>1. /\ ~failed /\ waiting \in Packets \ pending /\ ~ShutDown /\ jobs \in JobLists
      /\ batch \subseteq pending
  BY PendingFacts DEF IInv, QueueInv, PlaceInv, Guarded, ShutDown
<1>2. CASE broken
  <2>1. PlaceInv'
    BY <1>1, <1>2 DEF IInv, PlaceInv, Guarded, pool, Fail
  <2>2. Excuse'
    BY <1>2 DEF IInv, ExcuseInv, Excuse, WellFormed, Acceptable, Packets
  <2>3. OwnerMoves /\ batch' = batch /\ pc' = "cancel" /\ failed'
    BY <1>2 DEF OwnerMoves, Fail
  <2> QED
    BY <1>1, <2>1, <2>2, <2>3, Moved DEF Submit, Left
<1>3. CASE ~broken
  <2>1. PlaceInv'
    BY <1>1, <1>3 DEF IInv, PlaceInv, Guarded, pool
  <2>2. QueueInv'
    BY <1>1, <1>3 DEF IInv, QueueInv, SourceInv, Acceptable
  <2>3. CountInv' /\ ResultInv'
    BY <1>3, CountFrame, ResultFrame DEF IInv
  <2>4. /\ FutureType' /\ Packets' = Packets
        /\ \A p \in Packets :
             /\ future'[p].at = IF p \in {waiting} THEN "queued" ELSE future[p].at
             /\ future'[p].code = future[p].code
    <3>1. PICK S : S = {waiting}
      OBVIOUS
    <3>2. future' = Settle(S, "queued") /\ FutureType
      BY <1>3, <3>1 DEF IInv, PoolInv
    <3> QED
      BY <3>1, <3>2, Settled
  <2>5. /\ WorkerType'
        /\ \A w \in Workers : \/ worker'[w] = worker[w]
                              \/ At(w, "absent") /\ worker'[w].at = "starting"
        /\ \E w \in Workers : Alive(w)'
    BY <1>1, <1>3, StartedFacts DEF IInv
  <2>6. PoolInv'
    <3>1. \A w \in Workers : WorkerOK(w)'
      BY <2>4, <2>5, <1>1, <1>3 DEF IInv, PoolInv, WorkerOK, At, ShutDown, Past
    <3>2. \A p \in Packets : future'[p].at = "done" => Past(future[p].code)'
      BY <2>4, <1>3 DEF IInv, PoolInv, Past
    <3>3. \A p \in FutureAt("running")' :
             \E w \in Workers : At(w, "busy")' /\ worker'[w].packet = p
      BY <2>4, <2>5 DEF IInv, PoolInv, FutureAt, At
    <3>4. pc' = "book"
      BY <1>3
    <3> QED
      BY <2>4, <2>5, <3>1, <3>2, <3>3, <3>4 DEF PoolInv, Left, Past
  <2>7. ExcuseInv'
    <3>1. Excuse => Excuse'
      BY DEF Excuse, WellFormed, Acceptable, Packets
    <3>2. /\ FutureAt("failed")' \subseteq FutureAt("failed")
          /\ FutureAt("cancelled")' \subseteq FutureAt("cancelled")
          /\ Done \ {waiting} \subseteq Done'
      BY <2>4 DEF FutureAt, Done
    <3> QED
      BY <1>1, <1>3, <3>1, <3>2 DEF IInv, ExcuseInv
  <2> QED
    BY <2>1, <2>2, <2>3, <2>6, <2>7 DEF IInv
<1> QED
  BY <1>2, <1>3

LEMMA BookKeeps ==
  ASSUME IInv, Book PROVE IInv'
<1> USE DEF Book
<1>1. /\ ~failed /\ waiting \in Packets \ pending /\ jobs \in JobLists /\ read \in Nat
      /\ pending \in SUBSET Packets /\ waiting \in 1..read
  BY PendingFacts DEF IInv, QueueInv, PlaceInv, Guarded
<1>2. PlaceInv'
  BY DEF IInv, PlaceInv, Guarded, pool
<1>3. QueueInv'
  <2>1. pending' \subseteq 1..read /\ 0 \notin pending' /\ 0 \in 0..read
    BY <1>1 DEF IInv, QueueInv
  <2>2. SourceInv' /\ \A q \in 1..read : Acceptable(q)' <=> Acceptable(q)
    BY DEF IInv, QueueInv, SourceInv, Acceptable
  <2> QED
    BY <1>1, <2>1, <2>2 DEF IInv, QueueInv
<1>4. CountInv'
  <2>1. /\ Bytes(pending \cup {waiting}) = Bytes(pending) + Size(waiting)
        /\ IsFiniteSet(pending) /\ Cardinality(pending) \in Nat /\ Bytes(pending) \in Nat
    BY <1>1, BytesFacts
  <2>2. Cardinality(pending \cup {waiting}) = Cardinality(pending) + 1
    BY <1>1, <2>1, FS_AddElement
  <2>3. Bytes(pending)' = Bytes(pending \cup {waiting})
    BY DEF Bytes, Packets
  <2>4. inflight' = inflight + Size(waiting) /\ Size(waiting) \in Nat /\ waiting # 0
    BY <1>1, JobFacts DEF Size, Packets
  <2> QED
    BY <1>1, <2>1, <2>2, <2>3, <2>4, Limits DEF IInv, CountInv
<1>5. ResultInv'
  <2>1. 1..read' \ (pending' \cup {waiting'}) = 1..read \ (pending \cup {waiting})
    BY <1>1
  <2>2. pc' = "fill" /\ results' = results /\ jobs' = jobs /\ failed' = failed
        /\ tree' = tree
    OBVIOUS
  <2> HIDE DEF Book
  <2> QED
    BY <1>1, <2>1, <2>2 DEF IInv, ResultInv, Item, Past
<1>6. PoolInv' /\ ExcuseInv'
  BY PoolFrame, ExcuseFrame DEF IInv, pool, ShutDown, Left
<1> QED
  BY <1>2, <1>3, <1>4, <1>5, <1>6 DEF IInv

LEMMA CollectKeeps ==
  ASSUME IInv, NEW p \in Packets, Collect(p) PROVE IInv'
<1> USE DEF Collect
<1>1. /\ ~failed /\ waiting = 0 /\ jobs \in JobLists /\ pending \in SUBSET Packets
      /\ p \in pending /\ read \in Nat /\ p \in 1..read /\ p \in Done
      /\ \A q \in 1..read : Acceptable(q)
  BY PendingFacts DEF IInv, QueueInv, PlaceInv, Guarded, ExcuseInv
<1>2. /\ Bytes(pending \ {p}) = Bytes(pending) - Size(p) /\ Bytes(pending \ {p}) \in Nat
      /\ Bytes(pending) \in Nat /\ Size(p) \in Nat
      /\ IsFiniteSet(pending) /\ Cardinality(pending) \in Nat
  <2>1. /\ Bytes(pending \ {p}) = Bytes(pending) - Size(p) /\ Bytes(pending) \in Nat
        /\ IsFiniteSet(pending) /\ Cardinality(pending) \in Nat
    BY <1>1, BytesFacts
  <2>2. pending \ {p} \in SUBSET Packets
    BY <1>1
  <2>3. Bytes(pending \ {p}) \in Nat
    BY <1>1, <2>2, BytesFacts
  <2> QED
    BY <1>1, <2>1, <2>3, JobFacts
<1>3. Cardinality(pending \ {p}) = Cardinality(pending) - 1
  BY <1>1, <1>2, FS_RemoveElement
<1>4. QueueInv'
  <2>1. pc' \in {"cancel", "fill", "collect"} /\ failed \in BOOLEAN
    BY DEF Fail, IInv, PlaceInv
  <2>2. failed' => failed \/ pc' = "cancel"
    BY DEF Fail
  <2> HIDE DEF Collect
  <2>3. /\ UNCHANGED <<jobs, kind, tree, text, read, exhausted, waiting, faults>>
        /\ pending' = pending \ {p} /\ batch' = batch \ {p}
    BY DEF Collect
  <2> QED
    BY <1>1, <2>1, <2>3 DEF IInv, QueueInv, SourceInv, Acceptable
<1>5. PlaceInv'
  BY <1>1 DEF IInv, PlaceInv, Guarded, pool, Fail
<1>6. jobs[p].item \in Nat /\ jobs[p].item \notin DOMAIN results
  <2>1. jobs[p].item \in Nat
    BY <1>1, JobFacts DEF Acceptable, Item
  <2>2. \A q \in 1..read : q # p => jobs[q].item # jobs[p].item
    <3>1. ASSUME NEW a \in 1..read, NEW b \in 1..read, a < b
          PROVE  jobs[a].item # jobs[b].item
      <4>1. a \in 1..(b - 1) /\ Acceptable(b)
        BY <1>1, <3>1
      <4> QED
        BY <4>1 DEF Acceptable
    <3> QED
      BY <1>1, <3>1
  <2>3. DOMAIN results = {jobs[q].item : q \in 1..read \ (pending \cup {waiting})}
    BY <1>1 DEF IInv, ResultInv, Item
  <2> QED
    BY <1>1, <2>1, <2>2, <2>3
<1>7. CASE future[p].at = "done"
  <2>1. /\ results' = [i \in DOMAIN results \cup {jobs[p].item} |->
                         IF i = jobs[p].item THEN future[p].code ELSE results[i]]
        /\ inflight' = inflight - Size(p) /\ failed' = failed /\ pc' \in {"fill", "collect"}
    BY <1>6, <1>7 DEF Freed, Size
  <2>2. CountInv'
    <3>1. Bytes(pending)' = Bytes(pending \ {p})
      BY DEF Bytes, Packets
    <3>2. inflight = Bytes(pending) /\ inflight' = Bytes(pending \ {p})
      BY <1>1, <1>2, <2>1 DEF IInv, CountInv
    <3>3. waiting' = 0 /\ pending' = pending \ {p}
      BY <1>1
    <3> QED
      BY <1>2, <1>3, <3>1, <3>2, <3>3, Limits DEF IInv, CountInv
  <2>3. ResultInv'
    <3>1. DOMAIN results' = DOMAIN results \cup {jobs[p].item}
      BY <2>1
    <3>2. \A i \in DOMAIN results' : Past(results[i])'
      BY <1>7, <2>1 DEF IInv, ResultInv, PoolInv, Past
    <3>3. 1..read' \ (pending' \cup {waiting'})
            = (1..read \ (pending \cup {waiting})) \cup {p}
      BY <1>1
    <3>4. jobs' = jobs /\ failed' = failed
      BY <2>1
    <3>5. {Item(q) : q \in 1..read \ (pending \cup {waiting})} \cup {Item(p)}
            = {Item(q)' : q \in 1..read' \ (pending' \cup {waiting'})}
      BY <3>3, <3>4 DEF Item
    <3>6. DOMAIN results = {Item(q) : q \in 1..read \ (pending \cup {waiting})}
          /\ DOMAIN results \subseteq Nat
      BY <1>1 DEF IInv, ResultInv
    <3>7. DOMAIN results' \subseteq Nat
      BY <1>6, <3>1, <3>6
    <3>8. DOMAIN results' = {Item(q)' : q \in 1..read' \ (pending' \cup {waiting'})}
      BY <3>1, <3>5, <3>6 DEF Item
    <3> HIDE DEF Collect
    <3> QED
      BY <2>1, <3>2, <3>7, <3>8 DEF ResultInv
  <2>4. PoolInv' /\ ExcuseInv'
    BY <1>1, <2>1, PoolFrame, ExcuseFrame DEF IInv, pool, ShutDown, Left
  <2> QED
    BY <1>4, <1>5, <2>2, <2>3, <2>4 DEF IInv
<1>8. CASE future[p].at # "done"
  <2>1. pc' = "cancel" /\ failed' /\ results' = results /\ inflight' = inflight
    BY <1>8 DEF Fail
  <2>2. CountInv'
    <3>1. Bytes(pending)' = Bytes(pending \ {p})
      BY DEF Bytes, Packets
    <3>2. waiting' = 0 /\ pending' = pending \ {p}
      BY <1>1
    <3> QED
      BY <1>2, <1>3, <2>1, <3>1, <3>2, Limits DEF IInv, CountInv
  <2>3. ResultInv'
    BY <2>1 DEF IInv, ResultInv, Past
  <2>4. Excuse'
    <3>1. p \in FutureAt("failed") \cup FutureAt("cancelled")
      BY <1>1, <1>8 DEF Done, FutureAt
    <3> QED
      BY <3>1 DEF IInv, ExcuseInv, Excuse, WellFormed, Acceptable, Packets
  <2>5. PoolInv' /\ ExcuseInv'
    BY <1>1, <2>1, <2>4, PoolFrame, ExcuseFrame DEF IInv, pool, ShutDown, Left
  <2> QED
    BY <1>4, <1>5, <2>2, <2>3, <2>5 DEF IInv
<1> QED
  BY <1>7, <1>8

\* Cancelling, all or part of what is queued, when the calculation has failed.
LEMMA CancelledFacts ==
  ASSUME PoolInv, ExcuseInv, Excuse', NEW C \in SUBSET FutureAt("queued"),
         future' = Settle(C, "cancelled"),
         UNCHANGED <<jobs, kind, source, worker, broken, batch>>,
         ShutDown => ShutDown', Left' => PoolEnded \/ Abandoned'
  PROVE  PoolInv' /\ ExcuseInv'
<1>1. /\ FutureType' /\ Packets' = Packets
      /\ \A p \in Packets :
           /\ future'[p].at = IF p \in C THEN "cancelled" ELSE future[p].at
           /\ future'[p].code = future[p].code
  BY Settled DEF PoolInv
<1>2. /\ FutureAt("queued")' \subseteq FutureAt("queued")
      /\ FutureAt("running")' \subseteq FutureAt("running")
      /\ Done \subseteq Done'
  BY <1>1 DEF FutureAt, Done
<1>3. WorkerType' /\ (\A w \in Workers : WorkerOK(w)')
      /\ \A w \in Workers : (Alive(w)' <=> Alive(w)) /\ (At(w, "busy")' <=> At(w, "busy"))
  BY <1>1 DEF PoolInv, WorkerType, WorkerOK, At, Alive, Versions, Past
<1>4. PoolInv'
  BY <1>1, <1>2, <1>3 DEF PoolInv, Past, PoolEnded
<1> QED
  BY <1>2, <1>4 DEF ExcuseInv

\* A failed calculation stays excused.
LEMMA StillExcused ==
  ASSUME IInv, failed, UNCHANGED <<jobs, source, faults>>, interrupted # {} => interrupted' # {}
  PROVE  Excuse'
BY DEF IInv, ExcuseInv, Excuse, WellFormed, Acceptable, Packets

LEMMA CancelKeeps ==
  ASSUME IInv, Cancel PROVE IInv'
<1> USE DEF Cancel
<1>1. failed /\ failed' /\ ~ShutDown /\ ~Left' /\ Excuse'
  BY StillExcused DEF IInv, PlaceInv, ShutDown, Left
<1>2. PlaceInv'
  BY <1>1 DEF IInv, PlaceInv, Guarded
<1>3. QueueInv'
  BY <1>1, QueueFrame DEF IInv, QueueInv, SourceInv
<1>4. CountInv' /\ ResultInv'
  BY <1>1, CountFrame, ResultFrame DEF IInv
<1>5. PICK C \in SUBSET FutureAt("queued") : future' = Settle(C, "cancelled")
  BY DEF Cancelled
<1>6. PoolInv' /\ ExcuseInv'
  BY <1>1, <1>5, CancelledFacts DEF IInv
<1> QED
  BY <1>2, <1>3, <1>4, <1>6 DEF IInv

\* A pool of processes breaks, for a reason, or because it is shut down.
LEMMA ProcessesBroken ==
  ASSUME PoolInv, ExcuseInv, ProcessesBreak, jobs' = jobs, tree' = tree, batch' = batch,
         Excuse'
  PROVE  PoolInv' /\ ExcuseInv'
<1> DEFINE S == FutureAt("queued") \cup FutureAt("running")
<1>1. /\ FutureType' /\ Packets' = Packets
      /\ \A p \in Packets :
           /\ future'[p].at = IF p \in S THEN "failed" ELSE future[p].at
           /\ future'[p].code = future[p].code
  <2>1. PICK T : T = S
    OBVIOUS
  <2>2. future' = Settle(T, "failed") /\ FutureType
    BY <2>1 DEF ProcessesBreak, PoolInv
  <2>3. /\ FutureType' /\ Packets' = Packets
        /\ \A p \in Packets :
             /\ future'[p].at = IF p \in T THEN "failed" ELSE future[p].at
             /\ future'[p].code = future[p].code
    BY <2>2, Settled
  <2> QED
    BY <2>1, <2>3
<1>2. FutureAt("queued")' = {} /\ FutureAt("running")' = {} /\ Done \subseteq Done'
  BY <1>1 DEF FutureAt, Done
<1>3. WorkerType' /\ \A w \in Workers : worker'[w].at = "gone"
  <2> DEFINE Kind == [at : {"absent", "starting", "idle", "busy", "gone"},
                      packet : 0..Len(jobs), pin : Versions \cup {None},
                      code : Versions \cup {None}]
  <2>1. \A w \in Workers : worker[w] \in Kind
    BY DEF PoolInv, WorkerType
  <2>2. \A r \in Kind : [r EXCEPT !.at = "gone"] \in Kind /\ [r EXCEPT !.at = "gone"].at = "gone"
    OBVIOUS
  <2>3. worker' = [w \in Workers |-> [worker[w] EXCEPT !.at = "gone"]]
    BY DEF ProcessesBreak
  <2>4. worker' \in [Workers -> Kind] /\ \A w \in Workers : worker'[w].at = "gone"
    <3> HIDE DEF Kind
    <3> QED
      BY <2>1, <2>2, <2>3
  <2> QED
    BY <2>4 DEF WorkerType, Versions
<1>4. \A w \in Workers : WorkerOK(w)' /\ ~Alive(w)'
  BY <1>3 DEF WorkerOK, At, Alive, ProcessesBreak
<1>5. PoolInv'
  BY <1>1, <1>2, <1>3, <1>4 DEF PoolInv, PoolEnded, Past
<1>6. ExcuseInv'
  BY <1>2 DEF ExcuseInv
<1> QED
  BY <1>5, <1>6

LEMMA StopKeeps ==
  ASSUME IInv, Stop PROVE IInv'
<1> USE DEF Stop
<1>1. failed /\ failed' /\ ~ShutDown /\ Excuse' /\ pc' \in {"join", "close"}
  BY StillExcused DEF IInv, PlaceInv, ShutDown
<1>2. Left' => Abandoned'
  BY <1>1 DEF Left, Abandoned, Terminating
<1>3. PlaceInv'
  BY <1>1 DEF IInv, PlaceInv, Guarded
<1>4. QueueInv'
  BY <1>1, QueueFrame DEF IInv, QueueInv, SourceInv
<1>5. CountInv' /\ ResultInv'
  BY <1>1, CountFrame, ResultFrame DEF IInv
<1>6. PICK C \in SUBSET FutureAt("queued") : future' = Settle(C, "cancelled")
  BY DEF Cancelled
<1>7. PoolInv' /\ ExcuseInv'
  BY <1>1, <1>2, <1>6, CancelledFacts DEF IInv
<1> QED
  BY <1>3, <1>4, <1>5, <1>7 DEF IInv

LEMMA InterruptShutdownKeeps ==
  ASSUME IInv, InterruptShutdown PROVE IInv'
<1> USE DEF InterruptShutdown, MayInterrupt
<1>1. /\ failed' /\ pc' \in {"close", "raised"} /\ "shutdown" \in interrupted'
      /\ pc \in {"cancel", "stop", "join", "close"} /\ pc' = "raised" => pc = "close"
  OBVIOUS
<1>2. Abandoned' /\ Excuse' /\ ShutDown'
  BY <1>1 DEF Abandoned, Excuse, ShutDown
<1>3. PlaceInv'
  BY <1>1 DEF IInv, PlaceInv, Guarded
<1>4. QueueInv'
  BY <1>1, QueueFrame DEF IInv, QueueInv, SourceInv
<1>5. CountInv' /\ ResultInv'
  BY <1>1, CountFrame, ResultFrame DEF IInv
<1>6. PICK C \in SUBSET FutureAt("queued") : future' = Settle(C, "cancelled")
  OBVIOUS
<1>7. PoolInv' /\ ExcuseInv'
  BY <1>2, <1>6, CancelledFacts DEF IInv
<1> QED
  BY <1>3, <1>4, <1>5, <1>7 DEF IInv

LEMMA JoinKeeps ==
  ASSUME IInv, Join PROVE IInv'
<1> USE DEF Join
<1>1. PlaceInv'
  BY DEF IInv, PlaceInv, Guarded, pool
<1>2. OwnerMoves /\ batch' = batch /\ interrupted' = interrupted /\ ShutDown'
  BY DEF OwnerMoves, ShutDown
<1> QED
  BY <1>1, <1>2, Moved

LEMMA CloseKeeps ==
  ASSUME IInv, Close PROVE IInv'
<1> USE DEF Close
<1>1. PlaceInv'
  BY DEF IInv, PlaceInv, Guarded, pool
<1>2. OwnerMoves /\ batch' = batch /\ interrupted' = interrupted /\ ShutDown'
  BY DEF OwnerMoves, ShutDown
<1>3. PoolEnded \/ Abandoned'
  <2>1. PoolEnded \/ Abandoned
    BY DEF IInv, PoolInv, Left
  <2>2. ASSUME Terminating PROVE Terminating'
    BY <2>2 DEF Terminating
  <2> QED
    BY <1>2, <2>1, <2>2 DEF Abandoned
<1> QED
  BY <1>1, <1>2, <1>3, Moved

---------------------------------------------------------------------------
(* The workers                                                             *)

LEMMA OwnerWaits ==
  ASSUME IInv, UNCHANGED <<jobs, kind, owner, interrupted>>, SourceInv',
         tree' = tree \/ tree' = tree + 1, faults' \in 0..MaxFaults, broken' \in BOOLEAN
  PROVE  PlaceInv' /\ QueueInv' /\ CountInv' /\ ResultInv'
<1> USE DEF owner
<1>1. PlaceInv'
  BY DEF IInv, PlaceInv, Guarded
<1>2. QueueInv'
  BY QueueFrame DEF IInv
<1>3. CountInv' /\ ResultInv'
  BY CountFrame, ResultFrame DEF IInv
<1> QED
  BY <1>1, <1>2, <1>3

\* Whoever lives when the owner has gone on was left alone.
LEMMA StillLeft ==
  ASSUME IInv, NEW v \in Workers, Alive(v), UNCHANGED <<kind, owner, interrupted>>
  PROVE  Left' => Abandoned'
BY DEF IInv, PoolInv, PoolEnded, Left, Abandoned, Terminating, owner

WorkerStates == [at : {"absent", "starting", "idle", "busy", "gone"},
                 packet : 0..Len(jobs), pin : Versions \cup {None},
                 code : Versions \cup {None}]

\* One worker changes.
LEMMA OneChanges ==
  ASSUME WorkerType, jobs' = jobs, NEW v \in Workers, NEW r \in WorkerStates,
         worker' = [worker EXCEPT ![v] = r]
  PROVE  WorkerType' /\ \A w \in Workers : worker'[w] = IF w = v THEN r ELSE worker[w]
<1>1. worker \in [Workers -> WorkerStates]
  BY DEF WorkerType, WorkerStates
<1>2. worker' \in [Workers -> WorkerStates]
  BY <1>1
<1>3. WorkerStates' = WorkerStates
  BY DEF WorkerStates, Versions
<1> QED
  BY <1>1, <1>2, <1>3 DEF WorkerType, WorkerStates

\* Steps of a worker that keep the tree and the pool whole.
LEMMA WorkerMoved ==
  ASSUME IInv, NEW v \in Workers, NEW r \in WorkerStates, worker' = [worker EXCEPT ![v] = r],
         UNCHANGED <<jobs, kind, source, owner, broken, interrupted>>,
         faults' \in 0..MaxFaults, faults' >= faults,
         FutureType', WorkerOK(v)', Alive(v),
         \A p \in Packets : future'[p].at = "done" => Past(future'[p].code),
         FutureAt("queued")' \subseteq FutureAt("queued"),
         FutureAt("queued")' # {} => Alive(v)',
         \A p \in FutureAt("running")' :
            \/ At(v, "busy")' /\ r.packet = p
            \/ p \in FutureAt("running") /\ ~(At(v, "busy") /\ worker[v].packet = p),
         Done \subseteq Done',
         FutureAt("failed")' \cup FutureAt("cancelled")'
            \subseteq FutureAt("failed") \cup FutureAt("cancelled") \/ Excuse'
  PROVE  IInv'
<1>1. PlaceInv' /\ QueueInv' /\ CountInv' /\ ResultInv'
  BY OwnerWaits DEF IInv, QueueInv, PlaceInv, SourceInv
<1>2. WorkerType' /\ \A w \in Workers : worker'[w] = IF w = v THEN r ELSE worker[w]
  BY OneChanges DEF IInv, PoolInv
<1>3. Packets' = Packets
  BY DEF Packets
<1>4. \A w \in Workers : WorkerOK(w)'
  BY <1>2, <1>3 DEF IInv, PoolInv, WorkerOK, At, ShutDown, owner, Past
<1>5. FutureAt("queued")' # {} => \E w \in Workers : Alive(w)'
  OBVIOUS
<1>6. \A p \in FutureAt("running")' :
         \E w \in Workers : At(w, "busy")' /\ worker'[w].packet = p
  <2>1. ASSUME NEW p \in FutureAt("running")', p \in FutureAt("running"),
               ~(At(v, "busy") /\ worker[v].packet = p)
        PROVE  \E w \in Workers : At(w, "busy")' /\ worker'[w].packet = p
    <3>1. PICK w \in Workers : At(w, "busy") /\ worker[w].packet = p
      BY <2>1 DEF IInv, PoolInv
    <3>2. w # v
      BY <2>1, <3>1
    <3> QED
      BY <1>2, <3>1, <3>2 DEF At
  <2> QED
    BY <1>2, <2>1
<1>7. Left' => Abandoned'
  BY StillLeft
<1>8. PoolInv'
  BY <1>2, <1>3, <1>4, <1>5, <1>6, <1>7 DEF PoolInv, Past
<1>9. Excuse => Excuse'
  BY Limits DEF Excuse, WellFormed, Acceptable, Packets, IInv, QueueInv
<1>10. ExcuseInv'
  BY <1>9 DEF IInv, ExcuseInv, owner
<1> QED
  BY <1>1, <1>8, <1>10 DEF IInv

\* The futures of a step that settles one packet.
LEMMA OneSettled ==
  ASSUME IInv, NEW p \in Packets, NEW state \in {"running", "failed"},
         future' = Settle({p}, state), jobs' = jobs
  PROVE  /\ FutureType' /\ Packets' = Packets
         /\ \A q \in Packets :
              /\ future'[q].at = IF q = p THEN state ELSE future[q].at
              /\ future'[q].code = future[q].code
<1>1. PICK S : S = {p}
  OBVIOUS
<1>2. future' = Settle(S, state) /\ FutureType
  BY <1>1 DEF IInv, PoolInv
<1>3. /\ FutureType' /\ Packets' = Packets
      /\ \A q \in Packets :
           /\ future'[q].at = IF q \in S THEN state ELSE future[q].at
           /\ future'[q].code = future[q].code
  BY <1>2, Settled
<1> QED
  BY <1>1, <1>3

LEMMA States ==
  ASSUME IInv
  PROVE  /\ \A w \in Workers : worker[w] \in WorkerStates
         /\ \A r \in WorkerStates, p \in Packets, c \in Versions \cup {None} :
              /\ [r EXCEPT !.at = "busy", !.packet = p, !.code = c] \in WorkerStates
              /\ [r EXCEPT !.code = c] \in WorkerStates
              /\ [r EXCEPT !.at = "idle", !.packet = 0] \in WorkerStates
              /\ [r EXCEPT !.at = "gone"] \in WorkerStates
         /\ \A r \in WorkerStates, t, c \in Versions \cup {None} :
              [r EXCEPT !.at = "idle", !.pin = t, !.code = c] \in WorkerStates
<1>1. Len(jobs) \in Nat /\ Packets = 1..Len(jobs)
  BY JobFacts DEF IInv, QueueInv
<1>2. \A w \in Workers : worker[w] \in WorkerStates
  BY DEF IInv, PoolInv, WorkerType, WorkerStates
<1>3. 0 \in 0..Len(jobs) /\ \A p \in Packets : p \in 0..Len(jobs)
  BY <1>1
<1>4. ASSUME NEW r \in WorkerStates, NEW p \in Packets, NEW c \in Versions \cup {None}
      PROVE  /\ [r EXCEPT !.at = "busy", !.packet = p, !.code = c] \in WorkerStates
             /\ [r EXCEPT !.code = c] \in WorkerStates
             /\ [r EXCEPT !.at = "idle", !.packet = 0] \in WorkerStates
             /\ [r EXCEPT !.at = "gone"] \in WorkerStates
  BY <1>3 DEF WorkerStates
<1>5. ASSUME NEW r \in WorkerStates, NEW t \in Versions \cup {None}, NEW c \in Versions \cup {None}
      PROVE  [r EXCEPT !.at = "idle", !.pin = t, !.code = c] \in WorkerStates
  BY DEF WorkerStates
<1> QED
  BY <1>2, <1>4, <1>5

LEMMA TakeKeeps ==
  ASSUME IInv, NEW w \in Workers, Take(w) PROVE IInv'
<1> DEFINE c == IF worker[w].code = None THEN tree ELSE worker[w].code
<1>1. PICK p \in FutureAt("queued") :
         IF tree = worker[w].pin
         THEN /\ worker' = [worker EXCEPT ![w].at = "busy", ![w].packet = p, ![w].code = c]
              /\ future' = Settle({p}, "running")
         ELSE /\ worker' = [worker EXCEPT ![w].code = c]
              /\ future' = Settle({p}, "failed")
  BY DEF Take
<1>2. /\ At(w, "idle") /\ Past(worker[w].pin) /\ p \in Packets /\ future[p].at = "queued"
      /\ UNCHANGED <<jobs, kind, source, owner, broken, interrupted, faults>>
  BY DEF Take, IInv, PoolInv, WorkerOK, At, FutureAt
<1>3. /\ faults \in 0..MaxFaults /\ faults <= faults /\ worker[w] \in WorkerStates
      /\ Alive(w) /\ worker = [v \in Workers |-> worker[v]]
  <2>1. worker[w] \in WorkerStates
    BY States
  <2>2. faults \in 0..MaxFaults /\ faults <= faults
    BY Limits DEF IInv, QueueInv
  <2>3. worker = [v \in Workers |-> worker[v]]
    BY DEF IInv, PoolInv, WorkerType
  <2> QED
    BY <1>2, <2>1, <2>2, <2>3 DEF Alive, At
<1>4. c \in Versions \cup {None} /\ Past(c)
  <2>1. tree \in Versions /\ Past(tree)
    BY Limits DEF IInv, QueueInv, SourceInv, Past
  <2>2. worker[w].code \in Versions \cup {None}
    BY <1>3 DEF WorkerStates
  <2>3. worker[w].code = None \/ Past(worker[w].code)
    BY <1>2 DEF IInv, PoolInv, WorkerOK
  <2> QED
    BY <2>1, <2>2, <2>3
<1> HIDE DEF c
<1>5. CASE tree = worker[w].pin
  <2> DEFINE r == [worker[w] EXCEPT !.at = "busy", !.packet = p, !.code = c]
  <2>1. worker' = [worker EXCEPT ![w] = r] /\ future' = Settle({p}, "running")
    BY <1>1, <1>3, <1>5
  <2>2. r \in WorkerStates /\ r.at = "busy" /\ r.packet = p /\ r.code = c
        /\ r.pin = worker[w].pin
    <3>1. r \in WorkerStates
      BY <1>2, <1>3, <1>4, States
    <3> QED
      BY <1>3, <3>1 DEF WorkerStates
  <2>3. /\ FutureType' /\ Packets' = Packets
        /\ \A q \in Packets :
             /\ future'[q].at = IF q = p THEN "running" ELSE future[q].at
             /\ future'[q].code = future[q].code
    BY <1>2, <2>1, OneSettled
  <2> HIDE DEF r
  <2>4. worker'[w] = r
    BY <1>3, <2>1
  <2>5. WorkerOK(w)' /\ At(w, "busy")' /\ Alive(w)'
    BY <1>2, <1>4, <2>2, <2>3, <2>4 DEF WorkerOK, At, Alive, Past
  <2>6. \A q \in Packets : future'[q].at = "done" => Past(future'[q].code)
    BY <2>3 DEF IInv, PoolInv
  <2>7. /\ FutureAt("queued")' \subseteq FutureAt("queued") /\ Done \subseteq Done'
        /\ FutureAt("failed")' \cup FutureAt("cancelled")'
              \subseteq FutureAt("failed") \cup FutureAt("cancelled")
        /\ FutureAt("running")' \subseteq FutureAt("running") \cup {p}
    BY <1>2, <2>3 DEF FutureAt, Done
  <2>8. ~At(w, "busy")
    BY <1>2 DEF At
  <2> QED
    BY <1>2, <1>3, <2>1, <2>2, <2>3, <2>5, <2>6, <2>7, <2>8, WorkerMoved
<1>6. CASE tree # worker[w].pin
  <2> DEFINE r == [worker[w] EXCEPT !.code = c]
  <2>1. worker' = [worker EXCEPT ![w] = r] /\ future' = Settle({p}, "failed")
    BY <1>1, <1>3, <1>6
  <2>2. r \in WorkerStates /\ r.at = "idle" /\ r.pin = worker[w].pin /\ r.code = c
    <3>1. r \in WorkerStates
      BY <1>2, <1>3, <1>4, States
    <3> QED
      BY <1>2, <1>3, <3>1 DEF WorkerStates, At
  <2>3. /\ FutureType' /\ Packets' = Packets
        /\ \A q \in Packets :
             /\ future'[q].at = IF q = p THEN "failed" ELSE future[q].at
             /\ future'[q].code = future[q].code
    BY <1>2, <2>1, OneSettled
  <2> HIDE DEF r
  <2>4. worker'[w] = r
    BY <1>3, <2>1
  <2>5. WorkerOK(w)' /\ Alive(w)'
    BY <1>2, <1>4, <2>2, <2>3, <2>4 DEF WorkerOK, At, Alive, Past
  <2>6. \A q \in Packets : future'[q].at = "done" => Past(future'[q].code)
    BY <2>3 DEF IInv, PoolInv
  <2>7. /\ FutureAt("queued")' \subseteq FutureAt("queued") /\ Done \subseteq Done'
        /\ FutureAt("running")' \subseteq FutureAt("running")
    BY <1>2, <2>3 DEF FutureAt, Done
  <2>8. ~At(w, "busy") /\ Excuse'
    BY <1>2, <1>6 DEF At, Excuse, Past, Pinned
  <2> QED
    BY <1>2, <1>3, <2>1, <2>2, <2>3, <2>5, <2>6, <2>7, <2>8, WorkerMoved
<1> QED
  BY <1>5, <1>6

LEMMA WorkerFacts ==
  ASSUME IInv, NEW w \in Workers
  PROVE  /\ worker[w] \in WorkerStates /\ worker[w].code \in Versions \cup {None}
         /\ worker = [v \in Workers |-> worker[v]]
         /\ tree \in Versions /\ faults \in 0..MaxFaults /\ faults \in Nat
         /\ At(w, "busy") => /\ worker[w].packet \in Packets
                             /\ worker[w].code \in Versions
                             /\ Past(worker[w].code) /\ Past(worker[w].pin)
<1>1. worker[w] \in WorkerStates
  BY States
<1>2. worker[w].code \in Versions \cup {None}
  BY <1>1 DEF WorkerStates
<1>3. tree \in Versions /\ faults \in 0..MaxFaults /\ faults \in Nat
  BY Limits DEF IInv, QueueInv, SourceInv
<1>4. worker = [v \in Workers |-> worker[v]]
  BY DEF IInv, PoolInv, WorkerType
<1>5. At(w, "busy") => /\ worker[w].packet \in Packets
                       /\ Past(worker[w].code) /\ Past(worker[w].pin)
  BY DEF IInv, PoolInv, WorkerOK, At
<1>6. At(w, "busy") => worker[w].code \in Versions
  BY <1>2, <1>5 DEF Past, None
<1> QED
  BY <1>1, <1>2, <1>3, <1>4, <1>5, <1>6

\* The end of a computation, by a worker that is then idle.
LEMMA Finished ==
  ASSUME IInv, NEW w \in Workers, NEW p \in Packets, At(w, "busy"), p = worker[w].packet,
         worker' = [worker EXCEPT ![w].at = "idle", ![w].packet = 0],
         UNCHANGED <<jobs, kind, source, owner, broken, interrupted>>,
         faults' \in 0..MaxFaults, faults' >= faults,
         FutureType',
         \/ future'[p].at = "done" /\ Past(future'[p].code)
         \/ future'[p].at = "failed" /\ Excuse',
         \A q \in Packets \ {p} : future'[q] = future[q]
  PROVE  IInv'
<1> DEFINE r == [worker[w] EXCEPT !.at = "idle", !.packet = 0]
<1>1. worker' = [worker EXCEPT ![w] = r]
  BY WorkerFacts
<1>2. r \in WorkerStates
  BY WorkerFacts, States, Limits
<1>3. r.at = "idle" /\ Past(r.pin) /\ Past(r.code)
  BY WorkerFacts DEF WorkerStates
<1> HIDE DEF r
<1>4. worker'[w] = r
  BY <1>1, WorkerFacts
<1>5. WorkerOK(w)' /\ Alive(w)' /\ Alive(w)
  BY <1>3, <1>4 DEF WorkerOK, At, Alive, Past
<1>6. Packets' = Packets
  BY DEF Packets
<1>7. /\ FutureAt("queued")' \subseteq FutureAt("queued") /\ Done \subseteq Done'
      /\ FutureAt("running")' \subseteq FutureAt("running") \ {p}
  BY <1>6 DEF FutureAt, Done
<1>8. \A q \in Packets : future'[q].at = "done" => Past(future'[q].code)
  BY DEF IInv, PoolInv
<1>9. FutureAt("failed")' \cup FutureAt("cancelled")'
        \subseteq FutureAt("failed") \cup FutureAt("cancelled") \/ Excuse'
  BY <1>6 DEF FutureAt
<1>10. \A q \in FutureAt("running")' :
          q \in FutureAt("running") /\ ~(At(w, "busy") /\ worker[w].packet = q)
  BY <1>7
<1> QED
  BY <1>1, <1>2, <1>5, <1>7, <1>8, <1>9, <1>10, WorkerMoved

FutureStates == [at : {"none", "queued", "running", "done", "failed", "cancelled"},
                 code : Versions \cup {None}]

LEMMA ComputeKeeps ==
  ASSUME IInv, NEW w \in Workers, Compute(w) PROVE IInv'
<1>1. PICK p \in Packets : p = worker[w].packet
  BY WorkerFacts DEF Compute
<1>2. /\ Past(worker[w].code) /\ worker[w].code \in Versions /\ Past(worker[w].pin)
      /\ At(w, "busy") /\ faults' \in 0..MaxFaults /\ faults' >= faults
      /\ worker' = [worker EXCEPT ![w].at = "idle", ![w].packet = 0]
      /\ UNCHANGED <<jobs, kind, source, owner, broken, interrupted>>
  BY WorkerFacts DEF Compute
<1>3. CASE tree = worker[w].pin
  <2> DEFINE f == [at |-> "done", code |-> worker[w].code]
  <2>1. future' = [future EXCEPT ![p] = f]
    BY <1>1, <1>2, <1>3 DEF Compute
  <2>2. future \in [Packets -> FutureStates] /\ f \in FutureStates
    BY <1>2 DEF IInv, PoolInv, FutureType, FutureStates
  <2>3. FutureStates' = FutureStates /\ Packets' = Packets
    BY <1>2 DEF FutureStates, Packets, Versions
  <2>4. f.at = "done" /\ Past(f.code)
    BY <1>2
  <2> HIDE DEF f
  <2>5. future' \in [Packets -> FutureStates] /\ future'[p] = f
        /\ \A q \in Packets \ {p} : future'[q] = future[q]
    BY <2>1, <2>2
  <2>6. FutureType'
    BY <2>3, <2>5 DEF FutureType, FutureStates
  <2> QED
    BY <1>1, <1>2, <2>4, <2>5, <2>6, Finished
<1>4. CASE tree # worker[w].pin
  <2>1. future' = Settle({p}, "failed")
    BY <1>1, <1>2, <1>4 DEF Compute
  <2>2. FutureType' /\ \A q \in Packets :
          future'[q].at = IF q = p THEN "failed" ELSE future[q].at
    BY <1>2, <2>1, OneSettled
  <2>3. \A q \in Packets \ {p} : future'[q] = future[q]
    BY <2>1 DEF Settle
  <2>4. Excuse'
    BY <1>2, <1>4 DEF Excuse, Past, Pinned
  <2> QED
    BY <1>1, <1>2, <2>2, <2>3, <2>4, Finished
<1> QED
  BY <1>3, <1>4

LEMMA KernelFailsKeeps ==
  ASSUME IInv, NEW w \in Workers, KernelFails(w) PROVE IInv'
<1> USE DEF KernelFails
<1>1. PICK p \in Packets : p = worker[w].packet
  BY WorkerFacts
<1>2. faults' \in 0..MaxFaults /\ faults' >= faults /\ Excuse'
  <2>1. CASE faults' = faults + 1 /\ faults < MaxFaults
    BY <2>1, WorkerFacts, Limits DEF Excuse
  <2>2. CASE closed /\ faults' = faults
    \* A context is closed under a running worker only when the owner was interrupted.
    <3>1. failed
      BY <2>2, StillLeft DEF IInv, PlaceInv, PoolInv, PoolEnded, Alive, At, Left, Abandoned,
                             Terminating
    <3>2. jobs' = jobs /\ tree' = tree /\ interrupted' = interrupted
      OBVIOUS
    <3>3. Excuse'
      BY <2>2, <3>1, <3>2 DEF IInv, ExcuseInv, Excuse, WellFormed, Acceptable, Packets
    <3> QED
      BY <2>2, <3>3, WorkerFacts
  <2> QED
    BY <2>1, <2>2
<1>3. future' = Settle({p}, "failed")
  BY <1>1
<1>4. FutureType' /\ \A q \in Packets :
        future'[q].at = IF q = p THEN "failed" ELSE future[q].at
  BY <1>3, OneSettled
<1>5. \A q \in Packets \ {p} : future'[q] = future[q]
  BY <1>3 DEF Settle
<1> QED
  BY <1>1, <1>2, <1>4, <1>5, Finished

LEMMA LeaveKeeps ==
  ASSUME IInv, NEW w \in Workers, Leave(w) PROVE IInv'
<1> USE DEF Leave
<1> DEFINE r == [worker[w] EXCEPT !.at = "gone"]
<1>1. worker' = [worker EXCEPT ![w] = r] /\ At(w, "idle") /\ Alive(w) /\ ShutDown'
  BY WorkerFacts DEF At, Alive, ShutDown, owner
<1>2. r \in WorkerStates /\ r.at = "gone"
  <2>1. worker[w] \in WorkerStates /\ Len(jobs) \in Nat
    BY WorkerFacts, JobFacts DEF IInv, QueueInv
  <2> QED
    BY <2>1 DEF WorkerStates
<1> HIDE DEF r
<1>3. worker'[w] = r
  BY <1>1, WorkerFacts
<1>4. WorkerOK(w)'
  BY <1>1, <1>2, <1>3 DEF WorkerOK, At, Past
<1>5. FutureType' /\ Packets' = Packets
  BY DEF IInv, PoolInv, FutureType, Packets, Versions
<1>6. /\ FutureAt("queued")' = {} /\ FutureAt("queued") = {} /\ Done' = Done
      /\ FutureAt("running")' = FutureAt("running")
      /\ FutureAt("failed")' = FutureAt("failed") /\ FutureAt("cancelled")' = FutureAt("cancelled")
  BY <1>5 DEF FutureAt, Done
<1>7. \A p \in Packets : future'[p].at = "done" => Past(future'[p].code)
  BY DEF IInv, PoolInv
<1>8. faults' \in 0..MaxFaults /\ faults' >= faults /\ ~At(w, "busy")
  BY <1>1, WorkerFacts DEF At
<1> QED
  BY <1>1, <1>2, <1>4, <1>5, <1>6, <1>7, <1>8, WorkerMoved

LEMMA BreakKeeps ==
  ASSUME IInv, ProcessesBreak, Excuse', UNCHANGED <<jobs, kind, source, owner, interrupted>>,
         faults' \in 0..MaxFaults
  PROVE  IInv'
<1>1. SourceInv' /\ broken' \in BOOLEAN
  BY DEF IInv, QueueInv, SourceInv, ProcessesBreak
<1>2. PlaceInv' /\ QueueInv' /\ CountInv' /\ ResultInv'
  BY <1>1, OwnerWaits
<1>3. PoolInv' /\ ExcuseInv'
  BY ProcessesBroken DEF IInv, owner
<1> QED
  BY <1>2, <1>3 DEF IInv

LEMMA DieKeeps ==
  ASSUME IInv, NEW w \in Workers, Die(w) PROVE IInv'
<1>1. faults' \in 0..MaxFaults /\ Excuse'
  BY WorkerFacts, Limits DEF Die, Excuse
<1> QED
  BY <1>1, BreakKeeps DEF Die

\* A signalled worker obeys: its owner has failed already.
LEMMA TerminatedKeeps ==
  ASSUME IInv, NEW w \in Workers, Terminated(w) PROVE IInv'
<1>1. faults' \in 0..MaxFaults /\ Excuse'
  BY WorkerFacts, StillExcused DEF Terminated, Terminating
<1> QED
  BY <1>1, BreakKeeps DEF Terminated

LEMMA InitializeKeeps ==
  ASSUME IInv, NEW w \in Workers, Initialize(w) PROVE IInv'
<1> USE DEF Initialize
<1>1. /\ faults' \in 0..MaxFaults /\ faults' >= faults /\ faults' = faults /\ faults \in Nat
      /\ Alive(w) /\ ~At(w, "busy")
  BY WorkerFacts DEF Alive, At
<1>2. CASE text = "pinned"
  <2> DEFINE c == IF kind = "thread" THEN Pinned ELSE None
             r == [worker[w] EXCEPT !.at = "idle", !.pin = tree, !.code = c]
  <2>1. worker' = [worker EXCEPT ![w] = r] /\ future' = future /\ broken' = broken
    BY <1>2, WorkerFacts
  <2>2. r \in WorkerStates
    <3>1. tree \in Versions \cup {None} /\ c \in Versions \cup {None}
      BY WorkerFacts, Limits DEF Pinned
    <3> HIDE DEF c
    <3> QED
      BY <3>1, WorkerFacts, States
  <2>3. r.at = "idle" /\ r.pin = tree /\ r.code \in {None, Pinned}
        /\ Past(tree) /\ Past(Pinned)
    BY WorkerFacts, Limits DEF WorkerStates, Past, Pinned
  <2> HIDE DEF r
  <2>4. worker'[w] = r
    BY <2>1, WorkerFacts
  <2>5. WorkerOK(w)' /\ Alive(w)'
    BY <2>3, <2>4 DEF WorkerOK, At, Alive, Past
  <2>6. FutureType' /\ Packets' = Packets
    BY <2>1 DEF IInv, PoolInv, FutureType, Packets, Versions
  <2>7. /\ FutureAt("queued")' = FutureAt("queued") /\ Done' = Done
        /\ FutureAt("running")' = FutureAt("running")
        /\ FutureAt("failed")' = FutureAt("failed")
        /\ FutureAt("cancelled")' = FutureAt("cancelled")
    BY <2>1, <2>6 DEF FutureAt, Done
  <2>8. \A p \in Packets : future'[p].at = "done" => Past(future'[p].code)
    BY <2>1 DEF IInv, PoolInv
  <2> QED
    BY <1>1, <2>1, <2>2, <2>5, <2>6, <2>7, <2>8, WorkerMoved
<1>3. CASE text # "pinned" /\ kind # "thread"
  <2>1. Excuse'
    BY <1>3 DEF Excuse, IInv, QueueInv, SourceInv
  <2> QED
    BY <1>1, <1>3, <2>1, BreakKeeps
<1>4. CASE text # "pinned" /\ kind = "thread"
  <2>1. ThreadsBreak(w) /\ Excuse' /\ SourceInv'
    BY <1>4 DEF Excuse, IInv, QueueInv, SourceInv
  <2>2. PlaceInv' /\ QueueInv' /\ CountInv' /\ ResultInv'
    BY <1>1, <2>1, OwnerWaits DEF ThreadsBreak
  <2>3. /\ FutureType' /\ Packets' = Packets
        /\ \A p \in Packets :
             /\ future'[p].at = IF p \in FutureAt("queued") THEN "failed" ELSE future[p].at
             /\ future'[p].code = future[p].code
    <3>1. PICK S : S = FutureAt("queued")
      OBVIOUS
    <3>2. future' = Settle(S, "failed") /\ FutureType
      BY <2>1, <3>1 DEF ThreadsBreak, IInv, PoolInv
    <3>3. /\ FutureType' /\ Packets' = Packets
          /\ \A p \in Packets :
               /\ future'[p].at = IF p \in S THEN "failed" ELSE future[p].at
               /\ future'[p].code = future[p].code
      BY <3>2, Settled
    <3> QED
      BY <3>1, <3>3
  <2>4. FutureAt("queued")' = {} /\ FutureAt("running")' = FutureAt("running") /\ Done \subseteq Done'
    BY <2>3 DEF FutureAt, Done
  <2> DEFINE r == [worker[w] EXCEPT !.at = "gone"]
  <2>5. worker' = [worker EXCEPT ![w] = r]
    BY <2>1, WorkerFacts DEF ThreadsBreak
  <2>6. r \in WorkerStates /\ r.at = "gone"
    <3>1. worker[w] \in WorkerStates /\ Len(jobs) \in Nat
      BY WorkerFacts, JobFacts DEF IInv, QueueInv
    <3> QED
      BY <3>1 DEF WorkerStates
  <2> HIDE DEF r
  <2>7. WorkerType' /\ \A v \in Workers : worker'[v] = IF v = w THEN r ELSE worker[v]
    <3>1. WorkerType /\ jobs' = jobs
      BY DEF IInv, PoolInv
    <3> HIDE DEF Initialize
    <3> QED
      BY <2>5, <2>6, <3>1, OneChanges
  <2>8. broken' /\ (Left' => Abandoned')
    BY <1>1, <2>1, StillLeft DEF ThreadsBreak
  <2>9. \A v \in Workers : WorkerOK(v)'
    BY <2>3, <2>6, <2>7, <2>8 DEF IInv, PoolInv, WorkerOK, At, Past
  <2>10. \A p \in FutureAt("running")' :
            \E v \in Workers : At(v, "busy")' /\ worker'[v].packet = p
    BY <1>1, <2>4, <2>7 DEF IInv, PoolInv, At
  <2>11. \A p \in Packets : future'[p].at = "done" => Past(future'[p].code)
    BY <2>3 DEF IInv, PoolInv
  <2>12. PoolInv'
    BY <2>3, <2>4, <2>7, <2>8, <2>9, <2>10, <2>11 DEF PoolInv, Past
  <2>13. ExcuseInv'
    BY <2>1, <2>4 DEF IInv, ExcuseInv, owner
  <2> QED
    BY <2>2, <2>12, <2>13 DEF IInv
<1> QED
  BY <1>2, <1>3, <1>4

LEMMA EditKeeps ==
  ASSUME IInv, Edit PROVE IInv'
<1> USE DEF Edit, pool
<1>1. tree \in Nat /\ tree' = tree + 1 /\ tree' \in Versions /\ tree' # Pinned
  BY Limits DEF IInv, QueueInv, SourceInv, Versions, Pinned
<1>2. SourceInv'
  BY <1>1 DEF SourceInv
<1>3. PlaceInv' /\ QueueInv' /\ CountInv' /\ ResultInv'
  BY <1>2, OwnerWaits DEF IInv, QueueInv, PlaceInv
<1>4. FutureType' /\ WorkerType' /\ Packets' = Packets
  BY DEF IInv, PoolInv, FutureType, WorkerType, Packets, Versions
<1>5. \A w \in Workers : WorkerOK(w)'
  <2>1. UNCHANGED <<worker, broken, pc>>
    BY DEF owner
  <2> QED
    BY <1>1, <1>4, <2>1 DEF IInv, PoolInv, WorkerOK, At, ShutDown, Past
<1>6. /\ FutureAt("queued")' = FutureAt("queued") /\ FutureAt("running")' = FutureAt("running")
      /\ Done' = Done
      /\ \A w \in Workers : (Alive(w)' <=> Alive(w)) /\ (At(w, "busy")' <=> At(w, "busy"))
  BY <1>4 DEF FutureAt, Done, Alive, At
<1>7. \A p \in Packets : future'[p].at = "done" => Past(future[p].code)'
  BY <1>1 DEF IInv, PoolInv, Past
<1>8. Left' => PoolEnded' \/ Abandoned'
  BY <1>6 DEF IInv, PoolInv, PoolEnded, Left, Abandoned, Terminating, owner
<1>9. PoolInv'
  BY <1>4, <1>5, <1>6, <1>7, <1>8 DEF IInv, PoolInv
<1>10. ExcuseInv'
  BY <1>1, <1>6 DEF IInv, ExcuseInv, Excuse, owner
<1> QED
  BY <1>3, <1>9, <1>10 DEF IInv

---------------------------------------------------------------------------
(* The theorems                                                            *)

LEMMA NextIInv ==
  IInv /\ [Next]_vars => IInv'
<1> SUFFICES ASSUME IInv, [Next]_vars PROVE IInv'
  OBVIOUS
<1>1. CASE OwnerStep
  <2>1. CASE \E p \in Packets : Collect(p)
    BY <2>1, CollectKeeps
  <2> QED
    BY <1>1, <2>1, ReadKeeps, SubmitKeeps, BookKeeps, StopFillingKeeps, WaitKeeps,
       NothingPendingKeeps, CheckKeeps, CancelKeeps, StopKeeps, JoinKeeps, CloseKeeps
       DEF OwnerStep
<1>2. CASE Interrupt
  BY <1>2, InterruptKeeps
<1>3. CASE Edit \/ InterruptShutdown
  BY <1>3, EditKeeps, InterruptShutdownKeeps
<1>4. ASSUME NEW w \in Workers, WorkerStep(w) \/ KernelFails(w) \/ Die(w) PROVE IInv'
  BY <1>4, InitializeKeeps, TakeKeeps, ComputeKeeps, LeaveKeeps, TerminatedKeeps,
     KernelFailsKeeps, DieKeeps DEF WorkerStep
<1>5. CASE UNCHANGED vars
  <2>1. OwnerMoves /\ batch' = batch /\ failed' = failed /\ pc' = pc
        /\ interrupted' = interrupted /\ (ShutDown => ShutDown')
    BY <1>5 DEF vars, owner, pool, OwnerMoves, ShutDown
  <2>2. PlaceInv' /\ QueueInv' /\ CountInv' /\ ResultInv'
    BY <1>5, OwnerWaits DEF vars, IInv, QueueInv, SourceInv, PlaceInv, pool
  <2>3. Left' => PoolEnded \/ Abandoned'
    BY <1>5 DEF vars, IInv, PoolInv, Left, Abandoned, Terminating, owner
  <2>4. PoolInv' /\ ExcuseInv'
    BY <2>1, <2>3, PoolFrame, ExcuseFrame DEF IInv, OwnerMoves, pool
  <2> QED
    BY <2>2, <2>4 DEF IInv
<1> QED
  BY <1>1, <1>2, <1>3, <1>4, <1>5 DEF Next

LEMMA Invariant ==
  Spec => []IInv
<1> QED
  BY InitIInv, NextIInv, PTL DEF Spec

\* The packets encoded and not yet collected never exceed the bytes and the
\* workers allowed, and the owner's count of them is exact, up to the first
\* error: for every list of jobs and every order of answers.
THEOREM CapacityKept ==
  Spec => []WithinCapacity
<1>1. IInv => WithinCapacity
  BY CapacityImplied
<1> QED
  BY <1>1, Invariant, PTL

\* An answer is whole and made by the pinned code; a refusal has a reason that is
\* not an order of events (DailyProcessExecutor.evaluate).
THEOREM OutcomesEarned ==
  Spec => []OutcomeIsEarned
<1>1. IInv => OutcomeIsEarned
  BY OutcomeImplied
<1> QED
  BY <1>1, Invariant, PTL

\* When evaluate is left nothing of it runs or waits, also after an error.
THEOREM EndsQuiet ==
  Spec => []QuietAtEnd
<1>1. IInv => QuietAtEnd
  BY QuietImplied
<1> QED
  BY <1>1, Invariant, PTL
=============================================================================
