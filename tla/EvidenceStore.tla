--------------------------- MODULE EvidenceStore ---------------------------
(***************************************************************************)
(* The shared evidence store of the daily reports: one SQLite file of      *)
(* content-addressed nodes (report_objects), written by                    *)
(* EvidenceGraphWriter either in place or through a private copy that      *)
(* LocalSQLiteWorkspace publishes by an atomic replacement, and read by    *)
(* EvidenceGraphReader through a read-only connection and a cache of       *)
(* verified nodes.                                                         *)
(*                                                                         *)
(* A file is its inode: a replacement gives the path another inode, and an *)
(* open connection keeps reading (and keeps alive) the inode it opened.    *)
(* Inode numbers are reused as soon as nobody holds them.  A rollback      *)
(* journal is "begun" once a page was changed and "synced" (hot, when its  *)
(* writer is gone) once the file itself may have been written; it belongs  *)
(* to an inode but is found by the path.                                   *)
(*                                                                         *)
(* The environment: a writer process may be killed at any point, and a     *)
(* foreign program that does not know the writer lock may add or damage an *)
(* object, in place or by replacing the file, or die inside a transaction. *)
(***************************************************************************)
EXTENDS Integers, FiniteSets

CONSTANTS
    Writers,        \* processes that run an EvidenceGraphWriter
    Staged,         \* those with a workspace_root
    Readers,        \* EvidenceGraphReader instances
    Objects,        \* the nodes, by their SHA
    Roots,          \* the nodes that are values (reports)
    Jobs,           \* the sets of reports a run may retain
    Child,          \* Child[o]: the nodes o refers to
    Reach,          \* Reach[o]: o and every node it refers to, directly or not
    Portable,       \* nodes extracted as files in <store>.nodes
    Inodes,
    NoInode, NoWriter,
    MaxFaults       \* bound on kills and foreign edits together

ASSUME StoreAssumption ==
    /\ Staged \subseteq Writers
    /\ Roots \subseteq Objects /\ Jobs \subseteq SUBSET Roots /\ Portable \subseteq Objects
    /\ Child \in [Objects -> SUBSET Objects] /\ Reach \in [Objects -> SUBSET Objects]
    /\ \A o \in Objects : {o} \cup Child[o] \subseteq Reach[o]
    /\ \A o \in Objects : \A c \in Reach[o] : Reach[c] \subseteq Reach[o]
    /\ Inodes \subseteq Nat /\ NoInode \notin Inodes /\ NoWriter \notin Writers
    /\ MaxFaults \in Nat

VARIABLES
    file,       \* inode -> [rows, bad]: the nodes of that file, and the damaged ones
    current,    \* the inode the store's path names
    journal,    \* [kind, of]: the -journal file next to the path
    lock,       \* holder of <store>.writer.lock
    writer,     \* each writer's LocalSQLiteWorkspace and transaction
    acked,      \* nodes of the references writers returned
    reader,     \* each reader's connection, cache and resolve in progress
    dirty,      \* readers whose data_version changed since their last check
    faults

storeVars == <<file, current, journal, lock, writer, acked, reader, dirty, faults>>

Blank == [rows |-> {}, bad |-> {}]
NoJournal == [kind |-> "none", of |-> NoInode]

(* The nodes of some values.                                                *)
NodesOf(S) == UNION {Reach[o] : o \in S}

Content(i) == IF i = NoInode THEN Blank ELSE file[i]

(* What _stamp compares: inode, size and times change with the content.     *)
Stamp == <<current, Content(current)>>

Intact(i) == Content(i).rows \ Content(i).bad

(* What a reader of the path can be given.                                  *)
Held == Content(current).rows \cup Portable

IdleWriter ==
    [at |-> "idle", want |-> {}, refs |-> {}, base |-> <<NoInode, Blank>>, work |-> Blank, temp |-> NoInode]
NewReader ==
    [at |-> "idle", seen |-> NoInode, conn |-> NoInode, fid |-> NoInode,
     cache |-> {}, todo |-> {}, missed |-> FALSE]

Init ==
    /\ file = [i \in Inodes |-> Blank]
    /\ current = NoInode
    /\ journal = NoJournal
    /\ lock = NoWriter
    /\ writer = [x \in Writers |-> IdleWriter]
    /\ acked = {}
    /\ reader = [r \in Readers |-> NewReader]
    /\ dirty = {}
    /\ faults = 0

At(x, phase) == writer[x].at = phase
Go(x, changes) == writer' = [writer EXCEPT ![x] = changes]
To(x, phase) == Go(x, [writer[x] EXCEPT !.at = phase])

(* A number is free when neither the path, an open connection nor a        *)
(* temporary file has it, and no reader is between the two stats of its    *)
(* open (the assumption that an open does not last two publications).      *)
Pinned ==
    {current} \cup {reader[r].conn : r \in Readers} \cup {writer[x].temp : x \in Writers}
        \cup {reader[r].seen : r \in {q \in Readers : reader[q].at \in {"open", "restat"}}}
FreeInodes == Inodes \ Pinned

(* The file system gives out the lowest free number.                        *)
NewInodes == {i \in FreeInodes : \A j \in FreeInodes : i <= j}

(* The files that still exist after a step: the one the path names, and     *)
(* those of open connections.                                               *)
Kept(f) == [i \in Inodes |-> IF i = current' \/ \E r \in Readers : reader'[r].conn = i THEN f[i] ELSE Blank]

Working(x) == ~At(x, "idle") /\ ~At(x, "wait")
InPlace(x) == x \notin Staged
Inserted(x) == writer[x].work.rows # Content(current).rows
InTransaction == \E x \in Writers : InPlace(x) /\ At(x, "fill")

(***************************************************************************)
(* Writers                                                                 *)
(***************************************************************************)
(* A report run opens a writer; it first needs the lock, and then it will    *)
(* retain the reports W.                                                     *)
Begin(x) ==
    /\ At(x, "idle")
    /\ To(x, "wait")
    /\ UNCHANGED <<file, current, journal, lock, acked, reader, dirty, faults>>

(* Mutant: only staged writers wait for the lock.                           *)
AcquireDirect(x, W) ==
    /\ At(x, "wait")
    /\ lock = NoWriter \/ InPlace(x)
    /\ lock' = IF lock = NoWriter THEN x ELSE lock
    /\ Go(x, [IdleWriter EXCEPT !.at = IF InPlace(x) THEN "open" ELSE "stamp", !.want = W])
    /\ UNCHANGED <<file, current, journal, acked, reader, dirty, faults>>

Acquire(x, W) ==
    /\ At(x, "wait") /\ lock = NoWriter
    /\ lock' = x
    /\ Go(x, [IdleWriter EXCEPT !.at = IF InPlace(x) THEN "open" ELSE "stamp", !.want = W])
    /\ UNCHANGED <<file, current, journal, acked, reader, dirty, faults>>

(* EVIDENCE_STORE_WRITER_BUSY after thirty seconds: the run fails.          *)
Busy(x) ==
    /\ At(x, "wait") /\ lock # NoWriter
    /\ Go(x, IdleWriter)
    /\ UNCHANGED <<file, current, journal, lock, acked, reader, dirty, faults>>

(* The baseline of a staged writer; an open source is refused.              *)
TakeStamp(x) ==
    /\ At(x, "stamp") /\ journal = NoJournal
    /\ Go(x, [writer[x] EXCEPT !.at = "seed", !.base = Stamp])
    /\ UNCHANGED <<file, current, journal, lock, acked, reader, dirty, faults>>

Seed(x) ==
    /\ At(x, "seed") /\ journal.kind # "synced"
    /\ Go(x, [writer[x] EXCEPT !.at = "seeded",
                               !.work = Content(IF writer[x].base[1] = NoInode THEN NoInode ELSE current)])
    /\ UNCHANGED <<file, current, journal, lock, acked, reader, dirty, faults>>

CheckSeed(x) ==
    /\ At(x, "seeded")
    /\ writer[x].base[1] = NoInode \/ Stamp = writer[x].base
    /\ To(x, "fill")
    /\ UNCHANGED <<file, current, journal, lock, acked, reader, dirty, faults>>

(* An in-place writer opens the file itself: it creates it, or rolls a hot  *)
(* journal back, which damages a file the journal does not belong to.       *)
RolledBack ==
    IF journal.kind = "synced" /\ journal.of # current
    THEN [Content(current) EXCEPT !.bad = Content(current).rows] ELSE Content(current)

Open(x) ==
    /\ At(x, "open")
    /\ \E i \in IF current = NoInode THEN NewInodes ELSE {current} :
          /\ current' = i
          /\ file' = [file EXCEPT ![i] = RolledBack]
    /\ Go(x, [writer[x] EXCEPT !.at = "fill", !.work = RolledBack])
    /\ journal' = IF journal.kind = "synced" THEN NoJournal ELSE journal
    /\ UNCHANGED <<lock, acked, reader, dirty, faults>>

(* retain: every node of the report that the store does not hold yet is     *)
(* inserted; a stored node with other bytes is a HASH_MISMATCH (Refuse).    *)
Retain(x, o) ==
    LET kept == writer[x].work.rows \cup (Reach[o] \ Portable)
    IN  /\ At(x, "fill") /\ o \in writer[x].want
        /\ Reach[o] \cap writer[x].work.bad = {}
        /\ Go(x, [writer[x] EXCEPT !.want = @ \ {o}, !.refs = @ \cup {o}, !.work.rows = kept])
        /\ journal' = IF InPlace(x) /\ kept # writer[x].work.rows /\ ~(Inserted(x) /\ journal.kind = "synced")
                      THEN [kind |-> "begun", of |-> current] ELSE journal
        /\ UNCHANGED <<file, current, lock, acked, reader, dirty, faults>>

(* The journal reaches the disk, at the commit or when the cache spills.    *)
SyncJournal(x) ==
    /\ At(x, "fill") /\ InPlace(x) /\ Inserted(x) /\ journal.kind = "begun"
    /\ journal' = [journal EXCEPT !.kind = "synced"]
    /\ UNCHANGED <<file, current, lock, writer, acked, reader, dirty, faults>>

CommitInPlace(x) ==
    /\ At(x, "fill") /\ InPlace(x) /\ writer[x].want = {}
    /\ To(x, "done")
    /\ \/ /\ Inserted(x) /\ journal.kind = "synced"
          /\ file' = [file EXCEPT ![current] = writer[x].work]
          /\ journal' = NoJournal
          /\ dirty' = dirty \cup {r \in Readers : reader[r].conn = current}
       \/ /\ ~Inserted(x)
          /\ UNCHANGED <<file, journal, dirty>>
    /\ UNCHANGED <<current, lock, acked, reader, faults>>

(* publish: the committed and verified work file is copied beside the store *)
PublishCopy(x) ==
    /\ At(x, "fill") /\ ~InPlace(x) /\ writer[x].want = {}
    /\ \E i \in NewInodes : Go(x, [writer[x] EXCEPT !.at = "copied", !.temp = i])
    /\ UNCHANGED <<file, current, journal, lock, acked, reader, dirty, faults>>

(* Mutant: the destination is not looked at for a journal again.            *)
CompareOpen(x) ==
    /\ At(x, "copied") /\ Stamp = writer[x].base
    /\ To(x, "swap")
    /\ UNCHANGED <<file, current, journal, lock, acked, reader, dirty, faults>>

(* Mutant: the destination is not compared with the baseline again.         *)
CompareUnstamped(x) ==
    /\ At(x, "copied") /\ journal = NoJournal
    /\ To(x, "swap")
    /\ UNCHANGED <<file, current, journal, lock, acked, reader, dirty, faults>>

(* ... compared with the baseline once more ...                             *)
Compare(x) ==
    /\ At(x, "copied") /\ journal = NoJournal /\ Stamp = writer[x].base
    /\ To(x, "swap")
    /\ UNCHANGED <<file, current, journal, lock, acked, reader, dirty, faults>>

(* ... and given the store's name.                                          *)
Replace(x) ==
    LET i == writer[x].temp
    IN  /\ At(x, "swap")
        /\ current' = i
        /\ Go(x, [writer[x] EXCEPT !.at = "done", !.temp = NoInode])
        /\ UNCHANGED <<journal, lock, acked, reader, dirty, faults>>
        /\ file' = Kept([file EXCEPT ![i] = writer[x].work])

Release(x) ==
    /\ lock' = IF lock = x THEN NoWriter ELSE lock
    /\ Go(x, IdleWriter)

(* The writer's __exit__ returns: its references may be published.          *)
Return(x) ==
    /\ At(x, "done")
    /\ acked' = acked \cup NodesOf(writer[x].refs)
    /\ Release(x)
    /\ UNCHANGED <<file, current, journal, reader, dirty, faults>>

(* Mutant: an exception while the work copy is seeded keeps the lock.       *)
RefuseLocked(x) ==
    /\ lock = x /\ ~At(x, "leaving")
    /\ lock' = IF At(x, "seeded") THEN lock ELSE NoWriter
    /\ Go(x, IdleWriter)
    /\ journal' = IF At(x, "fill") /\ InPlace(x) /\ Inserted(x) THEN NoJournal ELSE journal
    /\ UNCHANGED <<file, current, acked, reader, dirty, faults>>

(* Any exception between the lock and the return: rollback, no reference.   *)
Refuse(x) ==
    /\ lock = x /\ ~At(x, "leaving")
    /\ Release(x)
    /\ journal' = IF At(x, "fill") /\ InPlace(x) /\ Inserted(x) THEN NoJournal ELSE journal
    /\ UNCHANGED <<file, current, acked, reader, dirty, faults>>

(* close cannot remove the private directory, on a clean exit or not: it    *)
(* raises before its unlock, and no reference is returned ...               *)
CleanupFails(x) ==
    /\ ~InPlace(x) /\ writer[x].at \in {"seed", "seeded", "fill", "copied", "swap", "done"}
    /\ Go(x, [IdleWriter EXCEPT !.at = "leaving"])
    /\ UNCHANGED <<file, current, journal, lock, acked, reader, dirty, faults>>

(* ... so that the lock goes with its file object, when the handled         *)
(* exception lets go of the writer.                                         *)
DropLock(x) ==
    /\ At(x, "leaving")
    /\ Release(x)
    /\ UNCHANGED <<file, current, journal, acked, reader, dirty, faults>>

(* The process is killed: the kernel drops its lock, its files stay.        *)
Kill(x) ==
    /\ faults < MaxFaults /\ ~At(x, "idle")
    /\ faults' = faults + 1
    /\ Release(x)
    /\ UNCHANGED <<file, current, journal, acked, reader, dirty>>

(***************************************************************************)
(* A program that does not obey the writer lock.  It respects SQLite's own *)
(* locks, and it does not hit the instant between the last comparison and  *)
(* the replacement ("Foreign writers must obey that lock too").            *)
(***************************************************************************)
ForeignMayAct ==
    /\ faults < MaxFaults /\ faults' = faults + 1
    /\ current # NoInode /\ journal = NoJournal /\ ~InTransaction
    /\ \A x \in Writers : ~At(x, "swap")

ForeignEdit ==
    /\ ForeignMayAct
    /\ \E o \in Objects, i \in {current} \cup NewInodes :
       \E c \in {[Content(current) EXCEPT !.rows = @ \cup {o}],
                 [Content(current) EXCEPT !.bad = @ \cup ({o} \cap Content(current).rows)]} :
          /\ c # Content(current)
          /\ current' = i
          /\ dirty' = dirty \cup {r \in Readers : reader[r].conn = i}
          /\ UNCHANGED <<journal, lock, writer, acked, reader>>
          /\ file' = Kept([file EXCEPT ![i] = c])

ForeignDies ==
    /\ ForeignMayAct
    /\ \E k \in {"begun", "synced"} : journal' = [kind |-> k, of |-> current]
    /\ UNCHANGED <<file, current, lock, writer, acked, reader, dirty>>

(***************************************************************************)
(* Readers                                                                 *)
(***************************************************************************)
Read(r, changes) == reader' = [reader EXCEPT ![r] = changes]

(* A resolve ends; the connection, the inode it is for and the cache stay.  *)
Ended(q) == [q EXCEPT !.at = "idle", !.seen = NoInode, !.todo = {}]

Closed(q) == [q EXCEPT !.conn = NoInode, !.fid = NoInode, !.cache = {}]

(* Mutant: an open connection is kept whatever inode the path names.        *)
StatWarm(r, o) ==
    LET q == reader[r]
    IN  /\ q.at = "idle" /\ o \in Roots \cap acked
        /\ Read(r, [q EXCEPT !.at = IF q.conn = NoInode THEN "open" ELSE "check", !.todo = {o}, !.seen = current])
        /\ UNCHANGED <<file, current, journal, lock, writer, acked, dirty, faults>>

(* check_store, first stat: another inode closes the connection.            *)
Stat(r, o) ==
    LET q == reader[r]
        p == IF q.conn # NoInode /\ q.fid # current THEN Closed(q) ELSE q
    IN  /\ q.at = "idle" /\ o \in Roots \cap acked
        /\ Read(r, [p EXCEPT !.at = IF p.conn = NoInode THEN "open" ELSE "check",
                             !.todo = {o}, !.seen = current])
        /\ dirty' = IF p.conn = NoInode THEN dirty \ {r} ELSE dirty
        /\ UNCHANGED <<current, journal, lock, writer, acked, faults>>
        /\ file' = Kept(file)

Connect(r) ==
    /\ reader[r].at = "open"
    /\ Read(r, [reader[r] EXCEPT !.at = "restat", !.conn = current])
    /\ UNCHANGED <<file, current, journal, lock, writer, acked, dirty, faults>>

(* The second stat: STORE_CHANGED_DURING_OPEN, or the connection is kept.   *)
Restat(r) ==
    LET q == reader[r]
    IN  /\ q.at = "restat"
        /\ Read(r, IF current = q.seen THEN [q EXCEPT !.at = "check", !.fid = current]
                   ELSE Ended([q EXCEPT !.conn = NoInode]))
        /\ UNCHANGED <<current, journal, lock, writer, acked, dirty, faults>>
        /\ file' = Kept(file)

(* A read-only connection can neither roll a hot journal back nor pass the  *)
(* exclusive lock of a commit.                                              *)
Unreadable == journal.kind = "synced"

Locked(r) ==
    /\ reader[r].at \in {"check", "decode"} /\ Unreadable
    /\ Read(r, Ended(reader[r]))
    /\ UNCHANGED <<file, current, journal, lock, writer, acked, dirty, faults>>

(* Mutant: the cache survives a commit of another connection.               *)
CheckVersionWarm(r) ==
    /\ reader[r].at = "check" /\ ~Unreadable
    /\ Read(r, [reader[r] EXCEPT !.at = "decode", !.seen = NoInode])
    /\ dirty' = dirty \ {r}
    /\ UNCHANGED <<file, current, journal, lock, writer, acked, faults>>

(* data_version: a commit of another connection empties the cache.          *)
CheckVersion(r) ==
    LET q == reader[r]
    IN  /\ q.at = "check" /\ ~Unreadable
        /\ Read(r, [q EXCEPT !.at = "decode", !.seen = NoInode,
                             !.cache = IF r \in dirty THEN {} ELSE @])
        /\ dirty' = dirty \ {r}
        /\ UNCHANGED <<file, current, journal, lock, writer, acked, faults>>

(* A batch of sibling nodes: from the cache, else from the connection       *)
(* (verified and remembered, for which older nodes may be evicted), else    *)
(* from the extracted files.                                                *)
Decode(r, B) ==
    LET q == reader[r]
        rows == B \ q.cache
        read == rows \cap Content(q.conn).rows
        absent == rows \ (Content(q.conn).rows \cup Portable)
        rest == (q.todo \ B) \cup UNION {Child[o] : o \in B}
    IN  /\ q.at = "decode" /\ B \subseteq q.todo /\ B # {}
        /\ rows = {} \/ ~Unreadable
        /\ \/ /\ read \cap Content(q.conn).bad # {}
              /\ Read(r, Ended(q))
           \/ /\ read \cap Content(q.conn).bad = {} /\ absent # {}
              /\ Read(r, [Ended(q) EXCEPT !.missed = TRUE])
           \/ /\ read \cap Content(q.conn).bad = {} /\ absent = {}
              /\ \E kept \in IF read = {} THEN {q.cache} ELSE SUBSET q.cache :
                    Read(r, [q EXCEPT !.cache = kept \cup read, !.todo = rest])
        /\ UNCHANGED <<file, current, journal, lock, writer, acked, dirty, faults>>

Resolved(r) ==
    /\ reader[r].at = "decode" /\ reader[r].todo = {}
    /\ Read(r, Ended(reader[r]))
    /\ UNCHANGED <<file, current, journal, lock, writer, acked, dirty, faults>>

(* The reader is left, or its connections are needed for other stores.      *)
Disconnect(r) ==
    /\ reader[r].at = "idle" /\ reader[r].conn # NoInode
    /\ Read(r, Closed(reader[r]))
    /\ UNCHANGED <<current, journal, lock, writer, acked, dirty, faults>>
    /\ file' = Kept(file)
-----------------------------------------------------------------------------
Work(x) ==
    \/ Refuse(x) \/ CleanupFails(x) \/ DropLock(x) \/ Busy(x)
    \/ \E W \in Jobs : Acquire(x, W)
    \/ TakeStamp(x) \/ Seed(x) \/ CheckSeed(x) \/ Open(x)
    \/ \E o \in Roots : Retain(x, o)
    \/ SyncJournal(x) \/ CommitInPlace(x) \/ PublishCopy(x) \/ Compare(x) \/ Replace(x)

Resolve(r) ==
    \/ \E o \in Roots : Stat(r, o)
    \/ Connect(r) \/ Restat(r) \/ Locked(r) \/ CheckVersion(r)
    \/ \E B \in SUBSET Objects : Decode(r, B)
    \/ Resolved(r) \/ Disconnect(r)

Foreign == ForeignEdit \/ ForeignDies

Next ==
    \/ \E x \in Writers : Begin(x) \/ Work(x) \/ Return(x) \/ Kill(x)
    \/ \E r \in Readers : Resolve(r)
    \/ Foreign

Fairness == \A x \in Writers : WF_storeVars(Work(x) \/ Return(x))

Spec == Init /\ [][Next]_storeVars /\ Fairness
-----------------------------------------------------------------------------
Phases == {"idle", "wait", "open", "stamp", "seed", "seeded", "fill", "copied", "swap", "done", "leaving"}
Contents == [rows : SUBSET Objects, bad : SUBSET Objects]
MaybeInode == Inodes \cup {NoInode}

WriterRecs ==
    [at : Phases, want : SUBSET Roots, refs : SUBSET Roots,
     base : MaybeInode \X Contents, work : Contents, temp : MaybeInode]
ReaderRecs ==
    [at : {"idle", "open", "restat", "check", "decode"}, seen : MaybeInode, conn : MaybeInode,
     fid : MaybeInode, cache : SUBSET Objects, todo : SUBSET Objects, missed : BOOLEAN]

(* Every variable has its type, and only the holder of the writer lock is   *)
(* past the wait for it.                                                    *)
TypeOK ==
    /\ file \in [Inodes -> Contents]
    /\ current \in MaybeInode
    /\ journal \in [kind : {"none", "begun", "synced"}, of : MaybeInode]
    /\ lock \in Writers \cup {NoWriter}
    /\ writer \in [Writers -> WriterRecs]
    /\ acked \in SUBSET Objects
    /\ reader \in [Readers -> ReaderRecs]
    /\ dirty \in SUBSET Readers
    /\ faults \in 0..MaxFaults
    /\ \A x \in Writers : Working(x) => lock = x

(* No resolve of a returned reference ends with OBJECT_MISSING, also when   *)
(* the file is replaced before, while and after the connection is opened.   *)
NeverMissing == \A r \in Readers : ~reader[r].missed

(* When check_store lets a resolve start, every cached node is intact in    *)
(* the very file the path named at its stat: a replaced or externally       *)
(* edited file is never hidden by a warm cache.                             *)
CacheNeverHides ==
    [][\A r \in Readers : reader[r].at = "check" /\ reader'[r].at = "decode" =>
          reader[r].conn = reader[r].seen /\ reader'[r].cache \subseteq Intact(reader[r].conn)]_storeVars

(* Only a foreign edit damages what the store holds: no writer rolls the    *)
(* journal of another file back into it, and nothing intact is lost.        *)
OnlyForeignDamage == [][Foreign \/ Intact(current) \subseteq Intact(current)']_storeVars

(* Whoever takes the writer lock gives it back, on every path.              *)
LockIsReleased == \A x \in Writers : lock = x ~> lock # x

Ledger == INSTANCE ObjectLedger WITH held <- Held, promised <- acked

(* The store is an append-only set of objects that hands references out     *)
(* only for what it holds.                                                  *)
AppendOnly == Ledger!Spec
=============================================================================
