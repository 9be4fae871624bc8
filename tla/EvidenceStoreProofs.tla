------------------------ MODULE EvidenceStoreProofs ------------------------
(***************************************************************************)
(* Theorems of EvidenceStore, for every set of writers, readers, objects   *)
(* and inodes, every reference graph, and any number of faults.            *)
(***************************************************************************)
EXTENDS EvidenceStore, TLAPS

\* No node was lost, and none that was intact was damaged.
Grows(old, new) == old.rows \subseteq new.rows
Keeps(old, new) == old.rows \subseteq new.rows /\ new.bad \subseteq old.bad

\* The content of an inode among given files.
Among(f, i) == IF i = NoInode THEN Blank ELSE f[i]

\* What the phase of a writer says of its work copy and its temporary file.
WriterInv(x) ==
  LET w == writer[x]
  IN /\ w.at \in {"stamp", "seed", "seeded", "copied", "swap"} => x \in Staged
     /\ w.at = "open" => x \notin Staged
     /\ w.base[1] = NoInode => w.base[2] = Blank
     /\ w.at \notin {"fill", "copied", "swap", "done"} => w.refs = {}
     /\ w.temp # NoInode => w.at \in {"copied", "swap"}
     /\ w.at \in {"copied", "swap"} =>
          /\ w.temp \in Inodes /\ w.temp # current
          /\ \A r \in Readers : reader[r].conn # w.temp
          /\ \A r \in Readers : reader[r].at \in {"open", "restat"} => reader[r].seen # w.temp
     /\ w.at = "seed" => Grows(w.base[2], Content(current))
     /\ w.at = "seeded" =>
          /\ w.base[2].rows \subseteq w.work.rows
          /\ w.base[1] = NoInode => w.work = Blank
          /\ w.work.bad \subseteq Content(current).bad
     /\ x \in Staged /\ w.at \in {"fill", "copied", "swap"} => Keeps(w.base[2], w.work)
     /\ w.at = "swap" => Keeps(Content(current), w.work) /\ journal = NoJournal
     /\ x \notin Staged /\ w.at = "fill" => current # NoInode /\ Keeps(Content(current), w.work)
     /\ w.at \in {"fill", "copied", "swap"} => NodesOf(w.refs) \subseteq w.work.rows \cup Portable
     /\ w.at = "done" => NodesOf(w.refs) \subseteq Held

\* What the phase of a reader says of its connection and its cache.
ReaderInv(r) ==
  LET q == reader[r]
  IN /\ ~q.missed
     /\ q.at \in {"open", "restat", "check"} => NodesOf(q.todo) \subseteq acked
     /\ q.at \in {"restat", "check", "decode"} =>
          NodesOf(q.todo) \subseteq Content(q.conn).rows \cup Portable
     /\ q.at = "restat" => (current = q.seen => q.conn = current)
     /\ q.at = "check" => q.conn = q.seen
     /\ q.at \in {"idle", "check", "decode"} => q.fid = q.conn
     /\ q.at \in {"open", "restat"} => q.fid = NoInode /\ q.cache = {}
     /\ q.at = "open" => q.conn = NoInode
     /\ q.conn = NoInode => q.cache = {}
     /\ r \notin dirty => q.cache \subseteq Intact(q.conn)

\* What the path names holds every reference that was returned, and a
\* journal beside it is its own.
StoreInv ==
  /\ acked \subseteq Held
  /\ \A o \in acked : Reach[o] \subseteq acked
  /\ journal = NoJournal \/ (journal.of = current /\ current # NoInode)

IInv ==
  /\ TypeOK
  /\ StoreInv
  /\ \A x \in Writers : WriterInv(x)
  /\ \A r \in Readers : ReaderInv(r)

LEMMA InitIInv == Init => IInv
<1> SUFFICES ASSUME Init PROVE IInv
  OBVIOUS
<1> USE StoreAssumption DEF Init
<1>1. TypeOK
  <2>1. IdleWriter \in WriterRecs
    BY DEF IdleWriter, WriterRecs, Phases, MaybeInode, Contents, Blank
  <2>2. NewReader \in ReaderRecs
    BY DEF NewReader, ReaderRecs, MaybeInode
  <2> QED
    BY <2>1, <2>2 DEF TypeOK, Working, At, IdleWriter, Contents, Blank, MaybeInode, NoJournal
<1>2. StoreInv
  BY DEF StoreInv, Held
<1>3. ASSUME NEW x \in Writers PROVE WriterInv(x)
  BY DEF WriterInv, IdleWriter
<1>4. ASSUME NEW r \in Readers PROVE ReaderInv(r)
  BY DEF ReaderInv, NewReader, NodesOf
<1> QED
  BY <1>1, <1>2, <1>3, <1>4 DEF IInv

\* A step that changes the record of one writer, the lock and the journal
\* only leaves every reader and the store's promise as they were.
LEMMA ReadersFrame ==
  ASSUME UNCHANGED <<file, current, acked, reader, dirty>>, \A r \in Readers : ReaderInv(r)
  PROVE  \A r \in Readers : ReaderInv(r)'
BY DEF ReaderInv, Content, Intact

LEMMA PromiseFrame ==
  ASSUME UNCHANGED <<file, current, acked>>, StoreInv,
         journal' = NoJournal \/ (journal'.of = current /\ current # NoInode)
  PROVE  StoreInv'
BY DEF StoreInv, Held, Content, NoJournal

\* A writer that does not move is not disturbed while the files, the journal
\* and the readers do not change, nor when it is outside the lock.
LEMMA WriterFrame ==
  ASSUME NEW y \in Writers, WriterInv(y), writer'[y] = writer[y],
         UNCHANGED <<file, current, journal, reader>>
  PROVE  WriterInv(y)'
BY DEF WriterInv, Content, Held

LEMMA OutsideFrame ==
  ASSUME NEW y \in Writers, WriterInv(y), writer'[y] = writer[y], ~Working(y)
  PROVE  WriterInv(y)'
BY DEF WriterInv, Working, At

LEMMA HolderIsAlone ==
  ASSUME TypeOK, NEW x \in Writers, NEW y \in Writers \ {x}, lock = x
  PROVE  ~Working(y)
BY DEF TypeOK

LEMMA WriterOnlyStep ==
  ASSUME IInv, TypeOK', NEW x \in Writers, UNCHANGED <<file, current, acked, reader, dirty>>,
         \A y \in Writers \ {x} : writer'[y] = writer[y],
         WriterInv(x)',
         journal' = NoJournal \/ (journal'.of = current /\ current # NoInode),
         journal' = journal \/ lock = x
  PROVE  IInv'
<1>1. \A r \in Readers : ReaderInv(r)'
  BY ReadersFrame DEF IInv
<1>2. StoreInv'
  BY PromiseFrame DEF IInv
<1>3. ASSUME NEW y \in Writers \ {x} PROVE WriterInv(y)'
  <2>1. CASE journal' = journal
    BY <2>1, WriterFrame DEF IInv
  <2>2. CASE lock = x
    BY <2>2, HolderIsAlone, OutsideFrame DEF IInv
  <2> QED
    BY <2>1, <2>2
<1> QED
  BY <1>1, <1>2, <1>3 DEF IInv

\* The record of an idle writer, and what an exit leaves of the locks.
LEMMA IdleFacts ==
  /\ IdleWriter \in WriterRecs
  /\ IdleWriter.at = "idle" /\ IdleWriter.temp = NoInode
  /\ IdleWriter.base = <<NoInode, Blank>> /\ IdleWriter.work = Blank /\ IdleWriter.refs = {}
BY DEF IdleWriter, WriterRecs, Phases, MaybeInode, Contents, Blank

\* An exit, clean or not: the writer is idle again and its lock is free.
LEMMA ReleaseTypes ==
  ASSUME TypeOK, NEW x \in Writers, Release(x)
  PROVE  /\ writer' \in [Writers -> WriterRecs]
         /\ lock' \in Writers \cup {NoWriter}
         /\ \A y \in Writers : Working(y)' => lock' = y
         /\ writer'[x] = IdleWriter
         /\ \A y \in Writers \ {x} : writer'[y] = writer[y]
<1>1. writer' = [writer EXCEPT ![x] = IdleWriter]
  BY DEF Release, Go
<1>2. writer'[x] = IdleWriter /\ \A y \in Writers \ {x} : writer'[y] = writer[y]
  BY <1>1 DEF TypeOK
<1>3. ASSUME NEW y \in Writers, Working(y)' PROVE lock' = y
  <2>1. y # x
    BY <1>2, <1>3, IdleFacts DEF Working, At
  <2>2. Working(y)
    BY <1>2, <1>3, <2>1 DEF Working, At
  <2> QED
    BY <2>1, <2>2 DEF TypeOK, Release
<1> QED
  BY <1>1, <1>2, <1>3, IdleFacts DEF TypeOK, Release

LEMMA IdleInv ==
  ASSUME NEW x \in Writers, writer'[x] = IdleWriter
  PROVE  WriterInv(x)'
BY IdleFacts DEF WriterInv

LEMMA LeaveStep ==
  ASSUME IInv, NEW x \in Writers, Busy(x) \/ Refuse(x) \/ DropLock(x) \/ Kill(x)
  PROVE  IInv'
<1>1. UNCHANGED <<file, current, acked, reader, dirty>>
  BY DEF Busy, Refuse, DropLock, Kill
<1>2. /\ writer' \in [Writers -> WriterRecs]
      /\ lock' \in Writers \cup {NoWriter}
      /\ \A y \in Writers : Working(y)' => lock' = y
      /\ writer'[x] = IdleWriter
      /\ \A y \in Writers \ {x} : writer'[y] = writer[y]
  <2>1. CASE Busy(x)
    BY <2>1, IdleFacts DEF Busy, Go, IInv, TypeOK, Working, At
  <2>2. CASE Refuse(x) \/ DropLock(x) \/ Kill(x)
    BY <2>2, ReleaseTypes DEF Refuse, DropLock, Kill, IInv
  <2> QED
    BY <2>1, <2>2
<1>3. /\ journal' \in [kind : {"none", "begun", "synced"}, of : MaybeInode]
      /\ journal' = NoJournal \/ (journal'.of = current /\ current # NoInode)
      /\ journal' = journal \/ lock = x
  BY DEF Busy, Refuse, DropLock, Kill, IInv, TypeOK, StoreInv, NoJournal, MaybeInode
<1>4. faults' \in 0..MaxFaults
  BY StoreAssumption DEF Busy, Refuse, DropLock, Kill, IInv, TypeOK
<1>5. TypeOK'
  BY <1>1, <1>2, <1>3, <1>4 DEF IInv, TypeOK
<1> QED
  BY <1>1, <1>2, <1>3, <1>5, IdleInv, WriterOnlyStep

\* A step that gives one writer, which holds the lock, another record.
LEMMA GoTypes ==
  ASSUME TypeOK, NEW x \in Writers, NEW w \in WriterRecs, Go(x, w), lock' = x,
         \A y \in Writers \ {x} : Working(y) => lock = y /\ lock' = lock,
         UNCHANGED <<file, current, acked, reader, dirty, faults>>,
         journal' \in [kind : {"none", "begun", "synced"}, of : MaybeInode]
  PROVE  TypeOK' /\ writer'[x] = w /\ \A y \in Writers \ {x} : writer'[y] = writer[y]
<1>1. writer'[x] = w /\ \A y \in Writers \ {x} : writer'[y] = writer[y]
  BY DEF Go, TypeOK
<1>2. writer' \in [Writers -> WriterRecs]
  BY DEF Go, TypeOK
<1>3. \A y \in Writers : Working(y)' => lock' = y
  BY <1>1 DEF Working, At, TypeOK
<1> QED
  BY <1>1, <1>2, <1>3 DEF TypeOK

LEMMA BeginStep ==
  ASSUME IInv, NEW x \in Writers, Begin(x)
  PROVE  IInv'
<1>1. /\ writer'[x] = [writer[x] EXCEPT !.at = "wait"]
      /\ \A y \in Writers \ {x} : writer'[y] = writer[y]
  BY DEF Begin, To, Go, IInv, TypeOK
<1>2. TypeOK'
  <2>1. writer' \in [Writers -> WriterRecs]
    <3>1. "wait" \in Phases
      BY DEF Phases
    <3>2. \A w \in WriterRecs : [w EXCEPT !.at = "wait"] \in WriterRecs
      BY <3>1 DEF WriterRecs
    <3> QED
      BY <3>2 DEF Begin, To, Go, IInv, TypeOK
  <2>2. writer'[x].at = "wait"
    BY <1>1 DEF IInv, TypeOK, WriterRecs
  <2> QED
    BY <1>1, <2>1, <2>2 DEF Begin, IInv, TypeOK, Working, At
<1>3. WriterInv(x)'
  BY <1>1 DEF Begin, At, IInv, TypeOK, WriterRecs, WriterInv
<1> QED
  BY <1>1, <1>2, <1>3, WriterOnlyStep DEF Begin, IInv, StoreInv

LEMMA AcquireStep ==
  ASSUME IInv, NEW x \in Writers, NEW W \in Jobs, Acquire(x, W)
  PROVE  IInv'
<1> DEFINE w == [IdleWriter EXCEPT !.at = IF InPlace(x) THEN "open" ELSE "stamp", !.want = W]
<1>1. /\ w \in WriterRecs /\ w.at = IF InPlace(x) THEN "open" ELSE "stamp"
      /\ w.temp = NoInode /\ w.base = <<NoInode, Blank>> /\ w.refs = {}
  BY IdleFacts, StoreAssumption DEF IdleWriter, WriterRecs, Phases
<1>2. Go(x, w) /\ lock' = x /\ UNCHANGED <<file, current, journal, acked, reader, dirty, faults>>
  BY DEF Acquire
<1>3. \A y \in Writers \ {x} : ~Working(y)
  BY StoreAssumption DEF Acquire, IInv, TypeOK
<1>4. TypeOK' /\ writer'[x] = w /\ \A y \in Writers \ {x} : writer'[y] = writer[y]
  BY <1>1, <1>2, <1>3, GoTypes DEF IInv, TypeOK
<1>5. WriterInv(x)'
  BY <1>1, <1>4 DEF WriterInv, InPlace
<1> QED
  BY <1>2, <1>4, <1>5, WriterOnlyStep DEF IInv, StoreInv

\* The steps of the lock's holder that change no file.
LEMMA HolderStep ==
  ASSUME IInv, NEW x \in Writers, Working(x), NEW w \in WriterRecs, Go(x, w),
         UNCHANGED <<file, current, lock, acked, reader, dirty, faults>>,
         journal' \in [kind : {"none", "begun", "synced"}, of : MaybeInode],
         journal' = NoJournal \/ (journal'.of = current /\ current # NoInode),
         writer'[x] = w => WriterInv(x)'
  PROVE  IInv'
<1>1. lock = x
  BY DEF IInv, TypeOK
<1>2. TypeOK' /\ writer'[x] = w /\ \A y \in Writers \ {x} : writer'[y] = writer[y]
  BY <1>1, GoTypes DEF IInv, TypeOK
<1> QED
  BY <1>1, <1>2, WriterOnlyStep

LEMMA CleanupFailsStep ==
  ASSUME IInv, NEW x \in Writers, CleanupFails(x)
  PROVE  IInv'
<1> DEFINE w == [IdleWriter EXCEPT !.at = "leaving"]
<1>1. /\ w \in WriterRecs /\ w.at = "leaving" /\ w.temp = NoInode
      /\ w.base = <<NoInode, Blank>> /\ w.refs = {}
  BY IdleFacts DEF IdleWriter, WriterRecs, Phases
<1>2. Working(x) /\ Go(x, w) /\ UNCHANGED <<file, current, journal, lock, acked, reader, dirty, faults>>
  BY DEF CleanupFails, Working, At
<1>3. writer'[x] = w => WriterInv(x)'
  BY <1>1 DEF WriterInv
<1> QED
  BY <1>1, <1>2, <1>3, HolderStep DEF IInv, TypeOK, StoreInv

LEMMA TakeStampStep ==
  ASSUME IInv, NEW x \in Writers, TakeStamp(x)
  PROVE  IInv'
<1> DEFINE w == [writer[x] EXCEPT !.at = "seed", !.base = Stamp]
<1>1. writer[x] \in WriterRecs /\ WriterInv(x)
  BY DEF IInv, TypeOK
<1>2. Content(current) \in Contents
  BY DEF IInv, TypeOK, Content, Contents, Blank, MaybeInode
<1>3. w \in WriterRecs
  BY <1>1, <1>2 DEF WriterRecs, Phases, Stamp, IInv, TypeOK
<1>4. w.at = "seed" /\ w.base = Stamp /\ w.temp = writer[x].temp
  BY <1>1 DEF WriterRecs
<1>5. ASSUME writer'[x] = w, UNCHANGED <<file, current, reader, journal>> PROVE WriterInv(x)'
  BY <1>1, <1>4, <1>5 DEF TakeStamp, At, WriterInv, Stamp, Content, Grows
<1> QED
  BY <1>3, <1>5, HolderStep DEF TakeStamp, At, Working, IInv, StoreInv, TypeOK

LEMMA SeedStep ==
  ASSUME IInv, NEW x \in Writers, Seed(x)
  PROVE  IInv'
<1> DEFINE c == Content(IF writer[x].base[1] = NoInode THEN NoInode ELSE current)
           w == [writer[x] EXCEPT !.at = "seeded", !.work = c]
<1>1. writer[x] \in WriterRecs /\ WriterInv(x)
  BY DEF IInv, TypeOK
<1>2. c \in Contents
  BY DEF IInv, TypeOK, Content, Contents, Blank, MaybeInode
<1>3. w \in WriterRecs
  BY <1>1, <1>2 DEF WriterRecs, Phases
<1>4. w.at = "seeded" /\ w.base = writer[x].base /\ w.temp = writer[x].temp /\ w.work = c
  BY <1>1 DEF WriterRecs
<1>5. ASSUME writer'[x] = w, UNCHANGED <<file, current, reader, journal>> PROVE WriterInv(x)'
  BY <1>1, <1>4, <1>5 DEF Seed, At, WriterInv, Content, Grows, Blank
<1> QED
  BY <1>3, <1>5, HolderStep DEF Seed, At, Working, IInv, StoreInv, TypeOK

LEMMA CheckSeedStep ==
  ASSUME IInv, NEW x \in Writers, CheckSeed(x)
  PROVE  IInv'
<1> DEFINE w == [writer[x] EXCEPT !.at = "fill"]
<1>1. writer[x] \in WriterRecs /\ WriterInv(x)
  BY DEF IInv, TypeOK
<1>2. w \in WriterRecs
  BY <1>1 DEF WriterRecs, Phases
<1>3. /\ w.at = "fill" /\ w.base = writer[x].base /\ w.temp = writer[x].temp
      /\ w.work = writer[x].work /\ w.refs = writer[x].refs
  BY <1>1 DEF WriterRecs
<1>4. writer[x].refs = {}
  BY <1>1 DEF CheckSeed, At, WriterInv
<1>6. x \in Staged /\ writer[x].at = "seeded" /\ writer[x].temp = NoInode
  BY <1>1 DEF CheckSeed, At, WriterInv
<1>7. Keeps(writer[x].base[2], writer[x].work)
  <2>1. CASE writer[x].base[1] = NoInode
    BY <1>1, <1>6, <2>1 DEF WriterInv, Keeps, Blank
  <2>2. CASE Stamp = writer[x].base
    BY <1>1, <1>6, <2>2 DEF WriterInv, Keeps, Stamp
  <2> QED
    BY <2>1, <2>2 DEF CheckSeed
<1>8. NodesOf({}) = {}
  BY DEF NodesOf
<1>5. ASSUME writer'[x] = w, UNCHANGED <<file, current, reader, journal>> PROVE WriterInv(x)'
  BY <1>1, <1>3, <1>4, <1>5, <1>6, <1>7, <1>8 DEF WriterInv
<1> QED
  BY <1>2, <1>5, HolderStep DEF CheckSeed, To, At, Working, IInv, StoreInv, TypeOK

LEMMA NodesAdd ==
  ASSUME NEW S, NEW o
  PROVE  NodesOf(S \cup {o}) = NodesOf(S) \cup Reach[o]
BY DEF NodesOf

LEMMA RetainStep ==
  ASSUME IInv, NEW x \in Writers, NEW o \in Roots, Retain(x, o)
  PROVE  IInv'
<1> DEFINE kept == writer[x].work.rows \cup (Reach[o] \ Portable)
           w == [writer[x] EXCEPT !.want = @ \ {o}, !.refs = @ \cup {o}, !.work.rows = kept]
<1>1. writer[x] \in WriterRecs /\ WriterInv(x) /\ writer[x].at = "fill"
  BY DEF Retain, At, IInv, TypeOK
<1>2. kept \in SUBSET Objects
  BY <1>1, StoreAssumption DEF WriterRecs, Contents
<1>3. w \in WriterRecs
  BY <1>1, <1>2 DEF WriterRecs, Contents
<1>4. /\ w.at = "fill" /\ w.base = writer[x].base /\ w.temp = writer[x].temp
      /\ w.work.rows = kept /\ w.work.bad = writer[x].work.bad /\ w.refs = writer[x].refs \cup {o}
  BY <1>1 DEF WriterRecs, Contents
<1>5. NodesOf(w.refs) \subseteq w.work.rows \cup Portable
  <2>1. NodesOf(writer[x].refs) \subseteq writer[x].work.rows \cup Portable
    BY <1>1 DEF WriterInv
  <2>2. NodesOf(w.refs) = NodesOf(writer[x].refs) \cup Reach[o]
    BY <1>4, NodesAdd
  <2> QED
    BY <1>4, <2>1, <2>2
<1>6. x \in Staged => Keeps(w.base[2], w.work)
  BY <1>1, <1>4 DEF WriterInv, Keeps
<1>7. x \notin Staged => current # NoInode /\ Keeps(Content(current), w.work)
  BY <1>1, <1>4 DEF WriterInv, Keeps
<1>8. ASSUME writer'[x] = w, UNCHANGED <<file, current, reader>> PROVE WriterInv(x)'
  BY <1>1, <1>4, <1>5, <1>6, <1>7, <1>8 DEF WriterInv, Content
<1>9. /\ journal' \in [kind : {"none", "begun", "synced"}, of : MaybeInode]
      /\ journal' = NoJournal \/ (journal'.of = current /\ current # NoInode)
  BY <1>1, <1>7 DEF Retain, InPlace, IInv, StoreInv, TypeOK, NoJournal
<1> QED
  BY <1>1, <1>3, <1>8, <1>9, HolderStep DEF Retain, At, Working

LEMMA SyncJournalStep ==
  ASSUME IInv, NEW x \in Writers, SyncJournal(x)
  PROVE  IInv'
<1>1. writer[x] \in WriterRecs /\ WriterInv(x) /\ writer[x].at = "fill" /\ lock = x
  BY DEF SyncJournal, At, Working, IInv, TypeOK
<1>2. UNCHANGED <<file, current, lock, writer, acked, reader, dirty, faults>>
  BY DEF SyncJournal
<1>3. /\ journal' \in [kind : {"none", "begun", "synced"}, of : MaybeInode]
      /\ journal' = NoJournal \/ (journal'.of = current /\ current # NoInode)
  BY <1>1 DEF SyncJournal, IInv, StoreInv, TypeOK, NoJournal
<1>4. TypeOK'
  BY <1>2, <1>3 DEF IInv, TypeOK, Working, At
<1>5. WriterInv(x)'
  BY <1>1, <1>2 DEF WriterInv, Content
<1> QED
  BY <1>1, <1>2, <1>3, <1>4, <1>5, WriterOnlyStep

LEMMA FreshInode ==
  ASSUME IInv, NEW i \in NewInodes
  PROVE  /\ i \in Inodes /\ i # NoInode /\ i # current
         /\ \A r \in Readers : reader[r].conn # i
         /\ \A r \in Readers : reader[r].at \in {"open", "restat"} => reader[r].seen # i
         /\ \A x \in Writers : writer[x].temp # i
BY StoreAssumption DEF NewInodes, FreeInodes, Pinned

LEMMA PublishCopyStep ==
  ASSUME IInv, NEW x \in Writers, PublishCopy(x)
  PROVE  IInv'
<1> PICK i \in NewInodes : Go(x, [writer[x] EXCEPT !.at = "copied", !.temp = i])
  BY DEF PublishCopy
<1> DEFINE w == [writer[x] EXCEPT !.at = "copied", !.temp = i]
<1>1. writer[x] \in WriterRecs /\ WriterInv(x) /\ writer[x].at = "fill" /\ x \in Staged
  BY DEF PublishCopy, At, InPlace, IInv, TypeOK
<1>2. w \in WriterRecs
  BY <1>1, FreshInode DEF WriterRecs, Phases, MaybeInode
<1>3. /\ w.at = "copied" /\ w.base = writer[x].base /\ w.temp = i
      /\ w.work = writer[x].work /\ w.refs = writer[x].refs
  BY <1>1 DEF WriterRecs
<1>4. ASSUME writer'[x] = w, UNCHANGED <<file, current, reader>> PROVE WriterInv(x)'
  BY <1>1, <1>3, <1>4, FreshInode DEF WriterInv
<1> QED
  BY <1>1, <1>2, <1>4, HolderStep DEF PublishCopy, At, Working, IInv, StoreInv, TypeOK

LEMMA CompareStep ==
  ASSUME IInv, NEW x \in Writers, Compare(x)
  PROVE  IInv'
<1> DEFINE w == [writer[x] EXCEPT !.at = "swap"]
<1>1. writer[x] \in WriterRecs /\ WriterInv(x) /\ writer[x].at = "copied" /\ Stamp = writer[x].base
  BY DEF Compare, At, IInv, TypeOK
<1>2. w \in WriterRecs
  BY <1>1 DEF WriterRecs, Phases
<1>3. /\ w.at = "swap" /\ w.base = writer[x].base /\ w.temp = writer[x].temp
      /\ w.work = writer[x].work /\ w.refs = writer[x].refs
  BY <1>1 DEF WriterRecs
<1>4. Keeps(Content(current), w.work)
  BY <1>1, <1>3 DEF WriterInv, Stamp
<1>5. ASSUME writer'[x] = w, UNCHANGED <<file, current, reader, journal>> PROVE WriterInv(x)'
  BY <1>1, <1>3, <1>4, <1>5 DEF WriterInv, Content, Compare
<1> QED
  BY <1>1, <1>2, <1>5, HolderStep DEF Compare, To, At, Working, IInv, StoreInv, TypeOK

\* A reader that does not move is not disturbed when the references only
\* grow, the file of its connection keeps its nodes, no damage to it goes
\* unnoticed, and the path is not given the inode of its stat.
LEMMA ReaderFrame ==
  ASSUME NEW r \in Readers, ReaderInv(r), reader'[r] = reader[r],
         acked \subseteq acked',
         Content(reader[r].conn).rows \subseteq Content(reader[r].conn)'.rows,
         r \notin dirty' => r \notin dirty,
         r \notin dirty' => Content(reader[r].conn)'.bad \subseteq Content(reader[r].conn).bad,
         current' = current \/ (reader[r].at = "restat" => reader[r].seen # current')
  PROVE  ReaderInv(r)'
<1> DEFINE q == reader[r]
<1>2. r \notin dirty' => q.cache \subseteq Intact(q.conn)'
  BY DEF ReaderInv, Intact, Content
<1>3. q.at = "restat" => (current' = q.seen => q.conn = current')
  BY DEF ReaderInv
<1>4. q.at \in {"restat", "check", "decode"} =>
          NodesOf(q.todo) \subseteq Content(q.conn)'.rows \cup Portable
  BY DEF ReaderInv
<1>5. q.at \in {"open", "restat", "check"} => NodesOf(q.todo) \subseteq acked'
  BY DEF ReaderInv
<1> QED
  BY <1>2, <1>3, <1>4, <1>5 DEF ReaderInv, Content, Intact

\* What the path names only gains nodes: the promise and the finished writer
\* keep what they have.
LEMMA HeldGrows ==
  ASSUME Grows(Content(current), Content(current)')
  PROVE  Held \subseteq Held'
BY DEF Grows, Held

LEMMA StoreFrame ==
  ASSUME StoreInv, Held \subseteq Held', acked' = acked,
         journal' = NoJournal \/ (journal'.of = current' /\ current' # NoInode)
  PROVE  StoreInv'
BY DEF StoreInv, NoJournal

\* The step of the lock's holder that changes files.
LEMMA FileStep ==
  ASSUME IInv, TypeOK', NEW x \in Writers, lock = x,
         \A y \in Writers \ {x} : writer'[y] = writer[y],
         Grows(Content(current), Content(current)'),
         UNCHANGED <<acked, reader>>, dirty \subseteq dirty',
         journal' = NoJournal \/ (journal'.of = current' /\ current' # NoInode),
         WriterInv(x)',
         \A r \in Readers :
           /\ Content(reader[r].conn).rows \subseteq Content(reader[r].conn)'.rows
           /\ r \notin dirty' => Content(reader[r].conn)'.bad \subseteq Content(reader[r].conn).bad
           /\ current' = current \/ (reader[r].at = "restat" => reader[r].seen # current')
  PROVE  IInv'
<1>1. ASSUME NEW r \in Readers PROVE ReaderInv(r)'
  BY ReaderFrame DEF IInv
<1>2. StoreInv'
  BY HeldGrows, StoreFrame DEF IInv
<1>3. ASSUME NEW y \in Writers \ {x} PROVE WriterInv(y)'
  BY HolderIsAlone, OutsideFrame DEF IInv
<1> QED
  BY <1>1, <1>2, <1>3 DEF IInv

\* A journal is always the store's own, so a rollback is clean.
LEMMA CleanRollback ==
  ASSUME StoreInv
  PROVE  RolledBack = Content(current)
BY DEF StoreInv, RolledBack, NoJournal

LEMMA NoNodes == NodesOf({}) = {}
BY DEF NodesOf

LEMMA OpenStep ==
  ASSUME IInv, NEW x \in Writers, Open(x)
  PROVE  IInv'
<1> PICK i \in IF current = NoInode THEN NewInodes ELSE {current} :
           current' = i /\ file' = [file EXCEPT ![i] = RolledBack]
  BY DEF Open
<1> DEFINE w == [writer[x] EXCEPT !.at = "fill", !.work = RolledBack]
<1>1. writer[x] \in WriterRecs /\ WriterInv(x) /\ writer[x].at = "open" /\ lock = x /\ x \notin Staged
  BY DEF Open, At, Working, IInv, TypeOK, WriterInv
<1>2. i \in Inodes /\ i # NoInode
  BY FreshInode, StoreAssumption DEF IInv, TypeOK, MaybeInode
<1>3. RolledBack = Content(current) /\ Content(current) \in Contents
  BY CleanRollback DEF IInv, TypeOK, Content, Contents, Blank, MaybeInode
<1>4. w \in WriterRecs
  BY <1>1, <1>3 DEF WriterRecs, Phases
<1>5. /\ w.at = "fill" /\ w.base = writer[x].base /\ w.temp = writer[x].temp
      /\ w.work = RolledBack /\ w.refs = writer[x].refs
  BY <1>1 DEF WriterRecs
<1>6. writer'[x] = w /\ \A y \in Writers \ {x} : writer'[y] = writer[y]
  BY DEF Open, Go, IInv, TypeOK
<1>7. journal' = NoJournal \/ (journal'.of = current' /\ current' # NoInode)
  BY <1>2 DEF Open, IInv, StoreInv, NoJournal
<1>8. TypeOK'
  <2>1. writer' \in [Writers -> WriterRecs]
    BY <1>4 DEF Open, Go, IInv, TypeOK
  <2>2. \A y \in Writers : Working(y)' => lock' = y
    BY <1>1, <1>6 DEF Open, Working, At, IInv, TypeOK
  <2>3. journal' \in [kind : {"none", "begun", "synced"}, of : MaybeInode]
    BY DEF Open, IInv, TypeOK, NoJournal, MaybeInode
  <2>4. file' \in [Inodes -> Contents] /\ current' \in MaybeInode
    BY <1>2, <1>3 DEF IInv, TypeOK, MaybeInode
  <2> QED
    BY <2>1, <2>2, <2>3, <2>4 DEF Open, IInv, TypeOK
<1>9. Content(current)' = Content(current)
  BY <1>2, <1>3 DEF Content, IInv, TypeOK
<1>10. WriterInv(x)'
  <2>1. writer[x].refs = {} /\ writer[x].temp = NoInode
    BY <1>1 DEF WriterInv
  <2> QED
    BY <1>1, <1>2, <1>3, <1>5, <1>6, <1>9, <2>1, NoNodes DEF WriterInv, Keeps
<1>11. ASSUME NEW r \in Readers
       PROVE  /\ Content(reader[r].conn)' = Content(reader[r].conn)
              /\ current' = current \/ (reader[r].at = "restat" => reader[r].seen # current')
  <2>1. CASE current = NoInode
    BY <1>2, <2>1, FreshInode DEF Content, Open, IInv, TypeOK
  <2>2. CASE current # NoInode
    BY <1>3, <2>2 DEF Content, Open, IInv, TypeOK
  <2> QED
    BY <2>1, <2>2
<1> QED
  BY <1>1, <1>6, <1>7, <1>8, <1>9, <1>10, <1>11, FileStep DEF Open, Grows

LEMMA CommitInPlaceStep ==
  ASSUME IInv, NEW x \in Writers, CommitInPlace(x)
  PROVE  IInv'
<1> DEFINE w == [writer[x] EXCEPT !.at = "done"]
<1>1. writer[x] \in WriterRecs /\ WriterInv(x) /\ writer[x].at = "fill" /\ lock = x /\ x \notin Staged
  BY DEF CommitInPlace, InPlace, At, Working, IInv, TypeOK
<1>2. w \in WriterRecs
  BY <1>1 DEF WriterRecs, Phases
<1>3. w.at = "done" /\ w.base = writer[x].base /\ w.temp = writer[x].temp /\ w.refs = writer[x].refs
  BY <1>1 DEF WriterRecs
<1>4. writer'[x] = w /\ \A y \in Writers \ {x} : writer'[y] = writer[y]
  BY DEF CommitInPlace, To, Go, IInv, TypeOK
<1>5. current # NoInode /\ current \in Inodes /\ Keeps(Content(current), writer[x].work)
  BY <1>1 DEF WriterInv, IInv, TypeOK, MaybeInode
<1>6. writer[x].work \in Contents /\ Content(current) = file[current]
  BY <1>1, <1>5 DEF WriterRecs, Content
<1>7. /\ UNCHANGED <<current, lock, acked, reader, faults>>
      /\ file' = [file EXCEPT ![current] = writer[x].work] \/ file' = file
      /\ dirty' \in SUBSET Readers /\ dirty \subseteq dirty'
      /\ journal' = NoJournal \/ journal' = journal
  BY DEF CommitInPlace, IInv, TypeOK
<1>8. Content(current)'.rows = writer[x].work.rows /\ Grows(Content(current), Content(current)')
  BY <1>1, <1>5, <1>6 DEF CommitInPlace, Inserted, Content, Keeps, Grows, IInv, TypeOK
<1>9. TypeOK'
  <2>1. writer' \in [Writers -> WriterRecs]
    BY <1>2 DEF CommitInPlace, To, Go, IInv, TypeOK
  <2>2. \A y \in Writers : Working(y)' => lock' = y
    BY <1>1, <1>4, <1>7 DEF Working, At, IInv, TypeOK
  <2>3. journal' \in [kind : {"none", "begun", "synced"}, of : MaybeInode]
    BY <1>7 DEF IInv, TypeOK, NoJournal, MaybeInode
  <2> QED
    BY <1>6, <1>7, <2>1, <2>2, <2>3 DEF IInv, TypeOK
<1>10. WriterInv(x)'
  <2>1. NodesOf(writer[x].refs) \subseteq writer[x].work.rows \cup Portable
    BY <1>1 DEF WriterInv
  <2>2. NodesOf(writer[x].refs) \subseteq Held'
    BY <1>8, <2>1 DEF Held
  <2> QED
    BY <1>1, <1>3, <1>4, <2>2 DEF WriterInv
<1>11. ASSUME NEW r \in Readers
       PROVE  /\ Content(reader[r].conn).rows \subseteq Content(reader[r].conn)'.rows
              /\ r \notin dirty' => Content(reader[r].conn)'.bad \subseteq Content(reader[r].conn).bad
  <2>1. CASE file' = file
    BY <1>7, <2>1 DEF Content
  <2>2. CASE reader[r].conn # current
    <3>1. reader[r].conn \in MaybeInode
      BY DEF IInv, TypeOK, ReaderRecs
    <3> QED
      BY <1>7, <2>2, <3>1 DEF Content, MaybeInode, IInv, TypeOK
  <2>3. CASE reader[r].conn = current /\ file' # file
    <3>1. r \in dirty' /\ file' = [file EXCEPT ![current] = writer[x].work]
      BY <2>3 DEF CommitInPlace
    <3>2. Content(reader[r].conn)' = writer[x].work
      BY <1>5, <1>7, <2>3, <3>1 DEF Content, IInv, TypeOK
    <3> QED
      BY <1>5, <2>3, <3>1, <3>2 DEF Keeps
  <2> QED
    BY <2>1, <2>2, <2>3
<1>12. journal' = NoJournal \/ (journal'.of = current' /\ current' # NoInode)
  BY <1>7 DEF IInv, StoreInv
<1> QED
  BY <1>1, <1>4, <1>7, <1>8, <1>9, <1>10, <1>11, <1>12, FileStep

\* What survives the end of a file: the path's and every connection's.
LEMMA KeptFacts ==
  ASSUME NEW f \in [Inodes -> Contents]
  PROVE  /\ Kept(f) \in [Inodes -> Contents]
         /\ current' \in Inodes => Kept(f)[current'] = f[current']
         /\ \A r \in Readers : reader'[r].conn \in Inodes => Kept(f)[reader'[r].conn] = f[reader'[r].conn]
BY DEF Kept, Contents, Blank

LEMMA ReplaceStep ==
  ASSUME IInv, NEW x \in Writers, Replace(x)
  PROVE  IInv'
<1> DEFINE i == writer[x].temp
           f == [file EXCEPT ![i] = writer[x].work]
           w == [writer[x] EXCEPT !.at = "done", !.temp = NoInode]
<1>1. writer[x] \in WriterRecs /\ WriterInv(x) /\ writer[x].at = "swap" /\ lock = x
  BY DEF Replace, At, Working, IInv, TypeOK
<1>2. /\ i \in Inodes /\ i # NoInode /\ i # current /\ \A r \in Readers : reader[r].conn # i
      /\ \A r \in Readers : reader[r].at \in {"open", "restat"} => reader[r].seen # i
      /\ Keeps(Content(current), writer[x].work) /\ journal = NoJournal
  BY <1>1, StoreAssumption DEF WriterInv
<1>3. w \in WriterRecs /\ writer[x].work \in Contents
  BY <1>1 DEF WriterRecs, Phases, MaybeInode
<1>4. /\ w.at = "done" /\ w.base = writer[x].base /\ w.temp = NoInode /\ w.refs = writer[x].refs
  BY <1>1 DEF WriterRecs
<1>5. writer'[x] = w /\ \A y \in Writers \ {x} : writer'[y] = writer[y]
  BY DEF Replace, Go, IInv, TypeOK
<1>6. current' = i /\ file' = Kept(f) /\ UNCHANGED <<journal, lock, acked, reader, dirty, faults>>
  BY DEF Replace
<1>7. f \in [Inodes -> Contents] /\ f[i] = writer[x].work
  BY <1>2, <1>3 DEF IInv, TypeOK
<1>8. Content(current)' = writer[x].work
  BY <1>2, <1>6, <1>7, KeptFacts DEF Content
<1>9. TypeOK'
  <2>1. writer' \in [Writers -> WriterRecs]
    BY <1>3 DEF Replace, Go, IInv, TypeOK
  <2>2. \A y \in Writers : Working(y)' => lock' = y
    BY <1>1, <1>5, <1>6 DEF Working, At, IInv, TypeOK
  <2>3. file' \in [Inodes -> Contents] /\ current' \in MaybeInode
    BY <1>2, <1>6, <1>7, KeptFacts DEF MaybeInode
  <2> QED
    BY <1>6, <2>1, <2>2, <2>3 DEF IInv, TypeOK
<1>10. WriterInv(x)'
  <2>1. NodesOf(writer[x].refs) \subseteq writer[x].work.rows \cup Portable
    BY <1>1 DEF WriterInv
  <2>2. NodesOf(writer[x].refs) \subseteq Held'
    BY <1>8, <2>1 DEF Held
  <2> QED
    BY <1>1, <1>4, <1>5, <2>2 DEF WriterInv
<1>11. ASSUME NEW r \in Readers
       PROVE  /\ Content(reader[r].conn)' = Content(reader[r].conn)
              /\ reader[r].at = "restat" => reader[r].seen # current'
  <2>1. reader[r].conn \in MaybeInode
    BY DEF IInv, TypeOK, ReaderRecs
  <2>2. reader[r].conn \in Inodes => f[reader[r].conn] = file[reader[r].conn]
    BY <1>2 DEF IInv, TypeOK
  <2> QED
    BY <1>2, <1>6, <1>7, <2>1, <2>2, KeptFacts DEF Content, MaybeInode
<1> QED
  BY <1>1, <1>2, <1>5, <1>6, <1>8, <1>9, <1>10, <1>11, FileStep DEF Grows, Keeps

LEMMA ForeignEditStep ==
  ASSUME IInv, ForeignEdit
  PROVE  IInv'
<1>1. PICK o \in Objects, i \in {current} \cup NewInodes :
      \E c \in {[Content(current) EXCEPT !.rows = @ \cup {o}],
                [Content(current) EXCEPT !.bad = @ \cup ({o} \cap Content(current).rows)]} :
          /\ current' = i
          /\ dirty' = dirty \cup {r \in Readers : reader[r].conn = i}
          /\ UNCHANGED <<journal, lock, writer, acked, reader>>
          /\ file' = Kept([file EXCEPT ![i] = c])
  BY DEF ForeignEdit
<1>2. PICK c \in {[Content(current) EXCEPT !.rows = @ \cup {o}],
                [Content(current) EXCEPT !.bad = @ \cup ({o} \cap Content(current).rows)]} :
          file' = Kept([file EXCEPT ![i] = c])
  BY <1>1
<1> DEFINE f == [file EXCEPT ![i] = c]
<1>3. /\ journal = NoJournal /\ faults' \in 0..MaxFaults
      /\ \A y \in Writers : writer[y].at # "swap" /\ ~(y \notin Staged /\ writer[y].at = "fill")
  BY StoreAssumption DEF ForeignEdit, ForeignMayAct, At, InTransaction, InPlace, IInv, TypeOK
<1>4. /\ i \in Inodes /\ i # NoInode
      /\ i = current \/ \A r \in Readers : reader[r].conn # i /\ (reader[r].at = "restat" => reader[r].seen # i)
      /\ \A y \in Writers : writer[y].temp # NoInode => writer[y].temp # i
  BY FreshInode, StoreAssumption DEF ForeignEdit, ForeignMayAct, IInv, TypeOK, MaybeInode, WriterInv
<1>5. Content(current) \in Contents
  BY DEF IInv, TypeOK, Content, Contents, Blank, MaybeInode
<1>6. c \in Contents /\ Grows(Content(current), c) /\ Content(current).bad \subseteq c.bad
  BY <1>5 DEF Contents, Grows
<1>7. f \in [Inodes -> Contents] /\ f[i] = c
  BY <1>4, <1>6 DEF IInv, TypeOK
<1>8. Content(current)' = c
  BY <1>1, <1>2, <1>4, <1>7, KeptFacts DEF Content
<1>9. TypeOK'
  <2>1. file' \in [Inodes -> Contents] /\ current' \in MaybeInode
    BY <1>1, <1>2, <1>4, <1>7, KeptFacts DEF MaybeInode
  <2>2. dirty' \in SUBSET Readers
    BY <1>1 DEF IInv, TypeOK
  <2> QED
    BY <1>1, <1>3, <2>1, <2>2 DEF IInv, TypeOK, Working, At
<1>10. Held \subseteq Held'
  BY <1>6, <1>8, HeldGrows
<1>11. ASSUME NEW y \in Writers PROVE WriterInv(y)'
  <2>1. WriterInv(y) /\ writer'[y] = writer[y] /\ reader' = reader /\ journal' = journal
    BY <1>1 DEF IInv
  <2> QED
    BY <1>1, <1>3, <1>4, <1>6, <1>8, <1>10, <2>1 DEF WriterInv, Grows
<1>12. ASSUME NEW r \in Readers PROVE ReaderInv(r)'
  <2>1. reader[r].conn \in MaybeInode
    BY DEF IInv, TypeOK, ReaderRecs
  <2>2. reader[r].conn \in Inodes => Content(reader[r].conn)' = f[reader[r].conn]
    BY <1>1, <1>2, <1>7, KeptFacts, StoreAssumption DEF Content
  <2>3. /\ Content(reader[r].conn).rows \subseteq Content(reader[r].conn)'.rows
        /\ r \notin dirty' => Content(reader[r].conn)'.bad \subseteq Content(reader[r].conn).bad
    <3>1. CASE reader[r].conn = i
      BY <1>1, <1>4, <1>6, <1>7, <2>2, <3>1 DEF Grows
    <3>2. CASE reader[r].conn # i
      BY <1>1, <1>4, <2>1, <2>2, <3>2 DEF Content, MaybeInode, IInv, TypeOK
    <3> QED
      BY <3>1, <3>2
  <2> QED
    BY <1>1, <1>4, <2>3, ReaderFrame DEF IInv
<1>13. StoreInv'
  BY <1>1, <1>3, <1>10, StoreFrame DEF IInv
<1> QED
  BY <1>9, <1>11, <1>12, <1>13 DEF IInv

LEMMA ForeignDiesStep ==
  ASSUME IInv, ForeignDies
  PROVE  IInv'
<1>1. PICK k \in {"begun", "synced"} : journal' = [kind |-> k, of |-> current]
  BY DEF ForeignDies
<1>2. UNCHANGED <<file, current, lock, writer, acked, reader, dirty>>
  BY DEF ForeignDies
<1>3. current # NoInode /\ faults' \in 0..MaxFaults /\ \A y \in Writers : writer[y].at # "swap"
  BY StoreAssumption DEF ForeignDies, ForeignMayAct, At, IInv, TypeOK
<1>4. TypeOK'
  BY <1>1, <1>2, <1>3 DEF IInv, TypeOK, Working, At
<1>5. ASSUME NEW y \in Writers PROVE WriterInv(y)'
  BY <1>2, <1>3 DEF IInv, WriterInv, Content, Held
<1>6. StoreInv'
  BY <1>1, <1>2, <1>3, PromiseFrame DEF IInv
<1> QED
  BY <1>2, <1>4, <1>5, <1>6, ReadersFrame DEF IInv

LEMMA NodesClosed ==
  ASSUME NEW S \in SUBSET Objects, NEW o \in NodesOf(S)
  PROVE  o \in Objects /\ Reach[o] \subseteq NodesOf(S)
BY StoreAssumption DEF NodesOf

LEMMA ReturnStep ==
  ASSUME IInv, NEW x \in Writers, Return(x)
  PROVE  IInv'
<1> DEFINE N == NodesOf(writer[x].refs)
<1>1. writer[x].refs \in SUBSET Objects /\ N \subseteq Held
  BY StoreAssumption DEF Return, At, IInv, TypeOK, WriterRecs, WriterInv
<1>2. acked' = acked \cup N /\ UNCHANGED <<file, current, journal, reader, dirty, faults>> /\ Release(x)
  BY DEF Return
<1>3. /\ writer' \in [Writers -> WriterRecs]
      /\ lock' \in Writers \cup {NoWriter}
      /\ \A y \in Writers : Working(y)' => lock' = y
      /\ writer'[x] = IdleWriter
      /\ \A y \in Writers \ {x} : writer'[y] = writer[y]
  BY <1>2, ReleaseTypes DEF IInv
<1>4. TypeOK'
  BY <1>1, <1>2, <1>3, NodesClosed DEF IInv, TypeOK
<1>5. Held' = Held
  BY <1>2 DEF Held, Content
<1>6. StoreInv'
  <2>1. \A o \in acked' : Reach[o] \subseteq acked'
    BY <1>1, <1>2, NodesClosed DEF IInv, StoreInv
  <2> QED
    BY <1>1, <1>2, <1>5, <2>1 DEF IInv, StoreInv, NoJournal
<1>7. ASSUME NEW y \in Writers PROVE WriterInv(y)'
  BY <1>2, <1>3, IdleInv, WriterFrame DEF IInv
<1>8. ASSUME NEW r \in Readers PROVE ReaderInv(r)'
  <2>1. ReaderInv(r) /\ reader'[r] = reader[r]
    BY <1>2 DEF IInv
  <2>2. Content(reader[r].conn)' = Content(reader[r].conn)
    BY <1>2 DEF Content
  <2> QED
    BY <1>2, <2>1, <2>2, ReaderFrame
<1> QED
  BY <1>4, <1>6, <1>7, <1>8 DEF IInv

\* A step of one reader disturbs neither the writers nor the others: it keeps
\* the file of the path and those of open connections.
LEMMA ReaderStep ==
  ASSUME IInv, NEW r \in Readers, NEW q \in ReaderRecs, Read(r, q),
         UNCHANGED <<current, journal, lock, writer, acked, faults>>,
         file' = file \/ file' = Kept(file),
         dirty' \in SUBSET Readers, dirty' \ {r} = dirty \ {r},
         q.conn \in {NoInode, current, reader[r].conn},
         q.at \in {"open", "restat"} =>
            q.seen = current \/ (q.seen = reader[r].seen /\ reader[r].at \in {"open", "restat"}),
         reader'[r] = q /\ Among(file', q.conn) = Content(q.conn) => ReaderInv(r)'
  PROVE  IInv'
<1>1. reader'[r] = q /\ \A s \in Readers \ {r} : reader'[s] = reader[s]
  BY DEF Read, IInv, TypeOK
<1>2. /\ file \in [Inodes -> Contents] /\ current \in MaybeInode /\ reader \in [Readers -> ReaderRecs]
      /\ \A s \in Readers : reader[s].conn \in MaybeInode
      /\ q.conn \in MaybeInode
  BY DEF IInv, TypeOK, ReaderRecs
<1>3. /\ Content(current)' = Content(current)
      /\ \A s \in Readers \ {r} : Content(reader[s].conn)' = Content(reader[s].conn)
      /\ Among(file', q.conn) = Content(q.conn)
  BY <1>1, <1>2, KeptFacts DEF Content, Among, MaybeInode
<1>4. TypeOK'
  <2>1. file' \in [Inodes -> Contents]
    BY <1>2, KeptFacts
  <2>2. reader' \in [Readers -> ReaderRecs]
    BY <1>2 DEF Read
  <2> QED
    BY <2>1, <2>2 DEF IInv, TypeOK, Working, At
<1>5. Held' = Held
  BY <1>3 DEF Held
<1>6. ASSUME NEW y \in Writers PROVE WriterInv(y)'
  <2>1. WriterInv(y) /\ writer'[y] = writer[y]
    BY DEF IInv
  <2>2. ASSUME writer[y].at \in {"copied", "swap"}
        PROVE  /\ \A s \in Readers : reader'[s].conn # writer[y].temp
               /\ \A s \in Readers : reader'[s].at \in {"open", "restat"} => reader'[s].seen # writer[y].temp
    BY <1>1, <2>1, <2>2, StoreAssumption DEF WriterInv
  <2> QED
    BY <1>3, <1>5, <2>1, <2>2 DEF WriterInv
<1>7. ASSUME NEW s \in Readers \ {r} PROVE ReaderInv(s)'
  BY <1>1, <1>3, ReaderFrame DEF IInv
<1>8. StoreInv'
  BY <1>5, StoreFrame DEF IInv, StoreInv
<1> QED
  BY <1>1, <1>3, <1>4, <1>6, <1>7, <1>8 DEF IInv

LEMMA OneRoot ==
  ASSUME NEW o
  PROVE  NodesOf({o}) = Reach[o]
BY DEF NodesOf

LEMMA EndedFacts ==
  ASSUME NEW q \in ReaderRecs
  PROVE  /\ Ended(q) \in ReaderRecs /\ Ended(q).at = "idle" /\ Ended(q).todo = {}
         /\ Ended(q).conn = q.conn /\ Ended(q).fid = q.fid /\ Ended(q).cache = q.cache
         /\ Ended(q).missed = q.missed
BY DEF Ended, ReaderRecs, MaybeInode

LEMMA StatStep ==
  ASSUME IInv, NEW r \in Readers, NEW o \in Roots, Stat(r, o)
  PROVE  IInv'
<1> DEFINE q == reader[r]
           p == IF q.conn # NoInode /\ q.fid # current THEN Closed(q) ELSE q
           n == [p EXCEPT !.at = IF p.conn = NoInode THEN "open" ELSE "check", !.todo = {o}, !.seen = current]
<1>1. q \in ReaderRecs /\ ReaderInv(r) /\ q.at = "idle" /\ o \in acked /\ o \in Objects
  BY StoreAssumption DEF Stat, IInv, TypeOK
<1>2. /\ p \in ReaderRecs /\ p.conn \in {NoInode, q.conn} /\ ~p.missed
      /\ p.conn = NoInode => p.fid = NoInode /\ p.cache = {}
      /\ p.conn # NoInode => p = q /\ q.fid = current /\ q.conn = current
  BY <1>1 DEF Closed, ReaderRecs, MaybeInode, ReaderInv
<1>3. /\ n \in ReaderRecs /\ n.at = (IF p.conn = NoInode THEN "open" ELSE "check")
      /\ n.todo = {o} /\ n.seen = current
      /\ n.conn = p.conn /\ n.fid = p.fid /\ n.cache = p.cache /\ ~n.missed
  BY <1>1, <1>2 DEF ReaderRecs, IInv, TypeOK
<1>4. NodesOf({o}) \subseteq acked /\ acked \subseteq Held
  BY <1>1, OneRoot DEF IInv, StoreInv
<1>5. /\ UNCHANGED <<current, journal, lock, writer, acked, faults>> /\ file' = Kept(file) /\ Read(r, n)
      /\ dirty' = IF p.conn = NoInode THEN dirty \ {r} ELSE dirty
  BY DEF Stat
<1>6. ASSUME reader'[r] = n, Among(file', n.conn) = Content(n.conn) PROVE ReaderInv(r)'
  <2>1. CASE p.conn = NoInode
    BY <1>2, <1>3, <1>4, <1>5, <1>6, <2>1 DEF ReaderInv, Intact
  <2>2. CASE p.conn # NoInode
    <3>1. NodesOf(n.todo) \subseteq Content(n.conn).rows \cup Portable
      BY <1>2, <1>3, <1>4, <2>2 DEF Held
    <3>2. Content(reader[r].conn)' = Content(n.conn)
      BY <1>6 DEF Content, Among
    <3>3. r \notin dirty' => n.cache \subseteq Intact(n.conn)
      BY <1>1, <1>2, <1>3, <1>5, <2>2 DEF ReaderInv
    <3> QED
      BY <1>2, <1>3, <1>4, <1>5, <1>6, <2>2, <3>1, <3>2, <3>3 DEF ReaderInv, Intact
  <2> QED
    BY <2>1, <2>2
<1>7. dirty' \in SUBSET Readers /\ dirty' \ {r} = dirty \ {r}
  BY <1>5 DEF IInv, TypeOK
<1> QED
  BY <1>2, <1>3, <1>5, <1>6, <1>7, ReaderStep

LEMMA ConnectStep ==
  ASSUME IInv, NEW r \in Readers, Connect(r)
  PROVE  IInv'
<1> DEFINE n == [reader[r] EXCEPT !.at = "restat", !.conn = current]
<1>1. reader[r] \in ReaderRecs /\ ReaderInv(r) /\ reader[r].at = "open"
  BY DEF Connect, IInv, TypeOK
<1>2. /\ n \in ReaderRecs /\ n.at = "restat" /\ n.conn = current /\ n.todo = reader[r].todo
      /\ n.seen = reader[r].seen /\ n.fid = NoInode /\ n.cache = {} /\ ~n.missed
  BY <1>1 DEF ReaderRecs, ReaderInv, IInv, TypeOK
<1>3. NodesOf(n.todo) \subseteq acked /\ NodesOf(n.todo) \subseteq Content(n.conn).rows \cup Portable
  BY <1>1, <1>2 DEF ReaderInv, IInv, StoreInv, Held
<1>4. ASSUME reader'[r] = n, Among(file', n.conn) = Content(n.conn) PROVE ReaderInv(r)'
  <2>1. Content(reader[r].conn)' = Content(n.conn)
    BY <1>4 DEF Content, Among
  <2> QED
    BY <1>2, <1>3, <1>4, <2>1 DEF ReaderInv, Connect
<1> QED
  BY <1>1, <1>2, <1>4, ReaderStep DEF Connect, IInv, TypeOK

LEMMA RestatStep ==
  ASSUME IInv, NEW r \in Readers, Restat(r)
  PROVE  IInv'
<1> DEFINE q == reader[r]
           n == IF current = q.seen THEN [q EXCEPT !.at = "check", !.fid = current]
                ELSE Ended([q EXCEPT !.conn = NoInode])
<1>1. q \in ReaderRecs /\ ReaderInv(r) /\ q.at = "restat" /\ q.fid = NoInode /\ q.cache = {} /\ ~q.missed
  BY DEF Restat, IInv, TypeOK, ReaderInv
<1>2. /\ UNCHANGED <<current, journal, lock, writer, acked, dirty, faults>>
      /\ file' = Kept(file) /\ Read(r, n) /\ dirty \in SUBSET Readers
  BY DEF Restat, IInv, TypeOK
<1>3. CASE current = q.seen
  <2>1. /\ n \in ReaderRecs /\ n.at = "check" /\ n.conn = q.conn /\ n.fid = current /\ n.todo = q.todo
        /\ n.seen = q.seen /\ n.cache = {} /\ ~n.missed
    BY <1>1, <1>3 DEF ReaderRecs, IInv, TypeOK
  <2>2. /\ n.conn = current /\ NodesOf(n.todo) \subseteq acked
        /\ NodesOf(n.todo) \subseteq Content(n.conn).rows \cup Portable
    BY <1>1, <1>3, <2>1 DEF ReaderInv
  <2>3. ASSUME reader'[r] = n, Among(file', n.conn) = Content(n.conn) PROVE ReaderInv(r)'
    <3>1. Content(reader[r].conn)' = Content(n.conn)
      BY <2>3 DEF Content, Among
    <3> QED
      BY <1>2, <1>3, <2>1, <2>2, <2>3, <3>1 DEF ReaderInv
  <2> QED
    BY <1>2, <2>1, <2>2, <2>3, ReaderStep
<1>4. CASE current # q.seen
  <2>1. [q EXCEPT !.conn = NoInode] \in ReaderRecs
    BY <1>1 DEF ReaderRecs, MaybeInode
  <2>2. /\ n \in ReaderRecs /\ n.at = "idle" /\ n.todo = {} /\ n.conn = NoInode /\ n.fid = NoInode
        /\ n.cache = {} /\ ~n.missed
    BY <1>1, <1>4, <2>1, EndedFacts DEF ReaderRecs
  <2>3. ASSUME reader'[r] = n PROVE ReaderInv(r)'
    BY <2>2, <2>3 DEF ReaderInv
  <2> QED
    BY <1>2, <2>2, <2>3, ReaderStep
<1> QED
  BY <1>3, <1>4

\* A resolve that ends leaves the connection and the cache as they are.
LEMMA EndStep ==
  ASSUME IInv, NEW r \in Readers, reader[r].at \in {"check", "decode"}, Read(r, Ended(reader[r])),
         UNCHANGED <<file, current, journal, lock, writer, acked, dirty, faults>>
  PROVE  IInv'
<1> DEFINE n == Ended(reader[r])
<1>1. reader[r] \in ReaderRecs /\ ReaderInv(r) /\ dirty \in SUBSET Readers
  BY DEF IInv, TypeOK
<1>2. /\ n \in ReaderRecs /\ n.at = "idle" /\ n.todo = {} /\ n.conn = reader[r].conn
      /\ n.fid = n.conn /\ n.cache = reader[r].cache /\ ~n.missed
  BY <1>1, EndedFacts DEF ReaderInv
<1>3. ASSUME reader'[r] = n, Among(file', n.conn) = Content(n.conn) PROVE ReaderInv(r)'
  BY <1>1, <1>2, <1>3 DEF ReaderInv, Content, Among, Intact
<1> QED
  BY <1>1, <1>2, <1>3, ReaderStep

LEMMA CheckVersionStep ==
  ASSUME IInv, NEW r \in Readers, CheckVersion(r)
  PROVE  IInv'
<1> DEFINE q == reader[r]
           n == [q EXCEPT !.at = "decode", !.seen = NoInode, !.cache = IF r \in dirty THEN {} ELSE @]
<1>1. q \in ReaderRecs /\ ReaderInv(r) /\ q.at = "check" /\ dirty \in SUBSET Readers
  BY DEF CheckVersion, IInv, TypeOK
<1>2. /\ n \in ReaderRecs /\ n.at = "decode" /\ n.todo = q.todo /\ n.conn = q.conn
      /\ n.fid = q.fid /\ n.cache = (IF r \in dirty THEN {} ELSE q.cache) /\ ~n.missed
  BY <1>1 DEF ReaderRecs, MaybeInode, ReaderInv
<1>3. ASSUME reader'[r] = n, Among(file', n.conn) = Content(n.conn) PROVE ReaderInv(r)'
  <2>1. Content(reader[r].conn)' = Content(q.conn)
    BY <1>2, <1>3 DEF Content, Among
  <2> QED
    BY <1>1, <1>2, <1>3, <2>1 DEF ReaderInv, Intact
<1> QED
  BY <1>1, <1>2, <1>3, ReaderStep DEF CheckVersion

LEMMA DecodeStep ==
  ASSUME IInv, NEW r \in Readers, NEW B \in SUBSET Objects, Decode(r, B)
  PROVE  IInv'
<1> DEFINE q == reader[r]
           rows == B \ q.cache
           read == rows \cap Content(q.conn).rows
           absent == rows \ (Content(q.conn).rows \cup Portable)
           rest == (q.todo \ B) \cup UNION {Child[o] : o \in B}
           next(kept) == [q EXCEPT !.cache = kept \cup read, !.todo = rest]
<1>1. q \in ReaderRecs /\ ReaderInv(r) /\ q.at = "decode" /\ B \subseteq q.todo /\ dirty \in SUBSET Readers
  BY DEF Decode, IInv, TypeOK
<1>2. UNCHANGED <<file, current, journal, lock, writer, acked, dirty, faults>>
  BY DEF Decode
<1>3. q.todo \subseteq Objects /\ q.todo \subseteq NodesOf(q.todo)
  BY <1>1, StoreAssumption DEF ReaderRecs, NodesOf
<1>4. absent = {}
  BY <1>1, <1>3 DEF ReaderInv
<1>5. NodesOf(rest) \subseteq NodesOf(q.todo)
  BY <1>1, <1>3, StoreAssumption DEF NodesOf
<1>6. CASE Read(r, Ended(q))
  BY <1>1, <1>2, <1>6, EndStep
<1>7. ASSUME NEW kept \in SUBSET q.cache, Read(r, next(kept)), read \cap Content(q.conn).bad = {}
      PROVE  IInv'
  <2> DEFINE n == next(kept)
  <2>1. rest \subseteq Objects /\ kept \cup read \subseteq Objects
    BY <1>1, <1>3, StoreAssumption DEF ReaderRecs
  <2>2. /\ n \in ReaderRecs /\ n.at = "decode" /\ n.todo = rest /\ n.conn = q.conn
        /\ n.fid = q.fid /\ n.cache = kept \cup read /\ ~n.missed
    BY <1>1, <2>1 DEF ReaderRecs, ReaderInv
  <2>3. NodesOf(rest) \subseteq Content(q.conn).rows \cup Portable
    BY <1>1, <1>5 DEF ReaderInv
  <2>4. read \subseteq Intact(q.conn)
    BY <1>7 DEF Intact
  <2>5. q.conn = NoInode => read = {}
    BY DEF Content, Blank
  <2>6. r \notin dirty => n.cache \subseteq Intact(n.conn)
    BY <1>1, <1>7, <2>2, <2>4 DEF ReaderInv
  <2>7. n.conn = NoInode => n.cache = {}
    BY <1>1, <1>7, <2>2, <2>5 DEF ReaderInv
  <2>8. ASSUME reader'[r] = n, Among(file', n.conn) = Content(n.conn) PROVE ReaderInv(r)'
    <3>1. Content(reader[r].conn)' = Content(q.conn)
      BY <2>2, <2>8 DEF Content, Among
    <3>2. q.fid = q.conn
      BY <1>1 DEF ReaderInv
    <3> QED
      BY <1>2, <2>2, <2>3, <2>6, <2>7, <2>8, <3>1, <3>2 DEF ReaderInv, Intact
  <2> QED
    BY <1>1, <1>2, <1>7, <2>2, <2>8, ReaderStep
<1>8. Read(r, Ended(q)) \/ \E kept \in SUBSET q.cache : Read(r, next(kept)) /\ read \cap Content(q.conn).bad = {}
  BY <1>4 DEF Decode
<1> QED
  BY <1>6, <1>7, <1>8

\* A connection that is given up takes its cache with it.
LEMMA DisconnectStep ==
  ASSUME IInv, NEW r \in Readers, Disconnect(r)
  PROVE  IInv'
<1> DEFINE n == Closed(reader[r])
<1>1. reader[r] \in ReaderRecs /\ ReaderInv(r) /\ reader[r].at = "idle" /\ dirty \in SUBSET Readers
  BY DEF Disconnect, IInv, TypeOK
<1>2. /\ n \in ReaderRecs /\ n.at = "idle" /\ n.conn = NoInode /\ n.fid = NoInode
      /\ n.cache = {} /\ ~n.missed
  BY <1>1 DEF Closed, ReaderRecs, MaybeInode, ReaderInv
<1>3. ASSUME reader'[r] = n PROVE ReaderInv(r)'
  BY <1>2, <1>3 DEF ReaderInv
<1> QED
  BY <1>1, <1>2, <1>3, ReaderStep DEF Disconnect

LEMMA StutterStep ==
  ASSUME IInv, UNCHANGED storeVars
  PROVE  IInv'
<1>1. UNCHANGED <<file, current, journal, lock, writer, acked, reader, dirty, faults>>
  BY DEF storeVars
<1>2. TypeOK'
  BY <1>1 DEF IInv, TypeOK, Working, At
<1>3. \A y \in Writers : WriterInv(y)'
  BY <1>1, WriterFrame DEF IInv
<1> QED
  BY <1>1, <1>2, <1>3, ReadersFrame, PromiseFrame DEF IInv, StoreInv

LEMMA NextInv == IInv /\ [Next]_storeVars => IInv'
<1> SUFFICES ASSUME IInv, [Next]_storeVars PROVE IInv'
  OBVIOUS
<1>1. ASSUME NEW x \in Writers, Begin(x) \/ Work(x) \/ Return(x) \/ Kill(x) PROVE IInv'
  <2>1. CASE Begin(x) \/ Return(x)
    BY <2>1, BeginStep, ReturnStep
  <2>2. CASE Busy(x) \/ Refuse(x) \/ DropLock(x) \/ CleanupFails(x) \/ Kill(x)
    BY <2>2, LeaveStep, CleanupFailsStep
  <2>3. CASE (\E W \in Jobs : Acquire(x, W)) \/ (\E o \in Roots : Retain(x, o))
    BY <2>3, AcquireStep, RetainStep
  <2>4. CASE TakeStamp(x) \/ Seed(x) \/ CheckSeed(x) \/ PublishCopy(x) \/ Compare(x) \/ Replace(x)
    BY <2>4, TakeStampStep, SeedStep, CheckSeedStep, PublishCopyStep, CompareStep, ReplaceStep
  <2>5. CASE Open(x) \/ SyncJournal(x) \/ CommitInPlace(x)
    BY <2>5, OpenStep, SyncJournalStep, CommitInPlaceStep
  <2> QED
    BY <1>1, <2>1, <2>2, <2>3, <2>4, <2>5 DEF Work
<1>2. ASSUME NEW r \in Readers, Resolve(r) PROVE IInv'
  <2>1. CASE (\E o \in Roots : Stat(r, o)) \/ (\E B \in SUBSET Objects : Decode(r, B))
    BY <2>1, StatStep, DecodeStep
  <2>2. CASE Connect(r) \/ Restat(r) \/ CheckVersion(r)
    BY <2>2, ConnectStep, RestatStep, CheckVersionStep
  <2>3. CASE Locked(r) \/ Resolved(r) \/ Disconnect(r)
    BY <2>3, EndStep, DisconnectStep DEF Locked, Resolved
  <2> QED
    BY <1>2, <2>1, <2>2, <2>3 DEF Resolve
<1>3. CASE Foreign
  BY <1>3, ForeignEditStep, ForeignDiesStep DEF Foreign
<1>4. CASE UNCHANGED storeVars
  BY <1>4, StutterStep
<1> QED
  BY <1>1, <1>2, <1>3, <1>4 DEF Next

\* The inductive invariant of the store: which contents the file at the path,
\* the private copies and the open connections can have relative to each other.
THEOREM Invariant == Spec => []IInv
<1> QED
  BY InitIInv, NextInv, PTL DEF Spec

\* Type correctness, with the exclusion the writer lock gives: whatever the
\* number of writers, at most the holder of <store>.writer.lock is between
\* LocalSQLiteWorkspace.__enter__'s flock and its release.
THEOREM TypeCorrect == Spec => []TypeOK
<1>1. IInv => TypeOK
  BY DEF IInv
<1> QED
  BY Invariant, <1>1, PTL

\* EvidenceGraphReader.resolve never ends with OBJECT_MISSING for a reference
\* a writer returned, however replacements, commits and foreign additions
\* interleave with check_store and the node reads.
THEOREM NothingMissing == Spec => []NeverMissing
<1>1. IInv => NeverMissing
  BY DEF IInv, ReaderInv, NeverMissing
<1> QED
  BY Invariant, <1>1, PTL

\* What a step may change of a reader, of the references and of the files.
LEMMA ReaderMoves ==
  ASSUME IInv, [Next]_storeVars, NEW r \in Readers,
         reader[r].at = "check", reader'[r].at = "decode"
  PROVE  CheckVersion(r)
<1>1. reader[r] \in ReaderRecs /\ reader \in [Readers -> ReaderRecs]
  BY DEF IInv, TypeOK
<1>2. reader' # reader
  BY DEF Next
<1>3. PICK s \in Readers : Resolve(s)
  <2>1. ASSUME NEW x \in Writers, Begin(x) \/ Work(x) \/ Return(x) \/ Kill(x) PROVE reader' = reader
    BY <2>1 DEF Begin, Work, Return, Kill, Acquire, Busy, TakeStamp, Seed, CheckSeed, Open, Retain,
       SyncJournal, CommitInPlace, PublishCopy, Compare, Replace, Refuse, CleanupFails, DropLock
  <2>2. Foreign => reader' = reader
    BY DEF Foreign, ForeignEdit, ForeignDies
  <2> QED
    BY <1>2, <2>1, <2>2 DEF Next, storeVars
<1>4. s = r
  BY <1>1, <1>2, <1>3 DEF Resolve, Stat, Connect, Restat, Locked, CheckVersion, Decode, Resolved, Disconnect, Read
<1>5. ~(\E o \in Roots : Stat(r, o)) /\ ~Connect(r) /\ ~Restat(r) /\ ~(\E B \in SUBSET Objects : Decode(r, B))
      /\ ~Resolved(r) /\ ~Disconnect(r)
  BY DEF Stat, Connect, Restat, Decode, Resolved, Disconnect
<1>6. ~Locked(r)
  BY <1>1, EndedFacts DEF Locked, Read
<1> QED
  BY <1>3, <1>4, <1>5, <1>6 DEF Resolve

\* check_store lets a resolve use only nodes that are intact in the file the
\* path named: a replaced or externally edited store is never hidden by the
\* cache, for any number of readers and writers.
THEOREM ReplacementSeen == Spec => CacheNeverHides
<1>1. ASSUME IInv, [Next]_storeVars, NEW r \in Readers, reader[r].at = "check", reader'[r].at = "decode"
      PROVE  reader[r].conn = reader[r].seen /\ reader'[r].cache \subseteq Intact(reader[r].conn)
  <2>1. CheckVersion(r)
    BY <1>1, ReaderMoves
  <2>2. reader[r] \in ReaderRecs /\ ReaderInv(r) /\ reader \in [Readers -> ReaderRecs]
    BY <1>1 DEF IInv, TypeOK
  <2>3. reader'[r].cache = IF r \in dirty THEN {} ELSE reader[r].cache
    BY <2>1, <2>2 DEF CheckVersion, Read, ReaderRecs
  <2> QED
    BY <1>1, <2>2, <2>3 DEF ReaderInv
<1>2. IInv /\ [Next]_storeVars =>
        [\A r \in Readers : reader[r].at = "check" /\ reader'[r].at = "decode" =>
          reader[r].conn = reader[r].seen /\ reader'[r].cache \subseteq Intact(reader[r].conn)]_storeVars
  BY <1>1
<1> QED
  BY Invariant, <1>2, PTL DEF Spec, CacheNeverHides

\* The steps that change a file, and what they keep of the store.
LEMMA WritingSteps ==
  ASSUME IInv, NEW x \in Writers, Open(x) \/ CommitInPlace(x) \/ Replace(x)
  PROVE  Keeps(Content(current), Content(current)')
<1>1. /\ writer[x] \in WriterRecs /\ WriterInv(x) /\ file \in [Inodes -> Contents] /\ current \in MaybeInode
      /\ NoInode \notin Inodes
  BY StoreAssumption DEF IInv, TypeOK
<1>2. CASE Open(x)
  <2>1. RolledBack = Content(current)
    BY CleanRollback DEF IInv
  <2>2. PICK i \in IF current = NoInode THEN NewInodes ELSE {current} :
           current' = i /\ file' = [file EXCEPT ![i] = RolledBack]
    BY <1>2 DEF Open
  <2>3. i \in Inodes
    BY <1>1, FreshInode DEF MaybeInode
  <2>4. Content(current)' = Content(current)
    BY <1>1, <2>1, <2>2, <2>3 DEF Content
  <2> QED
    BY <2>4 DEF Keeps
<1>3. CASE CommitInPlace(x)
  <2>1. current \in Inodes /\ Keeps(Content(current), writer[x].work)
    BY <1>1, <1>3 DEF CommitInPlace, At, InPlace, WriterInv, MaybeInode
  <2>2. current' = current /\ (file' = file \/ file' = [file EXCEPT ![current] = writer[x].work])
    BY <1>3 DEF CommitInPlace
  <2> QED
    BY <1>1, <2>1, <2>2 DEF Content, Keeps
<1>4. CASE Replace(x)
  <2> DEFINE i == writer[x].temp
             f == [file EXCEPT ![i] = writer[x].work]
  <2>1. i \in Inodes /\ Keeps(Content(current), writer[x].work) /\ writer[x].work \in Contents
    BY <1>1, <1>4 DEF Replace, At, WriterInv, WriterRecs
  <2>2. current' = i /\ file' = Kept(f) /\ f \in [Inodes -> Contents] /\ f[i] = writer[x].work
    BY <1>1, <1>4, <2>1 DEF Replace
  <2>3. Content(current)' = writer[x].work
    BY <1>1, <2>1, <2>2, KeptFacts DEF Content
  <2> QED
    BY <2>1, <2>3
<1> QED
  BY <1>2, <1>3, <1>4

LEMMA ReadingSteps ==
  ASSUME IInv, NEW r \in Readers, Resolve(r)
  PROVE  Content(current)' = Content(current)
<1>1. current' = current /\ (file' = file \/ file' = Kept(file))
  BY DEF Resolve, Stat, Connect, Restat, Locked, CheckVersion, Decode, Resolved, Disconnect
<1> QED
  BY <1>1, KeptFacts DEF Content, IInv, TypeOK, MaybeInode

LEMMA ForeignSteps ==
  ASSUME IInv, Foreign
  PROVE  Grows(Content(current), Content(current)')
<1>1. CASE ForeignDies
  BY <1>1 DEF ForeignDies, Content, Grows
<1>2. CASE ForeignEdit
  <2>1. PICK o \in Objects, i \in {current} \cup NewInodes :
        \E c \in {[Content(current) EXCEPT !.rows = @ \cup {o}],
                  [Content(current) EXCEPT !.bad = @ \cup ({o} \cap Content(current).rows)]} :
            current' = i /\ file' = Kept([file EXCEPT ![i] = c])
    BY <1>2 DEF ForeignEdit
  <2>2. PICK c \in {[Content(current) EXCEPT !.rows = @ \cup {o}],
                  [Content(current) EXCEPT !.bad = @ \cup ({o} \cap Content(current).rows)]} :
            current' = i /\ file' = Kept([file EXCEPT ![i] = c])
    BY <2>1
  <2>3. i \in Inodes /\ i # NoInode
    BY <1>2, FreshInode, StoreAssumption DEF ForeignEdit, ForeignMayAct, IInv, TypeOK, MaybeInode
  <2>4. Content(current) \in Contents
    BY DEF IInv, TypeOK, Content, Contents, Blank, MaybeInode
  <2>5. c \in Contents /\ Grows(Content(current), c)
    BY <2>4 DEF Contents, Grows
  <2>6. Content(current)' = c
    BY <2>2, <2>3, <2>5, KeptFacts DEF Content, IInv, TypeOK
  <2> QED
    BY <2>5, <2>6
<1> QED
  BY <1>1, <1>2 DEF Foreign

LEMMA StoreMoves ==
  ASSUME IInv, [Next]_storeVars
  PROVE  Grows(Content(current), Content(current)') /\ (Foreign \/ Keeps(Content(current), Content(current)'))
<1>1. ASSUME NEW x \in Writers, Begin(x) \/ Work(x) \/ Return(x) \/ Kill(x)
      PROVE  Keeps(Content(current), Content(current)')
  <2>1. CASE Open(x) \/ CommitInPlace(x) \/ Replace(x)
    BY <2>1, WritingSteps
  <2>2. CASE ~(Open(x) \/ CommitInPlace(x) \/ Replace(x))
    <3>1. UNCHANGED <<file, current>>
      BY <1>1, <2>2 DEF Begin, Work, Return, Kill, Acquire, Busy, TakeStamp, Seed, CheckSeed, Retain,
         SyncJournal, PublishCopy, Compare, Refuse, CleanupFails, DropLock
    <3> QED
      BY <3>1 DEF Content, Keeps
  <2> QED
    BY <2>1, <2>2
<1>2. ASSUME NEW r \in Readers, Resolve(r) PROVE Keeps(Content(current), Content(current)')
  BY <1>2, ReadingSteps DEF Keeps
<1>3. CASE UNCHANGED storeVars
  BY <1>3 DEF storeVars, Content, Keeps, Grows
<1> QED
  BY <1>1, <1>2, <1>3, ForeignSteps DEF Next, Keeps, Grows

\* No writer of the program damages or loses a node of the store: neither a
\* commit, nor a replacement, nor the rollback of a journal found at the path.
THEOREM NothingDamaged == Spec => OnlyForeignDamage
<1>1. IInv /\ [Next]_storeVars => [Foreign \/ Intact(current) \subseteq Intact(current)']_storeVars
  BY StoreMoves DEF Keeps, Intact
<1> QED
  BY Invariant, <1>1, PTL DEF Spec, OnlyForeignDamage

\* The store with its writers, its private copies, its kills and its foreign
\* editors implements the append-only object ledger: what the path holds only
\* grows, and a reference is handed out only for nodes it holds.
THEOREM ImplementsLedger == Spec => AppendOnly
<1>1. Init => Ledger!Init
  BY StoreAssumption DEF Init, Ledger!Init, Held, Content, Blank
<1>2. ASSUME IInv, [Next]_storeVars PROVE [Ledger!Next]_<<Held, acked>>
  <2>1. IInv' /\ Held \subseteq Held' /\ Held' \in SUBSET Objects
    <3>1. IInv'
      BY <1>2, NextInv
    <3>2. Content(current)' \in Contents
      BY <3>1 DEF IInv, TypeOK, Content, Contents, Blank, MaybeInode
    <3> QED
      BY <1>2, <3>1, <3>2, StoreMoves, HeldGrows, StoreAssumption DEF Held, Contents
  <2>2. CASE acked' = acked
    <3>1. Ledger!Append(Held')
      BY <2>1, <2>2 DEF Ledger!Append
    <3> QED
      BY <2>1, <3>1 DEF Ledger!Next
  <2>3. ASSUME NEW x \in Writers, Return(x) PROVE Ledger!Next
    <3> DEFINE S == NodesOf(writer[x].refs)
    <3>1. writer[x].refs \in SUBSET Objects /\ S \subseteq Held
      BY <1>2, <2>3, StoreAssumption DEF Return, At, IInv, TypeOK, WriterRecs, WriterInv
    <3>2. S \in SUBSET Objects
      BY <3>1, NodesClosed
    <3>3. Ledger!Promise(S)
      BY <2>3, <3>1 DEF Ledger!Promise, Return, Held, Content
    <3> QED
      BY <3>2, <3>3 DEF Ledger!Next
  <2>4. acked' = acked \/ \E x \in Writers : Return(x)
    BY <1>2 DEF Next, storeVars, Begin, Work, Kill, Acquire, Busy, TakeStamp, Seed, CheckSeed, Open, Retain,
       SyncJournal, CommitInPlace, PublishCopy, Compare, Replace, Refuse, CleanupFails, DropLock, Resolve, Stat, Connect, Restat,
       Locked, CheckVersion, Decode, Resolved, Disconnect, Foreign, ForeignEdit, ForeignDies
  <2> QED
    BY <2>2, <2>3, <2>4
<1> QED
  BY Invariant, <1>1, <1>2, PTL DEF Spec, AppendOnly, Ledger!Spec
=============================================================================
