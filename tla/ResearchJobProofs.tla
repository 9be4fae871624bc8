------------------------- MODULE ResearchJobProofs -------------------------
(***************************************************************************)
(* Theorems of ResearchJob, for every set of days, inputs, versions and    *)
(* replays, every set of interruption points, and any number of faults.    *)
(* First the files of a day, each written after the one it certifies; then *)
(* the chain of the days: one identity, deltas that build on each other,   *)
(* an index and a memory that follow them, recovery that only known damage *)
(* stops, and the ledger the archive implements.                           *)
(***************************************************************************)
EXTENDS ResearchJob, SequenceTheorems, WellFoundedInduction, TLAPS

\* Every row of a state has its result in the object store.
Backed(rows) == \A i \in 1..Len(rows) : <<"result", rows[i].doc>> \in objects

AfterFolder == {"request", "intent", "mark", "begin", "result", "commit", "delta",
                "objects", "receipt", "return"}
AfterRequest == AfterFolder \ {"request"}
AfterIntent == AfterRequest \ {"intent"}
AfterDelta == {"objects", "receipt", "return"}

\* The files of one day, each certifying the one written before it.
FolderInv(d) ==
  LET f == folder[d]
  IN /\ f.request # None => f.made /\ f.request.day = d
     /\ f.intent # None => f.request = f.intent.doc /\ Backed(f.intent.prev)
     /\ f.delta # None => /\ f.intent # None
                          /\ f.delta.prev = f.intent.prev
                          /\ f.delta.row.doc = f.intent.doc
                          /\ <<"result", f.delta.row.doc>> \in objects
     /\ f.receipt # None => /\ f.delta # None
                            /\ f.receipt.doc = f.intent.doc
                            /\ f.receipt.prev = f.intent.prev
                            /\ f.receipt.post = Post(f.delta)
                            /\ References(f.receipt, f.delta) \subseteq objects

\* What the position of the process says of the day it is at.
CallInv ==
  /\ pc # "down" => pin \in Versions /\ <<"assets", pin>> \in objects
  /\ pc \in Points => call.doc \in Doc
  /\ Backed(previous) /\ Backed(head)
  /\ pc \in AfterFolder => folder[call.doc.day].made
  /\ pc \in AfterRequest => folder[call.doc.day].request = call.doc
  /\ pc \in AfterIntent =>
       folder[call.doc.day].intent = [doc |-> call.doc, prev |-> previous]
  /\ pc = "commit" => <<"result", call.doc>> \in objects
  /\ pc \in AfterDelta => folder[call.doc.day].delta # None
  /\ pc \in {"receipt", "return"} =>
       {<<"request", call.doc>>, <<"coverage", call.doc>>,
        <<"delta", folder[call.doc.day].delta>>} \subseteq objects
  /\ pc = "return" => folder[call.doc.day].receipt # None

StateInv ==
  /\ base # None => Backed(base.rows)
  /\ Backed(index.rows)

IInv ==
  /\ TypeOK
  /\ \A d \in Days : FolderInv(d)
  /\ CallInv
  /\ StateInv
  /\ AckedIsDurable

\* Every non-empty set of days has a last day.
LEMMA LastDayExists ==
  ASSUME NEW S, S \subseteq Days, S # {}
  PROVE  Max(S) \in S /\ \A e \in S : e <= Max(S)
<1> USE DaysAssumed DEF DaysAssumption, Days
<1> DEFINE T == {DayCount - d : d \in S}
<1>1. T \subseteq Nat
  <2>1. \A d \in S : d \in 1..DayCount /\ DayCount - d \in Nat
    OBVIOUS
  <2>. QED  BY <2>1
<1>0. T # {}
  OBVIOUS
<1>2. PICK x \in T : \A y \in T : <<y, x>> \notin OpToRel(<, Nat)
  BY <1>0, <1>1, NatLessThanWellFounded, WFMin
<1>3. \A y \in T : ~(y < x)
  BY <1>1, <1>2 DEF OpToRel
<1>4. PICK m \in S : x = DayCount - m
  BY <1>2
<1>5. ASSUME NEW e \in S PROVE m >= e
  <2>1. DayCount - e \in T
    OBVIOUS
  <2>2. ~(DayCount - e < x)
    BY <1>3, <2>1
  <2>. QED  BY <1>4, <2>2
<1>. QED  BY <1>5 DEF Max

\* ... and a first day.
LEMMA FirstDayExists ==
  ASSUME NEW S, S \subseteq Days, S # {}
  PROVE  Min(S) \in S
<1>1. S \subseteq Nat
  BY DaysAssumed DEF DaysAssumption, Days
<1>2. PICK x \in S : \A y \in S : <<y, x>> \notin OpToRel(<, Nat)
  BY <1>1, NatLessThanWellFounded, WFMin
<1>3. \A y \in S : ~(y < x)
  BY <1>1, <1>2 DEF OpToRel
<1>4. \A y \in S : x =< y
  BY <1>1, <1>3
<1>. QED  BY <1>4 DEF Min

LEMMA InitIInv == Init => IInv
<1> SUFFICES ASSUME Init PROVE IInv
  OBVIOUS
<1> USE DaysAssumed DEF DaysAssumption
<1>1. TypeOK
  <2>1. folder \in [Days -> Folder]
    BY DEF Init, EmptyFolder, Folder
  <2>2. /\ call \in CallType /\ head \in StateId /\ previous \in StateId
        /\ index \in [state : {"absent", "clean", "hot"}, rows : StateId]
    BY DEF Init, NoCall, CallType, StateId
  <2>3. budget \in [faults : Nat, drifts : Nat, losses : Nat]
    BY BoundsAssumed DEF Init, BoundAssumption
  <2>. QED
    BY <2>1, <2>2, <2>3 DEF Init, TypeOK
<1>2. \A d \in Days : FolderInv(d)
  BY DEF Init, EmptyFolder, FolderInv
<1>3. CallInv
  BY DEF Init, CallInv, Backed, Points, AfterFolder, AfterRequest, AfterIntent, AfterDelta
<1>4. StateInv
  BY DEF Init, StateInv, Backed
<1>5. AckedIsDurable
  BY DEF Init, AckedIsDurable
<1>. QED
  BY <1>1, <1>2, <1>3, <1>4, <1>5 DEF IInv

(***************************************************************************)
(* What an action leaves alone keeps its part of the invariant; the object *)
(* store only grows.                                                       *)
(***************************************************************************)
LEMMA FolderFrame ==
  ASSUME IInv, objects \subseteq objects', UNCHANGED folder
  PROVE  \A d \in Days : FolderInv(d)'
<1> SUFFICES ASSUME NEW d \in Days PROVE FolderInv(d)'
  OBVIOUS
<1>1. FolderInv(d) /\ folder'[d] = folder[d]
  BY DEF IInv
<1>2. \A rows : Backed(rows) => Backed(rows)'
  BY DEF Backed
<1>. QED
  BY <1>1, <1>2 DEF FolderInv

LEMMA StateFrame ==
  ASSUME IInv, objects \subseteq objects', UNCHANGED <<base, index>>
  PROVE  StateInv'
BY DEF IInv, StateInv, Backed

LEMMA AckedFrame ==
  ASSUME IInv, UNCHANGED <<folder, acked>>
  PROVE  AckedIsDurable'
BY DEF IInv, AckedIsDurable

\* The rows and days read from a well-typed archive are well typed.
LEMMA ReadTypes ==
  ASSUME TypeOK
  PROVE  /\ BaseRows \in StateId
         /\ Chain \in StateId
         /\ \A rows \in StateId : LastDay(rows) \in Days \cup {0}
         /\ PendingDay \in Days \cup {0}
<1>1. BaseRows \in StateId
  BY DEF TypeOK, BaseRows, Base, StateId
<1>2. Chain \in StateId
  <2>1. CASE Published = {}
    BY <1>1, <2>1 DEF Chain
  <2>2. CASE Published # {}
    <3>1. Max(Published) \in Published
      BY <2>2, LastDayExists DEF Published
    <3>2. folder[Max(Published)].delta \in Delta
      BY <3>1 DEF Published, TypeOK, Folder
    <3>3. Post(folder[Max(Published)].delta) \in StateId
      BY <3>2 DEF Delta, StateId, Post
    <3>. QED  BY <2>2, <3>3 DEF Chain
  <2>. QED  BY <2>1, <2>2
<1>3. ASSUME NEW rows \in StateId PROVE LastDay(rows) \in Days \cup {0}
  <2>1. CASE rows = <<>>
    BY <2>1 DEF LastDay
  <2>2. CASE rows # <<>>
    <3>1. rows[Len(rows)] \in Row
      BY <2>2 DEF StateId
    <3>. QED  BY <2>2, <3>1 DEF LastDay, Row, Doc
  <2>. QED  BY <2>1, <2>2
<1>4. PendingDay \in Days \cup {0}
  <2> DEFINE open == {d \in Started : folder[d].receipt = None}
  <2>1. open \subseteq Days
    BY DEF Started
  <2>2. open # {} => Max(open) \in open
    BY <2>1, LastDayExists
  <2>. QED  BY <2>1, <2>2 DEF PendingDay
<1>. QED  BY <1>1, <1>2, <1>3, <1>4

LEMMA EmptyState == <<>> \in StateId /\ Backed(<<>>) /\ Backed(<<>>)'
BY DEF StateId, Backed

\* A call that ends with an error.
LEMMA RefuseStep ==
  ASSUME IInv, Refuse, pc \in Points
  PROVE  IInv'
<1>1. TypeOK'
  BY EmptyState DEF IInv, TypeOK, Refuse, Leave, disk, NoCall, CallType
<1>2. CallInv'
  <2>1. pc # "down"
    BY DEF Points
  <2>. QED
    BY <2>1, EmptyState DEF IInv, CallInv, Refuse, Leave, disk, Backed, Points,
                            AfterFolder, AfterRequest, AfterIntent, AfterDelta
<1>. QED
  BY <1>1, <1>2, FolderFrame, StateFrame, AckedFrame DEF IInv, Refuse, disk

LEMMA OpenCloseStep ==
  ASSUME IInv, Open \/ Close
  PROVE  IInv'
<1>1. CASE Open
  <2>1. TypeOK'
    BY <1>1, EmptyState DEF IInv, TypeOK, Open, Forget, NoCall, CallType
  <2>2. CallInv'
    BY <1>1 DEF IInv, TypeOK, CallInv, Open, Forget, Backed, Points, AfterFolder,
                AfterRequest, AfterIntent, AfterDelta
  <2>. QED
    BY <1>1, <2>1, <2>2, FolderFrame, StateFrame, AckedFrame DEF IInv, Open
<1>2. CASE Close
  <2>1. TypeOK'
    BY <1>2, EmptyState DEF IInv, TypeOK, Close, Forget, NoCall, CallType, disk
  <2>2. CallInv'
    BY <1>2 DEF IInv, TypeOK, CallInv, Close, Forget, Backed, Points, AfterFolder,
                AfterRequest, AfterIntent, AfterDelta
  <2>. QED
    BY <1>2, <2>1, <2>2, FolderFrame, StateFrame, AckedFrame DEF IInv, Close, disk
<1>. QED  BY <1>1, <1>2

LEMMA ImportStep ==
  ASSUME IInv, NEW rows \in Snapshots, NEW doc \in Doc, ImportSnapshot(rows, doc)
  PROVE  IInv'
<1>1. rows \in StateId
  BY SnapshotsAssumed DEF SnapshotAssumption
<1>2. objects \subseteq objects' /\ Backed(rows)'
  BY DEF ImportSnapshot, Backed
<1>3. TypeOK'
  BY <1>1 DEF IInv, TypeOK, ImportSnapshot, process, Base, IdentityOf, Identity, Doc
<1>4. CallInv'
  BY <1>2 DEF IInv, CallInv, ImportSnapshot, process, Backed, Points, AfterFolder,
              AfterRequest, AfterIntent, AfterDelta
<1>5. StateInv'
  BY <1>2 DEF IInv, StateInv, ImportSnapshot, Backed
<1>. QED
  BY <1>2, <1>3, <1>4, <1>5, FolderFrame, AckedFrame DEF IInv, ImportSnapshot

LEMMA CallStep ==
  ASSUME IInv,
         \/ \E doc \in Doc : \E pred \in {None, BaseRows} : RunDay(doc, pred)
         \/ ExportBundle
  PROVE  IInv'
<1>1. CASE \E doc \in Doc : \E pred \in {None, BaseRows} : RunDay(doc, pred)
  <2>1. PICK doc \in Doc, pred \in {None, BaseRows} : RunDay(doc, pred)
    BY <1>1
  <2>2. TypeOK'
    BY <2>1, ReadTypes DEF IInv, TypeOK, RunDay, CallType, Points, disk
  <2>3. CallInv'
    BY <2>1 DEF IInv, CallInv, RunDay, Backed, Points, AfterFolder, AfterRequest,
                AfterIntent, AfterDelta, disk
  <2>. QED
    BY <2>1, <2>2, <2>3, FolderFrame, StateFrame, AckedFrame DEF IInv, RunDay, disk
<1>2. CASE ExportBundle
  <2>1. folder[Min(Started)].request \in Doc
    <3>1. Min(Started) \in Started
      BY <1>2, FirstDayExists DEF ExportBundle, Started
    <3>. QED  BY <1>2, <3>1 DEF IInv, TypeOK, ExportBundle, Started, Folder
  <2>2. TypeOK'
    BY <1>2, <2>1 DEF IInv, TypeOK, ExportBundle, CallType, Points, disk
  <2>3. CallInv'
    BY <1>2, <2>1 DEF IInv, CallInv, ExportBundle, Backed, Points, AfterFolder,
                AfterRequest, AfterIntent, AfterDelta, disk
  <2>. QED
    BY <1>2, <2>2, <2>3, FolderFrame, StateFrame, AckedFrame DEF IInv, ExportBundle, disk
<1>. QED  BY <1>1, <1>2

\* The rows of the published chain have their results in the store.
LEMMA ChainBacked ==
  ASSUME IInv
  PROVE  Backed(Chain)
<1>1. CASE Published = {}
  BY <1>1, EmptyState DEF IInv, StateInv, Chain, BaseRows
<1>2. CASE Published # {}
  <2> DEFINE delta == folder[Max(Published)].delta
  <2>1. Max(Published) \in Published
    BY <1>2, LastDayExists DEF Published
  <2>2. delta \in Delta /\ Backed(delta.prev) /\ <<"result", delta.row.doc>> \in objects
    BY <2>1 DEF Published, IInv, TypeOK, Folder, FolderInv
  <2>3. Backed(Append(delta.prev, delta.row))
    BY <2>2 DEF Backed, Delta, StateId
  <2>. QED  BY <1>2, <2>3 DEF Chain, Post
<1>. QED  BY <1>1, <1>2

LEMMA RecoverStep ==
  ASSUME IInv, RecoverBase \/ RecoverJob \/ RecoverScan \/ RecoverIndex
  PROVE  IInv'
<1>1. pc \in Points /\ call.doc \in Doc /\ pin \in Versions
  BY DEF RecoverBase, RecoverJob, RecoverScan, RecoverIndex, Points, IInv, CallInv
<1>2. IdentityOf(call.doc) \in Identity
  BY <1>1 DEF IdentityOf, Identity, Doc
<1>3. CASE RecoverBase /\ ~Refuse
  <2>1. base' = (IF base = None THEN [id |-> IdentityOf(call.doc), rows |-> <<>>] ELSE base)
        /\ Goto("recoverJob")
        /\ UNCHANGED <<manifest, folder, index, objects, codeVersion, budget, acked, exported>>
    BY <1>3 DEF RecoverBase
  <2>2. TypeOK'
    BY <1>2, <2>1, EmptyState DEF IInv, TypeOK, Goto, Base, Points
  <2>3. CallInv'
    BY <1>1, <2>1 DEF IInv, CallInv, Goto, Backed, Points, AfterFolder, AfterRequest,
                      AfterIntent, AfterDelta
  <2>4. StateInv'
    BY <2>1, EmptyState DEF IInv, StateInv, Backed
  <2>. QED
    BY <2>1, <2>2, <2>3, <2>4, FolderFrame, AckedFrame DEF IInv
<1>4. CASE RecoverJob /\ ~Refuse
  <2>1. manifest' = [id |-> IdentityOf(call.doc), assets |-> pin]
        /\ Goto("recoverScan")
        /\ UNCHANGED <<base, folder, index, objects, codeVersion, budget, acked, exported>>
    BY <1>4 DEF RecoverJob
  <2>2. TypeOK'
    BY <1>1, <1>2, <2>1 DEF IInv, TypeOK, Goto, Manifest, Points
  <2>3. CallInv'
    BY <1>1, <2>1 DEF IInv, CallInv, Goto, Backed, Points, AfterFolder, AfterRequest,
                      AfterIntent, AfterDelta
  <2>. QED
    BY <2>1, <2>2, <2>3, FolderFrame, StateFrame, AckedFrame DEF IInv
<1>5. ASSUME RecoverScan, ~Refuse, ~Recovered PROVE IInv'
  <2>1. Goto("recoverIndex") /\ UNCHANGED <<disk, codeVersion, budget, acked, exported>>
    BY <1>5 DEF RecoverScan
  <2>2. TypeOK'
    BY <2>1 DEF IInv, TypeOK, Goto, Points, disk
  <2>3. CallInv'
    BY <1>1, <2>1 DEF IInv, CallInv, Goto, Backed, Points, AfterFolder, AfterRequest,
                      AfterIntent, AfterDelta, disk
  <2>. QED
    BY <2>1, <2>2, <2>3, FolderFrame, StateFrame, AckedFrame DEF IInv, disk
<1>6. ASSUME Recovered, \/ UNCHANGED index
                        \/ index' = [state |-> "clean", rows |-> Chain]
      PROVE IInv'
  <2>1. Chain \in StateId /\ LastDay(Chain) \in Days \cup {0} /\ PendingDay \in Days \cup {0}
    BY ReadTypes DEF IInv
  <2>2. Backed(Chain)
    BY ChainBacked
  <2>3. TypeOK'
    BY <1>1, <1>2, <1>6, <2>1 DEF IInv, TypeOK, Recovered, Points
  <2>4. CallInv'
    BY <1>1, <1>6, <2>2 DEF IInv, CallInv, Recovered, Backed, Points, AfterFolder,
                            AfterRequest, AfterIntent, AfterDelta
  <2>5. StateInv'
    BY <1>6, <2>2 DEF IInv, StateInv, Recovered, Backed
  <2>. QED
    BY <1>6, <2>3, <2>4, <2>5, FolderFrame, AckedFrame DEF IInv, Recovered
<1>7. CASE Refuse
  BY <1>1, <1>7, RefuseStep
<1>8. CASE RecoverScan
  <2>1. CASE Recovered
    <3>1. pc' \in {"admit", "export"}
      BY <2>1 DEF Recovered
    <3>2. UNCHANGED index
      BY <1>8, <3>1 DEF RecoverScan, Refuse, Leave, Goto, disk
    <3>. QED  BY <1>6, <2>1, <3>2
  <2>. QED  BY <1>5, <1>7, <1>8, <2>1
<1>9. CASE RecoverIndex
  BY <1>6, <1>9 DEF RecoverIndex
<1>. QED
  BY <1>3, <1>4, <1>7, <1>8, <1>9

\* The state a receipt leads to has all its results in the store.
LEMMA ReceiptFacts ==
  ASSUME IInv, NEW d \in Days, folder[d].receipt # None
  PROVE  /\ folder[d].receipt \in Receipt
         /\ Backed(folder[d].receipt.post)
<1>1. folder[d].delta \in Delta /\ folder[d].receipt \in Receipt
  BY DEF IInv, TypeOK, Folder, FolderInv
<1>2. Backed(folder[d].delta.prev) /\ <<"result", folder[d].delta.row.doc>> \in objects
  BY DEF IInv, FolderInv
<1>3. Backed(Append(folder[d].delta.prev, folder[d].delta.row))
  BY <1>1, <1>2 DEF Backed, Delta, StateId
<1>. QED  BY <1>1, <1>3 DEF IInv, FolderInv, Post

LEMMA AdmitStep ==
  ASSUME IInv, Admit
  PROVE  IInv'
<1>1. pc \in Points /\ call.doc \in Doc /\ pin \in Versions /\ call.doc.day \in Days
  BY DEF Admit, Points, IInv, CallInv, Doc
<1>2. IdentityOf(call.doc) \in Identity
  BY <1>1 DEF IdentityOf, Identity, Doc
<1>3. CASE ~SameTemplate /\ Refuse
  BY <1>1, <1>3, RefuseStep
<1>4. ASSUME template' = IdentityOf(call.doc), AdmitComplete
      PROVE  IInv'
  <2> DEFINE receipt == folder[call.doc.day].receipt
  <2>1. receipt \in Receipt /\ Backed(receipt.post)
    BY <1>1, <1>4, ReceiptFacts DEF AdmitComplete
  <2>2. TypeOK'
    BY <1>1, <1>2, <1>4, <2>1, EmptyState
       DEF IInv, TypeOK, AdmitComplete, Leave, NoCall, CallType, Receipt, disk
  <2>3. CallInv'
    BY <1>1, <1>4, <2>1, EmptyState
       DEF IInv, CallInv, AdmitComplete, Leave, Backed, Points, AfterFolder, AfterRequest,
           AfterIntent, AfterDelta, disk
  <2>4. AckedIsDurable'
    BY <1>4 DEF IInv, AckedIsDurable, AdmitComplete, disk
  <2>. QED
    BY <1>4, <2>2, <2>3, <2>4, FolderFrame, StateFrame DEF IInv, AdmitComplete, disk
<1>5. ASSUME template' = IdentityOf(call.doc), AdmitFresh
      PROVE  IInv'
  <2>1. previous' \in StateId /\ Backed(previous')
    <3>1. IntentOf(call.doc.day).prev \in StateId
      BY <1>1 DEF IntentOf, IInv, TypeOK, Folder, Intent
    <3>2. Backed(IntentOf(call.doc.day).prev)
      BY <1>1 DEF IntentOf, IInv, CallInv, FolderInv
    <3>. QED  BY <1>5, <3>1, <3>2 DEF AdmitFresh
  <2>2. TypeOK'
    BY <1>2, <1>5, <2>1 DEF IInv, TypeOK, AdmitFresh, Points, disk
  <2>3. CallInv'
    BY <1>1, <1>5, <2>1
       DEF IInv, CallInv, AdmitFresh, Backed, Points, AfterFolder, AfterRequest,
           AfterIntent, AfterDelta, disk
  <2>. QED
    BY <1>5, <2>2, <2>3, FolderFrame, StateFrame, AckedFrame DEF IInv, AdmitFresh, disk
<1>6. ASSUME template' = IdentityOf(call.doc), AdmitRefused
      PROVE  IInv'
  <2>1. TypeOK'
    BY <1>2, <1>6, EmptyState
       DEF IInv, TypeOK, AdmitRefused, Leave, NoCall, CallType, disk
  <2>2. CallInv'
    BY <1>1, <1>6, EmptyState
       DEF IInv, CallInv, AdmitRefused, Leave, Backed, Points, AfterFolder, AfterRequest,
           AfterIntent, AfterDelta, disk
  <2>. QED
    BY <1>6, <2>1, <2>2, FolderFrame, StateFrame, AckedFrame DEF IInv, AdmitRefused, disk
<1>. QED
  BY <1>3, <1>4, <1>5, <1>6 DEF Admit

\* Writing one file of a day: the others, and the other days, stay as they are.
LEMMA WriteOnceFacts ==
  ASSUME TypeOK, NEW d \in Days, NEW file \in {"request", "intent", "delta", "receipt"},
         NEW value, NEW next, WriteOnce(d, file, value, next), ~Refuse
  PROVE  /\ folder[d][file] \in {None, value}
         /\ folder' = [folder EXCEPT ![d] = [folder[d] EXCEPT ![file] = value]]
         /\ Goto(next)
         /\ UNCHANGED <<base, manifest, index, objects, codeVersion, budget, acked, exported>>
BY DEF WriteOnce, TypeOK

LEMMA AckedAfterWrite ==
  ASSUME IInv, UNCHANGED acked,
         \A d \in Days : folder[d].receipt # None => folder'[d].receipt = folder[d].receipt
  PROVE  AckedIsDurable'
<1>1. \A a \in acked : a.asked.day \in Days /\ a.receipt \in Receipt
  BY DEF IInv, TypeOK, Doc
<1>2. None \notin Receipt
  BY NoneAssumed DEF NoneAssumption
<1>. QED
  BY <1>1, <1>2 DEF IInv, AckedIsDurable

LEMMA MakeFolderStep ==
  ASSUME IInv, MakeFolder
  PROVE  IInv'
<1>1. call.doc \in Doc /\ call.doc.day \in Days
  BY DEF MakeFolder, Points, IInv, CallInv, Doc
<1>2. /\ folder' = [folder EXCEPT ![call.doc.day] = [folder[call.doc.day] EXCEPT !.made = TRUE]]
      /\ Goto("request")
      /\ UNCHANGED <<base, manifest, index, objects, codeVersion, budget, acked, exported>>
  BY DEF MakeFolder
<1>3. folder \in [Days -> Folder]
  BY DEF IInv, TypeOK
<1>4. TypeOK'
  <2>1. [folder[call.doc.day] EXCEPT !.made = TRUE] \in Folder
    BY <1>1, <1>3 DEF Folder
  <2>2. folder' \in [Days -> Folder]
    BY <1>1, <1>2, <1>3, <2>1
  <2>. QED  BY <1>2, <2>2 DEF IInv, TypeOK, Goto, Points
<1>5. ASSUME NEW d \in Days PROVE FolderInv(d)'
  <2>1. FolderInv(d) /\ folder[d] \in Folder
    BY <1>3 DEF IInv
  <2>2. CASE d = call.doc.day
    BY <1>1, <1>2, <1>3, <2>1, <2>2 DEF FolderInv, Backed, Folder
  <2>3. CASE d # call.doc.day
    BY <1>1, <1>2, <1>3, <2>1, <2>3 DEF FolderInv, Backed
  <2>. QED  BY <2>2, <2>3
<1>6. CallInv'
  BY <1>1, <1>2, <1>3 DEF IInv, CallInv, Goto, Backed, MakeFolder, Points, AfterFolder,
                          AfterRequest, AfterIntent, AfterDelta, Folder
<1>7. AckedIsDurable'
  <2>1. \A d \in Days : folder'[d].receipt = folder[d].receipt
    BY <1>1, <1>2, <1>3 DEF Folder
  <2>. QED  BY <1>2, <2>1, AckedAfterWrite
<1>. QED
  BY <1>2, <1>4, <1>5, <1>6, <1>7, StateFrame DEF IInv

LEMMA WriteRequestStep ==
  ASSUME IInv, WriteRequest
  PROVE  IInv'
<1> DEFINE day == call.doc.day
<1>1. pc = "request" /\ pc \in Points /\ call.doc \in Doc /\ day \in Days
  BY DEF WriteRequest, Points, IInv, CallInv, Doc
<1>2. CASE Refuse
  BY <1>1, <1>2, RefuseStep
<1>3. CASE ~Refuse
  <2>1. /\ folder[day].request \in {None, call.doc}
        /\ folder' = [folder EXCEPT ![day] = [folder[day] EXCEPT !.request = call.doc]]
        /\ Goto("intent")
        /\ UNCHANGED <<base, manifest, index, objects, codeVersion, budget, acked, exported>>
    BY <1>1, <1>3, WriteOnceFacts DEF WriteRequest, IInv
  <2>2. folder \in [Days -> Folder] /\ None \notin Doc
    BY NoneAssumed DEF IInv, TypeOK, NoneAssumption
  <2>3. TypeOK'
    BY <1>1, <2>1 DEF IInv, TypeOK, Goto, Folder, Points
  <2>4. ASSUME NEW d \in Days PROVE FolderInv(d)'
    <3>1. FolderInv(d) /\ folder[d] \in Folder /\ (d = day => folder[d].made)
      BY <1>1, <2>2 DEF IInv, CallInv, AfterFolder
    <3>2. CASE d = day
      <4>1. folder'[d] = [folder[d] EXCEPT !.request = call.doc]
        BY <1>1, <2>1, <2>2, <3>2
      <4>2. folder[d].intent # None => folder[d].intent.doc \in Doc
        BY <3>1 DEF Folder, Intent
      <4>. QED
        BY <1>1, <2>1, <2>2, <3>1, <3>2, <4>1, <4>2 DEF FolderInv, Backed, Folder
    <3>3. CASE d # day
      BY <1>1, <2>1, <2>2, <3>1, <3>3 DEF FolderInv, Backed
    <3>. QED  BY <3>2, <3>3
  <2>5. CallInv'
    BY <1>1, <2>1, <2>2 DEF IInv, CallInv, Goto, Backed, Points, AfterFolder,
                            AfterRequest, AfterIntent, AfterDelta, Folder
  <2>6. AckedIsDurable'
    <3>1. \A d \in Days : folder'[d].receipt = folder[d].receipt
      BY <1>1, <2>1, <2>2 DEF Folder
    <3>. QED  BY <2>1, <3>1, AckedAfterWrite
  <2>. QED
    BY <2>1, <2>3, <2>4, <2>5, <2>6, StateFrame DEF IInv
<1>. QED  BY <1>2, <1>3

LEMMA WriteIntentStep ==
  ASSUME IInv, WriteIntent
  PROVE  IInv'
<1> DEFINE day == call.doc.day
           value == [doc |-> call.doc, prev |-> previous]
<1>1. pc = "intent" /\ pc \in Points /\ call.doc \in Doc /\ day \in Days /\ value \in Intent
  BY DEF WriteIntent, Points, IInv, TypeOK, CallInv, Doc, Intent
<1>2. CASE Refuse
  BY <1>1, <1>2, RefuseStep
<1>3. CASE ~Refuse
  <2>1. /\ folder[day].intent \in {None, value}
        /\ folder' = [folder EXCEPT ![day] = [folder[day] EXCEPT !.intent = value]]
        /\ Goto("mark")
        /\ UNCHANGED <<base, manifest, index, objects, codeVersion, budget, acked, exported>>
    BY <1>1, <1>3, WriteOnceFacts DEF WriteIntent, IInv
  <2>2. folder \in [Days -> Folder] /\ None \notin Intent
    BY NoneAssumed DEF IInv, TypeOK, NoneAssumption
  <2>3. TypeOK'
    BY <1>1, <2>1 DEF IInv, TypeOK, Goto, Folder, Points
  <2>4. ASSUME NEW d \in Days PROVE FolderInv(d)'
    <3>1. FolderInv(d) /\ folder[d] \in Folder
      BY <2>2 DEF IInv
    <3>2. CASE d = day
      <4>1. folder'[d] = [folder[d] EXCEPT !.intent = value]
        BY <1>1, <2>1, <2>2, <3>2
      <4>2. folder[d].request = call.doc /\ Backed(previous)
        BY <1>1, <3>2 DEF IInv, CallInv, AfterRequest, AfterFolder
      <4>. QED
        BY <1>1, <2>1, <2>2, <3>1, <3>2, <4>1, <4>2 DEF FolderInv, Backed, Folder
    <3>3. CASE d # day
      BY <1>1, <2>1, <2>2, <3>1, <3>3 DEF FolderInv, Backed
    <3>. QED  BY <3>2, <3>3
  <2>5. CallInv'
    BY <1>1, <2>1, <2>2 DEF IInv, CallInv, Goto, Backed, Points, AfterFolder,
                            AfterRequest, AfterIntent, AfterDelta, Folder
  <2>6. AckedIsDurable'
    <3>1. \A d \in Days : folder'[d].receipt = folder[d].receipt
      BY <1>1, <2>1, <2>2 DEF Folder
    <3>. QED  BY <2>1, <3>1, AckedAfterWrite
  <2>. QED
    BY <2>1, <2>3, <2>4, <2>5, <2>6, StateFrame DEF IInv
<1>. QED  BY <1>2, <1>3

LEMMA WriteDeltaStep ==
  ASSUME IInv, WriteDelta
  PROVE  IInv'
<1> DEFINE day == call.doc.day
<1>1. pc = "delta" /\ pc \in Points /\ call.doc \in Doc /\ day \in Days
  BY DEF WriteDelta, Points, IInv, CallInv, Doc
<1>2. CASE Refuse
  BY <1>1, <1>2, RefuseStep
<1>3. CASE ~Refuse
  <2>1. NewDelta \in Delta /\ NewDelta.prev = previous /\ NewDelta.row.doc = call.doc
        /\ <<"result", call.doc>> \in objects
    <3>1. PICK i \in CommittedRows : NewDelta = [prev |-> previous, row |-> index.rows[i]]
      BY <1>3 DEF WriteDelta, NewDelta
    <3>2. i \in 1..Len(index.rows) /\ index.rows[i].doc = call.doc
          /\ index.rows \in Seq(Row) /\ previous \in StateId
      BY <3>1 DEF CommittedRows, IInv, TypeOK, StateId
    <3>3. index.rows[i] \in Row
      BY <3>2
    <3>. QED  BY <3>1, <3>2, <3>3 DEF Delta, IInv, StateInv, Backed
  <2>2. /\ folder[day].delta \in {None, NewDelta}
        /\ folder' = [folder EXCEPT ![day] = [folder[day] EXCEPT !.delta = NewDelta]]
        /\ Goto("objects")
        /\ UNCHANGED <<base, manifest, index, objects, codeVersion, budget, acked, exported>>
    BY <1>1, <1>3, WriteOnceFacts DEF WriteDelta, IInv
  <2>3. folder \in [Days -> Folder] /\ None \notin Delta
    BY NoneAssumed DEF IInv, TypeOK, NoneAssumption
  <2>4. folder' \in [Days -> Folder]
    BY <1>1, <2>1, <2>2, <2>3 DEF Folder
  <2>5. TypeOK'
    BY <2>2, <2>4 DEF IInv, TypeOK, Goto, Points
  <2>6. ASSUME NEW d \in Days PROVE FolderInv(d)'
    <3>1. FolderInv(d) /\ folder[d] \in Folder
      BY <2>3 DEF IInv
    <3>2. CASE d = day
      <4>1. folder'[d] = [folder[d] EXCEPT !.delta = NewDelta]
        BY <1>1, <2>2, <2>3, <3>2
      <4>2. folder[d].intent = [doc |-> call.doc, prev |-> previous]
            /\ folder[d].intent # None
        BY <1>1, <3>2, NoneAssumed
           DEF IInv, TypeOK, CallInv, AfterIntent, AfterRequest, AfterFolder, NoneAssumption,
               Intent
      <4>3. folder[d].receipt # None => folder'[d] = folder[d]
        BY <2>2, <3>1, <3>2, <4>1 DEF FolderInv, Folder
      <4>4. CASE folder[d].receipt = None
        BY <1>1, <2>1, <2>2, <2>3, <3>1, <3>2, <4>1, <4>2, <4>4
           DEF FolderInv, Backed, Folder
      <4>5. CASE folder[d].receipt # None
        BY <2>2, <3>1, <4>3, <4>5 DEF FolderInv, Backed
      <4>. QED  BY <4>4, <4>5
    <3>3. CASE d # day
      BY <1>1, <2>2, <2>3, <3>1, <3>3 DEF FolderInv, Backed
    <3>. QED  BY <3>2, <3>3
  <2>7. CallInv'
    BY <1>1, <2>1, <2>2, <2>3 DEF IInv, CallInv, Goto, Backed, Points, AfterFolder,
                            AfterRequest, AfterIntent, AfterDelta, Folder
  <2>8. AckedIsDurable'
    <3>1. \A d \in Days : folder'[d].receipt = folder[d].receipt
      BY <1>1, <2>2, <2>3 DEF Folder
    <3>. QED  BY <2>2, <3>1, AckedAfterWrite
  <2>. QED
    BY <2>2, <2>5, <2>6, <2>7, <2>8, StateFrame DEF IInv
<1>. QED  BY <1>2, <1>3

LEMMA WriteReceiptStep ==
  ASSUME IInv, WriteReceipt
  PROVE  IInv'
<1> DEFINE day == call.doc.day
<1>1. pc = "receipt" /\ pc \in Points /\ call.doc \in Doc /\ day \in Days
      /\ pin \in Versions /\ <<"assets", pin>> \in objects
  BY DEF WriteReceipt, Points, IInv, CallInv, Doc
<1>2. CASE Refuse
  BY <1>1, <1>2, RefuseStep
<1>3. CASE ~Refuse
  <2>1. /\ folder[day].receipt \in {None, NewReceipt}
        /\ folder' = [folder EXCEPT ![day] = [folder[day] EXCEPT !.receipt = NewReceipt]]
        /\ Goto("return")
        /\ UNCHANGED <<base, manifest, index, objects, codeVersion, budget, acked, exported>>
    BY <1>1, <1>3, WriteOnceFacts DEF WriteReceipt, IInv
  <2>2. folder \in [Days -> Folder] /\ None \notin Receipt
    BY NoneAssumed DEF IInv, TypeOK, NoneAssumption
  <2>3. /\ folder[day].delta # None
        /\ folder[day].delta \in Delta
        /\ folder[day].intent = [doc |-> call.doc, prev |-> previous]
        /\ folder[day].delta.row.doc = call.doc
        /\ <<"result", call.doc>> \in objects
    BY <1>1, <2>2 DEF IInv, CallInv, FolderInv, AfterDelta, AfterIntent, AfterRequest,
                      AfterFolder, Folder
  <2>4. NewReceipt \in Receipt
    <3>1. Post(folder[day].delta) \in StateId
      BY <2>3 DEF Post, Delta, StateId
    <3>. QED  BY <1>1, <3>1 DEF NewReceipt, Receipt, IInv, TypeOK
  <2>5. References(NewReceipt, folder[day].delta) \subseteq objects
    BY <1>1, <2>3 DEF References, NewReceipt, IInv, CallInv
  <2>6. folder' \in [Days -> Folder]
    BY <1>1, <2>1, <2>2, <2>4 DEF Folder
  <2>7. TypeOK'
    BY <2>1, <2>6 DEF IInv, TypeOK, Goto, Points
  <2>8. ASSUME NEW d \in Days PROVE FolderInv(d)'
    <3>1. FolderInv(d) /\ folder[d] \in Folder
      BY <2>2 DEF IInv
    <3>2. CASE d = day
      <4>1. folder'[d] = [folder[d] EXCEPT !.receipt = NewReceipt]
        BY <1>1, <2>1, <2>2, <3>2
      <4>2. /\ folder'[d].made = folder[d].made
            /\ folder'[d].request = folder[d].request
            /\ folder'[d].intent = folder[d].intent
            /\ folder'[d].delta = folder[d].delta
            /\ folder'[d].receipt = NewReceipt
        BY <3>1, <4>1 DEF Folder
      <4>3. /\ NewReceipt.doc = folder[d].intent.doc
            /\ NewReceipt.prev = folder[d].intent.prev
            /\ NewReceipt.post = Post(folder[d].delta)
        BY <2>3, <3>2 DEF NewReceipt
      <4>4. References(NewReceipt, folder[d].delta) \subseteq objects
        BY <2>5, <3>2
      <4>5. \A rows : Backed(rows) => Backed(rows)'
        BY <2>1 DEF Backed
      <4>6. folder[d].request # None => folder[d].made /\ folder[d].request.day = d
        BY <3>1 DEF FolderInv
      <4>7. folder[d].request = folder[d].intent.doc /\ Backed(folder[d].intent.prev)
        BY <2>2, <2>3, <3>1, <3>2, NoneAssumed DEF FolderInv
      <4>8. /\ folder[d].intent # None
            /\ folder[d].delta.prev = folder[d].intent.prev
            /\ folder[d].delta.row.doc = folder[d].intent.doc
            /\ <<"result", folder[d].delta.row.doc>> \in objects
        BY <2>3, <3>1, <3>2 DEF FolderInv
      <4>9. Post(folder'[d].delta) = Post(folder[d].delta)
             /\ References(folder'[d].receipt, folder'[d].delta)
                  = References(NewReceipt, folder[d].delta)
        BY <4>2
      <4>10. objects' = objects
        BY <2>1
      <4>. HIDE DEF day
      <4>. QED
        BY <2>3, <3>2, <4>2, <4>3, <4>4, <4>5, <4>6, <4>7, <4>8, <4>9, <4>10
           DEF FolderInv
    <3>3. CASE d # day
      BY <1>1, <2>1, <2>2, <3>1, <3>3 DEF FolderInv, Backed
    <3>. QED  BY <3>2, <3>3
  <2>9. CallInv'
    BY <1>1, <2>1, <2>2, <2>4 DEF IInv, CallInv, Goto, Backed, Points, AfterFolder,
                            AfterRequest, AfterIntent, AfterDelta, Folder
  <2>10. AckedIsDurable'
    <3>1. \A d \in Days : folder[d].receipt # None => folder'[d].receipt = folder[d].receipt
      BY <1>1, <2>1, <2>2 DEF Folder
    <3>. QED  BY <2>1, <3>1, AckedAfterWrite
  <2>. QED
    BY <2>1, <2>7, <2>8, <2>9, <2>10, StateFrame DEF IInv
<1>. QED  BY <1>2, <1>3

\* The steps that change neither the files of a day nor what was returned.
LEMMA EngineStep ==
  ASSUME IInv, MarkPending \/ BeginSession \/ StoreResult \/ Commit \/ StoreObjects
  PROVE  IInv'
<1> DEFINE day == call.doc.day
<1>1. pc \in Points /\ call.doc \in Doc /\ day \in Days
  BY DEF MarkPending, BeginSession, StoreResult, Commit, StoreObjects, Points, IInv,
         CallInv, Doc
<1>2. CASE Refuse
  BY <1>1, <1>2, RefuseStep
<1>3. CASE MarkPending
  <2>1. TypeOK'
    BY <1>1, <1>3 DEF IInv, TypeOK, MarkPending, Points, disk
  <2>2. CallInv'
    BY <1>1, <1>3 DEF IInv, CallInv, MarkPending, Backed, Points, AfterFolder,
                      AfterRequest, AfterIntent, AfterDelta, disk
  <2>. QED
    BY <1>3, <2>1, <2>2, FolderFrame, StateFrame, AckedFrame DEF IInv, MarkPending, disk
<1>4. CASE BeginSession /\ ~Refuse
  <2>1. /\ pc = "begin"
        /\ Goto("delta") \/ Goto("result")
        /\ UNCHANGED <<disk, codeVersion, budget, acked, exported>>
    BY <1>4 DEF BeginSession
  <2>2. TypeOK'
    BY <2>1 DEF IInv, TypeOK, Goto, Points, disk
  <2>3. CallInv'
    BY <1>1, <2>1 DEF IInv, CallInv, Goto, Backed, Points, AfterFolder, AfterRequest,
                      AfterIntent, AfterDelta, disk
  <2>. QED
    BY <2>1, <2>2, <2>3, FolderFrame, StateFrame, AckedFrame DEF IInv, disk
<1>5. CASE StoreResult /\ ~Refuse
  <2>1. /\ pc = "result"
        /\ objects' = objects \cup {<<"result", call.doc>>}
        /\ Goto("commit")
        /\ UNCHANGED <<base, manifest, folder, index, codeVersion, budget, acked, exported>>
    BY <1>5 DEF StoreResult
  <2>2. TypeOK'
    BY <2>1 DEF IInv, TypeOK, Goto, Points
  <2>3. CallInv'
    BY <1>1, <2>1 DEF IInv, CallInv, Goto, Backed, Points, AfterFolder, AfterRequest,
                      AfterIntent, AfterDelta
  <2>. QED
    BY <2>1, <2>2, <2>3, FolderFrame, StateFrame, AckedFrame DEF IInv
<1>6. CASE Commit /\ ~Refuse
  <2> DEFINE row == NextRow(index.rows, call.doc)
  <2>1. /\ pc = "commit"
        /\ index' = [index EXCEPT !.rows = Append(index.rows, row)]
        /\ Goto("delta")
        /\ UNCHANGED <<base, manifest, folder, objects, codeVersion, budget, acked, exported>>
    BY <1>6 DEF Commit
  <2>2. index.rows \in Seq(Row) /\ row \in Row /\ row.doc = call.doc
    <3>1. index.rows \in Seq(Row)
      BY DEF IInv, TypeOK, StateId
    <3>2. LastDoc(index.rows) \in Doc \cup {None}
      <4>1. CASE index.rows = <<>>
        BY <4>1 DEF LastDoc
      <4>2. CASE index.rows # <<>>
        <5>1. index.rows[Len(index.rows)] \in Row
          BY <3>1, <4>2
        <5>. QED  BY <4>2, <5>1 DEF LastDoc, Row
      <4>. QED  BY <4>1, <4>2
    <3>. QED  BY <1>1, <3>1, <3>2 DEF NextRow, Row
  <2>3. index' \in [state : {"absent", "clean", "hot"}, rows : StateId]
        /\ index'.rows = Append(index.rows, row)
    <3>1. Append(index.rows, row) \in StateId
      BY <2>2 DEF StateId
    <3>. HIDE DEF row
    <3>. QED  BY <2>1, <3>1 DEF IInv, TypeOK
  <2>4. TypeOK'
    BY <2>1, <2>3 DEF IInv, TypeOK, Goto, Points
  <2>5. CallInv'
    BY <1>1, <2>1 DEF IInv, CallInv, Goto, Backed, Points, AfterFolder, AfterRequest,
                      AfterIntent, AfterDelta
  <2>6. Backed(index.rows) /\ <<"result", call.doc>> \in objects
    BY <2>1 DEF IInv, StateInv, CallInv
  <2>7. StateInv'
    <3>1. Backed(Append(index.rows, row))
      <4>. HIDE DEF row
      <4>. QED  BY <2>2, <2>6 DEF Backed
    <3>. HIDE DEF row
    <3>. QED  BY <2>1, <2>3, <3>1 DEF IInv, StateInv, Backed
  <2>. QED
    BY <2>1, <2>4, <2>5, <2>7, FolderFrame, AckedFrame DEF IInv
<1>7. CASE StoreObjects
  <2>1. TypeOK'
    BY <1>7 DEF IInv, TypeOK, StoreObjects, Goto, Points
  <2>2. CallInv'
    BY <1>1, <1>7 DEF IInv, CallInv, StoreObjects, Goto, Backed, Points, AfterFolder,
                      AfterRequest, AfterIntent, AfterDelta
  <2>. QED
    BY <1>7, <2>1, <2>2, FolderFrame, StateFrame, AckedFrame DEF IInv, StoreObjects
<1>. QED  BY <1>2, <1>3, <1>4, <1>5, <1>6, <1>7

LEMMA ReturnStep ==
  ASSUME IInv, ReturnDay
  PROVE  IInv'
<1> DEFINE day == call.doc.day
           receipt == folder[day].receipt
<1>1. pc = "return" /\ call.doc \in Doc /\ day \in Days /\ pin \in Versions
      /\ receipt # None
  BY DEF ReturnDay, Points, IInv, CallInv, Doc
<1>2. receipt \in Receipt /\ Backed(receipt.post) /\ receipt.post \in StateId
  BY <1>1, ReceiptFacts DEF Receipt
<1>3. receipt.doc = call.doc
  BY <1>1 DEF IInv, CallInv, FolderInv, AfterIntent, AfterRequest, AfterFolder
<1>4. TypeOK'
  BY <1>1, <1>2, EmptyState
     DEF IInv, TypeOK, ReturnDay, Leave, NoCall, CallType, disk
<1>5. CallInv'
  BY <1>1, <1>2, EmptyState
     DEF IInv, CallInv, ReturnDay, Leave, Backed, Points, AfterFolder, AfterRequest,
         AfterIntent, AfterDelta, disk
<1>6. AckedIsDurable'
  BY <1>3 DEF IInv, AckedIsDurable, ReturnDay, disk
<1>. QED
  BY <1>4, <1>5, <1>6, FolderFrame, StateFrame DEF IInv, ReturnDay, disk

LEMMA BundleStep ==
  ASSUME IInv, WriteBundle
  PROVE  IInv'
<1>1. pc = "export" /\ Chain \in StateId /\ pin \in Versions
  BY ReadTypes DEF WriteBundle, IInv, CallInv
<1>2. exported' \subseteq StateId
  BY <1>1 DEF WriteBundle, IInv, TypeOK
<1>3. TypeOK'
  BY <1>2, EmptyState DEF IInv, TypeOK, WriteBundle, Leave, NoCall, CallType, disk
<1>4. CallInv'
  BY <1>1, EmptyState
     DEF IInv, CallInv, WriteBundle, Leave, Backed, Points, AfterFolder, AfterRequest,
         AfterIntent, AfterDelta, disk
<1>. QED
  BY <1>3, <1>4, FolderFrame, StateFrame, AckedFrame DEF IInv, WriteBundle, disk

\* Kills, exceptions, changes of the source and the loss of the index.
LEMMA FaultStep ==
  ASSUME IInv, Crash \/ Raise \/ SourceChange \/ LoseIndex
  PROVE  IInv'
<1>1. budget \in [faults : Nat, drifts : Nat, losses : Nat]
  BY DEF IInv, TypeOK
<1>2. CASE Crash
  <2>1. budget' \in [faults : Nat, drifts : Nat, losses : Nat]
        /\ index' \in [state : {"absent", "clean", "hot"}, rows : StateId]
        /\ index'.rows = index.rows
    BY <1>1, <1>2 DEF Crash, IInv, TypeOK
  <2>2. TypeOK'
    BY <1>2, <2>1, EmptyState DEF IInv, TypeOK, Crash, Forget, NoCall, CallType
  <2>3. CallInv'
    BY <1>2, EmptyState
       DEF IInv, CallInv, Crash, Forget, Backed, Points, AfterFolder, AfterRequest,
           AfterIntent, AfterDelta
  <2>4. StateInv'
    BY <1>2, <2>1 DEF IInv, StateInv, Crash, Backed
  <2>. QED
    BY <1>2, <2>2, <2>3, <2>4, FolderFrame, AckedFrame DEF IInv, Crash
<1>3. CASE Raise
  <2>1. budget' \in [faults : Nat, drifts : Nat, losses : Nat]
    BY <1>1, <1>3 DEF Raise
  <2>2. TypeOK'
    BY <1>3, <2>1, EmptyState DEF IInv, TypeOK, Raise, Leave, NoCall, CallType, disk
  <2>3. CallInv'
    BY <1>3, EmptyState, PointsAssumed
       DEF IInv, CallInv, Raise, Leave, Backed, Points, AfterFolder, AfterRequest,
           AfterIntent, AfterDelta, disk, PointAssumption
  <2>. QED
    BY <1>3, <2>2, <2>3, FolderFrame, StateFrame, AckedFrame DEF IInv, Raise, disk
<1>4. CASE SourceChange
  <2>1. budget' \in [faults : Nat, drifts : Nat, losses : Nat]
    BY <1>1, <1>4 DEF SourceChange
  <2>2. TypeOK'
    BY <1>4, <2>1 DEF IInv, TypeOK, SourceChange, disk
  <2>3. CallInv'
    BY <1>4 DEF IInv, CallInv, SourceChange, Backed, Points, AfterFolder, AfterRequest,
                AfterIntent, AfterDelta, disk
  <2>. QED
    BY <1>4, <2>2, <2>3, FolderFrame, StateFrame, AckedFrame DEF IInv, SourceChange, disk
<1>5. CASE LoseIndex
  <2>1. budget' \in [faults : Nat, drifts : Nat, losses : Nat]
    BY <1>1, <1>5 DEF LoseIndex
  <2>2. TypeOK'
    BY <1>5, <2>1, EmptyState DEF IInv, TypeOK, LoseIndex, process
  <2>3. CallInv'
    BY <1>5 DEF IInv, CallInv, LoseIndex, Backed, Points, AfterFolder, AfterRequest,
                AfterIntent, AfterDelta, process
  <2>4. StateInv'
    BY <1>5, EmptyState DEF IInv, StateInv, LoseIndex, Backed
  <2>. QED
    BY <1>5, <2>2, <2>3, <2>4, FolderFrame, AckedFrame DEF IInv, LoseIndex
<1>. QED  BY <1>2, <1>3, <1>4, <1>5

LEMMA NextIInv == IInv /\ [Next]_vars => IInv'
<1> SUFFICES ASSUME IInv, [Next]_vars PROVE IInv'
  OBVIOUS
<1>1. CASE UNCHANGED vars
  <2>1. TypeOK'
    BY <1>1 DEF IInv, TypeOK, vars, disk, process
  <2>2. CallInv'
    BY <1>1 DEF IInv, CallInv, Backed, vars, disk, process, Points, AfterFolder,
                AfterRequest, AfterIntent, AfterDelta
  <2>. QED
    BY <1>1, <2>1, <2>2, FolderFrame, StateFrame, AckedFrame DEF IInv, vars, disk
<1>2. CASE Step
  BY <1>2, RecoverStep, AdmitStep, MakeFolderStep, WriteRequestStep, WriteIntentStep,
     EngineStep, WriteDeltaStep, WriteReceiptStep, ReturnStep, BundleStep DEF Step
<1>3. CASE Environment
  <2>1. CASE Call
    BY <2>1, CallStep DEF Call
  <2>2. CASE \E rows \in Snapshots : \E doc \in {x \in Doc : x.day \in CallDays} :
               ImportSnapshot(rows, doc)
    BY <2>2, ImportStep
  <2>. QED
    BY <1>3, <2>1, <2>2, OpenCloseStep, CallStep, FaultStep DEF Environment
<1>. QED  BY <1>1, <1>2, <1>3 DEF Next

LEMMA IInvAlways == Spec => []IInv
BY InitIInv, NextIInv, PTL DEF Spec

(***************************************************************************)
(* The theorems.                                                           *)
(***************************************************************************)

\* Type correctness: in every reachable state, whatever was killed, retried or
\* lost, the files, the index and the fields of the job are of their types.
THEOREM TypeCorrect == Spec => []TypeOK
BY IInvAlways, PTL DEF IInv

\* complete.json is last: the request, intent, delta and objects a receipt
\* names exist whenever the receipt does (run_day's order of writes).
THEOREM ReceiptsAreLast == Spec => []ReceiptLast
<1>1. IInv => ReceiptLast
  <2> SUFFICES ASSUME IInv, NEW d \in Completed
               PROVE  LET f == folder[d]
                      IN /\ f.made /\ f.request = f.receipt.doc
                         /\ f.intent = [doc |-> f.receipt.doc, prev |-> f.receipt.prev]
                         /\ f.delta # None
                         /\ f.delta.prev = f.receipt.prev
                         /\ f.receipt.post = Post(f.delta)
                         /\ References(f.receipt, f.delta) \subseteq objects
    BY DEF ReceiptLast
  <2>1. d \in Days /\ folder[d].receipt # None /\ folder[d] \in Folder /\ FolderInv(d)
    BY DEF Completed, IInv, TypeOK
  <2>2. folder[d].intent \in Intent
    BY <2>1 DEF FolderInv, Folder
  <2>3. folder[d].intent = [doc |-> folder[d].receipt.doc, prev |-> folder[d].receipt.prev]
    BY <2>1, <2>2 DEF FolderInv, Intent
  <2>4. folder[d].request # None
    BY <2>1, <2>2, NoneAssumed DEF FolderInv, Intent, NoneAssumption
  <2>. QED  BY <2>1, <2>3, <2>4 DEF FolderInv
<1>. QED  BY <1>1, IInvAlways, PTL

\* A receipt returned by run_day stays where it is and certifies the request
\* that was asked (AckedIsDurable), for any number of kills and retries.
THEOREM AckedReceiptsEndure == Spec => []AckedIsDurable
BY IInvAlways, PTL DEF IInv

\* write_once: no step replaces or removes an artifact that exists.
THEOREM ArtifactsImmutable == Spec => Immutable
<1>1. IInv /\ [Next]_vars =>
        [\A d \in Days : \A file \in {"request", "intent", "delta", "receipt"} :
           folder[d][file] # None => folder'[d][file] = folder[d][file]]_vars
  <2> SUFFICES ASSUME IInv, Next, NEW d \in Days,
                      NEW file \in {"request", "intent", "delta", "receipt"},
                      folder[d][file] # None
               PROVE  folder'[d][file] = folder[d][file]
    OBVIOUS
  <2>1. folder \in [Days -> Folder]
    BY DEF IInv, TypeOK
  <2>2. CASE UNCHANGED folder
    BY <2>2
  <2>3. CASE MakeFolder
    BY <2>1, <2>3 DEF MakeFolder, Folder
  <2>4. ASSUME NEW e \in Days, NEW value, NEW next,
               NEW name \in {"request", "intent", "delta", "receipt"},
               WriteOnce(e, name, value, next)
        PROVE  folder'[d][file] = folder[d][file]
    BY <2>1, <2>4 DEF WriteOnce, Refuse, disk, Folder
  <2>5. pc \in Points => call.doc.day \in Days
    BY DEF IInv, CallInv, Doc
  <2>6. CASE WriteRequest \/ WriteIntent \/ WriteDelta \/ WriteReceipt
    BY <2>2, <2>4, <2>5, <2>6
       DEF WriteRequest, WriteIntent, WriteDelta, WriteReceipt, Refuse, disk, Points
  <2>7. CASE RecoverBase \/ RecoverJob \/ RecoverScan \/ RecoverIndex \/ Admit
    BY <2>2, <2>7 DEF RecoverBase, RecoverJob, RecoverScan, RecoverIndex, Recovered,
                      Admit, AdmitComplete, AdmitFresh, AdmitRefused, Refuse, disk
  <2>8. CASE \/ MarkPending \/ BeginSession \/ StoreResult \/ Commit \/ StoreObjects
             \/ ReturnDay \/ WriteBundle
    BY <2>2, <2>8 DEF MarkPending, BeginSession, StoreResult, Commit, StoreObjects,
                      ReturnDay, WriteBundle, Refuse, disk
  <2>9. CASE Environment
    BY <2>2, <2>9 DEF Environment, Open, Close, Call, RunDay, ExportBundle,
                      ImportSnapshot, Crash, Raise, SourceChange, LoseIndex, disk
  <2>. QED
    BY <2>3, <2>6, <2>7, <2>8, <2>9 DEF Next, Step
<1>. QED
  BY <1>1, IInvAlways, PTL DEF Spec, Immutable

-----------------------------------------------------------------------------
(* The chain of days                                                       *)

Recovering == {"recoverBase", "recoverJob", "recoverScan", "recoverIndex"}
Running == {"folder"} \cup AfterFolder
AfterMark == AfterIntent \ {"mark"}

(***************************************************************************)
(* One identity.                                                           *)
(***************************************************************************)
\* The rows of a state belong to the identity the archive is based on.
Ours(rows) == \A i \in 1..Len(rows) : base # None /\ IdentityOf(rows[i].doc) = base.id

\* The files of a day belong to it.
OursDay(d) ==
  LET f == folder[d]
  IN /\ f.request # None => base # None /\ IdentityOf(f.request) = base.id
     /\ f.intent # None => Ours(f.intent.prev)
     /\ f.receipt # None => f.receipt.assets = base.id.ver

OursDisk ==
  /\ base # None => Ours(base.rows)
  /\ base = None => index.state = "absent"
  /\ Ours(index.rows) /\ Ours(head) /\ Ours(previous)

\* What the position of the process says of the call it serves: its identity
\* was compared with the base, or with the template of the open job.
OursCall ==
  /\ recovered => base # None /\ template = base.id /\ index.state = "clean"
  /\ pc \in Points => call.op \in {"run", "export"}
  /\ pc \in Points /\ call.op = "run" => call.doc.ver = pin
  /\ pc \in Recovering \cup {"down"} => ~recovered
  /\ pc \in Recovering \ {"recoverBase"} => base # None /\ IdentityOf(call.doc) = base.id
  /\ pc \in {"admit", "export"} \cup Running => recovered
  /\ pc \in {"admit"} \cup Running => call.op = "run"
  /\ pc \in Running => IdentityOf(call.doc) = base.id

IdentityInv == (\A d \in Days : OursDay(d)) /\ OursDisk /\ OursCall

LEMMA InitIdentity == Init => IdentityInv
<1> SUFFICES ASSUME Init PROVE IdentityInv
  OBVIOUS
<1>1. \A d \in Days : OursDay(d)
  BY DEF Init, EmptyFolder, OursDay
<1>2. OursDisk /\ OursCall
  BY DEF Init, OursDisk, OursCall, Ours, Points, Recovering, Running, AfterFolder
<1>. QED  BY <1>1, <1>2 DEF IdentityInv

\* The rows of the published chain and of every receipt belong to the archive.
LEMMA OursPost ==
  ASSUME IInv, IdentityInv, NEW d \in Published
  PROVE  Ours(Post(folder[d].delta))
<1>1. d \in Days /\ folder[d].delta \in Delta /\ FolderInv(d) /\ OursDay(d)
  BY DEF Published, IInv, TypeOK, Folder, IdentityInv
<1>2. folder[d].intent # None /\ folder[d].intent \in Intent
  BY <1>1 DEF Published, FolderInv, IInv, TypeOK, Folder
<1>3. folder[d].request # None
  BY <1>1, <1>2, NoneAssumed DEF FolderInv, Intent, NoneAssumption
<1>4. folder[d].delta.row.doc = folder[d].request
  BY <1>1, <1>2 DEF Published, FolderInv
<1>5. Ours(folder[d].delta.prev) /\ base # None /\ IdentityOf(folder[d].delta.row.doc) = base.id
  BY <1>1, <1>2, <1>3, <1>4 DEF Published, FolderInv, OursDay
<1>. QED  BY <1>1, <1>5 DEF Ours, Post, Delta, StateId

LEMMA OursChain ==
  ASSUME IInv, IdentityInv
  PROVE  Ours(Chain)
<1>1. CASE Published = {}
  BY <1>1 DEF IdentityInv, OursDisk, Ours, Chain, BaseRows
<1>2. CASE Published # {}
  <2>1. Max(Published) \in Published
    BY <1>2, LastDayExists DEF Published
  <2>. QED  BY <1>2, <2>1, OursPost DEF Chain
<1>. QED  BY <1>1, <1>2
LEMMA OursDayFrame ==
  ASSUME IdentityInv, UNCHANGED <<base, folder>>
  PROVE  \A d \in Days : OursDay(d)'
BY DEF IdentityInv, OursDay, Ours

\* Every action that leaves the base, the files and the index alone.
LEMMA IdentityQuiet ==
  ASSUME IInv, IdentityInv, UNCHANGED <<base, folder, index>>,
         Ours(head'), Ours(previous'), OursCall'
  PROVE  IdentityInv'
<1>1. OursDisk'
  BY DEF IdentityInv, OursDisk, Ours
<1>. QED  BY <1>1, OursDayFrame DEF IdentityInv

LEMMA IdentityRefuse ==
  ASSUME IInv, IdentityInv, Leave, pc \in Points, head' = head,
         UNCHANGED <<base, folder, index, pin, recovered>>,
         recovered => template' = base.id
  PROVE  IdentityInv'
<1>1. OursCall'
  BY DEF IdentityInv, OursCall, Leave, Points, Recovering, Running, AfterFolder
<1>2. Ours(head') /\ Ours(previous')
  BY DEF IdentityInv, OursDisk, Leave, Ours
<1>. QED  BY <1>1, <1>2, IdentityQuiet

LEMMA IdentityOpenClose ==
  ASSUME IInv, IdentityInv, Open \/ Close
  PROVE  IdentityInv'
<1>1. OursCall'
  BY DEF OursCall, Open, Close, Forget, Points, Recovering, Running, AfterFolder
<1>2. Ours(head') /\ Ours(previous')
  BY DEF Open, Close, Forget, Ours
<1>. QED  BY <1>1, <1>2, IdentityQuiet DEF Open, Close, disk

\* An archive without a base has no files.
LEMMA NoBaseNoFiles ==
  ASSUME IInv, IdentityInv, base = None, NEW d \in Days
  PROVE  /\ folder[d].request = None
         /\ folder[d].intent = None
         /\ folder[d].delta = None
         /\ folder[d].receipt = None
<1>1. folder[d].request = None
  BY DEF IdentityInv, OursDay
<1>2. FolderInv(d) /\ folder[d] \in Folder
  BY DEF IInv, TypeOK
<1>3. folder[d].intent = None
  <2>1. folder[d].intent \in Intent \cup {None}
    BY <1>2 DEF Folder
  <2>2. folder[d].intent # None => folder[d].intent.doc \in Doc /\ folder[d].intent.doc = None
    BY <1>1, <1>2, <2>1 DEF FolderInv, Intent
  <2>. QED  BY <2>2, NoneAssumed DEF NoneAssumption
<1>. QED  BY <1>1, <1>2, <1>3 DEF FolderInv

\* A base for an archive that has none, from a snapshot or from a request.
LEMMA IdentityBased ==
  ASSUME IInv, IdentityInv, base = None, NEW id, NEW rows,
         base' = [id |-> id, rows |-> rows], base' # None,
         \A i \in 1..Len(rows) : IdentityOf(rows[i].doc) = id,
         UNCHANGED <<folder, index, head, previous>>
  PROVE  (\A d \in Days : OursDay(d)') /\ OursDisk'
<1>1. \A d \in Days : OursDay(d)'
  BY NoBaseNoFiles DEF OursDay
<1>2. index.rows \in StateId /\ head \in StateId /\ previous \in StateId
  BY DEF IInv, TypeOK
<1>3. 1..Len(index.rows) = {} /\ 1..Len(head) = {} /\ 1..Len(previous) = {}
  BY DEF IdentityInv, OursDisk, Ours
<1>4. OursDisk'
  BY <1>3 DEF IdentityInv, OursDisk, Ours
<1>. QED  BY <1>1, <1>4

LEMMA IdentityImport ==
  ASSUME IInv, IdentityInv, NEW rows \in Snapshots, NEW doc \in Doc,
         ImportSnapshot(rows, doc)
  PROVE  IdentityInv'
<1>1. OursCall'
  BY DEF IdentityInv, OursCall, ImportSnapshot, process, Points, Recovering, Running,
         AfterFolder
<1>2. base' # None
  <2>1. rows \in StateId
    BY SnapshotsAssumed DEF SnapshotAssumption
  <2>2. base' \in Base
    BY <2>1 DEF ImportSnapshot, Base, Identity, IdentityOf, Doc
  <2>. QED  BY <2>2, NoneAssumed DEF NoneAssumption
<1>3. (\A d \in Days : OursDay(d)') /\ OursDisk'
  BY <1>2, IdentityBased DEF ImportSnapshot, process
<1>. QED  BY <1>1, <1>3 DEF IdentityInv

LEMMA IdentityCalls ==
  ASSUME IInv, IdentityInv,
         \/ \E doc \in Doc : \E pred \in {None, BaseRows} : RunDay(doc, pred)
         \/ ExportBundle
  PROVE  IdentityInv'
<1>1. CASE \E doc \in Doc : \E pred \in {None, BaseRows} : RunDay(doc, pred)
  <2>1. OursCall' /\ UNCHANGED <<base, folder, index, head, previous>>
    BY <1>1 DEF IdentityInv, OursCall, RunDay, disk, Points, Recovering, Running, AfterFolder
  <2>2. Ours(head') /\ Ours(previous')
    BY <2>1 DEF IdentityInv, OursDisk
  <2>. QED  BY <2>1, <2>2, IdentityQuiet
<1>2. CASE ExportBundle
  <2>1. OursCall' /\ UNCHANGED <<base, folder, index, head, previous>>
    BY <1>2 DEF IdentityInv, OursCall, ExportBundle, disk, Points, Recovering, Running,
                AfterFolder
  <2>2. Ours(head') /\ Ours(previous')
    BY <2>1 DEF IdentityInv, OursDisk
  <2>. QED  BY <2>1, <2>2, IdentityQuiet
<1>. QED  BY <1>1, <1>2

LEMMA IdentityRecover ==
  ASSUME IInv, IdentityInv, RecoverBase \/ RecoverJob \/ RecoverScan \/ RecoverIndex
  PROVE  IdentityInv'
<1>1. pc \in Recovering /\ pc \in Points /\ call.doc \in Doc /\ ~recovered
  BY DEF RecoverBase, RecoverJob, RecoverScan, RecoverIndex, Points, Recovering, IInv,
         CallInv, IdentityInv, OursCall
<1>2. CASE Refuse
  <2>1. Leave /\ head' = head /\ UNCHANGED <<base, folder, index, pin, recovered>>
    BY <1>2 DEF Refuse, disk
  <2>. QED  BY <1>1, <2>1, IdentityRefuse
<1>3. CASE RecoverBase /\ ~Refuse
  <2> DEFINE id == IdentityOf(call.doc)
  <2>1. /\ pc = "recoverBase"
        /\ base # None => base.id = id
        /\ base' = (IF base = None THEN [id |-> id, rows |-> <<>>] ELSE base)
        /\ Goto("recoverJob")
        /\ UNCHANGED <<manifest, folder, index, objects, codeVersion, budget, acked, exported>>
    BY <1>3 DEF RecoverBase
  <2>2. base' # None /\ base'.id = id
    <3>1. [id |-> id, rows |-> <<>>] \in Base
      BY <1>1, EmptyState DEF Base, Identity, IdentityOf, Doc
    <3>. HIDE DEF id
    <3>. QED  BY <2>1, <3>1, NoneAssumed DEF NoneAssumption
  <2>3. (\A d \in Days : OursDay(d)') /\ OursDisk'
    <3>1. CASE base = None
      BY <2>1, <2>2, <3>1, IdentityBased, Len(<<>>) = 0 DEF Goto
    <3>2. CASE base # None
      BY <2>1, <3>2, OursDayFrame DEF IdentityInv, OursDisk, Ours, Goto
    <3>. QED  BY <3>1, <3>2
  <2>4. OursCall'
    BY <1>1, <2>1, <2>2
       DEF IdentityInv, OursCall, Goto, Points, Recovering, Running, AfterFolder
  <2>. QED  BY <2>3, <2>4 DEF IdentityInv
<1>4. CASE RecoverJob /\ ~Refuse
  <2>1. Goto("recoverScan") /\ pc = "recoverJob" /\ UNCHANGED <<base, folder, index>>
    BY <1>4 DEF RecoverJob
  <2>2. OursCall'
    BY <1>1, <2>1 DEF IdentityInv, OursCall, Goto, Points, Recovering, Running, AfterFolder
  <2>. QED  BY <2>1, <2>2, IdentityQuiet DEF IdentityInv, OursDisk, Goto
<1>5. ASSUME RecoverScan, ~Refuse, ~Recovered PROVE IdentityInv'
  <2>1. Goto("recoverIndex") /\ pc = "recoverScan" /\ UNCHANGED <<base, folder, index>>
    BY <1>5 DEF RecoverScan, disk
  <2>2. OursCall'
    BY <1>1, <2>1 DEF IdentityInv, OursCall, Goto, Points, Recovering, Running, AfterFolder
  <2>. QED  BY <2>1, <2>2, IdentityQuiet DEF IdentityInv, OursDisk, Goto
<1>6. ASSUME Recovered, pc \in Recovering \ {"recoverBase"},
             \/ UNCHANGED index /\ index.state = "clean"
             \/ index' = [state |-> "clean", rows |-> Chain]
      PROVE IdentityInv'
  <2>1. base # None /\ IdentityOf(call.doc) = base.id
    BY <1>6 DEF IdentityInv, OursCall
  <2>2. OursCall'
    BY <1>1, <1>6, <2>1
       DEF IdentityInv, OursCall, Recovered, Points, Recovering, Running, AfterFolder
  <2>3. OursDisk'
    BY <1>6, <2>1, OursChain DEF IdentityInv, OursDisk, Recovered, Ours
  <2>. QED  BY <1>6, <2>2, <2>3, OursDayFrame DEF Recovered, IdentityInv
<1>7. CASE RecoverScan
  <2>1. CASE Recovered
    <3>1. pc' \in {"admit", "export"}
      BY <2>1 DEF Recovered
    <3>2. UNCHANGED index /\ index.state = "clean" /\ pc = "recoverScan"
      BY <1>7, <3>1 DEF RecoverScan, Refuse, Leave, Goto, disk
    <3>. QED  BY <1>6, <2>1, <3>2 DEF Recovering
  <2>. QED  BY <1>2, <1>5, <1>7, <2>1
<1>8. CASE RecoverIndex
  BY <1>6, <1>8 DEF RecoverIndex, Recovering
<1>. QED  BY <1>2, <1>3, <1>4, <1>7, <1>8

LEMMA IdentityAdmit ==
  ASSUME IInv, IdentityInv, Admit
  PROVE  IdentityInv'
<1>1. pc = "admit" /\ pc \in Points /\ call.doc \in Doc /\ call.doc.day \in Days
      /\ recovered /\ base # None /\ template = base.id /\ call.op = "run"
  BY DEF Admit, Points, IInv, CallInv, Doc, IdentityInv, OursCall
<1>2. CASE Refuse
  <2>1. /\ Leave /\ head' = head /\ template' = base.id
        /\ UNCHANGED <<base, folder, index, pin, recovered>>
    BY <1>1, <1>2 DEF Refuse, disk
  <2>. QED  BY <1>1, <2>1, IdentityRefuse
<1>3. ASSUME SameTemplate, template' = IdentityOf(call.doc)
      PROVE  IdentityOf(call.doc) = base.id /\ template' = base.id
  <2>1. base.id \in Identity
    BY <1>1 DEF IInv, TypeOK, Base
  <2>. QED  BY <1>1, <1>3, <2>1, NoneAssumed DEF SameTemplate, NoneAssumption
<1>4. ASSUME template' = base.id, AdmitComplete
      PROVE  IdentityInv'
  <2> DEFINE d == call.doc.day
  <2>1. Ours(folder[d].receipt.post)
    <3>1. d \in Published /\ folder[d].receipt.post = Post(folder[d].delta)
      BY <1>1, <1>4 DEF AdmitComplete, Published, IInv, FolderInv
    <3>. QED  BY <3>1, OursPost
  <2>2. OursCall'
    BY <1>1, <1>4 DEF IdentityInv, OursCall, AdmitComplete, Leave, disk, Points,
                      Recovering, Running, AfterFolder
  <2>3. Ours(head') /\ Ours(previous')
    BY <1>4, <2>1 DEF AdmitComplete, Leave, Ours
  <2>. QED  BY <1>4, <2>2, <2>3, IdentityQuiet DEF AdmitComplete, disk
<1>5. ASSUME template' = base.id, IdentityOf(call.doc) = base.id, AdmitFresh
      PROVE  IdentityInv'
  <2>1. Ours(IntentOf(call.doc.day).prev)
    BY <1>1 DEF IntentOf, IdentityInv, OursDay, OursDisk
  <2>2. OursCall'
    BY <1>1, <1>5 DEF IdentityInv, OursCall, AdmitFresh, disk, Points, Recovering,
                      Running, AfterFolder
  <2>. QED  BY <1>5, <2>1, <2>2, IdentityQuiet DEF AdmitFresh, disk, IdentityInv, OursDisk
<1>6. ASSUME template' = base.id, AdmitRefused
      PROVE  IdentityInv'
  BY <1>1, <1>6, IdentityRefuse DEF AdmitRefused, disk
<1>. QED  BY <1>2, <1>3, <1>4, <1>5, <1>6 DEF Admit
\* The steps that move the call from one point of the code to the next.
LEMMA IdentityGoto ==
  ASSUME IInv, IdentityInv, pc \in Running, NEW next, next \in Running, Goto(next),
         UNCHANGED base, index'.state = index.state
  PROVE  OursCall'
BY DEF IdentityInv, OursCall, Goto, Points, Recovering, Running, AfterFolder

LEMMA IdentityWrites ==
  ASSUME IInv, IdentityInv, MakeFolder \/ WriteRequest \/ WriteIntent \/ WriteDelta \/ WriteReceipt
  PROVE  IdentityInv'
<1>0. PICK day \in Days : call.doc.day = day
  BY DEF MakeFolder, WriteRequest, WriteIntent, WriteDelta, WriteReceipt, Points, IInv,
         CallInv, Doc
<1>1. /\ pc \in Running /\ pc \in Points /\ call.doc \in Doc /\ call.doc.day = day
      /\ folder \in [Days -> Folder] /\ base # None
  BY <1>0 DEF MakeFolder, WriteRequest, WriteIntent, WriteDelta, WriteReceipt, Running,
         AfterFolder, Points, IInv, TypeOK, CallInv, Doc, IdentityInv, OursCall
<1>2. call.doc.ver = pin /\ IdentityOf(call.doc) = base.id
  BY <1>1 DEF IdentityInv, OursCall
<1>3. CASE Refuse
  <2>1. Leave /\ head' = head /\ template' = template
        /\ UNCHANGED <<base, folder, index, pin, recovered>>
    BY <1>3 DEF Refuse, disk
  <2>2. recovered => template' = base.id
    BY <2>1 DEF IdentityInv, OursCall
  <2>. QED  BY <1>1, <2>1, <2>2, IdentityRefuse
<1>4. ASSUME NEW next, next \in Running, Goto(next), UNCHANGED <<base, index>>,
             OursDay(day)', \A d \in Days : d # day => folder'[d] = folder[d]
      PROVE  IdentityInv'
  <2>1. OursCall'
    BY <1>1, <1>4, IdentityGoto
  <2>2. OursDisk'
    BY <1>4 DEF IdentityInv, OursDisk, Ours, Goto
  <2>3. ASSUME NEW d \in Days PROVE OursDay(d)'
    BY <1>4, <2>3 DEF IdentityInv, OursDay, Ours
  <2>. QED  BY <2>1, <2>2, <2>3 DEF IdentityInv
<1>5. OursDay(day)
  BY <1>1 DEF IdentityInv
<1>6. CASE MakeFolder
  <2>1. folder' = [folder EXCEPT ![day] = [folder[day] EXCEPT !.made = TRUE]]
        /\ Goto("request") /\ UNCHANGED <<base, index>>
    BY <1>1, <1>6 DEF MakeFolder
  <2>2. OursDay(day)'
    BY <1>1, <1>5, <2>1 DEF OursDay, Ours, Folder
  <2>. QED  BY <1>1, <1>4, <2>1, <2>2 DEF Running, AfterFolder
<1>7. ASSUME WriteRequest, ~Refuse PROVE IdentityInv'
  <2>1. /\ folder' = [folder EXCEPT ![day] = [folder[day] EXCEPT !.request = call.doc]]
        /\ Goto("intent") /\ UNCHANGED <<base, index>>
    BY <1>1, <1>7, WriteOnceFacts DEF WriteRequest, IInv
  <2>2. OursDay(day)'
    BY <1>1, <1>2, <1>5, <2>1 DEF OursDay, Ours, Folder
  <2>. QED  BY <1>1, <1>4, <2>1, <2>2 DEF Running, AfterFolder
<1>8. ASSUME WriteIntent, ~Refuse PROVE IdentityInv'
  <2>1. /\ folder' = [folder EXCEPT ![day] =
                        [folder[day] EXCEPT !.intent = [doc |-> call.doc, prev |-> previous]]]
        /\ Goto("mark") /\ UNCHANGED <<base, index>>
    BY <1>1, <1>8, WriteOnceFacts DEF WriteIntent, IInv
  <2>2. OursDay(day)'
    BY <1>1, <1>5, <2>1 DEF OursDay, Ours, Folder, IdentityInv, OursDisk
  <2>. QED  BY <1>1, <1>4, <2>1, <2>2 DEF Running, AfterFolder
<1>9. ASSUME WriteDelta, ~Refuse PROVE IdentityInv'
  <2>1. /\ folder' = [folder EXCEPT ![day] = [folder[day] EXCEPT !.delta = NewDelta]]
        /\ Goto("objects") /\ UNCHANGED <<base, index>>
    BY <1>1, <1>9, WriteOnceFacts DEF WriteDelta, IInv
  <2>2. OursDay(day)'
    BY <1>1, <1>5, <2>1 DEF OursDay, Ours, Folder
  <2>. QED  BY <1>1, <1>4, <2>1, <2>2 DEF Running, AfterFolder
<1>10. ASSUME WriteReceipt, ~Refuse PROVE IdentityInv'
  <2>1. /\ folder' = [folder EXCEPT ![day] = [folder[day] EXCEPT !.receipt = NewReceipt]]
        /\ Goto("return") /\ UNCHANGED <<base, index>>
    BY <1>1, <1>10, WriteOnceFacts DEF WriteReceipt, IInv
  <2>2. NewReceipt.assets = base.id.ver
    BY <1>1, <1>2 DEF NewReceipt, IdentityOf
  <2>3. OursDay(day)'
    BY <1>1, <1>5, <2>1, <2>2 DEF OursDay, Ours, Folder
  <2>. QED  BY <1>1, <1>4, <2>1, <2>3 DEF Running, AfterFolder
<1>. QED  BY <1>3, <1>6, <1>7, <1>8, <1>9, <1>10

LEMMA IdentityEngine ==
  ASSUME IInv, IdentityInv,
         MarkPending \/ BeginSession \/ StoreResult \/ Commit \/ StoreObjects
  PROVE  IdentityInv'
<1>1. /\ pc \in Running /\ pc \in Points /\ call.doc \in Doc /\ base # None
      /\ IdentityOf(call.doc) = base.id
  BY DEF MarkPending, BeginSession, StoreResult, Commit, StoreObjects, Running,
         AfterFolder, Points, IInv, CallInv, IdentityInv, OursCall
<1>2. CASE Refuse
  <2>1. Leave /\ head' = head /\ template' = template
        /\ UNCHANGED <<base, folder, index, pin, recovered>>
    BY <1>2 DEF Refuse, disk
  <2>2. recovered => template' = base.id
    BY <2>1 DEF IdentityInv, OursCall
  <2>. QED  BY <1>1, <2>1, <2>2, IdentityRefuse
<1>3. CASE MarkPending
  <2>1. OursCall'
    BY <1>1, <1>3 DEF IdentityInv, OursCall, MarkPending, disk, Points, Recovering,
                      Running, AfterFolder
  <2>. QED  BY <1>3, <2>1, IdentityQuiet DEF MarkPending, disk, IdentityInv, OursDisk
<1>4. ASSUME NEW next, next \in Running, Goto(next), UNCHANGED <<base, folder, index>>
      PROVE  IdentityInv'
  <2>1. OursCall'
    BY <1>1, <1>4, IdentityGoto
  <2>. QED  BY <1>4, <2>1, IdentityQuiet DEF Goto, IdentityInv, OursDisk
<1>5. ASSUME BeginSession \/ StoreResult \/ StoreObjects, ~Refuse
      PROVE  IdentityInv'
  <2>1. Goto("delta") \/ Goto("result") \/ Goto("commit") \/ Goto("receipt")
    BY <1>5 DEF BeginSession, StoreResult, StoreObjects
  <2>2. UNCHANGED <<base, folder, index>>
    BY <1>5 DEF BeginSession, StoreResult, StoreObjects, disk
  <2>. QED  BY <1>4, <2>1, <2>2 DEF Running, AfterFolder
<1>6. CASE Commit /\ ~Refuse
  <2> DEFINE row == NextRow(index.rows, call.doc)
  <2>1. /\ index' = [index EXCEPT !.rows = Append(index.rows, row)]
        /\ Goto("delta") /\ UNCHANGED <<base, folder>> /\ index.rows \in Seq(Row)
        /\ index'.state = index.state
    BY <1>6 DEF Commit, IInv, TypeOK, StateId
  <2>2. row.doc = call.doc
    BY DEF NextRow
  <2>3. Ours(Append(index.rows, row))
    <3>1. Ours(index.rows)
      BY DEF IdentityInv, OursDisk
    <3>. HIDE DEF row
    <3>. QED  BY <1>1, <2>1, <2>2, <3>1 DEF Ours
  <2>4. index'.rows = Append(index.rows, row)
    BY <2>1 DEF IInv, TypeOK
  <2>5. OursDisk'
    <3>. HIDE DEF row
    <3>. QED  BY <1>1, <2>1, <2>3, <2>4 DEF IdentityInv, OursDisk, Ours, Goto
  <2>6. OursCall'
    BY <1>1, <2>1 DEF IdentityInv, OursCall, Goto, Points, Recovering, Running, AfterFolder
  <2>. QED  BY <2>1, <2>5, <2>6, OursDayFrame DEF IdentityInv
<1>. QED  BY <1>2, <1>3, <1>5, <1>6

LEMMA IdentityReturn ==
  ASSUME IInv, IdentityInv, ReturnDay \/ WriteBundle
  PROVE  IdentityInv'
<1>1. UNCHANGED <<base, folder, index>> /\ pc' = "idle"
  BY DEF ReturnDay, WriteBundle, Leave, disk
<1>2. OursCall'
  BY DEF IdentityInv, OursCall, ReturnDay, WriteBundle, Leave, disk, Points, Recovering,
         Running, AfterFolder
<1>3. Ours(previous')
  BY DEF ReturnDay, WriteBundle, Leave, Ours
<1>4. Ours(head')
  <2>1. CASE ReturnDay
    <3> DEFINE d == call.doc.day
    <3>1. d \in Days /\ folder[d].receipt # None /\ head' = folder[d].receipt.post
      BY <2>1 DEF ReturnDay, IInv, CallInv, Points, Doc
    <3>2. d \in Published /\ folder[d].receipt.post = Post(folder[d].delta)
      BY <3>1 DEF Published, IInv, FolderInv
    <3>. QED  BY <3>1, <3>2, OursPost
  <2>2. CASE WriteBundle
    BY <2>2 DEF WriteBundle, IdentityInv, OursDisk
  <2>. QED  BY <2>1, <2>2
<1>. QED  BY <1>1, <1>2, <1>3, <1>4, IdentityQuiet

LEMMA IdentityFault ==
  ASSUME IInv, IdentityInv, Crash \/ Raise \/ SourceChange \/ LoseIndex
  PROVE  IdentityInv'
<1>1. \A d \in Days : OursDay(d)'
  BY OursDayFrame DEF Crash, Raise, SourceChange, LoseIndex, disk
<1>2. CASE Crash
  <2>1. index'.rows = index.rows /\ (base = None => index'.state = "absent")
    <3>1. pc = "commit" => base # None
      BY DEF IdentityInv, OursCall, Running, AfterFolder
    <3>. QED  BY <1>2, <3>1 DEF Crash, IdentityInv, OursDisk, IInv, TypeOK
  <2>2. OursDisk'
    BY <1>2, <2>1 DEF Crash, Forget, IdentityInv, OursDisk, Ours
  <2>3. OursCall'
    BY <1>2 DEF Crash, Forget, OursCall, Points, Recovering, Running, AfterFolder
  <2>. QED  BY <1>1, <2>2, <2>3 DEF IdentityInv
<1>3. CASE Raise
  <2>1. Leave /\ head' = head /\ template' = template /\ pc \in Points
        /\ UNCHANGED <<base, folder, index, pin, recovered>>
    BY <1>3, PointsAssumed DEF Raise, disk, PointAssumption
  <2>2. recovered => template' = base.id
    BY <2>1 DEF IdentityInv, OursCall
  <2>. QED  BY <2>1, <2>2, IdentityRefuse
<1>4. CASE SourceChange
  <2>1. OursCall'
    BY <1>4 DEF SourceChange, IdentityInv, OursCall, disk
  <2>2. OursDisk'
    BY <1>4 DEF SourceChange, IdentityInv, OursDisk, Ours, disk
  <2>. QED  BY <1>1, <2>1, <2>2 DEF IdentityInv
<1>5. CASE LoseIndex
  <2>1. OursCall'
    BY <1>5 DEF LoseIndex, process, IdentityInv, OursCall, Points, Recovering, Running,
                AfterFolder, IInv
  <2>2. OursDisk'
    BY <1>5 DEF LoseIndex, process, IdentityInv, OursDisk, Ours
  <2>. QED  BY <1>1, <2>1, <2>2 DEF IdentityInv
<1>. QED  BY <1>2, <1>3, <1>4, <1>5
LEMMA NextIdentity == IInv /\ IdentityInv /\ [Next]_vars => IdentityInv'
<1> SUFFICES ASSUME IInv, IdentityInv, [Next]_vars PROVE IdentityInv'
  OBVIOUS
<1>1. CASE UNCHANGED vars
  <2>1. OursCall'
    BY <1>1 DEF IdentityInv, OursCall, vars, disk, process
  <2>. QED
    BY <1>1, <2>1, IdentityQuiet DEF IdentityInv, OursDisk, vars, disk, process
<1>2. CASE Step
  BY <1>2, IdentityRecover, IdentityAdmit, IdentityWrites, IdentityEngine, IdentityReturn
     DEF Step
<1>3. CASE Environment
  <2>1. CASE Call
    BY <2>1, IdentityCalls DEF Call
  <2>2. CASE \E rows \in Snapshots : \E doc \in {x \in Doc : x.day \in CallDays} :
               ImportSnapshot(rows, doc)
    BY <2>2, IdentityImport
  <2>. QED
    BY <1>3, <2>1, <2>2, IdentityOpenClose, IdentityCalls, IdentityFault DEF Environment
<1>. QED  BY <1>1, <1>2, <1>3 DEF Next

\* One archive holds one identity (the comparisons of base.json, job.json,
\* every request and the template of the open job): no day of another replay,
\* universe or source version gets into its files, its receipts or its index.
THEOREM OneIdentityKept == Spec => []OneIdentity
<1>1. IInv /\ IdentityInv => OneIdentity
  <2> SUFFICES ASSUME IInv, IdentityInv PROVE OneIdentity
    OBVIOUS
  <2>1. \A d \in Days : folder[d].request # None =>
          base # None /\ IdentityOf(folder[d].request) = base.id
    BY DEF IdentityInv, OursDay
  <2>2. \A d \in Completed : folder[d].receipt.assets = base.id.ver
    BY DEF Completed, IdentityInv, OursDay
  <2>3. \A i \in 1..Len(index.rows) : IdentityOf(index.rows[i].doc) = base.id
    BY DEF IdentityInv, OursDisk, Ours
  <2>. QED  BY <2>1, <2>2, <2>3 DEF OneIdentity
<1>. QED  BY <1>1, InitIInv, NextIInv, InitIdentity, NextIdentity, PTL DEF Spec
(***************************************************************************)
(* One chain.  The invariant holds unless a day of the imported base was   *)
(* asked for again (Reimported), and if no exception escapes between the   *)
(* link of the intent and self.pending = cutoff.                           *)
(***************************************************************************)
Intended == {d \in Days : folder[d].intent # None}
Below(rows, d) == \A i \in 1..Len(rows) : rows[i].doc.day < d
Increasing(rows) ==
  \A i, j \in 1..Len(rows) : i < j => rows[i].doc.day < rows[j].doc.day

\* An intent names the state the days before it lead to, and all of these have
\* their receipts; a delta is the row that follows this state.
IntentsChained ==
  /\ base # None => Increasing(base.rows)
  /\ \A d \in Intended :
       /\ \A e \in Intended : d < e => folder[d].receipt # None
       /\ folder[d].intent.prev = StateBefore(d)
       /\ Below(StateBefore(d), d)
  /\ \A d \in Published :
       folder[d].delta.row = NextRow(folder[d].intent.prev, folder[d].intent.doc)

\* A recovered job knows the only day that may have an intent and no receipt;
\* while there is none, its head is the chain of receipts.
MemoryInv ==
  recovered =>
    /\ \A d \in Intended : folder[d].receipt = None =>
         pending = d \/ (pc = "mark" /\ call.doc.day = d)
    /\ pending # 0 => \A e \in Intended : e <= pending
    /\ pending = 0 \/ folder[pending].intent = None =>
         head = CompletedChain /\ latest = LastDay(CompletedChain)

\* The day being run comes after every other intent, and builds on the state
\* that these lead to.
RunInv ==
  /\ pc \in Running =>
       /\ \A e \in Intended : e # call.doc.day =>
            e < call.doc.day /\ folder[e].receipt # None
       /\ previous = StateBefore(call.doc.day)
       /\ pending \in {0, call.doc.day}
       /\ \/ Below(previous, call.doc.day)
          \/ (pc = "folder" /\ call.doc.day <= LastDay(BaseRows))
  /\ pc \in AfterMark => pending = call.doc.day
  /\ pc = "recoverIndex" => ~Skipped

ChainInv == IntentsChained /\ MemoryInv /\ RunInv /\ IndexFollowsChain

LEMMA InitChain == Init => ChainInv
<1> SUFFICES ASSUME Init PROVE ChainInv
  OBVIOUS
<1>1. Intended = {} /\ Published = {} /\ base = None
  BY DEF Init, EmptyFolder, Intended, Published
<1>2. IntentsChained
  BY <1>1 DEF IntentsChained
<1>3. MemoryInv /\ RunInv /\ IndexFollowsChain
  BY DEF Init, MemoryInv, RunInv, IndexFollowsChain, Running, AfterFolder, AfterMark,
         AfterIntent, AfterRequest
<1>. QED  BY <1>2, <1>3 DEF ChainInv

(***************************************************************************)
(* What the days, the chain and the receipts have to do with each other.   *)
(***************************************************************************)
LEMMA MaxIs ==
  ASSUME NEW S, S \subseteq Days, NEW m \in S, \A e \in S : e <= m
  PROVE  Max(S) = m
<1>1. Max(S) \in S /\ m <= Max(S) /\ Max(S) <= m
  BY LastDayExists
<1>2. Max(S) \in Days /\ m \in Days
  BY <1>1
<1>. QED  BY <1>1, <1>2, DaysAssumed DEF DaysAssumption, Days

\* A delta, a receipt or an intent of a day needs the files before it.
LEMMA FilesInOrder ==
  ASSUME IInv, NEW d \in Days
  PROVE  /\ folder[d] \in Folder
         /\ folder[d].intent # None => /\ folder[d].intent \in Intent
                                       /\ folder[d].request = folder[d].intent.doc
                                       /\ folder[d].request # None
                                       /\ folder[d].request.day = d
                                       /\ folder[d].made
         /\ folder[d].delta # None => /\ folder[d].delta \in Delta
                                      /\ folder[d].intent # None
                                      /\ folder[d].delta.prev = folder[d].intent.prev
                                      /\ folder[d].delta.row.doc = folder[d].intent.doc
                                      /\ folder[d].delta.row.doc.day = d
         /\ folder[d].receipt # None => /\ folder[d].receipt \in Receipt
                                        /\ folder[d].delta # None
                                        /\ folder[d].receipt.post = Post(folder[d].delta)
<1>1. folder[d] \in Folder /\ FolderInv(d)
  BY DEF IInv, TypeOK
<1>2. folder[d].intent # None => /\ folder[d].intent \in Intent
                                 /\ folder[d].request = folder[d].intent.doc
                                 /\ folder[d].request # None
  BY <1>1, NoneAssumed DEF Folder, FolderInv, Intent, NoneAssumption
<1>. QED  BY <1>1, <1>2 DEF FolderInv, Folder

LEMMA FileSets ==
  ASSUME IInv
  PROVE  /\ Completed \subseteq Published
         /\ Published \subseteq Intended
         /\ Intended \subseteq Started
         /\ Started \subseteq Days
BY FilesInOrder DEF Completed, Published, Intended, Started

\* What a published day leads to: its own row is the last one.
LEMMA PostFacts ==
  ASSUME IInv, NEW d \in Published
  PROVE  /\ Post(folder[d].delta) \in StateId
         /\ Post(folder[d].delta) # <<>>
         /\ LastDay(Post(folder[d].delta)) = d
         /\ LastDoc(Post(folder[d].delta)) = folder[d].delta.row.doc
<1>1. d \in Days /\ folder[d].delta \in Delta /\ folder[d].delta.row.doc.day = d
  BY FilesInOrder DEF Published
<1> DEFINE prev == folder[d].delta.prev
           row == folder[d].delta.row
<1>2. prev \in Seq(Row) /\ row \in Row
  BY <1>1 DEF Delta, StateId
<1>3. /\ Append(prev, row) \in Seq(Row) /\ Append(prev, row) # <<>>
      /\ Append(prev, row)[Len(Append(prev, row))] = row
  <2>. HIDE DEF prev, row
  <2>. QED  BY <1>2
<1>. QED  BY <1>1, <1>3 DEF Post, LastDay, LastDoc, StateId

LEMMA PostBelow ==
  ASSUME IInv, IntentsChained, NEW d \in Published, NEW e \in Days, d < e
  PROVE  Below(Post(folder[d].delta), e)
<1> DEFINE prev == folder[d].delta.prev
           row == folder[d].delta.row
<1>1. /\ d \in Days /\ folder[d].delta \in Delta /\ row.doc.day = d
      /\ folder[d].intent # None /\ prev = folder[d].intent.prev
  BY FilesInOrder DEF Published
<1>2. prev \in Seq(Row) /\ row \in Row
  BY <1>1 DEF Delta, StateId
<1>3. \A i \in 1..Len(prev) : prev[i].doc.day < d
  BY <1>1 DEF IntentsChained, Intended, Below
<1>4. \A i \in 1..Len(prev) : prev[i].doc.day \in Days
  <2>1. \A i \in 1..Len(prev) : prev[i] \in Row
    BY <1>2
  <2>. QED  BY <2>1 DEF Row, Doc
<1>5. \A i \in 1..Len(prev) : prev[i].doc.day < e
  BY <1>1, <1>3, <1>4, DaysAssumed DEF Days, DaysAssumption
<1>6. ASSUME NEW i \in 1..Len(Append(prev, row)) PROVE Append(prev, row)[i].doc.day < e
  <2>. HIDE DEF prev, row
  <2>1. \/ i \in 1..Len(prev) /\ Append(prev, row)[i] = prev[i]
        \/ Append(prev, row)[i] = row
    BY <1>2
  <2>. QED  BY <1>1, <1>5, <2>1
<1>. QED  BY <1>6 DEF Below, Post

\* While every published day has its receipt, the published chain is that of
\* the receipts.
LEMMA SameChain ==
  ASSUME IInv, Published = Completed
  PROVE  Chain = CompletedChain
<1>1. CASE Completed = {}
  BY <1>1 DEF Chain, CompletedChain
<1>2. CASE Completed # {}
  <2>1. Max(Completed) \in Completed
    BY <1>2, LastDayExists DEF Completed
  <2>. QED  BY <1>2, <2>1, FilesInOrder DEF Chain, CompletedChain, Completed
<1>. QED  BY <1>1, <1>2

LEMMA CompletedChainFacts ==
  ASSUME IInv
  PROVE  /\ CompletedChain \in StateId
         /\ Completed = {} => CompletedChain = BaseRows
         /\ Completed # {} => /\ Max(Completed) \in Completed
                              /\ CompletedChain = Post(folder[Max(Completed)].delta)
                              /\ LastDay(CompletedChain) = Max(Completed)
<1>1. CASE Completed = {}
  BY <1>1, ReadTypes DEF IInv, CompletedChain
<1>2. CASE Completed # {}
  <2>1. Max(Completed) \in Completed /\ Max(Completed) \in Published
    BY <1>2, LastDayExists, FileSets DEF Completed
  <2>2. CompletedChain = Post(folder[Max(Completed)].delta)
    BY <1>2, <2>1, FilesInOrder DEF CompletedChain, Completed
  <2>. QED  BY <1>2, <2>1, <2>2, PostFacts
<1>. QED  BY <1>1, <1>2

\* A day after every published day builds on the whole chain.
LEMMA BeforeIsChain ==
  ASSUME NEW d \in Days, \A e \in Published : e < d
  PROVE  StateBefore(d) = Chain
<1>1. {e \in Published : e < d} = Published
  OBVIOUS
<1>. QED  BY <1>1 DEF StateBefore, Chain

\* The rows of a base that ends before a day are all before it.
LEMMA BaseBelow ==
  ASSUME IInv, IntentsChained, NEW d \in Days, LastDay(BaseRows) < d
  PROVE  Below(BaseRows, d)
<1>1. CASE base = None
  BY <1>1 DEF BaseRows, Below
<1>2. CASE base # None
  <2>1. base.rows \in Seq(Row) /\ BaseRows = base.rows
    BY <1>2 DEF BaseRows, IInv, TypeOK, Base, StateId
  <2>2. \A i \in 1..Len(base.rows) : base.rows[i].doc.day \in Int
    <3>1. \A i \in 1..Len(base.rows) : base.rows[i] \in Row
      BY <2>1
    <3>. QED  BY <3>1, DaysAssumed DEF Row, Doc, Days, DaysAssumption
  <2>3. ASSUME NEW i \in 1..Len(base.rows) PROVE base.rows[i].doc.day < d
    <3>1. Len(base.rows) \in 1..Len(base.rows) /\ base.rows # <<>>
      BY <2>1
    <3>2. base.rows[Len(base.rows)].doc.day < d
      BY <2>1, <3>1 DEF LastDay
    <3>3. i < Len(base.rows) => base.rows[i].doc.day < base.rows[Len(base.rows)].doc.day
      BY <1>2, <3>1 DEF IntentsChained, Increasing
    <3>4. i = Len(base.rows) \/ i < Len(base.rows)
      BY <2>1
    <3>. QED  BY <2>2, <3>1, <3>2, <3>3, <3>4, DaysAssumed DEF Days, DaysAssumption
  <2>. QED  BY <2>1, <2>3 DEF Below
<1>. QED  BY <1>1, <1>2

\* The chain ends with the last published day.
LEMMA ChainFacts ==
  ASSUME IInv
  PROVE  /\ Chain \in StateId
         /\ \A e \in Published : e <= LastDay(Chain)
<1>1. Chain \in StateId
  BY ReadTypes DEF IInv
<1>2. ASSUME NEW e \in Published PROVE e <= LastDay(Chain)
  <2>1. Max(Published) \in Published /\ e <= Max(Published)
    BY LastDayExists DEF Published
  <2>. QED  BY <2>1, PostFacts DEF Chain
<1>. QED  BY <1>1, <1>2
(***************************************************************************)
(* What a step leaves alone.                                               *)
(***************************************************************************)
KeptFiles ==
  \A d \in Days : /\ folder'[d].intent = folder[d].intent
                  /\ folder'[d].delta = folder[d].delta
                  /\ folder[d].receipt # None => folder'[d].receipt = folder[d].receipt
                  /\ folder[d].request # None => folder'[d].request = folder[d].request

SameFiles == KeptFiles /\ \A d \in Days : folder'[d].receipt = folder[d].receipt

LEMMA ReadFrame ==
  ASSUME UNCHANGED base, \A d \in Days : folder'[d].delta = folder[d].delta
  PROVE  /\ Published' = Published /\ BaseRows' = BaseRows
         /\ Chain' = Chain
         /\ \A d \in Days : StateBefore(d)' = StateBefore(d)
<1>1. Published' = Published /\ BaseRows' = BaseRows
  BY DEF Published, BaseRows
<1>2. Chain' = Chain
  <2>1. Published # {} => Max(Published) \in Days
    BY LastDayExists DEF Published
  <2>. QED  BY <1>1, <2>1 DEF Chain, Post
<1>3. ASSUME NEW d \in Days PROVE StateBefore(d)' = StateBefore(d)
  <2> DEFINE earlier == {e \in Published : e < d}
  <2>1. earlier # {} => Max(earlier) \in Days
    BY LastDayExists DEF Published
  <2>. QED  BY <1>1, <2>1 DEF StateBefore, Post
<1>. QED  BY <1>1, <1>2, <1>3

LEMMA CompletedFrame ==
  ASSUME UNCHANGED base, \A d \in Days : folder'[d].receipt = folder[d].receipt
  PROVE  Completed' = Completed /\ CompletedChain' = CompletedChain
<1>1. Completed' = Completed /\ BaseRows' = BaseRows
  BY DEF Completed, BaseRows
<1>2. Completed # {} => Max(Completed) \in Days
  BY LastDayExists DEF Completed
<1>. QED  BY <1>1, <1>2 DEF CompletedChain

LEMMA IntentsFrame ==
  ASSUME IInv, IntentsChained, UNCHANGED base, KeptFiles
  PROVE  IntentsChained'
<1>1. Published' = Published /\ \A d \in Days : StateBefore(d)' = StateBefore(d)
  BY ReadFrame DEF KeptFiles
<1>2. Intended' = Intended
  BY DEF Intended, KeptFiles
<1>3. base' # None => Increasing(base'.rows)
  BY DEF IntentsChained
<1>4. ASSUME NEW d \in Intended
      PROVE  /\ \A e \in Intended : d < e => folder'[d].receipt # None
             /\ folder'[d].intent.prev = StateBefore(d)'
             /\ Below(StateBefore(d)', d)
  <2>1. d \in Days
    BY DEF Intended
  <2>. QED  BY <1>1, <2>1 DEF IntentsChained, KeptFiles
<1>5. ASSUME NEW d \in Published
      PROVE  folder'[d].delta.row = NextRow(folder'[d].intent.prev, folder'[d].intent.doc)
  <2>1. d \in Days
    BY DEF Published
  <2>. QED  BY <2>1 DEF IntentsChained, KeptFiles
<1>. QED  BY <1>1, <1>2, <1>3, <1>4, <1>5 DEF IntentsChained, Below, NextRow

LEMMA IndexFrame ==
  ASSUME IInv, IndexFollowsChain, UNCHANGED <<base, index>>, objects \subseteq objects',
         \A d \in Days : /\ folder'[d].delta = folder[d].delta
                         /\ folder[d].intent # None =>
                              /\ folder'[d].intent = folder[d].intent
                              /\ folder'[d].request = folder[d].request
  PROVE  IndexFollowsChain'
<1>1. Chain' = Chain
  BY ReadFrame
<1>2. ASSUME PendingCommitOK, index.rows # <<>> PROVE PendingCommitOK'
  <2> DEFINE row == index.rows[Len(index.rows)]
  <2>1. row \in Row /\ row.doc.day \in Days
    <3>1. index.rows \in Seq(Row)
      BY DEF IInv, TypeOK, StateId
    <3>2. row \in Row
      BY <1>2, <3>1
    <3>. QED  BY <3>2 DEF Row, Doc
  <2>2. folder[row.doc.day].intent # None
    BY <1>2 DEF PendingCommitOK
  <2>3. /\ folder'[row.doc.day].intent = folder[row.doc.day].intent
        /\ folder'[row.doc.day].request = folder[row.doc.day].request
    BY <2>1, <2>2
  <2>4. NextRow(Chain, folder[row.doc.day].request)'
          = NextRow(Chain, folder[row.doc.day].request)
    BY <1>1, <2>3 DEF NextRow, LastDoc
  <2>5. row' = row /\ LastDay(Chain)' = LastDay(Chain)
    BY <1>1 DEF LastDay
  <2>. QED  BY <1>1, <1>2, <2>3, <2>4, <2>5 DEF PendingCommitOK
<1>3. PendingCommitOK => index.rows # <<>>
  <2>1. Len(Chain) \in Nat
    BY ReadTypes DEF IInv, StateId
  <2>. QED  BY <2>1 DEF PendingCommitOK
<1>. QED  BY <1>1, <1>2, <1>3 DEF IndexFollowsChain

LEMMA ChainFrame ==
  ASSUME IInv, ChainInv, UNCHANGED <<base, index>>, objects \subseteq objects', KeptFiles,
         MemoryInv', RunInv'
  PROVE  ChainInv'
<1>1. IntentsChained'
  BY IntentsFrame DEF ChainInv
<1>2. IndexFollowsChain'
  <2>1. \A d \in Days : folder[d].intent # None => folder[d].request # None
    BY FilesInOrder
  <2>. QED  BY <2>1, IndexFrame DEF ChainInv, KeptFiles
<1>. QED  BY <1>1, <1>2 DEF ChainInv

\* A step from anywhere but the mark leaves the memory as it is.
LEMMA MemoryFrame ==
  ASSUME IInv, ChainInv, SameFiles, pc # "mark",
         UNCHANGED <<base, recovered, pending, head, latest>>
  PROVE  MemoryInv'
<1>1. Intended' = Intended
  BY DEF Intended, SameFiles, KeptFiles
<1>2. CompletedChain' = CompletedChain
  BY CompletedFrame DEF SameFiles, KeptFiles
<1>3. CASE recovered
  <2>1. /\ \A d \in Intended : folder[d].receipt = None => pending = d
        /\ pending # 0 => \A e \in Intended : e <= pending
        /\ pending = 0 \/ folder[pending].intent = None =>
             head = CompletedChain /\ latest = LastDay(CompletedChain)
    BY <1>3 DEF ChainInv, MemoryInv
  <2>2. \A d \in Intended : folder'[d].receipt = None => pending = d
    BY <2>1 DEF Intended, SameFiles, KeptFiles
  <2>3. pending = 0 \/ folder'[pending].intent = None =>
          pending = 0 \/ folder[pending].intent = None
    BY DEF SameFiles, KeptFiles, IInv, TypeOK
  <2>4. LastDay(CompletedChain)' = LastDay(CompletedChain)
    BY <1>2 DEF LastDay
  <2>. QED  BY <1>1, <1>2, <2>1, <2>2, <2>3, <2>4 DEF MemoryInv
<1>4. CASE ~recovered
  BY <1>4 DEF MemoryInv
<1>. QED  BY <1>3, <1>4

\* The call ends or begins: nothing is being run.
LEMMA ChainAway ==
  ASSUME IInv, ChainInv, UNCHANGED <<base, index>>, objects \subseteq objects', SameFiles,
         pc # "mark", pc' \notin Running, pc' # "recoverIndex",
         UNCHANGED <<recovered, pending, head, latest>>
  PROVE  ChainInv'
<1>1. RunInv'
  BY DEF RunInv, Running, AfterMark, AfterIntent, AfterRequest, AfterFolder
<1>. QED  BY <1>1, MemoryFrame, ChainFrame DEF SameFiles

LEMMA ChainForgotten ==
  ASSUME IInv, ChainInv, UNCHANGED <<base, index>>, objects \subseteq objects', SameFiles,
         pc' \notin Running, pc' # "recoverIndex", recovered' = FALSE
  PROVE  ChainInv'
<1>1. RunInv' /\ MemoryInv'
  BY DEF RunInv, MemoryInv, Running, AfterMark, AfterIntent, AfterRequest, AfterFolder
<1>. QED  BY <1>1, ChainFrame DEF SameFiles

LEMMA ChainRefuse ==
  ASSUME IInv, ChainInv, Leave, pc # "mark",
         UNCHANGED <<disk, recovered, pending, head, latest>>
  PROVE  ChainInv'
<1>1. SameFiles /\ UNCHANGED <<base, index>> /\ objects \subseteq objects'
  BY DEF SameFiles, KeptFiles, disk
<1>2. pc' \notin Running /\ pc' # "recoverIndex"
  BY DEF Leave, Running, AfterFolder
<1>. QED  BY <1>1, <1>2, ChainAway

\* A base for an archive that has none.
LEMMA ChainBased ==
  ASSUME IInv, IdentityInv, ChainInv, base = None, base' # None, Increasing(base'.rows),
         UNCHANGED <<folder, index, recovered>>, ~recovered,
         pc' \notin Running, pc' # "recoverIndex"
  PROVE  ChainInv'
<1>1. /\ \A d \in Days : folder'[d].intent = None /\ folder'[d].delta = None
      /\ index'.state = "absent"
  BY NoBaseNoFiles DEF IdentityInv, OursDisk
<1>2. IntentsChained'
  BY <1>1 DEF IntentsChained, Intended, Published
<1>3. RunInv' /\ MemoryInv'
  BY DEF RunInv, MemoryInv, Running, AfterMark, AfterIntent, AfterRequest, AfterFolder
<1>. QED  BY <1>1, <1>2, <1>3 DEF ChainInv, IndexFollowsChain

LEMMA ChainCalls ==
  ASSUME IInv, IdentityInv, ChainInv,
         \/ Open \/ Close
         \/ \E doc \in Doc : \E pred \in {None, BaseRows} : RunDay(doc, pred)
         \/ ExportBundle
         \/ \E rows \in Snapshots : \E doc \in Doc : ImportSnapshot(rows, doc)
  PROVE  ChainInv'
<1>1. CASE Open \/ Close
  <2>1. /\ SameFiles /\ UNCHANGED <<base, index>> /\ objects \subseteq objects'
        /\ recovered' = FALSE /\ pc' \notin Running /\ pc' # "recoverIndex"
    BY <1>1 DEF Open, Close, Forget, SameFiles, KeptFiles, disk, Running, AfterFolder
  <2>. QED  BY <2>1, ChainForgotten
<1>2. CASE \/ \E doc \in Doc : \E pred \in {None, BaseRows} : RunDay(doc, pred)
           \/ ExportBundle
  <2>1. /\ SameFiles /\ UNCHANGED <<base, index>> /\ objects \subseteq objects'
        /\ pc # "mark" /\ pc' \notin Running /\ pc' # "recoverIndex"
        /\ UNCHANGED <<recovered, pending, head, latest>>
    BY <1>2 DEF RunDay, ExportBundle, SameFiles, KeptFiles, disk, Running, AfterFolder
  <2>. QED  BY <2>1, ChainAway
<1>3. CASE \E rows \in Snapshots : \E doc \in Doc : ImportSnapshot(rows, doc)
  <2>1. PICK rows \in Snapshots, doc \in Doc : ImportSnapshot(rows, doc)
    BY <1>3
  <2>2. rows \in StateId /\ Increasing(rows)
    BY SnapshotsAssumed DEF SnapshotAssumption, Increasing
  <2>3. base' \in Base /\ base'.rows = rows
    BY <2>1, <2>2 DEF ImportSnapshot, Base, Identity, IdentityOf, Doc
  <2>4. base' # None
    BY <2>3, NoneAssumed DEF NoneAssumption
  <2>5. base = None /\ ~recovered /\ UNCHANGED <<folder, index, recovered, pc>> /\ pc = "idle"
    BY <2>1 DEF ImportSnapshot, process
  <2>. QED  BY <2>2, <2>3, <2>4, <2>5, ChainBased DEF Running, AfterFolder
<1>. QED  BY <1>1, <1>2, <1>3

LEMMA ChainFault ==
  ASSUME IInv, IdentityInv, ChainInv, "mark" \notin RaisePoints,
         Crash \/ Raise \/ SourceChange \/ LoseIndex
  PROVE  ChainInv'
<1>1. CASE Raise
  <2>1. pc # "mark" /\ Leave /\ UNCHANGED <<disk, recovered, pending, head, latest>>
    BY <1>1 DEF Raise
  <2>. QED  BY <2>1, ChainRefuse
<1>2. CASE SourceChange
  <2>1. /\ SameFiles /\ UNCHANGED <<base, index, objects, folder>>
        /\ UNCHANGED <<recovered, pending, head, latest, pc, call, previous>>
    BY <1>2 DEF SourceChange, SameFiles, KeptFiles, disk
  <2>2. RunInv' /\ MemoryInv'
    <3>1. Intended' = Intended /\ BaseRows' = BaseRows /\ Skipped' = Skipped
      BY <2>1 DEF Intended, BaseRows, Skipped, Started
    <3>2. CompletedChain' = CompletedChain
      BY <2>1, CompletedFrame
    <3>3. pc \in Running => StateBefore(call.doc.day)' = StateBefore(call.doc.day)
      <4>1. Published' = Published
        BY <2>1 DEF Published
      <4>. QED  BY <2>1, <3>1, <4>1 DEF StateBefore, Post
    <3>. QED
      BY <2>1, <3>1, <3>2, <3>3 DEF ChainInv, RunInv, MemoryInv, Below, LastDay
  <2>. QED  BY <2>1, <2>2, ChainFrame DEF SameFiles
<1>3. CASE Crash
  <2>1. /\ SameFiles /\ UNCHANGED <<base, folder, objects>> /\ recovered' = FALSE
        /\ pc' = "down" /\ index'.rows = index.rows
        /\ index'.state # "absent" => index.state # "absent"
    <3>1. pc = "commit" => index.state = "clean"
      BY DEF IdentityInv, OursCall, Running, AfterFolder
    <3>. QED  BY <1>3, <3>1 DEF Crash, Forget, SameFiles, KeptFiles, IInv, TypeOK
  <2>2. RunInv' /\ MemoryInv'
    BY <2>1 DEF RunInv, MemoryInv, Running, AfterMark, AfterIntent, AfterRequest, AfterFolder
  <2>3. Chain' = Chain
    BY <2>1, ReadFrame
  <2>4. IndexFollowsChain'
    BY <2>1, <2>3 DEF ChainInv, IndexFollowsChain, PendingCommitOK, NextRow
  <2>5. IntentsChained'
    BY <2>1, IntentsFrame DEF SameFiles, ChainInv
  <2>. QED  BY <2>2, <2>4, <2>5 DEF ChainInv
<1>4. CASE LoseIndex
  <2>1. /\ SameFiles /\ UNCHANGED <<base, folder, objects>>
        /\ UNCHANGED <<recovered, pc>> /\ pc = "down" /\ index'.state = "absent"
    BY <1>4 DEF LoseIndex, SameFiles, KeptFiles, process
  <2>2. RunInv' /\ MemoryInv'
    BY <2>1 DEF RunInv, MemoryInv, Running, AfterMark, AfterIntent, AfterRequest,
                AfterFolder, IdentityInv, OursCall
  <2>4. IntentsChained'
    BY <2>1, IntentsFrame DEF SameFiles, ChainInv
  <2>. QED  BY <2>1, <2>2, <2>4 DEF ChainInv, IndexFollowsChain
<1>. QED  BY <1>1, <1>2, <1>3, <1>4

(***************************************************************************)
(* Recovery.                                                               *)
(***************************************************************************)
\* What the end of _recover remembers of an archive where no day was skipped.
LEMMA PendingFacts ==
  ASSUME IInv, ~Skipped
  PROVE  /\ PendingDay # 0 => PendingDay \in Started /\ folder[PendingDay].receipt = None
         /\ \A e \in Started : folder[e].receipt = None => e = PendingDay
         /\ PendingDay # 0 => \A e \in Started : e <= PendingDay
<1> DEFINE open == {d \in Started : folder[d].receipt = None}
<1>1. open \subseteq Days /\ Started \subseteq Days /\ 0 \notin Days
  BY DaysAssumed DEF Started, DaysAssumption, Days
<1>2. CASE open = {}
  BY <1>2 DEF PendingDay
<1>3. CASE open # {}
  <2>1. PendingDay \in open
    BY <1>1, <1>3, LastDayExists DEF PendingDay
  <2>2. ASSUME NEW e \in Started PROVE e <= PendingDay
    <3>1. ~(PendingDay < e)
      BY <2>1 DEF Skipped
    <3>. QED  BY <1>1, <2>1, <3>1, DaysAssumed DEF DaysAssumption, Days
  <2>3. ASSUME NEW e \in Started, folder[e].receipt = None PROVE e = PendingDay
    <3>1. ~(e < PendingDay)
      BY <2>1, <2>3 DEF Skipped
    <3>2. e <= PendingDay
      BY <2>2
    <3>. QED  BY <1>1, <2>1, <3>1, <3>2, DaysAssumed DEF DaysAssumption, Days
  <2>. QED  BY <2>1, <2>2, <2>3
<1>. QED  BY <1>2, <1>3

LEMMA ChainRecovered ==
  ASSUME IInv, ChainInv, Recovered, ~Skipped,
         UNCHANGED index \/ index' = [state |-> "clean", rows |-> Chain]
  PROVE  ChainInv'
<1>1. /\ SameFiles /\ UNCHANGED <<base, folder, objects>> /\ pending' = PendingDay
      /\ head' = Chain /\ latest' = LastDay(Chain) /\ pc' \in {"admit", "export"}
  BY DEF Recovered, SameFiles, KeptFiles
<1>2. RunInv'
  BY <1>1 DEF RunInv, Running, AfterMark, AfterIntent, AfterRequest, AfterFolder
<1>3. Intended' = Intended /\ CompletedChain' = CompletedChain /\ Chain' = Chain
  BY <1>1, CompletedFrame, ReadFrame DEF Intended
<1>4. MemoryInv'
  <2>1. \A d \in Intended : folder'[d].receipt = None => pending' = d
    BY <1>1, PendingFacts, FileSets
  <2>2. pending' # 0 => \A e \in Intended : e <= pending'
    BY <1>1, PendingFacts, FileSets
  <2>3. ASSUME pending' = 0 \/ folder'[pending'].intent = None
        PROVE  head' = CompletedChain /\ latest' = LastDay(CompletedChain)
    <3>1. \A d \in Published : d \in Days /\ folder[d].intent # None /\ d \in Started
      BY FileSets DEF Intended
    <3>2. \A d \in Published : d # 0 /\ d # PendingDay
      BY <1>1, <2>3, <3>1, DaysAssumed DEF DaysAssumption, Days
    <3>3. Published = Completed
      BY <3>1, <3>2, PendingFacts, FileSets DEF Completed
    <3>. QED  BY <1>1, <3>3, SameChain
  <2>4. LastDay(CompletedChain)' = LastDay(CompletedChain)
    BY <1>3 DEF LastDay
  <2>. QED  BY <1>3, <2>1, <2>2, <2>3, <2>4 DEF MemoryInv
<1>5. CASE UNCHANGED index
  BY <1>1, <1>2, <1>4, <1>5, ChainFrame DEF SameFiles
<1>6. CASE index' = [state |-> "clean", rows |-> Chain]
  <2>1. IntentsChained'
    BY <1>1, IntentsFrame DEF SameFiles, ChainInv
  <2>2. IndexFollowsChain'
    BY <1>3, <1>6 DEF IndexFollowsChain
  <2>. QED  BY <1>2, <1>4, <2>1, <2>2 DEF ChainInv
<1>. QED  BY <1>5, <1>6

LEMMA ChainRecover ==
  ASSUME IInv, IdentityInv, ChainInv, RecoverBase \/ RecoverJob \/ RecoverScan \/ RecoverIndex
  PROVE  ChainInv'
<1>1. pc \in Recovering /\ pc # "mark" /\ ~recovered /\ (pc # "recoverBase" => base # None)
  BY DEF RecoverBase, RecoverJob, RecoverScan, RecoverIndex, Recovering, IdentityInv, OursCall
<1>2. CASE Refuse
  BY <1>1, <1>2, ChainRefuse DEF Refuse
<1>3. ASSUME NEW next \in Recovering, Goto(next), UNCHANGED <<base, folder, index, objects>>,
             next = "recoverIndex" => ~Skipped
      PROVE  ChainInv'
  <2>1. SameFiles /\ pc' = next /\ recovered' = recovered
    BY <1>3 DEF SameFiles, KeptFiles, Goto
  <2>2. next = "recoverIndex" => ~Skipped'
    BY <1>3 DEF Skipped, Started
  <2>3. RunInv' /\ MemoryInv'
    BY <1>1, <2>1, <2>2 DEF RunInv, MemoryInv, Running, AfterMark, AfterIntent, AfterRequest,
                            AfterFolder, Recovering
  <2>. QED  BY <1>3, <2>1, <2>3, ChainFrame DEF SameFiles
<1>4. CASE RecoverBase /\ ~Refuse
  <2>1. /\ base' = IF base = None THEN [id |-> IdentityOf(call.doc), rows |-> <<>>] ELSE base
        /\ Goto("recoverJob") /\ UNCHANGED <<folder, index, objects>> /\ pc = "recoverBase"
    BY <1>4 DEF RecoverBase
  <2>2. CASE base # None
    BY <1>3, <2>1, <2>2 DEF Recovering
  <2>3. CASE base = None
    <3>1. base' \in Base /\ base'.rows = <<>>
      <4>1. call.doc \in Doc
        BY <2>1 DEF IInv, CallInv, Points
      <4>. QED  BY <2>1, <2>3, <4>1, EmptyState DEF Base, Identity, IdentityOf, Doc
    <3>2. base' # None /\ Increasing(base'.rows)
      BY <3>1, NoneAssumed DEF NoneAssumption, Increasing
    <3>3. pc' = "recoverJob" /\ UNCHANGED recovered
      BY <2>1 DEF Goto
    <3>. QED  BY <1>1, <2>1, <2>3, <3>2, <3>3, ChainBased DEF Running, AfterFolder
  <2>. QED  BY <2>2, <2>3
<1>5. CASE RecoverJob /\ ~Refuse
  <2>1. Goto("recoverScan") /\ UNCHANGED <<base, folder, index, objects>>
    BY <1>5 DEF RecoverJob
  <2>. QED  BY <1>3, <2>1 DEF Recovering
<1>6. CASE RecoverScan /\ ~Refuse
  <2>1. ~Skipped
    BY <1>6 DEF RecoverScan, ScanOK, Skipped
  <2>2. CASE Goto("recoverIndex") /\ UNCHANGED disk
    BY <1>3, <2>1, <2>2 DEF disk, Recovering
  <2>3. CASE Recovered /\ UNCHANGED index
    BY <2>1, <2>3, ChainRecovered
  <2>. QED  BY <1>6, <2>2, <2>3 DEF RecoverScan
<1>7. CASE RecoverIndex
  BY <1>7, ChainRecovered DEF RecoverIndex, ChainInv, RunInv
<1>. QED  BY <1>2, <1>4, <1>5, <1>6, <1>7

(***************************************************************************)
(* Admission.                                                              *)
(***************************************************************************)
\* At the admission of a day that the pending day and the order allow, every
\* other intent is earlier and completed.
LEMMA AdmissionOrder ==
  ASSUME IInv, ChainInv, recovered, pc = "admit", call.doc.day \in Days, PendingFirst, InOrder,
         NEW e \in Intended, e # call.doc.day
  PROVE  e < call.doc.day /\ folder[e].receipt # None
<1>0. PICK d \in Days : d = call.doc.day
  OBVIOUS
<1>1. e \in Days /\ 0 \notin Days /\ e \in Nat /\ d \in Nat /\ \A n \in Days : n \in Nat
  BY DaysAssumed DEF Intended, DaysAssumption, Days
<1>2. /\ folder[e].receipt = None => pending = e
      /\ pending # 0 => e <= pending
      /\ pending = 0 => latest = LastDay(CompletedChain)
  BY DEF ChainInv, MemoryInv
<1>3. folder[e].receipt # None
  BY <1>0, <1>1, <1>2 DEF PendingFirst
<1>4. CASE pending = d
  BY <1>0, <1>1, <1>2, <1>3, <1>4
<1>5. CASE pending = 0
  <2>1. e \in Completed
    BY <1>1, <1>3 DEF Completed
  <2>2. latest = Max(Completed) /\ Max(Completed) \in Days /\ e <= Max(Completed)
    BY <1>2, <1>5, <2>1, CompletedChainFacts, LastDayExists DEF Completed
  <2>. QED  BY <1>0, <1>1, <1>3, <2>2 DEF InOrder
<1>. QED  BY <1>0, <1>3, <1>4, <1>5 DEF PendingFirst

\* A day that ends the chain of receipts becomes the head of the open job.
LEMMA ChainDone ==
  ASSUME IInv, ChainInv, SameFiles, UNCHANGED <<base, folder, index, objects>>, Leave,
         NEW d \in Days, folder[d].receipt # None,
         \A e \in Intended : e # d => e < d /\ folder[e].receipt # None,
         head' = folder[d].receipt.post, latest' = d, pending' = 0
  PROVE  ChainInv'
<1>2. RunInv'
  BY DEF Leave, RunInv, Running, AfterMark, AfterIntent, AfterRequest, AfterFolder
<1>3. d \in Completed /\ Completed \subseteq Days
  BY DEF Completed
<1>5. Max(Completed) = d
  <2>1. ASSUME NEW e \in Completed PROVE e <= d
    <3>1. e \in Intended
      BY <2>1, FileSets
    <3>2. e # d => e < d
      BY <3>1
    <3>. QED  BY <1>3, <3>2, DaysAssumed DEF DaysAssumption, Days
  <2>. QED  BY <1>3, <2>1, MaxIs
<1>6. CompletedChain = folder[d].receipt.post /\ LastDay(CompletedChain) = d
  BY <1>3, <1>5, CompletedChainFacts DEF CompletedChain
<1>7. Intended' = Intended /\ CompletedChain' = CompletedChain
  BY CompletedFrame DEF Intended
<1>8. LastDay(CompletedChain)' = LastDay(CompletedChain)
  BY <1>7 DEF LastDay
<1>9. MemoryInv'
  BY <1>6, <1>7, <1>8 DEF MemoryInv
<1>. QED  BY <1>2, <1>9, ChainFrame DEF SameFiles

LEMMA ChainAdmitComplete ==
  ASSUME IInv, ChainInv, recovered, pc = "admit", call.doc.day \in Days, PendingFirst, InOrder,
         AdmitComplete
  PROVE  ChainInv'
<1>0. PICK d \in Days : d = call.doc.day
  OBVIOUS
<1>1. /\ folder[d].receipt # None /\ head' = folder[d].receipt.post /\ latest' = d
      /\ pending' = 0 /\ Leave /\ SameFiles /\ UNCHANGED <<base, folder, index, objects>>
  BY <1>0 DEF AdmitComplete, SameFiles, KeptFiles, disk
<1>2. \A e \in Intended : e # d => e < d /\ folder[e].receipt # None
  BY <1>0, AdmissionOrder
<1>. QED  BY <1>1, <1>2, ChainDone

LEMMA ChainAdmitFresh ==
  ASSUME IInv, ChainInv, recovered, pc = "admit", call.doc.day \in Days, PendingFirst, InOrder,
         AdmitFresh
  PROVE  ChainInv'
<1>0. PICK d \in Days : d = call.doc.day
  OBVIOUS
<1>1. /\ folder[d].receipt = None /\ previous' = IntentOf(d).prev /\ pc' = "folder"
      /\ SameFiles /\ UNCHANGED <<base, folder, index, objects>>
      /\ UNCHANGED <<call, recovered, pending, head, latest>>
  BY <1>0 DEF AdmitFresh, SameFiles, KeptFiles, disk
<1>2. \A e \in Intended : e # d => e < d /\ folder[e].receipt # None
  BY <1>0, AdmissionOrder
<1>3. pending \in {0, d}
  BY <1>0 DEF PendingFirst
<1>4. /\ previous' = StateBefore(d)
      /\ Below(previous', d) \/ d <= LastDay(BaseRows)
  <2>1. CASE d \in Intended
    BY <1>1, <2>1 DEF IntentOf, Intended, ChainInv, IntentsChained
  <2>2. CASE d \notin Intended
    <3>1. folder[d].intent = None /\ previous' = head
      BY <1>1, <2>2 DEF IntentOf, Intended
    <3>2. \A e \in Published : e \in Days /\ e < d /\ e \in Completed
      BY <1>2, <2>2, FileSets DEF Completed
    <3>3. Published = Completed
      BY <3>2, FileSets
    <3>4. head = CompletedChain
      BY <1>3, <3>1 DEF ChainInv, MemoryInv
    <3>5. previous' = StateBefore(d) /\ previous' = Chain
      BY <3>1, <3>2, <3>3, <3>4, SameChain, BeforeIsChain
    <3>6. CASE Published = {}
      <4>1. LastDay(BaseRows) < d \/ d <= LastDay(BaseRows)
        BY ReadTypes, DaysAssumed DEF IInv, DaysAssumption, Days
      <4>2. previous' = BaseRows
        BY <3>5, <3>6 DEF Chain
      <4>. QED  BY <3>5, <4>1, <4>2, BaseBelow DEF ChainInv
    <3>7. CASE Published # {}
      <4>1. Max(Published) \in Published
        BY <3>7, LastDayExists DEF Published
      <4>2. Below(Post(folder[Max(Published)].delta), d)
        BY <3>2, <4>1, PostBelow DEF ChainInv
      <4>. QED  BY <3>5, <3>7, <4>2 DEF Chain
    <3>. QED  BY <3>6, <3>7, <3>5
  <2>. QED  BY <2>1, <2>2
<1>5. RunInv'
  <2>1. Intended' = Intended
    BY <1>1 DEF Intended
  <2>2. StateBefore(d)' = StateBefore(d) /\ BaseRows' = BaseRows
    BY <1>1, ReadFrame
  <2>3. call'.doc.day = d
    BY <1>0, <1>1
  <2>4. LastDay(BaseRows)' = LastDay(BaseRows)
    BY <2>2 DEF LastDay
  <2>5. StateBefore(call.doc.day)' = StateBefore(d)'
    BY <2>3 DEF StateBefore
  <2>. QED
    BY <1>0, <1>1, <1>2, <1>3, <1>4, <2>1, <2>2, <2>3, <2>4, <2>5
       DEF RunInv, AfterMark, AfterIntent, AfterRequest, AfterFolder, Below
<1>6. MemoryInv'
  BY <1>1, MemoryFrame
<1>. QED  BY <1>1, <1>5, <1>6, ChainFrame DEF SameFiles

LEMMA ChainAdmit ==
  ASSUME IInv, IdentityInv, ChainInv, Admit
  PROVE  ChainInv'
<1>1. pc = "admit" /\ recovered /\ call.doc.day \in Days
  BY DEF Admit, IdentityInv, OursCall, IInv, CallInv, Points, Doc
<1>2. CASE Refuse
  BY <1>1, <1>2, ChainRefuse DEF Refuse
<1>3. CASE AdmitRefused
  BY <1>1, <1>3, ChainRefuse DEF AdmitRefused
<1>. QED  BY <1>1, <1>2, <1>3, ChainAdmitComplete, ChainAdmitFresh DEF Admit

(***************************************************************************)
(* The day being run.                                                      *)
(***************************************************************************)
LEMMA RunFrame ==
  ASSUME IInv, ChainInv, pc \in Running, UNCHANGED base, KeptFiles, call.doc.day \in Days,
         Below(previous, call.doc.day), UNCHANGED <<call, pending, previous>>,
         pc' \in Running, pc' \in AfterMark => pc \in AfterMark
  PROVE  RunInv'
<1>0. PICK d \in Days : d = call.doc.day
  OBVIOUS
<1>1. Intended' = Intended /\ call'.doc.day = d /\ \A e \in Intended : e \in Days
  BY <1>0 DEF Intended, KeptFiles
<1>2. StateBefore(d)' = StateBefore(d)
  BY ReadFrame DEF KeptFiles
<1>3. StateBefore(call.doc.day)' = StateBefore(d)'
  BY <1>1 DEF StateBefore
<1>4. /\ \A e \in Intended : e # d => e < d /\ folder[e].receipt # None
      /\ previous = StateBefore(d) /\ pending \in {0, d}
      /\ pc \in AfterMark => pending = d
  BY <1>0 DEF ChainInv, RunInv
<1>5. \A e \in Intended : e # d => e < d /\ folder'[e].receipt # None
  BY <1>1, <1>4 DEF KeptFiles
<1>6. pc' # "recoverIndex" /\ Below(previous, d)' /\ Below(previous', call'.doc.day)
  BY <1>0 DEF Running, AfterFolder, Below
<1>. QED  BY <1>1, <1>2, <1>3, <1>4, <1>5, <1>6 DEF RunInv

LEMMA ChainGoto ==
  ASSUME IInv, ChainInv, pc \in Running \ {"mark"}, call.doc.day \in Days,
         Below(previous, call.doc.day), NEW next \in Running, Goto(next),
         next \in AfterMark => pc \in AfterMark,
         UNCHANGED <<base, index>>, objects \subseteq objects', SameFiles
  PROVE  ChainInv'
<1>1. RunInv'
  BY RunFrame DEF Goto, SameFiles
<1>2. MemoryInv'
  BY MemoryFrame DEF Goto
<1>. QED  BY <1>1, <1>2, ChainFrame DEF SameFiles

\* Where the process is, and what this says.
LEMMA RunFacts ==
  ASSUME IInv, IdentityInv, ChainInv, pc \in Running
  PROVE  /\ pc \in Points /\ call.doc \in Doc /\ call.doc.day \in Days /\ recovered
         /\ index.state = "clean" /\ folder \in [Days -> Folder]
         /\ pc # "folder" => Below(previous, call.doc.day)
         /\ \A e \in Intended : e # call.doc.day =>
              e < call.doc.day /\ folder[e].receipt # None
         /\ previous = StateBefore(call.doc.day)
<1>1. pc \in Points
  BY DEF Running, AfterFolder, Points
<1>2. call.doc \in Doc /\ folder \in [Days -> Folder] /\ recovered /\ index.state = "clean"
  BY <1>1 DEF IInv, TypeOK, CallInv, IdentityInv, OursCall
<1>. QED  BY <1>1, <1>2 DEF ChainInv, RunInv, Doc

LEMMA ChainMakeFolder ==
  ASSUME IInv, IdentityInv, ChainInv, MakeFolder
  PROVE  (ChainInv \/ Reimported)'
<1>0. pc = "folder" /\ pc \in Running
  BY DEF MakeFolder, Running
<1>1. PICK d \in Days : d = call.doc.day
  BY <1>0, RunFacts
<1>2. /\ folder' = [folder EXCEPT ![d] = [folder[d] EXCEPT !.made = TRUE]]
      /\ Goto("request") /\ UNCHANGED <<base, index, objects>> /\ folder \in [Days -> Folder]
  BY <1>0, <1>1, RunFacts DEF MakeFolder
<1>3. SameFiles
  BY <1>2 DEF SameFiles, KeptFiles, Folder
<1>4. CASE Below(previous, d)
  BY <1>0, <1>1, <1>2, <1>3, <1>4, ChainGoto
     DEF Running, AfterFolder, AfterMark, AfterIntent, AfterRequest
<1>5. CASE d <= LastDay(BaseRows)
  <2>1. folder'[d].made
    BY <1>2 DEF Folder
  <2>. QED  BY <1>2, <1>5, <2>1 DEF Reimported, Started, BaseRows, LastDay
<1>. QED  BY <1>0, <1>1, <1>4, <1>5 DEF ChainInv, RunInv

LEMMA ChainWriteRequest ==
  ASSUME IInv, IdentityInv, ChainInv, WriteRequest, ~Refuse
  PROVE  ChainInv'
<1>0. pc = "request" /\ pc \in Running
  BY DEF WriteRequest, Running, AfterFolder
<1>1. PICK d \in Days : d = call.doc.day
  BY <1>0, RunFacts
<1>2. /\ folder[d].request \in {None, call.doc}
      /\ folder' = [folder EXCEPT ![d] = [folder[d] EXCEPT !.request = call.doc]]
      /\ Goto("intent") /\ UNCHANGED <<base, index, objects>> /\ folder \in [Days -> Folder]
  BY <1>0, <1>1, RunFacts, WriteOnceFacts DEF WriteRequest, IInv
<1>3. SameFiles
  BY <1>2 DEF SameFiles, KeptFiles, Folder
<1>. QED  BY <1>0, <1>1, <1>2, <1>3, RunFacts, ChainGoto
             DEF Running, AfterFolder, AfterMark, AfterIntent, AfterRequest

LEMMA ChainWriteIntent ==
  ASSUME IInv, IdentityInv, ChainInv, WriteIntent, ~Refuse
  PROVE  ChainInv'
<1>0. pc = "intent" /\ pc \in Running
  BY DEF WriteIntent, Running, AfterFolder
<1>1. PICK d \in Days : d = call.doc.day
  BY <1>0, RunFacts
<1> DEFINE intent == [doc |-> call.doc, prev |-> previous]
<1>2. /\ folder[d].intent \in {None, intent}
      /\ folder' = [folder EXCEPT ![d] = [folder[d] EXCEPT !.intent = intent]]
      /\ Goto("mark") /\ UNCHANGED <<base, index, objects>> /\ folder \in [Days -> Folder]
  BY <1>0, <1>1, RunFacts, WriteOnceFacts DEF WriteIntent, IInv
<1>3. /\ Below(previous, d) /\ previous = StateBefore(d)
      /\ \A e \in Intended : e # d => e < d /\ folder[e].receipt # None
      /\ recovered /\ pending \in {0, d}
  BY <1>0, <1>1, RunFacts DEF ChainInv, RunInv
<1>4. CASE folder[d].intent = intent
  <2>1. SameFiles
    BY <1>2, <1>4 DEF SameFiles, KeptFiles, Folder
  <2>. QED  BY <1>0, <1>1, <1>2, <1>3, <2>1, ChainGoto
               DEF Running, AfterFolder, AfterMark, AfterIntent, AfterRequest
<1>5. CASE folder[d].intent = None
  <2>1. /\ folder'[d].intent = intent
        /\ \A e \in Days : /\ e # d => folder'[e] = folder[e]
                           /\ folder'[e].delta = folder[e].delta
                           /\ folder'[e].receipt = folder[e].receipt
                           /\ folder'[e].request = folder[e].request
    BY <1>2 DEF Folder
  <2>2. intent # None
    <3>1. previous \in StateId /\ call.doc \in Doc
      BY <1>0, RunFacts DEF IInv, TypeOK
    <3>2. intent \in Intent
      BY <3>1 DEF Intent
    <3>. QED  BY <3>2, NoneAssumed DEF NoneAssumption
  <2>3. Intended' = Intended \cup {d} /\ d \notin Intended
    BY <1>5, <2>1, <2>2 DEF Intended
  <2>4. /\ Published' = Published /\ BaseRows' = BaseRows
        /\ \A e \in Days : StateBefore(e)' = StateBefore(e)
        /\ CompletedChain' = CompletedChain
    BY <1>2, <2>1, ReadFrame, CompletedFrame
  <2>5. \A e \in Intended : e \in Days /\ ~(d < e) /\ ~(d < d)
    BY <1>3, <2>3, DaysAssumed DEF Intended, DaysAssumption, Days
  <2>6. IntentsChained'
    <3>1. base' # None => Increasing(base'.rows)
      BY <1>2 DEF ChainInv, IntentsChained
    <3>2. ASSUME NEW e \in Intended \cup {d}
          PROVE  /\ \A f \in Intended \cup {d} : e < f => folder'[e].receipt # None
                 /\ folder'[e].intent.prev = StateBefore(e)'
                 /\ Below(StateBefore(e), e)
      <4>1. CASE e = d
        BY <1>3, <2>1, <2>4, <2>5, <4>1, DaysAssumed DEF DaysAssumption, Days
      <4>2. CASE e \in Intended /\ e # d
        BY <1>3, <2>1, <2>4, <2>5, <4>2 DEF ChainInv, IntentsChained
      <4>. QED  BY <4>1, <4>2
    <3>3. ASSUME NEW e \in Published
          PROVE  folder'[e].delta.row = NextRow(folder'[e].intent.prev, folder'[e].intent.doc)
      <4>1. e \in Intended /\ e # d /\ e \in Days
        BY <2>3, FileSets DEF Intended
      <4>. QED  BY <2>1, <4>1 DEF ChainInv, IntentsChained
    <3>4. \A e \in Days : Below(StateBefore(e), e)' <=> Below(StateBefore(e), e)
      BY <2>4 DEF Below
    <3>5. \A e \in Intended \cup {d} : e \in Days
      BY <2>5
    <3>. QED  BY <2>3, <2>4, <3>1, <3>2, <3>3, <3>4, <3>5 DEF IntentsChained, NextRow
  <2>7. MemoryInv'
    <3>1. UNCHANGED <<call, recovered, pending, head, latest>> /\ pc' = "mark"
      BY <1>2 DEF Goto
    <3>2. \A e \in Intended \cup {d} : folder'[e].receipt = None => e = d
      BY <1>3, <2>1, <2>5
    <3>3. pending # 0 => \A e \in Intended \cup {d} : e <= pending
      BY <1>3, <2>5, DaysAssumed DEF DaysAssumption, Days
    <3>4. pending = 0 \/ folder'[pending].intent = None =>
            head = CompletedChain /\ latest = LastDay(CompletedChain)
      BY <1>3, <2>1, <2>2 DEF ChainInv, MemoryInv
    <3>5. LastDay(CompletedChain)' = LastDay(CompletedChain)
      BY <2>4 DEF LastDay
    <3>. QED  BY <1>1, <2>3, <2>4, <3>1, <3>2, <3>3, <3>4, <3>5 DEF MemoryInv
  <2>8. RunInv'
    <3>1. UNCHANGED <<call, pending, previous>> /\ pc' = "mark"
      BY <1>2 DEF Goto
    <3>2. call'.doc.day = d /\ StateBefore(call.doc.day)' = StateBefore(d)'
      BY <1>1, <3>1 DEF StateBefore
    <3>3. \A e \in Intended \cup {d} : e # d => e < d /\ folder'[e].receipt # None
      BY <1>3, <2>1, <2>5
    <3>4. Below(previous, d)'
      BY <1>3, <3>1 DEF Below
    <3>. QED
      BY <1>3, <2>3, <2>4, <3>1, <3>2, <3>3, <3>4
         DEF RunInv, Below, AfterMark, AfterIntent, AfterRequest, AfterFolder
  <2>9. IndexFollowsChain'
    <3>1. \A e \in Days : folder[e].intent # None => e # d
      BY <1>5
    <3>. QED  BY <1>2, <2>1, <3>1, IndexFrame DEF ChainInv
  <2>. QED  BY <2>6, <2>7, <2>8, <2>9 DEF ChainInv
<1>. QED  BY <1>2, <1>4, <1>5

LEMMA ChainMark ==
  ASSUME IInv, IdentityInv, ChainInv, MarkPending
  PROVE  ChainInv'
<1>0. pc = "mark" /\ pc \in Running
  BY DEF MarkPending, Running, AfterFolder
<1>1. PICK d \in Days : d = call.doc.day
  BY <1>0, RunFacts
<1>2. /\ pending' = d /\ pc' = "begin" /\ UNCHANGED <<base, folder, index, objects>>
      /\ UNCHANGED <<call, previous, head, latest>> /\ SameFiles
  BY <1>1 DEF MarkPending, SameFiles, KeptFiles, disk
<1>3. /\ Below(previous, d) /\ previous = StateBefore(d)
      /\ \A e \in Intended : e # d => e < d /\ folder[e].receipt # None
  BY <1>0, <1>1, RunFacts
<1>4. folder[d].intent # None
  <2>1. folder[d].intent = [doc |-> call.doc, prev |-> previous]
    BY <1>0, <1>1 DEF IInv, CallInv, AfterIntent, AfterRequest, AfterFolder
  <2>2. [doc |-> call.doc, prev |-> previous] \in Intent
    BY <1>0, RunFacts DEF IInv, TypeOK, Intent
  <2>. QED  BY <2>1, <2>2, NoneAssumed DEF NoneAssumption
<1>5. Intended' = Intended /\ StateBefore(d)' = StateBefore(d) /\ d # 0
  BY <1>2, ReadFrame, DaysAssumed DEF Intended, DaysAssumption, Days
<1>6. MemoryInv'
  <2>1. \A e \in Intended : e <= d
    BY <1>3, DaysAssumed DEF Intended, DaysAssumption, Days
  <2>. QED  BY <1>2, <1>3, <1>4, <1>5, <2>1 DEF MemoryInv
<1>7. RunInv'
  <2>1. call'.doc.day = d /\ StateBefore(call.doc.day)' = StateBefore(d)'
    BY <1>1, <1>2 DEF StateBefore
  <2>. QED  BY <1>2, <1>3, <1>5, <2>1 DEF RunInv, Below
<1>. QED  BY <1>2, <1>6, <1>7, ChainFrame DEF SameFiles

LEMMA ChainEngine ==
  ASSUME IInv, IdentityInv, ChainInv, BeginSession \/ StoreResult \/ StoreObjects, ~Refuse
  PROVE  ChainInv'
<1>1. pc \in {"begin", "result", "objects"} /\ pc \in Running \ {"mark", "folder"} /\ pc \in AfterMark
  BY DEF BeginSession, StoreResult, StoreObjects, Running, AfterFolder, AfterMark, AfterIntent,
         AfterRequest
<1>2. /\ \/ Goto("delta") \/ Goto("result") \/ Goto("commit") \/ Goto("receipt")
      /\ UNCHANGED <<base, index, folder>> /\ objects \subseteq objects'
  BY DEF BeginSession, StoreResult, StoreObjects, disk
<1>3. SameFiles
  BY <1>2 DEF SameFiles, KeptFiles
<1>4. call.doc.day \in Days /\ Below(previous, call.doc.day)
  BY <1>1, RunFacts
<1>. QED  BY <1>1, <1>2, <1>3, <1>4, ChainGoto DEF Running, AfterFolder

\* Past its intent, a day not yet published comes after the whole chain.
LEMMA ChainEnd ==
  ASSUME IInv, IdentityInv, ChainInv, pc \in AfterMark, NEW d \in Days, d = call.doc.day
  PROVE  /\ folder[d].intent = [doc |-> call.doc, prev |-> previous]
         /\ folder[d].intent # None /\ folder[d].request = call.doc
         /\ pending = d
         /\ \A e \in Published : e # d => e < d
         /\ d \notin Published => Chain = previous /\ Below(Chain, d) /\ LastDay(Chain) < d
         /\ d \in Published => LastDay(Chain) = d /\ Chain # <<>>
<1>1. pc \in Running /\ pc # "folder" /\ pc \in AfterIntent /\ pc \in AfterRequest
  BY DEF AfterMark, AfterIntent, AfterRequest, AfterFolder, Running
<1>2. /\ folder[d].intent = [doc |-> call.doc, prev |-> previous]
      /\ folder[d].request = call.doc /\ pending = d
  BY <1>1 DEF IInv, CallInv, ChainInv, RunInv
<1>3. folder[d].intent # None
  <2>1. [doc |-> call.doc, prev |-> previous] \in Intent
    BY <1>1, RunFacts DEF IInv, TypeOK, Intent
  <2>. QED  BY <1>2, <2>1, NoneAssumed DEF NoneAssumption
<1>4. \A e \in Published : e # d => e < d
  BY <1>1, RunFacts, FileSets
<1>5. ASSUME d \notin Published PROVE Chain = previous /\ Below(Chain, d) /\ LastDay(Chain) < d
  <2>1. Chain = previous /\ Below(Chain, d)
    BY <1>1, <1>4, <1>5, RunFacts, BeforeIsChain
  <2>2. CASE Chain = <<>>
    BY <2>1, <2>2, DaysAssumed DEF LastDay, DaysAssumption, Days
  <2>3. CASE Chain # <<>>
    <3>1. Chain \in Seq(Row)
      BY ChainFacts DEF StateId
    <3>2. Len(Chain) \in 1..Len(Chain)
      BY <2>3, <3>1
    <3>. QED  BY <2>1, <2>3, <3>2 DEF LastDay, Below
  <2>. QED  BY <2>1, <2>2, <2>3
<1>6. ASSUME d \in Published PROVE LastDay(Chain) = d /\ Chain # <<>>
  <2>1. \A e \in Published : e \in Days /\ e <= d
    BY <1>4, DaysAssumed DEF Published, DaysAssumption, Days
  <2>2. Max(Published) = d
    BY <1>6, <2>1, MaxIs
  <2>. QED  BY <1>6, <2>2, PostFacts DEF Chain
<1>. QED  BY <1>2, <1>3, <1>4, <1>5, <1>6

\* The rows of an index that is one commit ahead.
LEMMA AheadFacts ==
  ASSUME IInv, PendingCommitOK
  PROVE  /\ index.rows \in Seq(Row) /\ Chain \in Seq(Row)
         /\ Len(index.rows) = Len(Chain) + 1
         /\ index.rows = Append(Chain, index.rows[Len(index.rows)])
         /\ \A i \in 1..Len(Chain) : index.rows[i] = Chain[i]
         /\ index.rows[Len(index.rows)] \in Row
<1>1. index.rows \in Seq(Row) /\ Chain \in Seq(Row)
  BY ChainFacts DEF IInv, TypeOK, StateId
<1> DEFINE rows == index.rows
           chain == Chain
<1>2. Len(rows) = Len(chain) + 1 /\ SubSeq(rows, 1, Len(chain)) = chain
  BY DEF PendingCommitOK
<1>. HIDE DEF rows, chain
<1>3. \A i \in 1..Len(chain) : rows[i] = chain[i]
  BY <1>1, <1>2 DEF rows, chain
<1>4. rows[Len(rows)] \in Row
  BY <1>1, <1>2 DEF rows, chain
<1>5. rows = Append(chain, rows[Len(rows)])
  <2> DEFINE last == rows[Len(rows)]
  <2>1. last \in Row
    BY <1>4
  <2>. HIDE DEF last
  <2>2. Append(chain, last) \in Seq(Row) /\ Len(Append(chain, last)) = Len(rows)
    BY <1>1, <1>2, <2>1 DEF rows, chain
  <2>3. ASSUME NEW i \in 1..Len(rows) PROVE rows[i] = Append(chain, last)[i]
    <3>1. CASE i = Len(rows)
      BY <1>1, <1>2, <2>1, <3>1 DEF rows, chain, last
    <3>2. CASE i # Len(rows)
      <4>1. i \in 1..Len(chain)
        BY <1>1, <1>2, <3>2 DEF rows, chain
      <4>. QED  BY <1>1, <1>3, <2>1, <4>1 DEF chain
    <3>. QED  BY <3>1, <3>2
  <2>. QED  BY <1>1, <2>2, <2>3, SeqEqual DEF rows, last
<1>. QED  BY <1>1, <1>2, <1>3, <1>4, <1>5 DEF rows, chain

LEMMA ChainCommit ==
  ASSUME IInv, IdentityInv, ChainInv, Commit, ~Refuse
  PROVE  ChainInv'
<1>0. pc = "commit" /\ pc \in AfterMark /\ pc \in Running \ {"mark", "folder"}
  BY DEF Commit, AfterMark, AfterIntent, AfterRequest, AfterFolder, Running
<1>1. PICK d \in Days : d = call.doc.day
  BY <1>0, RunFacts
<1> DEFINE row == NextRow(index.rows, call.doc)
<1>2. /\ \A i \in 1..Len(index.rows) : index.rows[i].doc.day # d
      /\ index' = [index EXCEPT !.rows = Append(index.rows, row)]
      /\ Goto("delta") /\ UNCHANGED <<base, folder, objects>> /\ SameFiles
  BY <1>1 DEF Commit, SameFiles, KeptFiles
<1>3. /\ index.rows \in Seq(Row) /\ index'.rows = Append(index.rows, row)
      /\ call.doc \in Doc /\ index.state = "clean" /\ Below(previous, d)
  BY <1>0, <1>1, <1>2, RunFacts DEF IInv, TypeOK, StateId
<1>4. index.rows = Chain
  <2>1. ASSUME PendingCommitOK PROVE FALSE
    <3> DEFINE last == index.rows[Len(index.rows)]
    <3>1. /\ last \in Row /\ Len(index.rows) \in 1..Len(index.rows)
      BY <2>1, AheadFacts
    <3>2. PICK e \in Days : e = last.doc.day
      BY <3>1 DEF Row, Doc
    <3>3. e \in Intended /\ LastDay(Chain) < e /\ e # d
      BY <1>2, <2>1, <3>1, <3>2 DEF PendingCommitOK, Intended
    <3>4. folder[e].receipt # None
      BY <1>0, <1>1, <3>3, RunFacts
    <3>5. e \in Published
      BY <3>2, <3>4, FilesInOrder DEF Published
    <3>6. e <= LastDay(Chain) /\ LastDay(Chain) \in Days \cup {0}
      BY <3>5, ChainFacts, ReadTypes DEF IInv
    <3>. QED  BY <3>3, <3>6, DaysAssumed DEF DaysAssumption, Days
  <2>. QED  BY <1>3, <2>1 DEF ChainInv, IndexFollowsChain
<1>5. d \notin Published
  <2>1. ASSUME d \in Published PROVE FALSE
    <3>1. LastDay(Chain) = d /\ Chain # <<>>
      BY <1>0, <1>1, <2>1, ChainEnd
    <3>2. Len(Chain) \in 1..Len(Chain)
      BY <1>3, <1>4, <3>1
    <3>. QED  BY <1>2, <1>4, <3>1, <3>2 DEF LastDay
  <2>. QED  BY <2>1
<1>6. /\ Chain = previous /\ LastDay(Chain) < d
      /\ folder[d].intent = [doc |-> call.doc, prev |-> previous]
      /\ folder[d].intent # None /\ folder[d].request = call.doc
  BY <1>0, <1>1, <1>5, ChainEnd
<1>7. row \in Row /\ row.doc = call.doc /\ row = NextRow(Chain, folder[d].request)
  <2>1. LastDoc(index.rows) \in Doc \cup {None}
    <3>1. CASE index.rows = <<>>
      BY <3>1 DEF LastDoc
    <3>2. CASE index.rows # <<>>
      <4>1. index.rows[Len(index.rows)] \in Row
        BY <1>3, <3>2
      <4>. QED  BY <3>2, <4>1 DEF LastDoc, Row
    <3>. QED  BY <3>1, <3>2
  <2>. QED  BY <1>3, <1>4, <1>6, <2>1 DEF NextRow, Row
<1>8. Chain' = Chain
  BY <1>2, ReadFrame
<1>9. PendingCommitOK'
  <2>. HIDE DEF row
  <2> DEFINE rows == index'.rows
             chain == Chain
  <2>1. rows = Append(chain, row) /\ chain \in Seq(Row)
    BY <1>3, <1>4
  <2>. HIDE DEF rows, chain
  <2>2. /\ Len(rows) = Len(chain) + 1 /\ SubSeq(rows, 1, Len(chain)) = chain
        /\ rows[Len(rows)] = row
    BY <1>7, <2>1
  <2>3. index'.rows[Len(index'.rows)].doc.day = d
    BY <1>1, <1>7, <2>2 DEF rows
  <2>4. folder'[d] = folder[d] /\ <<"result", row.doc>> \in objects'
    BY <1>0, <1>2, <1>7 DEF IInv, CallInv
  <2>5. NextRow(Chain, folder[d].request)' = NextRow(Chain, folder[d].request)
    BY <1>8, <2>4 DEF NextRow, LastDoc
  <2>6. LastDay(Chain)' = LastDay(Chain)
    BY <1>8 DEF LastDay
  <2>7. LastDay(Chain)' < d
    BY <1>6, <2>6
  <2>8. /\ folder'[index'.rows[Len(index'.rows)].doc.day] = folder'[d]
        /\ NextRow(Chain, folder[index.rows[Len(index.rows)].doc.day].request)'
             = NextRow(Chain, folder[d].request)'
    BY <2>3 DEF NextRow
  <2>. QED
    BY <1>6, <1>7, <1>8, <2>2, <2>3, <2>4, <2>5, <2>7, <2>8 DEF PendingCommitOK, rows, chain
<1>10. IntentsChained'
  BY <1>2, IntentsFrame DEF ChainInv, SameFiles
<1>11. MemoryInv'
  BY <1>0, <1>2, MemoryFrame DEF Goto
<1>12. RunInv'
  BY <1>0, <1>1, <1>2, <1>3, RunFrame
     DEF Goto, SameFiles, Running, AfterMark, AfterIntent, AfterRequest, AfterFolder
<1>. QED  BY <1>9, <1>10, <1>11, <1>12 DEF ChainInv, IndexFollowsChain

\* The row found for the request is the last one, one commit ahead of the chain:
\* publishing it makes the chain the rows of the index.
LEMMA NewDeltaFacts ==
  ASSUME IInv, IdentityInv, ChainInv, pc = "delta", CommittedRows # {},
         NEW d \in Days, d = call.doc.day, d \notin Published
  PROVE  /\ NewDelta = [prev |-> Chain, row |-> NextRow(Chain, call.doc)]
         /\ Post(NewDelta) = index.rows
         /\ NewDelta # None
<1>0. pc \in AfterMark /\ pc \in Running
  BY DEF AfterMark, AfterIntent, AfterRequest, AfterFolder, Running
<1>1. /\ Chain = previous /\ Below(Chain, d) /\ folder[d].request = call.doc
  BY <1>0, ChainEnd
<1> DEFINE i == CHOOSE j \in CommittedRows : TRUE
<1>2. i \in 1..Len(index.rows) /\ index.rows[i].doc = call.doc
  BY DEF CommittedRows
<1>. HIDE DEF i
<1>3. \A j \in 1..Len(Chain) : Chain[j].doc.day # d
  BY <1>1, DaysAssumed DEF Below, DaysAssumption, Days
<1>4. PendingCommitOK
  <2>1. index.rows # Chain
    BY <1>2, <1>3
  <2>2. index.state = "clean"
    BY <1>0, RunFacts
  <2>. QED  BY <2>1, <2>2 DEF ChainInv, IndexFollowsChain
<1>5. i = Len(index.rows)
  <2>1. Len(Chain) \in Nat /\ Len(index.rows) = Len(Chain) + 1
    BY <1>4, AheadFacts
  <2>2. i \notin 1..Len(Chain)
    BY <1>2, <1>3, <1>4, AheadFacts
  <2>. QED  BY <1>2, <2>1, <2>2
<1>6. index.rows[i] = NextRow(Chain, call.doc)
  BY <1>1, <1>2, <1>4, <1>5 DEF PendingCommitOK
<1>7. NewDelta = [prev |-> Chain, row |-> NextRow(Chain, call.doc)]
  BY <1>1, <1>6 DEF NewDelta, i
<1>8. Post(NewDelta) = index.rows
  BY <1>4, <1>5, <1>6, <1>7, AheadFacts DEF Post
<1>9. NewDelta # None
  <2>1. NextRow(Chain, call.doc) \in Row /\ Chain \in StateId
    BY <1>4, <1>5, <1>6, AheadFacts DEF StateId
  <2>2. NewDelta \in Delta
    BY <1>7, <2>1 DEF Delta
  <2>. QED  BY <2>2, NoneAssumed DEF NoneAssumption
<1>. QED  BY <1>7, <1>8, <1>9

LEMMA ChainWriteDelta ==
  ASSUME IInv, IdentityInv, ChainInv, WriteDelta, ~Refuse
  PROVE  ChainInv'
<1>0. pc = "delta" /\ pc \in AfterMark /\ pc \in Running \ {"mark", "folder"}
  BY DEF WriteDelta, AfterMark, AfterIntent, AfterRequest, AfterFolder, Running
<1>1. PICK d \in Days : d = call.doc.day
  BY <1>0, RunFacts
<1>2. /\ folder[d].delta \in {None, NewDelta} /\ CommittedRows # {}
      /\ folder' = [folder EXCEPT ![d] = [folder[d] EXCEPT !.delta = NewDelta]]
      /\ Goto("objects") /\ UNCHANGED <<base, index, objects>> /\ folder \in [Days -> Folder]
  BY <1>0, <1>1, RunFacts, WriteOnceFacts DEF WriteDelta, IInv
<1>3. /\ Below(previous, d) /\ previous = StateBefore(d)
      /\ \A e \in Intended : e \in Days /\ (e # d => e < d /\ folder[e].receipt # None)
      /\ recovered /\ pending = d /\ folder[d].intent # None
      /\ folder[d].intent = [doc |-> call.doc, prev |-> previous]
  BY <1>0, <1>1, RunFacts, ChainEnd DEF Intended
<1>4. CASE folder[d].delta = NewDelta
  <2>1. SameFiles
    BY <1>2, <1>4 DEF SameFiles, KeptFiles, Folder
  <2>. QED  BY <1>0, <1>1, <1>2, <1>3, <2>1, ChainGoto
               DEF Running, AfterFolder, AfterMark, AfterIntent, AfterRequest
<1>5. ASSUME folder[d].delta = None PROVE ChainInv'
  <2>0. /\ d \notin Published /\ NewDelta # None /\ Chain = previous
        /\ NewDelta = [prev |-> Chain, row |-> NextRow(Chain, call.doc)]
        /\ Post(NewDelta) = index.rows
    BY <1>0, <1>1, <1>2, <1>5, NewDeltaFacts, ChainEnd DEF Published
  <2>1. /\ folder'[d].delta = NewDelta
        /\ \A e \in Days : /\ e # d => folder'[e] = folder[e]
                           /\ folder'[e].intent = folder[e].intent
                           /\ folder'[e].receipt = folder[e].receipt
                           /\ folder'[e].request = folder[e].request
    BY <1>2 DEF Folder
  <2>2. Intended' = Intended /\ Published' = Published \cup {d}
    BY <2>0, <2>1 DEF Intended, Published
  <2>3. BaseRows' = BaseRows /\ CompletedChain' = CompletedChain
    BY <1>2, <2>1, CompletedFrame DEF BaseRows
  <2>4. \A e \in Published : e \in Days /\ e < d /\ e # d
    BY <1>3, <2>0, FileSets
  <2>5. Chain' = index.rows
    <3>1. \A e \in Published \cup {d} : e <= d
      BY <2>4, DaysAssumed DEF DaysAssumption, Days
    <3>2. Max(Published \cup {d}) = d
      BY <2>4, <3>1, MaxIs
    <3>. QED  BY <2>0, <2>1, <2>2, <3>2 DEF Chain, Post
  <2>6. ASSUME NEW e \in Intended PROVE StateBefore(e)' = StateBefore(e)
    <3>1. ~(d < e)
      BY <1>3, DaysAssumed DEF DaysAssumption, Days
    <3> DEFINE earlier == {x \in Published : x < e}
    <3>2. {x \in Published' : x < e} = earlier
      BY <2>2, <3>1
    <3>3. earlier # {} => Max(earlier) \in earlier /\ Max(earlier) \in Days /\ Max(earlier) # d
      BY <2>4, LastDayExists
    <3>. QED  BY <2>1, <2>3, <3>2, <3>3 DEF StateBefore, Post
  <2>7. IntentsChained'
    <3>1. base' # None => Increasing(base'.rows)
      BY <1>2 DEF ChainInv, IntentsChained
    <3>2. ASSUME NEW e \in Intended
          PROVE  /\ \A f \in Intended : e < f => folder'[e].receipt # None
                 /\ folder'[e].intent.prev = StateBefore(e)'
                 /\ Below(StateBefore(e), e)'
      BY <1>3, <2>1, <2>6 DEF ChainInv, IntentsChained, Below
    <3>3. ASSUME NEW e \in Published \cup {d}
          PROVE  folder'[e].delta.row = NextRow(folder'[e].intent.prev, folder'[e].intent.doc)
      <4>1. CASE e = d
        BY <1>3, <2>0, <2>1, <4>1
      <4>2. CASE e \in Published
        BY <2>1, <2>4, <4>2 DEF ChainInv, IntentsChained
      <4>. QED  BY <4>1, <4>2
    <3>. QED  BY <2>2, <3>1, <3>2, <3>3 DEF IntentsChained, NextRow
  <2>8. MemoryInv'
    <3>1. UNCHANGED <<call, recovered, pending, head, latest>>
      BY <1>2 DEF Goto
    <3>2. \A e \in Intended : folder'[e].receipt = None => e = d
      BY <1>3, <2>1
    <3>3. \A e \in Intended : e <= d
      BY <1>3, DaysAssumed DEF DaysAssumption, Days
    <3>4. d # 0 /\ folder'[d].intent # None
      BY <1>3, <2>1, DaysAssumed DEF DaysAssumption, Days
    <3>. QED  BY <1>3, <2>2, <3>1, <3>2, <3>3, <3>4 DEF MemoryInv
  <2>9. RunInv'
    <3>1. UNCHANGED <<call, pending, previous>> /\ pc' = "objects"
      BY <1>2 DEF Goto
    <3>2. call'.doc.day = d /\ StateBefore(call.doc.day)' = StateBefore(d)'
      BY <1>1, <3>1 DEF StateBefore
    <3>3. StateBefore(d)' = StateBefore(d) /\ Below(previous, d)'
      BY <1>3, <2>6, <3>1 DEF Intended, Below
    <3>. QED  BY <1>3, <2>1, <2>2, <3>1, <3>2, <3>3 DEF RunInv, Below
  <2>10. IndexFollowsChain'
    BY <1>2, <2>5 DEF IndexFollowsChain
  <2>. QED  BY <2>7, <2>8, <2>9, <2>10 DEF ChainInv
<1>. QED  BY <1>2, <1>4, <1>5

LEMMA ChainWriteReceipt ==
  ASSUME IInv, IdentityInv, ChainInv, WriteReceipt, ~Refuse
  PROVE  ChainInv'
<1>0. pc = "receipt" /\ pc \in AfterMark /\ pc \in Running \ {"mark", "folder"}
  BY DEF WriteReceipt, AfterMark, AfterIntent, AfterRequest, AfterFolder, Running
<1>1. PICK d \in Days : d = call.doc.day
  BY <1>0, RunFacts
<1>2. /\ folder[d].receipt \in {None, NewReceipt}
      /\ folder' = [folder EXCEPT ![d] = [folder[d] EXCEPT !.receipt = NewReceipt]]
      /\ Goto("return") /\ UNCHANGED <<base, index, objects>> /\ folder \in [Days -> Folder]
  BY <1>0, <1>1, RunFacts, WriteOnceFacts DEF WriteReceipt, IInv
<1>3. /\ Below(previous, d) /\ recovered /\ pending = d /\ folder[d].intent # None
      /\ \A e \in Intended : e \in Days /\ (e # d => e < d /\ folder[e].receipt # None)
  BY <1>0, <1>1, RunFacts, ChainEnd DEF Intended
<1>4. KeptFiles /\ \A e \in Days : e # d => folder'[e] = folder[e]
  BY <1>2 DEF KeptFiles, Folder
<1>5. RunInv'
  BY <1>0, <1>1, <1>2, <1>3, <1>4, RunFrame
     DEF Goto, Running, AfterMark, AfterIntent, AfterRequest, AfterFolder
<1>6. MemoryInv'
  <2>1. Intended' = Intended /\ UNCHANGED <<recovered, pending>>
    BY <1>2, <1>4 DEF Intended, KeptFiles, Goto
  <2>2. \A e \in Intended : folder'[e].receipt = None => e = d
    BY <1>3, <1>4
  <2>3. \A e \in Intended : e <= d
    BY <1>3, DaysAssumed DEF DaysAssumption, Days
  <2>4. d # 0 /\ folder'[d].intent # None
    BY <1>3, <1>4, DaysAssumed DEF KeptFiles, DaysAssumption, Days
  <2>. QED  BY <1>3, <2>1, <2>2, <2>3, <2>4 DEF MemoryInv
<1>. QED  BY <1>2, <1>4, <1>5, <1>6, ChainFrame

LEMMA ChainReturn ==
  ASSUME IInv, IdentityInv, ChainInv, ReturnDay \/ WriteBundle
  PROVE  ChainInv'
<1>1. CASE ReturnDay
  <2>0. pc = "return" /\ pc \in Running
    BY <1>1 DEF ReturnDay, Running, AfterFolder
  <2>1. PICK d \in Days : d = call.doc.day
    BY <2>0, RunFacts
  <2>2. /\ folder[d].receipt # None /\ head' = folder[d].receipt.post /\ latest' = d
        /\ pending' = 0 /\ Leave /\ SameFiles /\ UNCHANGED <<base, folder, index, objects>>
    BY <1>1, <2>1 DEF ReturnDay, SameFiles, KeptFiles, disk, IInv, CallInv
  <2>3. \A e \in Intended : e # d => e < d /\ folder[e].receipt # None
    BY <2>0, <2>1, RunFacts
  <2>. QED  BY <2>2, <2>3, ChainDone
<1>2. CASE WriteBundle
  <2>1. pc # "mark" /\ Leave /\ UNCHANGED <<disk, recovered, pending, head, latest>>
    BY <1>2 DEF WriteBundle
  <2>. QED  BY <2>1, ChainRefuse
<1>. QED  BY <1>1, <1>2

\* A day of the imported base that was asked for again stays in the archive.
LEMMA ReimportedStable ==
  ASSUME IInv, IdentityInv, Reimported, [Next]_vars
  PROVE  Reimported'
<1>0. PICK d \in Days : folder[d].made /\ d <= LastDay(BaseRows)
  BY DEF Reimported, Started
<1>1. base # None
  BY <1>0, DaysAssumed DEF BaseRows, LastDay, DaysAssumption, Days
<1>2. UNCHANGED base
  BY <1>1 DEF Next, Step, Environment, vars, disk, RecoverBase, RecoverJob, RecoverScan,
     RecoverIndex, Recovered, Refuse, Admit, AdmitComplete, AdmitFresh, AdmitRefused, MakeFolder,
     WriteRequest, WriteIntent, WriteDelta, WriteReceipt, WriteOnce, MarkPending, BeginSession,
     StoreResult, Commit, StoreObjects, ReturnDay, WriteBundle, Open, Close, Call, RunDay,
     ExportBundle, ImportSnapshot, Crash, Raise, SourceChange, LoseIndex
<1>3. folder'[d].made
  <2>1. folder \in [Days -> Folder]
    BY DEF IInv, TypeOK
  <2>2. CASE UNCHANGED folder
    BY <1>0, <2>2
  <2>3. CASE MakeFolder
    BY <1>0, <2>1, <2>3 DEF MakeFolder, Folder
  <2>4. ASSUME NEW e \in Days, NEW value, NEW next,
               NEW file \in {"request", "intent", "delta", "receipt"},
               WriteOnce(e, file, value, next)
        PROVE  folder'[d].made
    BY <1>0, <2>1, <2>4 DEF WriteOnce, Refuse, disk, Folder
  <2>5. pc \in Points => call.doc.day \in Days
    BY DEF IInv, CallInv, Doc
  <2>6. CASE WriteRequest \/ WriteIntent \/ WriteDelta \/ WriteReceipt
    BY <2>2, <2>4, <2>5, <2>6
       DEF WriteRequest, WriteIntent, WriteDelta, WriteReceipt, Refuse, disk, Points
  <2>7. CASE \/ RecoverBase \/ RecoverJob \/ RecoverScan \/ RecoverIndex \/ Admit
             \/ MarkPending \/ BeginSession \/ StoreResult \/ Commit \/ StoreObjects
             \/ ReturnDay \/ WriteBundle
    BY <2>2, <2>7 DEF RecoverBase, RecoverJob, RecoverScan, RecoverIndex, Recovered,
       Admit, AdmitComplete, AdmitFresh, AdmitRefused, Refuse, disk, MarkPending, BeginSession,
       StoreResult, Commit, StoreObjects, ReturnDay, WriteBundle
  <2>8. CASE Environment \/ UNCHANGED vars
    BY <2>2, <2>8 DEF Environment, Open, Close, Call, RunDay, ExportBundle,
                      ImportSnapshot, Crash, Raise, SourceChange, LoseIndex, disk, vars
  <2>. QED
    BY <2>3, <2>6, <2>7, <2>8 DEF Next, Step
<1>. QED  BY <1>0, <1>2, <1>3 DEF Reimported, Started, BaseRows, LastDay

LEMMA NextChain ==
  ASSUME "mark" \notin RaisePoints, IInv, IdentityInv, ChainInv, [Next]_vars
  PROVE  (ChainInv \/ Reimported)'
<1>1. CASE UNCHANGED vars
  <2>1. /\ SameFiles /\ UNCHANGED <<base, folder, index, objects, call, pc, previous>>
        /\ UNCHANGED <<recovered, pending, head, latest>>
    BY <1>1 DEF vars, disk, process, SameFiles, KeptFiles
  <2>2. Chain' = Chain /\ CompletedChain' = CompletedChain /\ Intended' = Intended
        /\ Published' = Published /\ BaseRows' = BaseRows /\ Skipped' = Skipped
    BY <2>1, ReadFrame, CompletedFrame DEF Intended, Skipped, Started
  <2>3. StateBefore(call.doc.day)' = StateBefore(call.doc.day)
    BY <2>1, <2>2 DEF StateBefore, Post
  <2>4. RunInv' /\ MemoryInv'
    BY <2>1, <2>2, <2>3 DEF ChainInv, RunInv, MemoryInv, Below, LastDay
  <2>. QED  BY <2>1, <2>4, ChainFrame DEF SameFiles
<1>3. CASE Step
  <2>1. CASE Refuse
    <3>1. pc # "mark"
      BY <1>3, <2>1 DEF Step, Refuse, Leave, RecoverBase, RecoverJob, RecoverScan, RecoverIndex,
         Admit, MakeFolder, WriteRequest, WriteIntent, MarkPending, BeginSession, StoreResult,
         Commit, WriteDelta, StoreObjects, WriteReceipt, ReturnDay, WriteBundle
    <3>. QED  BY <2>1, <3>1, ChainRefuse DEF Refuse
  <2>. QED
    BY <1>3, <2>1, ChainRecover, ChainAdmit, ChainMakeFolder, ChainWriteRequest,
       ChainWriteIntent, ChainMark, ChainEngine, ChainCommit, ChainWriteDelta,
       ChainWriteReceipt, ChainReturn DEF Step
<1>4. CASE Environment
  BY <1>4, ChainCalls, ChainFault DEF Environment, Call
<1>. QED  BY <1>1, <1>3, <1>4 DEF Next

LEMMA ChainAlways ==
  ASSUME "mark" \notin RaisePoints
  PROVE  Spec => [](IInv /\ IdentityInv /\ (ChainInv \/ Reimported))
<1> DEFINE Inv == IInv /\ IdentityInv /\ (ChainInv \/ Reimported)
<1>1. Init => Inv
  BY InitIInv, InitIdentity, InitChain
<1>2. Inv /\ [Next]_vars => Inv'
  <2> SUFFICES ASSUME Inv, [Next]_vars PROVE Inv'
    OBVIOUS
  <2>1. IInv' /\ IdentityInv'
    BY NextIInv, NextIdentity
  <2>2. (ChainInv \/ Reimported)'
    BY NextChain, ReimportedStable
  <2>. QED  BY <2>1, <2>2
<1>. QED  BY <1>1, <1>2, PTL DEF Spec

(***************************************************************************)
(* What follows for the properties of the archive.                         *)
(***************************************************************************)
LEMMA LastBelow ==
  ASSUME NEW rows \in StateId, NEW d \in Days, Below(rows, d)
  PROVE  LastDay(rows) < d
<1>1. CASE rows = <<>>
  BY <1>1, DaysAssumed DEF LastDay, DaysAssumption, Days
<1>2. CASE rows # <<>>
  <2>1. Len(rows) \in 1..Len(rows)
    BY <1>2 DEF StateId
  <2>. QED  BY <1>2, <2>1 DEF LastDay, Below
<1>. QED  BY <1>1, <1>2

\* Each delta is the row that follows the state its day builds on.
LEMMA DeltaFacts ==
  ASSUME IInv, ChainInv, NEW d \in Published
  PROVE  /\ folder[d].delta.prev = StateBefore(d)
         /\ LastDay(StateBefore(d)) < d
         /\ folder[d].delta.row = NextRow(StateBefore(d), folder[d].request)
         /\ folder[d].delta.row.doc.day = d
<1>1. d \in Days /\ d \in Intended
  BY FileSets DEF Published
<1>2. /\ folder[d].delta \in Delta /\ folder[d].delta.prev = folder[d].intent.prev
      /\ folder[d].request = folder[d].intent.doc /\ folder[d].delta.row.doc.day = d
  BY <1>1, FilesInOrder DEF Published
<1>3. folder[d].intent.prev = StateBefore(d) /\ Below(StateBefore(d), d)
  BY <1>1 DEF ChainInv, IntentsChained
<1>4. LastDay(StateBefore(d)) < d
  BY <1>1, <1>2, <1>3, LastBelow DEF Delta
<1>. QED  BY <1>2, <1>3, <1>4 DEF ChainInv, IntentsChained

LEMMA ChainInvIsUnbroken == IInv /\ ChainInv => ChainUnbroken
BY DeltaFacts DEF ChainUnbroken

LEMMA ChainInvCopies == ChainInv => CopiesFollowChain
BY DEF ChainInv, CopiesFollowChain, MemoryInv, MemoryAgreesWithDisk

\* An archive without the four kinds of damage can be recovered.
LEMMA UndamagedReopens ==
  ASSUME IInv, IdentityInv, ChainInv, ~Headless, ~Skipped, ~Reimported, index.state # "hot",
         base # None
  PROVE  ScanOK(base.id, base.id.ver) /\ IndexOK
<1>1. ASSUME NEW d \in Started
      PROVE  /\ folder[d].request # None
             /\ folder[d].request.day = d
             /\ IdentityOf(folder[d].request) = base.id
             /\ (\E e \in Started : e > d) => folder[d].receipt # None
  <2>1. d \in Days /\ folder[d].request # None
    BY DEF Started, Headless
  <2>. QED  BY <2>1 DEF IInv, FolderInv, IdentityInv, OursDay, Skipped
<1>2. ASSUME NEW d \in Started, folder[d].delta # None
      PROVE  DeltaOK(d)
  <2>1. d \in Published
    BY <1>2 DEF Started, Published
  <2>2. <<"result", folder[d].delta.row.doc>> \in objects
    BY <1>2 DEF Started, IInv, FolderInv
  <2>. QED  BY <2>1, <2>2, DeltaFacts DEF DeltaOK
<1>3. ASSUME NEW d \in Started
      PROVE  d > LastDay(StateBefore(d))
  <2> DEFINE earlier == {e \in Published : e < d}
  <2>0. d \in Days
    BY DEF Started
  <2>1. CASE earlier = {}
    <3>1. StateBefore(d) = BaseRows
      BY <2>1 DEF StateBefore
    <3>2. LastDay(BaseRows) \in Days \cup {0} /\ ~(d <= LastDay(BaseRows))
      BY ReadTypes DEF IInv, Reimported
    <3>. QED  BY <2>0, <3>1, <3>2, DaysAssumed DEF DaysAssumption, Days
  <2>2. CASE earlier # {}
    <3>1. Max(earlier) \in earlier
      BY <2>2, LastDayExists DEF Published
    <3>2. StateBefore(d) = Post(folder[Max(earlier)].delta)
      BY <2>2 DEF StateBefore
    <3>3. LastDay(StateBefore(d)) = Max(earlier)
      BY <3>1, <3>2, PostFacts
    <3>. QED  BY <2>0, <3>1, <3>3, DaysAssumed DEF Published, DaysAssumption, Days
  <2>. QED  BY <2>1, <2>2
<1>4. ASSUME NEW d \in Started, folder[d].receipt # None
      PROVE  folder[d].delta # None /\ ReadOK(d, base.id.ver)
  <2>1. d \in Days /\ FolderInv(d) /\ folder[d].receipt.assets = base.id.ver
    BY <1>4 DEF Started, IInv, IdentityInv, OursDay
  <2>2. folder[d].delta # None /\ folder[d].intent # None
    BY <1>4, <2>1 DEF FolderInv
  <2>. QED  BY <1>1, <1>4, <2>1, <2>2 DEF FolderInv, ReadOK
<1>5. ScanOK(base.id, base.id.ver)
  BY <1>1, <1>2, <1>3, <1>4 DEF ScanOK
<1>6. IndexOK
  BY DEF IInv, TypeOK, ChainInv, IndexFollowsChain, IndexOK
<1>. QED  BY <1>5, <1>6

\* The deltas form one chain (run_day's previous, from the recorded intent or the
\* head in memory, whichever kill, retry or loss of the index came before), as
\* long as no exception escapes between the link of the intent and
\* self.pending = cutoff, and no day of the imported base is asked for again.
THEOREM ChainKeptUnbroken ==
  ASSUME "mark" \notin RaisePoints
  PROVE  Spec => [](ChainUnbroken \/ Reimported)
<1>1. IInv /\ (ChainInv \/ Reimported) => ChainUnbroken \/ Reimported
  BY ChainInvIsUnbroken
<1>. QED  BY <1>1, ChainAlways, PTL

\* The index is the published chain or one announced commit ahead of it, and
\* between two calls the head in memory is that of the receipts, under the same
\* conditions.
THEOREM CopiesKept ==
  ASSUME "mark" \notin RaisePoints
  PROVE  Spec => [](CopiesFollowChain \/ Reimported)
<1>1. ChainInv \/ Reimported => CopiesFollowChain \/ Reimported
  BY ChainInvCopies
<1>. QED  BY <1>1, ChainAlways, PTL

\* What any sequence of kills, exceptions, source changes and losses of the
\* index leaves behind is recovered by _recover, except for four kinds of
\* damage that it refuses.
THEOREM OnlyKnownDamageStops ==
  ASSUME "mark" \notin RaisePoints
  PROVE  Spec => []OnlyKnownDamage
<1>1. IInv /\ IdentityInv /\ (ChainInv \/ Reimported) => OnlyKnownDamage
  BY UndamagedReopens DEF OnlyKnownDamage, Reopens
<1>. QED  BY <1>1, ChainAlways, PTL

(***************************************************************************)
(* Callers who ask for days after the imported base only.                  *)
(***************************************************************************)
BaseIsPast == \A rows \in Snapshots : \A d \in CallDays : LastDay(rows) < d

\* The days that get a directory are days somebody asked for.
AskedInv ==
  /\ Started \subseteq CallDays
  /\ base # None => base.rows \in Snapshots \cup {<<>>}
  /\ pc \in Points /\ call.op = "run" => call.doc.day \in CallDays

LEMMA InitAsked == Init => AskedInv
BY DEF Init, AskedInv, Started, EmptyFolder, Points

LEMMA NextAsked == IInv /\ IdentityInv /\ AskedInv /\ [Next]_vars => AskedInv'
<1> SUFFICES ASSUME IInv, IdentityInv, AskedInv, [Next]_vars PROVE AskedInv'
  OBVIOUS
<1>1. Started' \subseteq CallDays
  <2>1. folder \in [Days -> Folder]
    BY DEF IInv, TypeOK
  <2>2. CASE UNCHANGED folder
    BY <2>2 DEF AskedInv, Started
  <2>3. CASE MakeFolder
    <3>1. call.doc.day \in CallDays
      BY <2>3 DEF MakeFolder, Points, AskedInv, IdentityInv, OursCall, Running
    <3>2. ASSUME NEW d \in Days, d # call.doc.day PROVE folder'[d] = folder[d]
      BY <2>1, <2>3, <3>2 DEF MakeFolder
    <3>. QED  BY <3>1, <3>2 DEF AskedInv, Started
  <2>4. ASSUME NEW e \in Days, NEW value, NEW next,
               NEW file \in {"request", "intent", "delta", "receipt"},
               WriteOnce(e, file, value, next)
        PROVE  Started' \subseteq CallDays
    <3>1. \A d \in Days : folder'[d].made = folder[d].made
      BY <2>1, <2>4 DEF WriteOnce, Refuse, disk, Folder
    <3>. QED  BY <3>1 DEF AskedInv, Started
  <2>5. pc \in Points => call.doc.day \in Days
    BY DEF IInv, CallInv, Doc
  <2>6. CASE WriteRequest \/ WriteIntent \/ WriteDelta \/ WriteReceipt
    BY <2>2, <2>4, <2>5, <2>6
       DEF WriteRequest, WriteIntent, WriteDelta, WriteReceipt, Refuse, disk, Points
  <2>7. CASE \/ RecoverBase \/ RecoverJob \/ RecoverScan \/ RecoverIndex \/ Admit
             \/ MarkPending \/ BeginSession \/ StoreResult \/ Commit \/ StoreObjects
             \/ ReturnDay \/ WriteBundle
    BY <2>2, <2>7 DEF RecoverBase, RecoverJob, RecoverScan, RecoverIndex, Recovered,
       Admit, AdmitComplete, AdmitFresh, AdmitRefused, Refuse, disk, MarkPending, BeginSession,
       StoreResult, Commit, StoreObjects, ReturnDay, WriteBundle
  <2>8. CASE Environment \/ UNCHANGED vars
    BY <2>2, <2>8 DEF Environment, Open, Close, Call, RunDay, ExportBundle,
                      ImportSnapshot, Crash, Raise, SourceChange, LoseIndex, disk, vars
  <2>. QED
    BY <2>3, <2>6, <2>7, <2>8 DEF Next, Step
<1>2. base' # None => base'.rows \in Snapshots \cup {<<>>}
  <2>1. CASE UNCHANGED base
    BY <2>1 DEF AskedInv
  <2>2. CASE RecoverBase
    BY <2>2 DEF AskedInv, RecoverBase, Refuse, disk
  <2>3. CASE \E rows \in Snapshots : \E doc \in Doc : ImportSnapshot(rows, doc)
    BY <2>3 DEF ImportSnapshot
  <2>. QED
    BY <2>1, <2>2, <2>3 DEF Next, Step, Environment, vars, disk, RecoverJob, RecoverScan,
       RecoverIndex, Recovered, Refuse, Admit, AdmitComplete, AdmitFresh, AdmitRefused,
       MakeFolder, WriteRequest, WriteIntent, WriteDelta, WriteReceipt, WriteOnce, MarkPending,
       BeginSession, StoreResult, Commit, StoreObjects, ReturnDay, WriteBundle, Open, Close,
       Call, RunDay, ExportBundle, Crash, Raise, SourceChange, LoseIndex
<1>3. pc' \in Points /\ call'.op = "run" => call'.doc.day \in CallDays
  <2>1. CASE UNCHANGED call /\ (pc' \in Points => pc \in Points)
    BY <2>1 DEF AskedInv
  <2>2. CASE pc' \notin Points
    BY <2>2
  <2>3. CASE Call
    BY <2>3 DEF Call, RunDay
  <2>4. CASE ExportBundle
    BY <2>4 DEF ExportBundle
  <2>. QED
    <3>1. CASE Refuse \/ Leave \/ Crash \/ Raise \/ Open \/ Close
      BY <2>2, <3>1 DEF Refuse, Leave, Crash, Raise, Open, Close, Points
    <3>2. CASE Step /\ ~Refuse /\ ~Leave
      <4>1. pc \in Points
        BY <3>2 DEF Step, RecoverBase, RecoverJob, RecoverScan, RecoverIndex, Admit, MakeFolder,
           WriteRequest, WriteIntent, WriteDelta, WriteReceipt, MarkPending, BeginSession,
           StoreResult, Commit, StoreObjects, ReturnDay, WriteBundle, Points
      <4>2. UNCHANGED call
        BY <3>2 DEF Step, RecoverBase, RecoverJob, RecoverScan, RecoverIndex, Recovered, Goto,
           Admit, AdmitComplete, AdmitFresh, AdmitRefused, MakeFolder, WriteRequest, WriteIntent,
           WriteDelta, WriteReceipt, WriteOnce, MarkPending, BeginSession, StoreResult, Commit,
           StoreObjects, ReturnDay, WriteBundle
      <4>. QED  BY <2>1, <4>1, <4>2
    <3>3. CASE SourceChange \/ LoseIndex \/ UNCHANGED vars
               \/ \E rows \in Snapshots : \E doc \in Doc : ImportSnapshot(rows, doc)
      BY <2>1, <3>3 DEF SourceChange, LoseIndex, vars, process, ImportSnapshot
    <3>. QED  BY <2>3, <2>4, <3>1, <3>2, <3>3 DEF Next, Environment
<1>. QED  BY <1>1, <1>2, <1>3 DEF AskedInv

LEMMA NotReimported ==
  ASSUME BaseIsPast, IInv, AskedInv
  PROVE  ~Reimported
<1>1. ASSUME NEW d \in Started PROVE ~(d <= LastDay(BaseRows))
  <2>1. d \in Days /\ d \in CallDays /\ LastDay(BaseRows) \in Days \cup {0}
    BY ReadTypes DEF AskedInv, Started, IInv
  <2>2. LastDay(BaseRows) = 0 \/ LastDay(BaseRows) < d
    BY <2>1 DEF AskedInv, BaseIsPast, BaseRows, LastDay
  <2>. QED  BY <2>1, <2>2, DaysAssumed DEF DaysAssumption, Days
<1>. QED  BY <1>1 DEF Reimported

(***************************************************************************)
(* The archive implements the ledger of days.                              *)
(***************************************************************************)
ToldTo == {a.asked : a \in acked}

LEMMA LedgerInit == Init => Ledger!Init
<1> SUFFICES ASSUME Init PROVE Ledger!Init
  OBVIOUS
<1>1. [d \in Days |-> folder[d].request] = [d \in Days |-> None]
  BY DEF Init, EmptyFolder
<1>2. CompletedChain = <<>>
  BY DEF Init, EmptyFolder, CompletedChain, Completed, BaseRows
<1>3. ToldTo = {} /\ exported = {}
  BY DEF Init, ToldTo
<1>. QED  BY <1>1, <1>2, <1>3 DEF Ledger!Init, ToldTo

\* A step that neither promises, settles, tells nor copies.
LEMMA LedgerStutter ==
  ASSUME BaseRows' = BaseRows, UNCHANGED <<acked, exported>>,
         \A d \in Days : /\ folder'[d].request = folder[d].request
                         /\ folder'[d].receipt = folder[d].receipt
  PROVE  UNCHANGED Ledger!vars
<1>1. [d \in Days |-> folder'[d].request] = [d \in Days |-> folder[d].request]
  OBVIOUS
<1>2. Completed' = Completed
  BY DEF Completed
<1>3. Completed # {} => Max(Completed) \in Days
  BY LastDayExists DEF Completed
<1>4. CompletedChain' = CompletedChain
  BY <1>2, <1>3 DEF CompletedChain
<1>. QED  BY <1>1, <1>4 DEF Ledger!vars

\* A day that ends the chain of receipts can be told.
LEMMA LedgerTell ==
  ASSUME IInv, NEW d \in Days, NEW doc \in Doc,
         folder[d].receipt # None, folder[d].receipt.doc = doc,
         \A e \in Intended : e # d => e < d,
         acked' = acked \cup {[asked |-> doc, receipt |-> folder[d].receipt]},
         UNCHANGED <<base, folder, exported>>
  PROVE  Ledger!Tell(doc)
<1>1. d \in Completed /\ d \in Published /\ Completed \subseteq Days
  BY FilesInOrder DEF Completed, Published
<1>2. Max(Completed) = d
  <2>1. ASSUME NEW e \in Completed PROVE e <= d
    <3>1. e \in Intended
      BY <2>1, FileSets
    <3>. QED  BY <1>1, <3>1, DaysAssumed DEF DaysAssumption, Days
  <2>. QED  BY <1>1, <2>1, MaxIs
<1>3. CompletedChain = Post(folder[d].delta)
  BY <1>1, <1>2, CompletedChainFacts
<1>4. folder[d].delta.row.doc = doc
  BY <1>1, FilesInOrder DEF IInv, FolderInv, Published
<1>5. \E i \in 1..Len(CompletedChain) : CompletedChain[i].doc = doc
  <2>1. /\ CompletedChain \in StateId /\ CompletedChain # <<>>
        /\ LastDoc(CompletedChain) = doc
    BY <1>1, <1>3, <1>4, PostFacts
  <2>2. Len(CompletedChain) \in 1..Len(CompletedChain)
    BY <2>1 DEF StateId
  <2>. QED  BY <2>1, <2>2 DEF LastDoc
<1>6. {a.asked : a \in acked'} = {a.asked : a \in acked} \cup {doc}
  <2> DEFINE new == [asked |-> doc, receipt |-> folder[d].receipt]
  <2>1. new.asked = doc /\ acked' = acked \cup {new}
    OBVIOUS
  <2>. HIDE DEF new
  <2>. QED  BY <2>1
<1>7. /\ [e \in Days |-> folder'[e].request] = [e \in Days |-> folder[e].request]
      /\ CompletedChain' = CompletedChain
  BY CompletedFrame
<1>. QED  BY <1>5, <1>6, <1>7 DEF Ledger!Tell

LEMMA LedgerImport ==
  ASSUME IInv, IdentityInv, NEW rows \in Snapshots, NEW doc \in Doc, ImportSnapshot(rows, doc)
  PROVE  Ledger!Import
<1>1. base = None /\ BaseRows = <<>> /\ UNCHANGED <<folder, acked, exported>>
  BY DEF ImportSnapshot, BaseRows
<1>2. \A d \in Days : folder[d].request = None /\ folder[d].receipt = None
  BY <1>1, NoBaseNoFiles
<1>3. Completed = {} /\ Completed' = {}
  BY <1>1, <1>2 DEF Completed
<1>4. rows \in Seq(Row)
  BY SnapshotsAssumed DEF SnapshotAssumption, StateId
<1>5. base' \in Base /\ base'.rows = rows
  BY <1>4 DEF ImportSnapshot, Base, StateId, Identity, IdentityOf, Doc
<1>6. CompletedChain = <<>> /\ CompletedChain' = rows
  BY <1>1, <1>3, <1>5, NoneAssumed DEF CompletedChain, BaseRows, NoneAssumption
<1>7. Row = Ledger!Entry
  BY DEF Row, Ledger!Entry
<1>8. [d \in Days |-> folder'[d].request] = [d \in Days |-> folder[d].request]
  BY <1>1
<1>. QED  BY <1>1, <1>2, <1>4, <1>6, <1>7, <1>8 DEF Ledger!Import

LEMMA LedgerPromise ==
  ASSUME IInv, IdentityInv, ChainInv, WriteRequest, ~Refuse
  PROVE  [Ledger!Next]_(Ledger!vars)
<1>0. pc = "request" /\ pc \in Running
  BY DEF WriteRequest, Running, AfterFolder
<1>1. PICK doc \in Doc, d \in Days : doc = call.doc /\ d = doc.day
  BY <1>0, RunFacts
<1>2. /\ folder[d].request \in {None, call.doc} /\ call.doc \in Doc
      /\ folder' = [folder EXCEPT ![d] = [folder[d] EXCEPT !.request = call.doc]]
      /\ UNCHANGED <<base, acked, exported>> /\ folder \in [Days -> Folder]
  BY <1>0, <1>1, RunFacts, WriteOnceFacts DEF WriteRequest, IInv
<1>3. /\ folder'[d].request = call.doc
      /\ \A e \in Days : /\ folder'[e].receipt = folder[e].receipt
                         /\ e # d => folder'[e].request = folder[e].request
  BY <1>2 DEF Folder
<1>4. CASE folder[d].request = call.doc
  BY <1>2, <1>3, <1>4, LedgerStutter DEF BaseRows
<1>5. CASE folder[d].request = None
  <2> DEFINE promised == [e \in Days |-> folder[e].request]
  <2>1. [e \in Days |-> folder'[e].request] = [promised EXCEPT ![d] = doc]
    BY <1>1, <1>3
  <2>2. CompletedChain' = CompletedChain
    BY <1>2, <1>3, CompletedFrame
  <2>3. Ledger!Promise(doc)
    BY <1>1, <1>2, <1>5, <2>1, <2>2 DEF Ledger!Promise
  <2>. QED  BY <2>3 DEF Ledger!Next
<1>. QED  BY <1>2, <1>4, <1>5

LEMMA LedgerSettle ==
  ASSUME IInv, IdentityInv, ChainInv, WriteReceipt, ~Refuse
  PROVE  [Ledger!Next]_(Ledger!vars)
<1>0. pc = "receipt" /\ pc \in AfterMark /\ pc \in Running /\ pc \in AfterDelta
  BY DEF WriteReceipt, AfterMark, AfterIntent, AfterRequest, AfterFolder, Running, AfterDelta
<1>1. PICK d \in Days : d = call.doc.day
  BY <1>0, RunFacts
<1>2. /\ folder[d].receipt \in {None, NewReceipt} /\ call.doc \in Doc
      /\ folder' = [folder EXCEPT ![d] = [folder[d] EXCEPT !.receipt = NewReceipt]]
      /\ UNCHANGED <<base, acked, exported>> /\ folder \in [Days -> Folder]
  BY <1>0, <1>1, RunFacts, WriteOnceFacts DEF WriteReceipt, IInv
<1>3. /\ folder'[d].receipt = NewReceipt
      /\ \A e \in Days : /\ folder'[e].request = folder[e].request
                         /\ e # d => folder'[e].receipt = folder[e].receipt
  BY <1>2 DEF Folder
<1>4. CASE folder[d].receipt = NewReceipt
  BY <1>2, <1>3, <1>4, LedgerStutter DEF BaseRows
<1>5. CASE folder[d].receipt = None
  <2>1. folder[d].delta # None /\ d \in Published /\ folder[d].request = call.doc
    BY <1>0, <1>1, ChainEnd DEF IInv, CallInv, Published
  <2>2. NewReceipt # None /\ NewReceipt.post = Post(folder[d].delta)
    <3>1. /\ Post(folder[d].delta) \in StateId /\ pin \in Versions /\ previous \in StateId
      BY <1>0, <2>1, PostFacts DEF IInv, TypeOK, CallInv
    <3>2. NewReceipt \in Receipt
      BY <1>1, <1>2, <3>1 DEF NewReceipt, Receipt
    <3>. QED  BY <1>1, <3>2, NoneAssumed DEF NewReceipt, NoneAssumption
  <2>3. Completed' = Completed \cup {d} /\ d \notin Completed /\ Completed \subseteq Days
    BY <1>3, <1>5, <2>2 DEF Completed
  <2>4. \A e \in Published : e \in Days /\ (e # d => e < d /\ e \in Completed)
    BY <1>0, <1>1, RunFacts, FileSets DEF Published, Completed
  <2>5. \A e \in Completed : e < d /\ e \in Published
    BY <2>3, <2>4, FileSets
  <2>6. StateBefore(d) = CompletedChain
    <3>1. {e \in Published : e < d} = Completed
      BY <2>4, <2>5, DaysAssumed DEF DaysAssumption, Days
    <3>. QED  BY <3>1, CompletedChainFacts DEF StateBefore
  <2>7. CompletedChain' = Post(folder[d].delta)
    <3>1. \A e \in Completed \cup {d} : e <= d
      BY <2>3, <2>5, DaysAssumed DEF DaysAssumption, Days
    <3>2. Max(Completed \cup {d}) = d
      BY <2>3, <3>1, MaxIs
    <3>. QED  BY <1>3, <2>2, <2>3, <3>2 DEF CompletedChain
  <2>8. Post(folder[d].delta)
          = Append(CompletedChain, [doc |-> call.doc, prev |-> LastDoc(CompletedChain)])
    BY <2>1, <2>6, DeltaFacts DEF Post, NextRow
  <2>9. LastDay(CompletedChain) < d
    BY <2>1, <2>6, DeltaFacts
  <2>10. [e \in Days |-> folder'[e].request] = [e \in Days |-> folder[e].request]
    BY <1>3
  <2>11. Ledger!Settle(d)
    <3>1. call.doc # None
      BY <1>2, NoneAssumed DEF NoneAssumption
    <3>. QED
      BY <1>2, <2>1, <2>7, <2>8, <2>9, <2>10, <3>1
         DEF Ledger!Settle, Ledger!LastEntryDay, Ledger!LastEntryDoc, LastDay, LastDoc
  <2>. QED  BY <2>11 DEF Ledger!Next
<1>. QED  BY <1>2, <1>4, <1>5

LEMMA LedgerReturn ==
  ASSUME IInv, IdentityInv, ChainInv, ReturnDay \/ (Admit /\ ~Refuse /\ AdmitComplete /\ PendingFirst /\ InOrder)
  PROVE  Ledger!Next
<1>1. pc \in Points /\ call.doc \in Doc /\ call.doc.day \in Days
  BY DEF ReturnDay, Admit, Points, IInv, CallInv, Doc
<1>2. PICK doc \in Doc, d \in Days : doc = call.doc /\ d = call.doc.day
  BY <1>1
<1>3. /\ folder[d].receipt # None /\ UNCHANGED <<base, folder, exported>>
      /\ acked' = acked \cup {[asked |-> call.doc, receipt |-> folder[d].receipt]}
  BY <1>2 DEF ReturnDay, AdmitComplete, disk, IInv, CallInv
<1>4. folder[d].receipt.doc = call.doc
  <2>1. CASE ReturnDay
    <3>1. folder[d].intent = [doc |-> call.doc, prev |-> previous]
      BY <1>2, <2>1 DEF ReturnDay, IInv, CallInv, AfterIntent, AfterRequest, AfterFolder
    <3>2. FolderInv(d) /\ folder[d].intent.doc = call.doc
      BY <3>1 DEF IInv
    <3>. QED  BY <1>3, <3>2 DEF FolderInv
  <2>2. CASE AdmitComplete
    BY <1>2, <2>2 DEF AdmitComplete
  <2>. QED  BY <2>1, <2>2 DEF Admit
<1>5. \A e \in Intended : e # d => e < d
  <2>1. CASE ReturnDay
    <3>1. pc \in Running
      BY <2>1 DEF ReturnDay, Running, AfterFolder
    <3>. QED  BY <1>2, <3>1, RunFacts
  <2>2. CASE Admit /\ PendingFirst /\ InOrder
    <3>1. pc = "admit" /\ recovered
      BY <2>2 DEF Admit, IdentityInv, OursCall
    <3>. QED  BY <1>1, <1>2, <2>2, <3>1, AdmissionOrder
  <2>. QED  BY <2>1, <2>2
<1>6. Ledger!Tell(doc)
  BY <1>2, <1>3, <1>4, <1>5, LedgerTell
<1>. QED  BY <1>6 DEF Ledger!Next

LEMMA LedgerCopy ==
  ASSUME IInv, WriteBundle
  PROVE  [Ledger!Next]_(Ledger!vars)
<1>1. UNCHANGED <<base, folder, acked>>
  BY DEF WriteBundle, disk
<1>2. CASE UNCHANGED exported
  BY <1>1, <1>2, LedgerStutter DEF BaseRows
<1>3. CASE ~UNCHANGED exported
  <2>1. (\A d \in Started : ReadOK(d, pin)) /\ exported' = exported \cup {Chain}
    BY <1>3 DEF WriteBundle
  <2>2. Published = Completed
    BY <2>1, FileSets DEF ReadOK, Completed, Published
  <2>3. Chain = CompletedChain
    BY <2>2, SameChain
  <2>4. /\ [e \in Days |-> folder'[e].request] = [e \in Days |-> folder[e].request]
        /\ CompletedChain' = CompletedChain
    BY <1>1, CompletedFrame
  <2>5. Ledger!Copy
    BY <1>1, <2>1, <2>3, <2>4 DEF Ledger!Copy
  <2>. QED  BY <2>5 DEF Ledger!Next
<1>. QED  BY <1>2, <1>3

LEMMA LedgerStep ==
  ASSUME IInv, IdentityInv, ChainInv, [Next]_vars
  PROVE  [Ledger!Next]_(Ledger!vars)
<1>1. ASSUME UNCHANGED <<base, folder, acked, exported>>
      PROVE  [Ledger!Next]_(Ledger!vars)
  BY <1>1, LedgerStutter DEF BaseRows
<1>2. CASE Refuse
  BY <1>1, <1>2 DEF Refuse, disk
<1>3. CASE RecoverBase /\ ~Refuse
  <2>1. /\ base' = IF base = None THEN [id |-> IdentityOf(call.doc), rows |-> <<>>] ELSE base
        /\ UNCHANGED <<folder, acked, exported>>
    BY <1>3 DEF RecoverBase
  <2>2. BaseRows' = BaseRows
    BY <2>1 DEF BaseRows
  <2>. QED  BY <2>1, <2>2, LedgerStutter
<1>4. CASE RecoverJob \/ RecoverScan \/ RecoverIndex
  BY <1>1, <1>2, <1>4 DEF RecoverJob, RecoverScan, RecoverIndex, Recovered, disk
<1>5. CASE Admit /\ ~Refuse
  <2>1. CASE AdmitFresh \/ AdmitRefused
    BY <1>1, <2>1 DEF AdmitFresh, AdmitRefused, disk
  <2>2. CASE AdmitComplete /\ PendingFirst /\ InOrder
    BY <1>5, <2>2, LedgerReturn
  <2>. QED  BY <1>5, <2>1, <2>2 DEF Admit
<1>6. CASE MakeFolder \/ WriteIntent \/ WriteDelta
  <2>1. CASE MakeFolder
    <3>1. /\ folder \in [Days -> Folder] /\ UNCHANGED <<base, acked, exported>>
          /\ folder' = [folder EXCEPT ![call.doc.day].made = TRUE]
      BY <2>1 DEF MakeFolder, IInv, TypeOK
    <3>2. \A d \in Days : /\ folder'[d].request = folder[d].request
                          /\ folder'[d].receipt = folder[d].receipt
      BY <3>1 DEF Folder
    <3>. QED  BY <3>1, <3>2, LedgerStutter DEF BaseRows
  <2>2. ASSUME NEW d \in Days, NEW file \in {"intent", "delta"}, NEW value, NEW next,
               WriteOnce(d, file, value, next), ~Refuse
        PROVE  [Ledger!Next]_(Ledger!vars)
    <3>1. /\ folder \in [Days -> Folder] /\ UNCHANGED <<base, acked, exported>>
          /\ folder' = [folder EXCEPT ![d] = [folder[d] EXCEPT ![file] = value]]
      BY <2>2, WriteOnceFacts DEF IInv, TypeOK
    <3>2. \A e \in Days : /\ folder'[e].request = folder[e].request
                          /\ folder'[e].receipt = folder[e].receipt
      BY <3>1 DEF Folder
    <3>. QED  BY <3>1, <3>2, LedgerStutter DEF BaseRows
  <2>3. pc \in Points => call.doc.day \in Days
    BY DEF IInv, CallInv, Doc
  <2>. QED  BY <1>2, <1>6, <2>1, <2>2, <2>3 DEF WriteIntent, WriteDelta, Points
<1>7. CASE WriteRequest \/ WriteReceipt \/ ReturnDay \/ WriteBundle
  BY <1>2, <1>7, LedgerPromise, LedgerSettle, LedgerReturn, LedgerCopy
<1>8. CASE MarkPending \/ BeginSession \/ StoreResult \/ Commit \/ StoreObjects
  BY <1>1, <1>2, <1>8 DEF MarkPending, BeginSession, StoreResult, Commit, StoreObjects, disk
<1>9. CASE \E rows \in Snapshots : \E doc \in Doc : ImportSnapshot(rows, doc)
  BY <1>9, LedgerImport DEF Ledger!Next
<1>10. CASE \/ Open \/ Close \/ Call \/ ExportBundle \/ Crash \/ Raise \/ SourceChange
            \/ LoseIndex \/ UNCHANGED vars
  BY <1>1, <1>10 DEF Open, Close, Call, RunDay, ExportBundle, Crash, Raise, SourceChange,
     LoseIndex, disk, vars
<1>. QED
  BY <1>2, <1>3, <1>4, <1>5, <1>6, <1>7, <1>8, <1>9, <1>10 DEF Next, Step, Environment

\* The archive implements the ledger of days (the request files are its promises,
\* the chain of the last receipt its entries, the receipts returned what callers
\* are told, the bundles its copies), when callers ask for days after the imported
\* base only and no exception escapes between the link of the intent and
\* self.pending = cutoff.
THEOREM ArchiveImplementsLedger ==
  ASSUME "mark" \notin RaisePoints, BaseIsPast
  PROVE  Spec => ImplementsLedger
<1>1. Init => Ledger!Init
  BY LedgerInit
<1>2. IInv /\ IdentityInv /\ (ChainInv \/ Reimported) /\ AskedInv /\ [Next]_vars =>
        [Ledger!Next]_(Ledger!vars)
  BY NotReimported, LedgerStep
<1>3. Spec => []AskedInv
  <2>1. Spec => [](IInv /\ IdentityInv)
    BY InitIInv, NextIInv, InitIdentity, NextIdentity, PTL DEF Spec
  <2>. QED  BY <2>1, InitAsked, NextAsked, PTL DEF Spec
<1>. QED  BY <1>1, <1>2, <1>3, ChainAlways, PTL DEF Spec, ImplementsLedger, Ledger!Spec
=============================================================================
