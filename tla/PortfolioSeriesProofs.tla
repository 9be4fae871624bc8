----------------------- MODULE PortfolioSeriesProofs -----------------------
(***************************************************************************)
(* For every set of stocks, markets and portfolios and any number of days: *)
(* the research store is an append-only ledger of sessions and answers     *)
(* every evaluation of a session alike, in both stores a rotation is       *)
(* earned by what was last said of its pair in different sessions, and     *)
(* every decision keeps the seats, the cash reserve and the caps.          *)
(***************************************************************************)
EXTENDS PortfolioSeries, FiniteSetTheorems, WellFoundedInduction, SumTheorems, TLAPS

(* What a session's answer rests on: its pairs and the rows up to its day.  *)
Told(d) == [p \in DOMAIN sealed[d] |-> RecentPasses(rows, d, p)]

(* The header and the rows of a sealed session agree, and it was answered   *)
(* from rows that no later session changes.                                 *)
LedgerInv ==
    /\ sealed = [d \in DOMAIN sealed |-> sealed[d]]
    /\ DOMAIN sealed \subseteq Days
    /\ answers = [d \in Days |-> answers[d]]
    /\ kind = "research" => /\ rows = [d \in Days |-> rows[d]]
                            /\ \A d \in DOMAIN sealed : rows[d] = sealed[d]
    /\ \A d \in Days : answers[d] # {} => d \in DOMAIN sealed /\ answers[d] = {Told(d)}
    /\ run # None => kind = "ordinary"
    /\ kind = "ordinary" => sealed = <<>>

(* The rows up to a day do not change when a later session is filed.        *)
LEMMA EarlierEvidence ==
    ASSUME NEW kept, NEW kept2, NEW d \in Days, NEW p,
           \A e \in 1..d : kept[e] = kept2[e]
    PROVE  RecentPasses(kept, d, p) = RecentPasses(kept2, d, p)
  BY DEF RecentPasses

LEMMA InitLedger == Init => LedgerInv
  <1> SUFFICES ASSUME Init PROVE LedgerInv
    OBVIOUS
  <1>1. sealed = [d \in DOMAIN sealed |-> sealed[d]] /\ DOMAIN sealed = {}
    BY DEF Init
  <1>2. \A d \in Days : answers[d] = {}
    BY DEF Init
  <1> QED
    BY <1>1, <1>2 DEF Init, LedgerInv

(* A session of the research store adds itself to the ledger, or finds      *)
(* itself there.                                                            *)
LEMMA SessionSeals ==
    ASSUME LedgerInv, NEW d \in Days, Session(d)
    PROVE  /\ kind = "research"
           /\ DOMAIN sealed' = DOMAIN sealed \cup {d}
           /\ sealed' = [e \in DOMAIN sealed' |-> sealed'[e]]
           /\ \A e \in DOMAIN sealed : sealed'[e] = sealed[e]
           /\ rows' = [rows EXCEPT ![d] = sealed'[d]]
           /\ \A e \in DOMAIN sealed : e <= d
           /\ answers' = [answers EXCEPT ![d] = @ \cup {[p \in DOMAIN sealed'[d] |-> RecentPasses(rows', d, p)]}]
  <1> DEFINE observed == Observations(weights, data[d])
  <1>1. sealed' = [e \in DOMAIN sealed \cup {d} |-> IF e = d THEN observed ELSE sealed[e]]
    BY DEF Session
  <1>2. d \in DOMAIN sealed => sealed[d] = observed
    BY DEF Session, Unchanged
  <1>3. sealed'[d] = observed
    BY <1>1
  <1>4. DOMAIN observed = Pairs(weights)
    BY DEF Observations
  <1>5. rows' = [rows EXCEPT ![d] = observed]
    BY DEF Session
  <1>6. answers' = [answers EXCEPT ![d] = @ \cup {Evidence(rows', d, weights)}]
    BY DEF Session
  <1>7. Evidence(rows', d, weights) = [p \in DOMAIN sealed'[d] |-> RecentPasses(rows', d, p)]
    BY <1>3, <1>4 DEF Evidence
  <1>8. kind = "research" /\ \A e \in DOMAIN sealed : e <= d
    BY DEF Session, InOrder
  <1> QED
    BY <1>1, <1>2, <1>3, <1>5, <1>6, <1>7, <1>8

LEMMA SessionKeeps ==
    ASSUME LedgerInv, NEW d \in Days, Session(d)
    PROVE  LedgerInv'
  <1>a. /\ kind = "research"
        /\ DOMAIN sealed' = DOMAIN sealed \cup {d}
        /\ sealed' = [e \in DOMAIN sealed' |-> sealed'[e]]
        /\ \A e \in DOMAIN sealed : sealed'[e] = sealed[e]
        /\ rows' = [rows EXCEPT ![d] = sealed'[d]]
        /\ \A e \in DOMAIN sealed : e <= d
    BY SessionSeals
  <1>b. answers' = [answers EXCEPT ![d] = @ \cup {Told(d)'}]
    BY SessionSeals DEF Told
  <1>c. /\ DOMAIN sealed \subseteq Days
        /\ rows = [e \in Days |-> rows[e]]
        /\ answers = [e \in Days |-> answers[e]]
        /\ \A e \in DOMAIN sealed : rows[e] = sealed[e]
        /\ \A e \in Days : answers[e] # {} => e \in DOMAIN sealed /\ answers[e] = {Told(e)}
    BY <1>a DEF LedgerInv
  <1>1. /\ DOMAIN sealed' \subseteq Days
        /\ rows' = [e \in Days |-> rows'[e]]
        /\ answers' = [e \in Days |-> answers'[e]]
    BY <1>a, <1>b, <1>c
  <1>2. kind' = kind /\ run' = run /\ kind' # "ordinary"
    BY <1>a DEF Session
  <1>3. ASSUME NEW e \in DOMAIN sealed' PROVE rows'[e] = sealed'[e]
    BY <1>a, <1>c
  <1>4. ASSUME NEW e \in Days, answers'[e] # {}
        PROVE  e \in DOMAIN sealed' /\ answers'[e] = {Told(e)'}
    <2>1. CASE e = d
      <3>1. answers'[d] = answers[d] \cup {Told(d)'} /\ d \in DOMAIN sealed'
        BY <1>a, <1>b, <1>c
      <3>2. CASE d \in DOMAIN sealed
        <4>1. sealed'[d] = sealed[d] /\ rows[d] = sealed[d]
          BY <3>2, <1>a, <1>c
        <4>2. rows' = rows
          BY <4>1, <1>a, <1>c
        <4>3. Told(d)' = Told(d)
          BY <4>1, <4>2 DEF Told
        <4>4. answers[d] = {} \/ answers[d] = {Told(d)}
          BY <1>c
        <4> QED
          BY <2>1, <3>1, <4>3, <4>4
      <3>3. CASE d \notin DOMAIN sealed
        <4>1. answers[d] = {}
          BY <1>c, <3>3
        <4> QED
          BY <2>1, <3>1, <4>1
      <3> QED
        BY <3>2, <3>3
    <2>2. CASE e # d
      <3>1. answers'[e] = answers[e] /\ e \in DOMAIN sealed /\ answers[e] = {Told(e)}
        BY <2>2, <1>4, <1>b, <1>c
      <3>2. e < d
        BY <2>2, <3>1, <1>a, SeriesAssumption DEF Days
      <3>3. \A f \in 1..e : rows'[f] = rows[f]
        BY <3>2, <1>a, <1>c, SeriesAssumption DEF Days
      <3>4. sealed'[e] = sealed[e]
        BY <3>1, <1>a
      <3>5. \A p \in DOMAIN sealed[e] : RecentPasses(rows', e, p) = RecentPasses(rows, e, p)
        BY <3>3, EarlierEvidence
      <3>6. Told(e)' = Told(e)
        BY <3>4, <3>5 DEF Told
      <3> QED
        BY <3>1, <3>6, <1>a
    <2> QED
      BY <2>1, <2>2
  <1> QED
    BY <1>a, <1>1, <1>2, <1>3, <1>4 DEF LedgerInv

(* No other step touches the ledger.                                        *)
LEMMA OthersKeep ==
    ASSUME LedgerInv, Next, \A d \in Days : ~Session(d)
    PROVE  /\ LedgerInv'
           /\ sealed' = sealed
  <1>1. sealed' = sealed /\ answers' = answers /\ kind' = kind
    BY DEF Next, Decide, Abandon, Record, DecideAlone, Follow, Outside, NextDay, Publish, Revise
  <1>2. rows' = rows \/ kind = "ordinary"
    BY DEF Next, Decide, Abandon, Record, DecideAlone, Follow, Outside, NextDay, Publish, Revise
  <1>4. run' # None => kind = "ordinary"
    BY DEF Next, Decide, Abandon, Record, DecideAlone, Follow, Outside, NextDay, Publish, Revise, LedgerInv
  <1>5. kind = "ordinary" => \A d \in Days : answers[d] = {}
    BY DEF LedgerInv
  <1>6. CASE rows' = rows
    BY <1>1, <1>4, <1>6 DEF LedgerInv, Told
  <1>7. CASE kind = "ordinary"
    BY <1>1, <1>4, <1>5, <1>7 DEF LedgerInv, Told
  <1> QED
    BY <1>2, <1>6, <1>7

LEMMA NextLedger == LedgerInv /\ [Next]_vars => LedgerInv'
  <1> SUFFICES ASSUME LedgerInv, [Next]_vars PROVE LedgerInv'
    OBVIOUS
  <1>1. CASE \E d \in Days : Session(d)
    BY <1>1, SessionKeeps
  <1>2. CASE Next /\ \A d \in Days : ~Session(d)
    BY <1>2, OthersKeep
  <1>3. CASE UNCHANGED vars
    <2>1. sealed' = sealed /\ rows' = rows /\ answers' = answers /\ kind' = kind /\ run' = run
      BY <1>3 DEF vars
    <2> QED
      BY <2>1 DEF LedgerInv, Told
  <1> QED
    BY <1>1, <1>2, <1>3

LEMMA LedgerHolds == Spec => []LedgerInv
  BY InitLedger, NextLedger, PTL DEF Spec

(* Whatever is revised, retried or evaluated again, the research store      *)
(* gives one answer for a session (evaluate_session_v2).                    *)
THEOREM OneAnswer == Spec => []Reproducible
  <1>1. LedgerInv => Reproducible
    <2> SUFFICES ASSUME LedgerInv, NEW d \in Days PROVE Cardinality(answers[d]) <= 1
      BY DEF Reproducible
    <2>1. answers[d] = {} \/ answers[d] = {Told(d)}
      BY DEF LedgerInv
    <2>2. Cardinality({}) = 0 /\ Cardinality({Told(d)}) = 1
      BY FS_EmptySet, FS_Singleton
    <2> QED
      BY <2>1, <2>2
  <1> QED
    BY <1>1, LedgerHolds, PTL

(* The research store implements the ledger of sessions: each is sealed     *)
(* once, in the order of the days, and stays (record_session_v2).           *)
THEOREM StoreIsLedger == Spec => SealedForGood
  <1>1. Init => Ledger!Init
    BY DEF Init, Ledger!Init
  <1>2. LedgerInv /\ [Next]_vars => [Ledger!Next]_sealed
    <2> SUFFICES ASSUME LedgerInv, [Next]_vars PROVE Ledger!Next \/ sealed' = sealed
      OBVIOUS
    <2>1. ASSUME NEW d \in Days, Session(d) PROVE Ledger!Next \/ sealed' = sealed
      <3>a. /\ DOMAIN sealed' = DOMAIN sealed \cup {d}
            /\ sealed' = [e \in DOMAIN sealed' |-> sealed'[e]]
            /\ \A e \in DOMAIN sealed : sealed'[e] = sealed[e]
            /\ \A e \in DOMAIN sealed : e <= d
        BY <2>1, SessionSeals
      <3>b. sealed = [e \in DOMAIN sealed |-> sealed[e]] /\ DOMAIN sealed \subseteq Days
        BY DEF LedgerInv
      <3>1. CASE d \in DOMAIN sealed
        <4>1. DOMAIN sealed' = DOMAIN sealed
          BY <3>1, <3>a
        <4> QED
          BY <4>1, <3>a, <3>b
      <3>2. CASE d \notin DOMAIN sealed
        <4>1. \A e \in DOMAIN sealed : e < d /\ sealed'[e] = sealed[e]
          BY <3>2, <3>a, <3>b, SeriesAssumption DEF Days
        <4> QED
          BY <3>a, <4>1 DEF Ledger!Next, Ledger!Seal
      <3> QED
        BY <3>1, <3>2
    <2>2. CASE Next /\ \A d \in Days : ~Session(d)
      BY <2>2, OthersKeep
    <2> QED
      BY <2>1, <2>2 DEF vars
  <1> QED
    BY <1>1, <1>2, LedgerHolds, PTL DEF Spec, SealedForGood, Ledger!Spec

-----------------------------------------------------------------------------
(* The search for a replacement ends at one pair: the order it follows is a *)
(* strict total order of the pairs.                                         *)
LEMMA ClaimIsInt ==
    ASSUME NEW market \in [Stocks -> Evaluation], NEW s \in Stocks
    PROVE  Claim(market, s) \in Int
  <1>1. market[s].cer \in Int /\ market[s].les \in Signals
    BY DEF Evaluation
  <1>2. Factor(market[s].les) \in Int
    BY <1>1 DEF Factor, Signals
  <1> QED
    BY <1>1, <1>2 DEF Claim, RequiredReturn

LEMMA AheadOrder ==
    ASSUME NEW market \in [Stocks -> Evaluation],
           NEW s \in Stocks, NEW t \in Stocks, NEW u \in Stocks
    PROVE  /\ ~Ahead(market, s, s)
           /\ Ahead(market, s, t) /\ Ahead(market, t, u) => Ahead(market, s, u)
           /\ s # t => Ahead(market, s, t) \/ Ahead(market, t, s)
  <1>1. Claim(market, s) \in Int /\ Claim(market, t) \in Int /\ Claim(market, u) \in Int
    BY ClaimIsInt
  <1>2. Quality[s] \in Int /\ Quality[t] \in Int /\ Quality[u] \in Int
    BY StockAssumption
  <1>3. s \in Int /\ t \in Int /\ u \in Int
    BY StockAssumption
  <1>4. ~Ahead(market, s, s)
    BY <1>1, <1>2, <1>3 DEF Ahead
  <1>5. ASSUME Ahead(market, s, t), Ahead(market, t, u) PROVE Ahead(market, s, u)
    <2> HIDE DEF Claim
    <2>1. Claim(market, s) >= Claim(market, t) /\ Claim(market, t) >= Claim(market, u)
      BY <1>1, <1>5 DEF Ahead
    <2>2. CASE Claim(market, s) > Claim(market, u)
      BY <2>2 DEF Ahead
    <2>3. CASE Claim(market, s) = Claim(market, u)
      <3>1. Claim(market, s) = Claim(market, t) /\ Claim(market, t) = Claim(market, u)
        BY <2>1, <2>3, <1>1
      <3>2. \/ Quality[s] > Quality[t]
            \/ Quality[s] = Quality[t] /\ s < t
        BY <3>1, <1>1, <1>5 DEF Ahead
      <3>3. \/ Quality[t] > Quality[u]
            \/ Quality[t] = Quality[u] /\ t < u
        BY <3>1, <1>1, <1>5 DEF Ahead
      <3>4. Quality[s] > Quality[u] \/ (Quality[s] = Quality[u] /\ s < u)
        BY <3>2, <3>3, <1>2, <1>3
      <3> QED
        BY <3>4, <2>3 DEF Ahead
    <2> QED
      BY <2>1, <2>2, <2>3, <1>1
  <1>6. s # t => Ahead(market, s, t) \/ Ahead(market, t, s)
    BY <1>1, <1>2, <1>3 DEF Ahead
  <1> QED
    BY <1>4, <1>5, <1>6

LEMMA BetterOrder ==
    ASSUME NEW market \in [Stocks -> Evaluation],
           NEW p \in Stocks \X Stocks, NEW q \in Stocks \X Stocks, NEW r \in Stocks \X Stocks
    PROVE  /\ ~Better(market, p, p)
           /\ Better(market, p, q) /\ Better(market, q, r) => Better(market, p, r)
           /\ p # q => Better(market, p, q) \/ Better(market, q, p)
  <1>1. ASSUME NEW a \in Stocks \X Stocks PROVE Excess(market, a[1], a[2]) \in Int
    <2>1. /\ market[a[1]].cer \in Int /\ market[a[1]].trust \in Int
          /\ market[a[2]].cer \in Int /\ market[a[2]].trust \in Int /\ market[a[2]].premium \in Int
      BY <1>1 DEF Evaluation
    <2>2. AtLeastZero(market[a[2]].trust - market[a[1]].trust) \in Int
      BY <2>1 DEF AtLeastZero
    <2>3. AtLeastZero(market[a[2]].trust - market[a[1]].trust) \div 5 \in Int
      BY <2>2
    <2> QED
      BY <2>1, <2>3 DEF Excess, Hurdle, BaseHurdle
  <1>a. ASSUME NEW a \in Stocks \X Stocks PROVE a[1] \in Stocks /\ a[2] \in Stocks /\ a = <<a[1], a[2]>>
    BY <1>a
  <1>b. \A s \in Stocks : s \in Int
    BY StockAssumption
  <1>2. /\ p[1] \in Stocks /\ q[1] \in Stocks /\ r[1] \in Stocks
        /\ p[2] \in Int /\ q[2] \in Int /\ r[2] \in Int
        /\ p = <<p[1], p[2]>> /\ q = <<q[1], q[2]>>
    BY <1>a, <1>b
  <1>3. /\ ~Ahead(market, p[1], p[1]) /\ ~Ahead(market, q[1], q[1])
        /\ Ahead(market, p[1], q[1]) /\ Ahead(market, q[1], r[1]) => Ahead(market, p[1], r[1])
        /\ p[1] # q[1] => Ahead(market, p[1], q[1]) \/ Ahead(market, q[1], p[1])
    BY <1>2, AheadOrder
  <1>4. Excess(market, p[1], p[2]) \in Int /\ Excess(market, q[1], q[2]) \in Int /\ Excess(market, r[1], r[2]) \in Int
    BY <1>1
  <1> QED
    BY <1>2, <1>3, <1>4 DEF Better

TotalOrder(R, S) ==
    \A x, y, z \in S : /\ <<x, x>> \notin R
                       /\ <<x, y>> \in R /\ <<y, z>> \in R => <<x, z>> \in R
                       /\ x # y => <<x, y>> \in R \/ <<y, x>> \in R

(* A finite, nonempty set that a relation orders totally has a first        *)
(* element.                                                                 *)
LEMMA FirstExists ==
    ASSUME NEW S, IsFiniteSet(S), S # {}, NEW R, TotalOrder(R, S)
    PROVE  \E x \in S : \A y \in S \ {x} : <<x, y>> \in R
  <1> DEFINE Above(x) == {y \in S : <<y, x>> \in R}
             Count(x) == Cardinality(Above(x))
             Counts == {Count(x) : x \in S}
  <1>1. \A x \in S : IsFiniteSet(Above(x)) /\ Count(x) \in Nat
    <2> SUFFICES ASSUME NEW x \in S PROVE IsFiniteSet(Above(x)) /\ Count(x) \in Nat
      OBVIOUS
    <2>1. Above(x) \subseteq S
      OBVIOUS
    <2>2. IsFiniteSet(Above(x))
      BY <2>1, FS_Subset
    <2> QED
      BY <2>2, FS_CardinalityType
  <1>2. PICK n \in Counts : \A m \in Counts : <<m, n>> \notin OpToRel(<, Nat)
    <2>1. Counts \subseteq Nat /\ Counts # {}
      <3> HIDE DEF Count
      <3> QED
        BY <1>1
    <2> HIDE DEF Counts
    <2> QED
      BY <2>1, NatLessThanWellFounded, WFMin
  <1>3. PICK x \in S : n = Count(x)
    OBVIOUS
  <1>4. ASSUME NEW y \in S \ {x} PROVE <<x, y>> \in R
    <2> SUFFICES ASSUME <<x, y>> \notin R PROVE FALSE
      OBVIOUS
    <2>1. <<y, x>> \in R
      BY DEF TotalOrder
    <2>2. Above(y) \subseteq Above(x)
      BY <2>1 DEF TotalOrder
    <2>3. y \in Above(x) /\ y \notin Above(y)
      BY <2>1 DEF TotalOrder
    <2>4. Count(y) < Count(x)
      <3>1. IsFiniteSet(Above(x)) /\ Above(y) # Above(x)
        BY <1>1, <2>3
      <3>2. Count(y) \in Nat /\ Count(x) \in Nat
        BY <1>1
      <3>3. Count(y) <= Count(x) /\ (Count(y) = Count(x) => Above(y) = Above(x))
        <4> HIDE DEF Above
        <4> QED
          BY <2>2, <3>1, FS_Subset
      <3> QED
        BY <3>1, <3>2, <3>3
    <2>5. Count(y) \in Counts /\ Count(y) \in Nat /\ n \in Nat
      BY <1>1, <1>3
    <2>6. <<Count(y), n>> \in OpToRel(<, Nat)
      BY <1>3, <2>4, <2>5 DEF OpToRel
    <2> QED
      BY <1>2, <2>5, <2>6
  <1> QED
    BY <1>4

LEMMA BestExists ==
    ASSUME NEW market \in [Stocks -> Evaluation], NEW S \in SUBSET (Stocks \X Stocks),
           IsFiniteSet(S), S # {}
    PROVE  \E p \in S : \A q \in S \ {p} : Better(market, p, q)
  <1> DEFINE R == {a \in S \X S : Better(market, a[1], a[2])}
  <1>1. \A p, q \in S : <<p, q>> \in R <=> Better(market, p, q)
    OBVIOUS
  <1>2. \A p, q, r \in S : /\ ~Better(market, p, p)
                           /\ Better(market, p, q) /\ Better(market, q, r) => Better(market, p, r)
                           /\ p # q => Better(market, p, q) \/ Better(market, q, p)
    BY BetterOrder
  <1>3. \E p \in S : \A q \in S \ {p} : <<p, q>> \in R
    <2> HIDE DEF R
    <2>1. TotalOrder(R, S)
      BY <1>1, <1>2 DEF TotalOrder
    <2> QED
      BY <2>1, FirstExists
  <1> QED
    BY <1>1, <1>3

LEMMA HeadExists ==
    ASSUME NEW market \in [Stocks -> Evaluation], NEW S \in SUBSET Stocks, S # {}
    PROVE  \E s \in S : \A t \in S \ {s} : Ahead(market, s, t)
  <1> DEFINE R == {a \in S \X S : Ahead(market, a[1], a[2])}
  <1>1. \A s, t \in S : <<s, t>> \in R <=> Ahead(market, s, t)
    OBVIOUS
  <1>2. \A s, t, u \in S : /\ ~Ahead(market, s, s)
                           /\ Ahead(market, s, t) /\ Ahead(market, t, u) => Ahead(market, s, u)
                           /\ s # t => Ahead(market, s, t) \/ Ahead(market, t, s)
    BY AheadOrder
  <1>3. IsFiniteSet(S)
    BY FS_Subset, StockAssumption
  <1>4. \E s \in S : \A t \in S \ {s} : <<s, t>> \in R
    <2> HIDE DEF R
    <2>1. TotalOrder(R, S)
      BY <1>1, <1>2 DEF TotalOrder
    <2> QED
      BY <2>1, <1>3, FirstExists
  <1> QED
    BY <1>1, <1>4

(* The order of the direct selection.                                       *)
LEMMA LastExists ==
    ASSUME NEW market \in [Stocks -> Evaluation], NEW S \in SUBSET Stocks, S # {}
    PROVE  \E t \in S : \A s \in S \ {t} : Before(market, s, t)
  <1> DEFINE R == {a \in S \X S : Before(market, a[2], a[1])}
  <1>1. \A s, t \in S : <<t, s>> \in R <=> Before(market, s, t)
    OBVIOUS
  <1>2. \A s, t, u \in S : /\ ~Before(market, s, s)
                           /\ Before(market, s, t) /\ Before(market, t, u) => Before(market, s, u)
                           /\ s # t => Before(market, s, t) \/ Before(market, t, s)
    <2> SUFFICES ASSUME NEW s \in S, NEW t \in S, NEW u \in S
                 PROVE  /\ ~Before(market, s, s)
                        /\ Before(market, s, t) /\ Before(market, t, u) => Before(market, s, u)
                        /\ s # t => Before(market, s, t) \/ Before(market, t, s)
      OBVIOUS
    <2> DEFINE r(x) == Rank(market[x].les)
    <2>1. \A x \in S : r(x) \in Int /\ Quality[x] \in Int /\ x \in Int
      <3>1. \A x \in S : market[x].les \in Signals
        BY DEF Evaluation
      <3> QED
        BY <3>1, StockAssumption DEF Rank, Signals
    <2>2. \A x, y \in S : Before(market, x, y) <=> \/ r(x) < r(y)
                                                   \/ r(x) = r(y) /\ Quality[x] > Quality[y]
                                                   \/ r(x) = r(y) /\ Quality[x] = Quality[y] /\ x < y
      BY DEF Before
    <2> HIDE DEF r
    <2> QED
      BY <2>1, <2>2
  <1>3. IsFiniteSet(S)
    BY FS_Subset, StockAssumption
  <1>4. \E t \in S : \A s \in S \ {t} : <<t, s>> \in R
    <2> HIDE DEF R
    <2>1. TotalOrder(R, S)
      BY <1>1, <1>2 DEF TotalOrder
    <2> QED
      BY <2>1, <1>3, FirstExists
  <1> QED
    BY <1>1, <1>4

LEMMA HeldFinite == ASSUME NEW w PROVE IsFiniteSet(Held(w)) /\ Held(w) \subseteq Stocks
  <1>1. Held(w) \subseteq Stocks
    BY DEF Held
  <1> QED
    BY <1>1, FS_Subset, StockAssumption

(* A replacement outside the fast path has its evidence.                    *)
LEMMA ReplacementHasEvidence ==
    ASSUME NEW w, NEW market \in [Stocks -> Evaluation], NEW persistent,
           FullPortfolio(w, market, persistent).out # NoStock,
           ~FullPortfolio(w, market, persistent).fast,
           NEW s \in FullPortfolio(w, market, persistent).in
    PROVE  <<s, FullPortfolio(w, market, persistent).out>> \in persistent
  <1> DEFINE target(p) == Target(w, market, p[1], CashCapacity(w) + w[p[2]], p[2])
             fit == {p \in Candidates(w, market) \X Held(w) :
                        /\ Replaces(market, p[1], p[2], p \in persistent)
                        /\ target(p) > 0 /\ Improves(w, market, p[1], target(p), p[2])}
             best == CHOOSE p \in fit : \A q \in fit \ {p} : Better(market, p, q)
             held == HoldingTargets(w, market)
             result == FullPortfolio(w, market, persistent)
  <1>1. result = IF fit = {} THEN Decided("FULL", held, {}, NoStock, FALSE)
                 ELSE Decided("FULL", Swapped(held, best[1], target(best), best[2]), {best[1]}, best[2],
                              FastPath(market, best[1], best[2]))
    BY DEF FullPortfolio
  <1>2. fit # {}
    <2> HIDE DEF fit, held, best, target
    <2> QED
      BY <1>1 DEF Decided
  <1>3. fit \in SUBSET (Stocks \X Stocks) /\ IsFiniteSet(fit)
    <2>1. Candidates(w, market) \subseteq Stocks /\ IsFiniteSet(Candidates(w, market))
      <3>1. Candidates(w, market) \subseteq Stocks
        BY DEF Candidates
      <3> QED
        BY <3>1, FS_Subset, StockAssumption
    <2>2. IsFiniteSet(Candidates(w, market) \X Held(w))
      BY <2>1, HeldFinite, FS_Product
    <2>3. fit \in SUBSET (Candidates(w, market) \X Held(w))
      OBVIOUS
    <2>4. IsFiniteSet(fit)
      <3> HIDE DEF fit
      <3> QED
        BY <2>2, <2>3, FS_Subset
    <2> QED
      BY <2>1, <2>3, <2>4, HeldFinite
  <1>4. best \in fit
    <2>1. \E p \in fit : \A q \in fit \ {p} : Better(market, p, q)
      <3> HIDE DEF fit
      <3> QED
        BY <1>2, <1>3, BestExists
    <2> HIDE DEF fit
    <2> QED
      BY <2>1
  <1>5. best = <<best[1], best[2]>>
    <2> HIDE DEF best, fit
    <2> QED
      BY <1>3, <1>4
  <1>6. result.out = best[2] /\ result.in = {best[1]} /\ ~FastPath(market, best[1], best[2])
    <2> DEFINE fast == FastPath(market, best[1], best[2])
               swapped == Swapped(held, best[1], target(best), best[2])
    <2>1. result = [mode |-> "FULL", target |-> swapped, in |-> {best[1]}, out |-> best[2], fast |-> fast]
      <3> HIDE DEF fit, held, target, best
      <3> QED
        BY <1>1, <1>2, Zenon DEF Decided
    <2> HIDE DEF swapped, best, fast
    <2>2. result.out = best[2] /\ result.in = {best[1]}
      BY <2>1
    <2>3. result.fast = fast
      BY <2>1
    <2>4. ~fast
      BY <2>3, Zenon
    <2> QED
      BY <2>2, <2>4 DEF fast
  <1>7. Replaces(market, best[1], best[2], best \in persistent)
    <2> HIDE DEF best
    <2> QED
      BY <1>4
  <1>8. best \in persistent
    <2> HIDE DEF best
    <2> QED
      BY <1>6, <1>7 DEF Replaces
  <1>9. s = best[1]
    BY <1>6
  <1> HIDE DEF best
  <1> QED
    BY <1>5, <1>6, <1>8, <1>9

LEMMA DecisionHasEvidence ==
    ASSUME NEW w, NEW market \in [Stocks -> Evaluation], NEW persistent,
           Allocate(w, market, persistent).out # NoStock,
           ~Allocate(w, market, persistent).fast,
           NEW s \in Allocate(w, market, persistent).in
    PROVE  <<s, Allocate(w, market, persistent).out>> \in persistent
  <1>1. DirectSelection(w, market).out = NoStock
    BY DEF DirectSelection, Decided
  <1>2. OpenSlot(w, market).out = NoStock
    BY DEF OpenSlot, Decided
  <1>3. Decided("REDUCE_ONLY", BreachTargets(w, market), {}, NoStock, FALSE).out = NoStock
    BY DEF Decided
  <1>4. Mode(w) \in {"DIRECT", "OPEN_SLOT", "FULL", "REDUCE_ONLY"}
    <2>1. Cardinality(Held(w)) \in Nat
      BY HeldFinite, FS_CardinalityType
    <2> QED
      BY <2>1 DEF Mode
  <1>5. CASE Mode(w) = "FULL"
    <2>1. Allocate(w, market, persistent) = FullPortfolio(w, market, persistent)
      BY <1>5 DEF Allocate
    <2> QED
      BY <2>1, ReplacementHasEvidence
  <1>6. CASE Mode(w) # "FULL"
    BY <1>1, <1>2, <1>3, <1>4, <1>6 DEF Allocate
  <1> QED
    BY <1>5, <1>6

-----------------------------------------------------------------------------
(* Enough recent passes lie in a stretch of days that holds no more than    *)
(* the window's records.                                                    *)
LEMMA PassesLieInWindow ==
    ASSUME NEW kept, NEW d \in Days, NEW p,
           Cardinality(RecentPasses(kept, d, p)) >= RequiredPasses
    PROVE  \E first \in 1..d :
               LET since == {e \in first..d : p \in DOMAIN kept[e]}
               IN  /\ Cardinality(since) <= Window
                   /\ Cardinality({e \in since : kept[e][p]}) >= RequiredPasses
  <1> DEFINE recorded == {e \in 1..d : p \in DOMAIN kept[e]}
             later(e) == {f \in recorded : f > e}
             passes == RecentPasses(kept, d, p)
  <1>a. Cardinality(passes) >= RequiredPasses
    OBVIOUS
  <1>0. d \in Nat
    BY SeriesAssumption DEF Days
  <1>1. passes = {e \in recorded : kept[e][p] /\ Cardinality(later(e)) < Window}
    BY DEF RecentPasses
  <1>2. IsFiniteSet(recorded) /\ \A e \in Nat : IsFiniteSet(later(e))
    <2>1. IsFiniteSet(1..d)
      BY <1>0, FS_Interval
    <2>2. recorded \in SUBSET (1..d)
      OBVIOUS
    <2>3. IsFiniteSet(recorded)
      BY <2>1, <2>2, FS_Subset
    <2>4. ASSUME NEW e \in Nat PROVE IsFiniteSet(later(e))
      <3>1. later(e) \in SUBSET recorded
        OBVIOUS
      <3> HIDE DEF recorded, later
      <3> QED
        BY <3>1, <2>3, FS_Subset
    <2> QED
      BY <2>3, <2>4
  <1>3. passes \subseteq Nat /\ passes # {}
    <2>1. passes \subseteq Nat
      BY <1>0, <1>1
    <2>2. Cardinality({}) = 0
      BY FS_EmptySet
    <2>3. passes # {}
      <3> SUFFICES ASSUME passes = {} PROVE FALSE
        OBVIOUS
      <3>1. Cardinality(passes) = 0
        BY <2>2
      <3> HIDE DEF passes
      <3> QED
        BY <1>a, <3>1, SeriesAssumption
    <2> QED
      BY <2>1, <2>3
  <1>4. PICK first \in passes : \A e \in passes : <<e, first>> \notin OpToRel(<, Nat)
    <2> HIDE DEF passes
    <2> QED
      BY <1>3, NatLessThanWellFounded, WFMin
  <1>5. \A e \in passes : first <= e
    <2> HIDE DEF passes
    <2>1. ASSUME NEW e \in passes PROVE ~(e < first)
      BY <1>3, <1>4 DEF OpToRel
    <2>2. ASSUME NEW e \in passes PROVE e \in Nat /\ first \in Nat
      BY <1>3
    <2> QED
      BY <2>1, <2>2
  <1>6. first \in recorded /\ first \in 1..d /\ Cardinality(later(first)) < Window
    <2>1. first \in recorded /\ Cardinality(later(first)) < Window
      BY <1>1
    <2> QED
      BY <2>1
  <1> DEFINE since == {e \in first..d : p \in DOMAIN kept[e]}
  <1>7. since = later(first) \cup {first}
    BY <1>0, <1>6
  <1>8. IsFiniteSet(since) /\ Cardinality(since) <= Window
    <2>1. IsFiniteSet(later(first)) /\ first \notin later(first)
      BY <1>2, <1>6
    <2>2. Cardinality(since) = Cardinality(later(first)) + 1 /\ IsFiniteSet(since)
      <3> HIDE DEF later, since
      <3> QED
        BY <2>1, <1>7, FS_AddElement
    <2>3. Cardinality(later(first)) \in Nat
      <3> HIDE DEF later
      <3> QED
        BY <2>1, FS_CardinalityType
    <2> HIDE DEF later, since
    <2> QED
      BY <1>6, <2>2, <2>3, SeriesAssumption
  <1>9. Cardinality({e \in since : kept[e][p]}) >= RequiredPasses
    <2> DEFINE hits == {e \in since : kept[e][p]}
    <2>1. \A e \in passes : e \in hits
      BY <1>0, <1>1, <1>5
    <2>2. IsFiniteSet(hits)
      <3>1. hits \in SUBSET since
        OBVIOUS
      <3> HIDE DEF since, hits
      <3> QED
        BY <3>1, <1>8, FS_Subset
    <2>3. Cardinality(passes) <= Cardinality(hits) /\ Cardinality(passes) \in Nat /\ Cardinality(hits) \in Nat
      <3> HIDE DEF passes, hits
      <3> QED
        BY <2>1, <2>2, FS_Subset, FS_CardinalityType
    <2>4. Cardinality(hits) >= RequiredPasses
      <3> HIDE DEF passes, hits
      <3> QED
        BY <1>a, <2>3, SeriesAssumption
    <2> QED
      BY <2>4
  <1> HIDE DEF recorded, later, passes
  <1> QED
    BY <1>6, <1>8, <1>9

(* What was judged last is what is recorded, in both stores; and rotations  *)
(* are earned in it.                                                        *)
EarnedInv ==
    /\ rows = [d \in Days |-> rows[d]]
    /\ judged = rows
    /\ \A d \in Published : data[d] \in Markets
    /\ data = [d \in Days |-> data[d]]
    /\ run # None => run \in Published
    /\ kind = "research" => \A d \in Days \ DOMAIN sealed : rows[d] = <<>>
    /\ RotationIsEarned

LEMMA InitEarned == Init => EarnedInv
  <1> SUFFICES ASSUME Init PROVE EarnedInv
    OBVIOUS
  <1>1. \A d \in Days : data[d] = None /\ rows[d] = <<>>
    BY DEF Init
  <1>2. RotationIsEarned
    BY DEF Init, RotationIsEarned
  <1> QED
    BY <1>1, <1>2 DEF Init, EarnedInv, Published

(* Any decision from the recorded evidence is earned.                       *)
LEMMA AdviceIsEarned ==
    ASSUME NEW d \in Days, data[d] \in Markets,
           NEW evidence, \A p \in DOMAIN evidence : evidence[p] = RecentPasses(rows', d, p),
           decision' = Advice(d, evidence), judged' = rows'
    PROVE  RotationIsEarned'
  <1> DEFINE result == Allocate(weights, data[d], Persistent(evidence))
  <1>1. decision'.result = result /\ decision'.date = d
    BY DEF Advice
  <1> SUFFICES ASSUME result.out # NoStock, ~result.fast, NEW s \in result.in
               PROVE  LET p == <<s, result.out>>
                      IN  \E first \in 1..d :
                              LET since == {e \in first..d : p \in DOMAIN rows'[e]}
                              IN  /\ Cardinality(since) <= Window
                                  /\ Cardinality({e \in since : rows'[e][p]}) >= RequiredPasses
    <2> HIDE DEF result
    <2> QED
      BY <1>1 DEF RotationIsEarned
  <1>2. data[d] \in [Stocks -> Evaluation]
    BY SeriesAssumption
  <1>3. <<s, result.out>> \in Persistent(evidence)
    BY <1>2, DecisionHasEvidence
  <1>4. Cardinality(RecentPasses(rows', d, <<s, result.out>>)) >= RequiredPasses
    <2> HIDE DEF result
    <2> QED
      BY <1>3 DEF Persistent
  <1> HIDE DEF result
  <1> QED
    BY <1>4, PassesLieInWindow

LEMMA SessionEarned ==
    ASSUME LedgerInv, EarnedInv, NEW d \in Days, Session(d)
    PROVE  EarnedInv'
  <1> DEFINE observed == Observations(weights, data[d])
  <1>1. /\ kind = "research" /\ d \in Published
        /\ rows' = [rows EXCEPT ![d] = observed]
        /\ judged' = [judged EXCEPT ![d] = Over(observed, @)]
        /\ sealed' = [e \in DOMAIN sealed \cup {d} |-> IF e = d THEN observed ELSE sealed[e]]
        /\ d \in DOMAIN sealed => sealed[d] = observed
    BY DEF Session, Unchanged, Judge
  <1>2. UNCHANGED <<kind, data, run>>
    BY DEF Session
  <1>3. Over(observed, rows[d]) = observed
    <2>1. observed = [p \in Pairs(weights) |-> observed[p]] /\ DOMAIN observed = Pairs(weights)
      BY DEF Observations
    <2>2. CASE d \in DOMAIN sealed
      <3>1. rows[d] = observed
        BY <1>1, <2>2 DEF LedgerInv
      <3> HIDE DEF observed
      <3> QED
        BY <2>1, <3>1 DEF Over
    <2>3. CASE d \notin DOMAIN sealed
      <3>1. rows[d] = <<>>
        BY <1>1, <2>3 DEF EarnedInv
      <3>2. DOMAIN rows[d] = {}
        BY <3>1
      <3> HIDE DEF observed
      <3> QED
        BY <2>1, <3>2 DEF Over
    <2> QED
      BY <2>2, <2>3
  <1>4. judged' = rows'
    <2>1. judged = rows
      BY DEF EarnedInv
    <2> HIDE DEF observed
    <2> QED
      BY <1>1, <1>3, <2>1
  <1>5. rows' = [e \in Days |-> rows'[e]]
    <2>1. rows = [e \in Days |-> rows[e]]
      BY DEF EarnedInv
    <2> HIDE DEF observed
    <2> QED
      BY <1>1, <2>1
  <1>6. \A e \in Days \ DOMAIN sealed' : rows'[e] = <<>>
    <2>1. rows = [e \in Days |-> rows[e]] /\ \A e \in Days \ DOMAIN sealed : rows[e] = <<>>
      BY <1>1 DEF EarnedInv
    <2> HIDE DEF observed
    <2> QED
      BY <1>1, <2>1
  <1>7. RotationIsEarned'
    <2> DEFINE evidence == Evidence(rows', d, weights)
    <2>1. decision' = Advice(d, evidence)
      BY DEF Session
    <2>2. \A p \in DOMAIN evidence : evidence[p] = RecentPasses(rows', d, p)
      BY DEF Evidence
    <2>3. data[d] \in Markets
      BY <1>1 DEF EarnedInv
    <2> HIDE DEF evidence
    <2> QED
      BY <2>1, <2>2, <2>3, <1>4, AdviceIsEarned
  <1> QED
    BY <1>2, <1>4, <1>5, <1>6, <1>7 DEF EarnedInv, Published

(* A run of the ordinary store.                                             *)
LEMMA RunEarned ==
    ASSUME LedgerInv, EarnedInv,
           Decide \/ \E d \in Days : Record(d) \/ DecideAlone(d)
    PROVE  EarnedInv'
  <1>1. CASE Decide
    <2>1. UNCHANGED <<kind, data, rows, sealed, judged>> /\ run' = None
      BY <1>1 DEF Decide
    <2>2. RotationIsEarned'
      <3> DEFINE evidence == Evidence(rows', run, weights)
      <3>1. decision' = Advice(run, evidence)
        BY <1>1, <2>1 DEF Decide
      <3>2. \A p \in DOMAIN evidence : evidence[p] = RecentPasses(rows', run, p)
        BY DEF Evidence
      <3>3. run \in Days /\ data[run] \in Markets /\ judged' = rows'
        BY <1>1, <2>1 DEF Decide, EarnedInv, Published
      <3> HIDE DEF evidence
      <3> QED
        BY <3>1, <3>2, <3>3, AdviceIsEarned
    <2> QED
      BY <2>1, <2>2 DEF EarnedInv, Published
  <1>2. ASSUME NEW d \in Days, Record(d) PROVE EarnedInv'
    <2> DEFINE filed == Over(Observations(weights, data[d]), rows[d])
    <2>1. /\ kind = "ordinary" /\ run' = d /\ d \in Published /\ decision' = None
          /\ UNCHANGED <<kind, data, sealed>>
      BY <1>2 DEF Record
    <2>2. rows' = [rows EXCEPT ![d] = filed]
      BY <1>2 DEF Record, Filed
    <2>3. judged' = [judged EXCEPT ![d] = Over(Observations(weights, data[d]), judged[d])]
      BY <1>2 DEF Record, Judge
    <2>4. judged' = rows'
      BY <2>2, <2>3 DEF EarnedInv
    <2>5. rows' = [e \in Days |-> rows'[e]]
      <3> HIDE DEF filed
      <3> QED
        BY <2>2 DEF EarnedInv
    <2>6. RotationIsEarned'
      BY <2>1 DEF RotationIsEarned
    <2> QED
      BY <2>1, <2>4, <2>5, <2>6 DEF EarnedInv, Published
  <1>3. ASSUME NEW d \in Days, DecideAlone(d) PROVE EarnedInv'
    <2>1. /\ d \in Published /\ decision' = Advice(d, <<>>)
          /\ UNCHANGED <<kind, data, rows, sealed, run, judged>>
      BY <1>3 DEF DecideAlone
    <2>2. data[d] \in Markets /\ judged' = rows'
      BY <2>1 DEF EarnedInv
    <2>3. DOMAIN <<>> = {}
      OBVIOUS
    <2>4. RotationIsEarned'
      BY <2>1, <2>2, <2>3, AdviceIsEarned
    <2> QED
      BY <2>1, <2>4 DEF EarnedInv, Published
  <1> QED
    BY <1>1, <1>2, <1>3

LEMMA RotationStays ==
    ASSUME RotationIsEarned, UNCHANGED <<decision, judged>>
    PROVE  RotationIsEarned'
  BY Zenon DEF RotationIsEarned

LEMMA NextEarned == LedgerInv /\ EarnedInv /\ [Next]_vars => EarnedInv'
  <1> SUFFICES ASSUME LedgerInv, EarnedInv, [Next]_vars PROVE EarnedInv'
    OBVIOUS
  <1>1. ASSUME NEW d \in Days, Session(d) PROVE EarnedInv'
    BY <1>1, SessionEarned
  <1>2. CASE Decide \/ \E d \in Days : Record(d) \/ DecideAlone(d)
    BY <1>2, RunEarned
  <1>3. CASE Abandon
    <2>1. UNCHANGED <<kind, data, rows, sealed, decision, judged>> /\ run' = None
      BY <1>3 DEF Abandon
    <2>2. RotationIsEarned'
      BY <2>1, RotationStays DEF EarnedInv
    <2> QED
      BY <2>1, <2>2 DEF EarnedInv, Published
  <1>4. CASE Follow \/ NextDay
    <2>1. UNCHANGED <<kind, data, rows, sealed, run, judged>> /\ decision' = None
      BY <1>4 DEF Follow, NextDay
    <2>2. RotationIsEarned'
      BY <2>1 DEF RotationIsEarned
    <2> QED
      BY <2>1, <2>2 DEF EarnedInv, Published
  <1>5. ASSUME NEW market \in Markets, Publish(market) \/ \E d \in Days : Revise(d, market)
        PROVE  EarnedInv'
    <2>1. PICK d : data' = [data EXCEPT ![d] = market]
      BY <1>5 DEF Publish, Revise
    <2>2. UNCHANGED <<kind, rows, sealed, run, judged>> /\ run = None /\ decision' = None
      BY <1>5 DEF Publish, Revise
    <2>3. data' = [e \in Days |-> data'[e]] /\ \A e \in Days : data'[e] = data[e] \/ data'[e] \in Markets
      BY <2>1 DEF EarnedInv
    <2>4. RotationIsEarned'
      BY <2>2 DEF RotationIsEarned
    <2> QED
      BY <2>2, <2>3, <2>4 DEF EarnedInv, Published
  <1>6. CASE UNCHANGED vars
    <2>1. UNCHANGED <<kind, data, rows, sealed, run, decision, judged>>
      BY <1>6 DEF vars
    <2>2. RotationIsEarned'
      BY <2>1, RotationStays DEF EarnedInv
    <2> QED
      BY <2>1, <2>2 DEF EarnedInv, Published
  <1> QED
    BY <1>1, <1>2, <1>3, <1>4, <1>5, <1>6 DEF Next, Outside

(* A holding is given up for a candidate, but on the fast path, only when   *)
(* enough different sessions of the window, none after the one decided, had *)
(* the candidate across the hurdle, for every window and every market.      *)
THEOREM RotationEarned == Spec => []RotationIsEarned
  <1>1. EarnedInv => RotationIsEarned
    BY DEF EarnedInv
  <1> QED
    BY <1>1, LedgerHolds, InitEarned, NextEarned, PTL DEF Spec

-----------------------------------------------------------------------------
(* Weights.                                                                 *)
LEMMA UnitIsNat == Unit \in Nat
  BY DEF Unit

LEMMA WeightsAreNat ==
    ASSUME NEW w \in Weights, NEW x \in Stocks
    PROVE  w[x] \in Nat /\ w[x] \in Int /\ w[x] <= Unit
  BY UnitIsNat DEF Weights

LEMMA WeightIsSum ==
    ASSUME NEW w, NEW S
    PROVE  WeightOf(w, S) = SumFunctionOnSet(w, S)
  BY DEF WeightOf, MapThenSumSet, SumFunctionOnSet, FoldFunctionOnSet

LEMMA StocksFinite == ASSUME NEW S \in SUBSET Stocks PROVE IsFiniteSet(S)
  BY FS_Subset, StockAssumption

LEMMA WeightIsNat ==
    ASSUME NEW w \in Weights, NEW S \in SUBSET Stocks
    PROVE  WeightOf(w, S) \in Nat
  <1>1. \A x \in S : w[x] \in Nat
    BY WeightsAreNat
  <1> QED
    BY <1>1, StocksFinite, SumIsNat, WeightIsSum

LEMMA WeightBelow ==
    ASSUME NEW v \in Weights, NEW w \in Weights, NEW S \in SUBSET Stocks, NEW R \in SUBSET Stocks,
           \A x \in S : v[x] > 0 => x \in R /\ v[x] <= w[x]
    PROVE  WeightOf(v, S) <= WeightOf(w, R)
  <1>1. (\A x \in S : v[x] \in Nat) /\ (\A x \in R : w[x] \in Nat)
    BY WeightsAreNat
  <1>2. IsFiniteSet(S) /\ IsFiniteSet(R)
    BY StocksFinite
  <1>3. SumFunctionOnSet(v, S) <= SumFunctionOnSet(w, R)
    BY <1>1, <1>2, SumBelow
  <1> QED
    BY <1>3, WeightIsSum

LEMMA WeightTakesOut ==
    ASSUME NEW w \in Weights, NEW S \in SUBSET Stocks, NEW x \in S
    PROVE  WeightOf(w, S) = w[x] + WeightOf(w, S \ {x})
  <1>1. \A y \in S : w[y] \in Int
    BY WeightsAreNat
  <1>2. IsFiniteSet(S)
    BY StocksFinite
  <1>3. SumFunctionOnSet(w, S) = w[x] + SumFunctionOnSet(w, S \ {x})
    BY <1>1, <1>2, SumTakesOut
  <1> QED
    BY <1>3, WeightIsSum

(* The reserve is the configured one or more.                               *)
LEMMA ReserveIsNat == MinimumCash \in Nat /\ MinimumCash > 0
  BY StockAssumption DEF MinimumCash

(* An account: weights, and cash that is not negative.                      *)
Account(w) == w \in Weights /\ WeightOf(w, Held(w)) <= Unit

LEMMA CashFacts ==
    ASSUME NEW w, Account(w)
    PROVE  /\ WeightOf(w, Held(w)) \in Nat /\ Cash(w) \in 0..Unit
           /\ CashCapacity(w) \in 0..Unit
           /\ CashCapacity(w) + WeightOf(w, Held(w)) <= Unit
           /\ CashCapacity(w) > 0 => CashCapacity(w) + WeightOf(w, Held(w)) = Unit - MinimumCash
  <1>1. WeightOf(w, Held(w)) \in Nat /\ WeightOf(w, Held(w)) <= Unit
    BY WeightIsNat, HeldFinite DEF Account
  <1> QED
    <2>1. MinimumCash \in Nat /\ Unit \in Nat
      BY ReserveIsNat, UnitIsNat
    <2>2. CashCapacity(w) = IF Unit - WeightOf(w, Held(w)) - MinimumCash < 0 THEN 0
                            ELSE Unit - WeightOf(w, Held(w)) - MinimumCash
      BY DEF CashCapacity, AtLeastZero, Cash
    <2> QED
      BY <1>1, <2>1, <2>2 DEF Cash

LEMMA PeersIsNat ==
    ASSUME NEW w \in Weights, NEW of, NEW s, NEW out
    PROVE  Peers(w, of, s, out) \in Nat
  <1>1. {h \in Held(w) \ {out} : of[h] = of[s]} \in SUBSET Stocks
    BY HeldFinite
  <1> QED
    BY <1>1, WeightIsNat DEF Peers

(* What an exit leaves.                                                     *)
LEMMA LeftBounds ==
    ASSUME NEW weight \in Nat, NEW e \in Evaluation
    PROVE  Left(weight, e.hold) \in Nat /\ Left(weight, e.hold) <= weight
  <1>1. e.hold \in {"HARD_EXIT", "INSUFFICIENT", "EXIT", "REDUCE_25", "PEAK", "KEEP"}
    BY DEF Evaluation
  <1>2. (weight * 3) \div 4 \in Nat /\ (weight * 3) \div 4 <= weight
    OBVIOUS
  <1> QED
    BY <1>1, <1>2 DEF Left

LEMMA HoldingTargetsFacts ==
    ASSUME NEW w \in Weights, NEW market \in [Stocks -> Evaluation]
    PROVE  /\ HoldingTargets(w, market) \in Weights
           /\ \A s \in Stocks : /\ HoldingTargets(w, market)[s] = Left(w[s], market[s].hold)
                                /\ HoldingTargets(w, market)[s] <= w[s]
                                /\ HoldingTargets(w, market)[s] \in Nat
  <1>1. \A s \in Stocks : w[s] \in Nat /\ w[s] <= Unit
    BY WeightsAreNat
  <1>2. \A s \in Stocks : /\ Left(w[s], market[s].hold) \in Nat
                          /\ Left(w[s], market[s].hold) <= w[s]
    BY <1>1, LeftBounds
  <1>3. \A s \in Stocks : Left(w[s], market[s].hold) \in 0..Unit
    BY <1>1, <1>2, UnitIsNat
  <1> QED
    BY <1>2, <1>3 DEF HoldingTargets, Weights

-----------------------------------------------------------------------------
(* The weight of a newcomer keeps each of the bounds it is the least of.    *)
LEMMA LeastIs ==
    ASSUME NEW a \in Int, NEW b \in Int, NEW c \in Int, NEW d \in Int, NEW e \in Int, NEW f \in Int
    PROVE  LET m == Least({a, b, c, d, e, f})
           IN  /\ m \in {a, b, c, d, e, f}
               /\ m <= a /\ m <= b /\ m <= c /\ m <= d /\ m <= e /\ m <= f
  <1> DEFINE S == {a, b, c, d, e, f}
  <1>1. \E x \in S : \A y \in S : x <= y
    <2> DEFINE Min2(x, y) == IF x <= y THEN x ELSE y
               g == Min2(a, Min2(b, Min2(c, Min2(d, Min2(e, f)))))
    <2>1. g \in S /\ g <= a /\ g <= b /\ g <= c /\ g <= d /\ g <= e /\ g <= f
      OBVIOUS
    <2> HIDE DEF g
    <2> QED
      BY <2>1
  <1>2. Least(S) \in S /\ \A y \in S : Least(S) <= y
    <2> HIDE DEF S
    <2> QED
      BY <1>1 DEF Least
  <1> QED
    BY <1>2

LEMMA TargetBounds ==
    ASSUME NEW w \in Weights, NEW market \in [Stocks -> Evaluation], NEW s \in Stocks,
           NEW available \in Nat, NEW out
    PROVE  LET t == Target(w, market, s, available, out)
           IN  /\ t \in 0..Unit /\ t <= available
               /\ t > 0 => t + Peers(w, Sector, s, out) <= SectorMax
               /\ t > 0 => IF Cluster[s] = Unknown THEN t <= UnknownMax
                           ELSE t + Peers(w, Cluster, s, out) <= ClusterMax
  <1> DEFINE cap == market[s].cap
             sector == SectorRoom(w, s, out)
             cluster == ClusterRoom(w, s, out)
             m == Least({cap, SingleMax, StarterMax, available, sector, cluster})
             factor == Factor(market[s].les)
             t == (m * factor) \div 100
             p == Peers(w, Sector, s, out)
             q == Peers(w, Cluster, s, out)
  <1>1. cap \in Nat
    BY UnitIsNat DEF Evaluation
  <1>2. p \in Nat /\ q \in Nat
    BY PeersIsNat
  <1>3. sector \in Nat /\ (sector > 0 => sector = SectorMax - p)
    BY <1>2 DEF SectorRoom, AtLeastZero, SectorMax
  <1>4. /\ cluster \in Nat
        /\ Cluster[s] = Unknown => cluster = UnknownMax
        /\ Cluster[s] # Unknown /\ cluster > 0 => cluster = ClusterMax - q
    BY <1>2 DEF ClusterRoom, AtLeastZero, ClusterMax, UnknownMax
  <1>5. factor \in {0, 50, 65, 100}
    BY DEF Factor, Evaluation, Signals
  <1> HIDE DEF cap, sector, cluster, p, q, factor
  <1>6. m \in Nat /\ m <= StarterMax /\ m <= available /\ m <= sector /\ m <= cluster
    <2>1. SingleMax \in Int /\ StarterMax \in Int /\ SingleMax >= 0 /\ StarterMax >= 0
      BY DEF SingleMax, StarterMax
    <2>2. /\ m \in {cap, SingleMax, StarterMax, available, sector, cluster}
          /\ m <= StarterMax /\ m <= available /\ m <= sector /\ m <= cluster
      <3>1. cap \in Int /\ available \in Int /\ sector \in Int /\ cluster \in Int
        BY <1>1, <1>3, <1>4
      <3> QED
        BY <2>1, <3>1, LeastIs
    <2> HIDE DEF m
    <2> QED
      BY <2>1, <2>2, <1>1, <1>3, <1>4
  <1> HIDE DEF m
  <1>7. t \in Nat /\ t <= m
    <2>1. factor = 0 \/ factor = 50 \/ factor = 65 \/ factor = 100
      BY <1>5
    <2>2. (m * 0) \div 100 = 0 /\ (m * 100) \div 100 = m
      BY <1>6
    <2>3. (m * 50) \div 100 \in Nat /\ (m * 50) \div 100 <= m
      BY <1>6
    <2>4. (m * 65) \div 100 \in Nat /\ (m * 65) \div 100 <= m
      BY <1>6
    <2> QED
      BY <1>6, <2>1, <2>2, <2>3, <2>4
  <1>8. Target(w, market, s, available, out) = t
    BY DEF Target, cap, sector, cluster, factor, m
  <1> HIDE DEF t
  <1>9. t \in 0..Unit /\ t <= available
    BY <1>6, <1>7 DEF Unit, StarterMax
  <1>10. t > 0 => t + p <= SectorMax
    BY <1>2, <1>3, <1>6, <1>7 DEF SectorMax
  <1>11. t > 0 => IF Cluster[s] = Unknown THEN t <= UnknownMax ELSE t + q <= ClusterMax
    BY <1>2, <1>4, <1>6, <1>7 DEF UnknownMax, ClusterMax
  <1> QED
    BY <1>8, <1>9, <1>10, <1>11 DEF p, q

-----------------------------------------------------------------------------
(* The direct selection: what it has taken after some of the candidates.    *)
Selections ==
    [slots : Nat, cash : Nat, target : Weights, in : SUBSET Stocks]

Selected(w, market, so) ==
    /\ so \in Selections
    /\ so.cash <= CashCapacity(w)
    /\ so.in \cap Held(w) = {}
    /\ Cardinality(so.in) + so.slots <= 3 - Cardinality(Held(w))
    /\ \A h \in Stocks \ so.in : so.target[h] = HoldingTargets(w, market)[h]
    /\ so.in # {} => CashCapacity(w) > 0
    /\ WeightOf(so.target, Stocks) + so.cash <= WeightOf(w, Held(w)) + CashCapacity(w)

(* A newcomer takes a seat, and its weight from the cash.                   *)
LEMMA TakeKeeps ==
    ASSUME NEW w, Account(w), NEW market \in [Stocks -> Evaluation],
           NEW so, Selected(w, market, so), NEW s \in Stocks \ Held(w)
    PROVE  Selected(w, market, Take(w, market, s, so))
  <1> DEFINE t == Target(w, market, s, so.cash, NoStock)
             new == [slots |-> so.slots - 1, cash |-> so.cash - t,
                     target |-> [so.target EXCEPT ![s] = t], in |-> so.in \cup {s}]
  <1>1. /\ so.slots \in Nat /\ so.cash \in Nat /\ so.target \in Weights /\ so.in \subseteq Stocks
        /\ w \in Weights
    BY DEF Selected, Selections, Account
  <1>2. t \in 0..Unit /\ t <= so.cash
    BY <1>1, TargetBounds
  <1>3. Take(w, market, s, so) = IF so.slots = 0 \/ so.cash = 0 \/ t = 0 THEN so ELSE new
    BY DEF Take
  <1>4. CASE so.slots = 0 \/ so.cash = 0 \/ t = 0
    BY <1>3, <1>4
  <1>5. CASE so.slots > 0 /\ so.cash > 0 /\ t > 0
    <2> DEFINE target == [so.target EXCEPT ![s] = t]
               in == so.in \cup {s}
    <2> HIDE DEF t
    <2>1. target \in Weights /\ target[s] = t /\ \A h \in Stocks \ {s} : target[h] = so.target[h]
      BY <1>1, <1>2 DEF Weights
    <2>2. in \subseteq Stocks /\ in \cap Held(w) = {} /\ in # {} /\ CashCapacity(w) > 0
      BY <1>1, <1>5, CashFacts, UnitIsNat DEF Selected
    <2>3. Cardinality(in) \in Nat /\ Cardinality(in) <= Cardinality(so.in) + 1 /\ Cardinality(so.in) \in Nat
      <3>1. IsFiniteSet(so.in)
        BY <1>1, StocksFinite
      <3>2. Cardinality(so.in) \in Nat
        BY <3>1, FS_CardinalityType
      <3>3. Cardinality(in) = IF s \in so.in THEN Cardinality(so.in) ELSE Cardinality(so.in) + 1
        BY <3>1, FS_AddElement, Zenon
      <3> HIDE DEF in
      <3> QED
        BY <3>2, <3>3
    <2>4. \A h \in Stocks \ in : target[h] = HoldingTargets(w, market)[h]
      BY <2>1 DEF Selected
    <2>5. WeightOf(target, Stocks) <= t + WeightOf(so.target, Stocks)
      <3>0. Stocks \ {s} \in SUBSET Stocks /\ Stocks \in SUBSET Stocks
        OBVIOUS
      <3>1. WeightOf(target, Stocks) = target[s] + WeightOf(target, Stocks \ {s})
        <4> HIDE DEF target
        <4> QED
          BY <2>1, <3>0, WeightTakesOut
      <3>2. \A h \in Stocks \ {s} : target[h] > 0 => h \in Stocks /\ target[h] <= so.target[h]
        <4> HIDE DEF target
        <4> SUFFICES ASSUME NEW h \in Stocks \ {s} PROVE target[h] <= so.target[h]
          OBVIOUS
        <4>1. target[h] = so.target[h] /\ so.target[h] \in Nat
          BY <1>1, <2>1, WeightsAreNat
        <4> QED
          BY <4>1
      <3>3. WeightOf(target, Stocks \ {s}) <= WeightOf(so.target, Stocks)
        <4> HIDE DEF target
        <4> QED
          BY <1>1, <2>1, <3>0, <3>2, WeightBelow
      <3>4. WeightOf(target, Stocks \ {s}) \in Nat /\ WeightOf(so.target, Stocks) \in Nat /\ t \in Nat
        <4> HIDE DEF target
        <4> QED
          BY <1>1, <1>2, <2>1, <3>0, WeightIsNat, UnitIsNat
      <3> HIDE DEF target
      <3> QED
        BY <2>1, <3>1, <3>3, <3>4
    <2>6. Take(w, market, s, so) = [slots |-> so.slots - 1, cash |-> so.cash - t, target |-> target, in |-> in]
      BY <1>1, <1>2, <1>3, <1>5
    <2> HIDE DEF target, in
    <2> DEFINE next == [slots |-> so.slots - 1, cash |-> so.cash - t, target |-> target, in |-> in]
    <2>7. next \in Selections
      BY <1>1, <1>2, <1>5, <2>1, <2>2, UnitIsNat DEF Selections
    <2>8. next.slots = so.slots - 1 /\ next.cash = so.cash - t /\ next.target = target /\ next.in = in
      OBVIOUS
    <2> HIDE DEF next
    <2>9. /\ so.cash <= CashCapacity(w)
          /\ Cardinality(so.in) + so.slots <= 3 - Cardinality(Held(w))
          /\ WeightOf(so.target, Stocks) + so.cash <= WeightOf(w, Held(w)) + CashCapacity(w)
      BY DEF Selected
    <2>10. /\ Cardinality(Held(w)) \in Nat /\ CashCapacity(w) \in Nat /\ WeightOf(w, Held(w)) \in Nat
           /\ WeightOf(so.target, Stocks) \in Nat /\ WeightOf(target, Stocks) \in Nat /\ t \in Nat
      BY <1>1, <1>2, <2>1, HeldFinite, FS_CardinalityType, CashFacts, WeightIsNat, UnitIsNat
    <2>11. next.cash <= CashCapacity(w)
      BY <1>1, <2>8, <2>9, <2>10
    <2>12. Cardinality(next.in) + next.slots <= 3 - Cardinality(Held(w))
      BY <1>1, <2>3, <2>8, <2>9, <2>10
    <2>13. WeightOf(next.target, Stocks) + next.cash <= WeightOf(w, Held(w)) + CashCapacity(w)
      BY <1>1, <2>5, <2>8, <2>9, <2>10
    <2> QED
      BY <2>2, <2>4, <2>6, <2>7, <2>8, <2>11, <2>12, <2>13 DEF Selected, next
  <1> QED
    BY <1>1, <1>2, <1>4, <1>5, UnitIsNat

LEMMA StartSelected ==
    ASSUME NEW w, Account(w), NEW market \in [Stocks -> Evaluation], Cardinality(Held(w)) < 3
    PROVE  Selected(w, market, [slots |-> 3 - Cardinality(Held(w)), cash |-> CashCapacity(w),
                                target |-> HoldingTargets(w, market), in |-> {}])
  <1> DEFINE held == HoldingTargets(w, market)
             n == Cardinality(Held(w))
             start == [slots |-> 3 - n, cash |-> CashCapacity(w), target |-> held, in |-> {}]
  <1>1. held \in Weights /\ w \in Weights
    BY HoldingTargetsFacts DEF Account
  <1>2. n \in Nat /\ CashCapacity(w) \in Nat /\ WeightOf(w, Held(w)) \in Nat
    BY HeldFinite, FS_CardinalityType, CashFacts, UnitIsNat
  <1>3. WeightOf(held, Stocks) <= WeightOf(w, Held(w)) /\ WeightOf(held, Stocks) \in Nat
    <2>1. \A h \in Stocks : held[h] > 0 => h \in Held(w) /\ held[h] <= w[h]
      <3>1. \A h \in Stocks : held[h] \in Nat /\ w[h] \in Nat /\ held[h] <= w[h]
        BY <1>1, HoldingTargetsFacts, WeightsAreNat
      <3> HIDE DEF held
      <3> QED
        BY <3>1 DEF Held
    <2> HIDE DEF held
    <2> QED
      BY <1>1, <2>1, WeightBelow, WeightIsNat, HeldFinite
  <1>4. start.slots = 3 - n /\ start.cash = CashCapacity(w) /\ start.target = held /\ start.in = {}
    OBVIOUS
  <1>5. start \in Selections
    <2> HIDE DEF held, n
    <2> QED
      BY <1>1, <1>2 DEF Selections, n
  <1>6. Cardinality({}) = 0
    BY FS_EmptySet
  <1> HIDE DEF start, held, n
  <1>7. Selected(w, market, start)
    BY <1>2, <1>3, <1>4, <1>5, <1>6 DEF Selected, held, n
  <1> QED
    BY <1>7 DEF start, held, n

(* The selection is a recursion over the candidates, the last of them last. *)
Last(market, S) == CHOOSE t \in S : \A s \in S \ {t} : Before(market, s, t)

Start(w, market) ==
    [slots |-> 3 - Cardinality(Held(w)), cash |-> CashCapacity(w),
     target |-> HoldingTargets(w, market), in |-> {}]

Selects(g, w, market, Q) ==
    g = [S \in SUBSET Q |-> IF S = {} THEN Start(w, market)
                            ELSE Take(w, market, Last(market, S), g[S \ {Last(market, S)}])]

Queue(w, market) == {s \in Stocks \ Held(w) : Signalled(market[s]) /\ market[s].hold # "HARD_EXIT"}

LEMMA DirectIsRecursion ==
    ASSUME NEW w, NEW market
    PROVE  LET end == (CHOOSE g : Selects(g, w, market, Queue(w, market)))[Queue(w, market)]
           IN  DirectSelection(w, market) = Decided("DIRECT", end.target, end.in, NoStock, FALSE)
  BY Zenon DEF DirectSelection, MapThenFoldSet, Selects, Last, Start, Queue

LEMMA WithoutLast ==
    ASSUME NEW market \in [Stocks -> Evaluation], NEW S \in SUBSET Stocks, S # {}
    PROVE  /\ Last(market, S) \in S
           /\ Cardinality(S) \in Nat /\ Cardinality(S) > 0
           /\ Cardinality(S \ {Last(market, S)}) = Cardinality(S) - 1
  <1>1. Last(market, S) \in S
    BY LastExists DEF Last
  <1>2. IsFiniteSet(S)
    BY StocksFinite
  <1> QED
    BY <1>1, <1>2, FS_RemoveElement, FS_EmptySet, FS_CardinalityType

(* The recursion has a solution, by the number of candidates.               *)
LEMMA SelectionExists ==
    ASSUME NEW w, NEW market \in [Stocks -> Evaluation], NEW Q \in SUBSET Stocks
    PROVE  \E g : Selects(g, w, market, Q)
  <1> DEFINE Upto(n) == {S \in SUBSET Q : Cardinality(S) <= n}
             last(S) == Last(market, S)
             Step(g, S) == IF S = {} THEN Start(w, market) ELSE Take(w, market, last(S), g[S \ {last(S)}])
             T == {n \in Nat : \E g : \A S \in Upto(n) : g[S] = Step(g, S)}
  <1> HIDE DEF last
  <1>1. \A S \in SUBSET Q : IsFiniteSet(S) /\ Cardinality(S) \in Nat /\ Cardinality(S) <= Cardinality(Q)
    <2>1. IsFiniteSet(Q)
      BY StocksFinite
    <2> QED
      BY <2>1, FS_Subset, FS_CardinalityType
  <1>2. 0 \in T
    <2> DEFINE g == [S \in SUBSET Q |-> Start(w, market)]
    <2>1. \A S \in Upto(0) : S = {}
      BY <1>1, FS_EmptySet
    <2>2. \A S \in Upto(0) : g[S] = Step(g, S)
      BY <2>1
    <2> HIDE DEF g, Step, Upto
    <2> QED
      BY <2>2
  <1>3. ASSUME NEW n \in Nat, n \in T PROVE n + 1 \in T
    <2>1. PICK g : \A S \in Upto(n) : g[S] = Step(g, S)
      BY <1>3
    <2> DEFINE h == [S \in SUBSET Q |-> Step(g, S)]
    <2>2. ASSUME NEW S \in Upto(n + 1) PROVE h[S] = Step(h, S)
      <3>1. h[S] = Step(g, S)
        OBVIOUS
      <3>2. CASE S = {}
        BY <3>1, <3>2
      <3>3. CASE S # {}
        <4> DEFINE R == S \ {last(S)}
        <4>1. R \in Upto(n)
          <5>1. last(S) \in S /\ Cardinality(R) = Cardinality(S) - 1 /\ Cardinality(S) \in Nat
            BY <3>3, WithoutLast DEF last
          <5> QED
            BY <5>1
        <4>2. h[R] = g[R]
          <5> HIDE DEF Step, R
          <5>1. h[R] = Step(g, R) /\ g[R] = Step(g, R)
            BY <2>1, <4>1
          <5> QED
            BY <5>1
        <4> HIDE DEF h
        <4> QED
          BY <3>1, <3>3, <4>2
      <3> QED
        BY <3>2, <3>3
    <2>3. \E k : \A S \in Upto(n + 1) : k[S] = Step(k, S)
      <3> HIDE DEF h, Upto, Step
      <3> QED
        BY <2>2
    <2> HIDE DEF Upto, Step
    <2> QED
      BY <2>3
  <1>4. Cardinality(Q) \in T
    <2>1. Cardinality(Q) \in Nat
      BY <1>1
    <2> HIDE DEF T
    <2> QED
      BY <1>2, <1>3, <2>1, AllNumbers
  <1>5. PICK g : \A S \in Upto(Cardinality(Q)) : g[S] = Step(g, S)
    BY <1>4
  <1>6. \A S \in SUBSET Q : g[S] = Step(g, S)
    BY <1>1, <1>5
  <1> DEFINE h == [S \in SUBSET Q |-> g[S]]
  <1>7. ASSUME NEW S \in SUBSET Q PROVE h[S] = Step(h, S)
    <2>1. h[S] = g[S] /\ g[S] = Step(g, S)
      BY <1>6
    <2>2. CASE S = {}
      BY <2>1, <2>2
    <2>3. CASE S # {}
      <3>1. S \ {last(S)} \in SUBSET Q
        OBVIOUS
      <3>2. h[S \ {last(S)}] = g[S \ {last(S)}]
        BY <3>1
      <3> HIDE DEF h
      <3> QED
        BY <2>1, <2>3, <3>2
    <2> QED
      BY <2>2, <2>3
  <1>8. h = [S \in SUBSET Q |-> Step(h, S)]
    <2> HIDE DEF Step
    <2> QED
      BY <1>7
  <1>9. Selects(h, w, market, Q)
    <2> HIDE DEF h
    <2> QED
      BY <1>8 DEF Selects, last
  <1> HIDE DEF h
  <1> QED
    BY <1>9

(* What it selects keeps the seats and the cash.                            *)
LEMMA SelectionKeeps ==
    ASSUME NEW w, Account(w), NEW market \in [Stocks -> Evaluation], Cardinality(Held(w)) < 3,
           NEW Q \in SUBSET (Stocks \ Held(w)), NEW g, Selects(g, w, market, Q)
    PROVE  Selected(w, market, g[Q])
  <1> DEFINE last(S) == Last(market, S)
             T == {n \in Nat : \A S \in SUBSET Q : Cardinality(S) = n => Selected(w, market, g[S])}
  <1> HIDE DEF last
  <1>1. \A S \in SUBSET Q : IsFiniteSet(S) /\ Cardinality(S) \in Nat
    BY StocksFinite, FS_CardinalityType
  <1>2. \A S \in SUBSET Q : g[S] = IF S = {} THEN Start(w, market)
                                   ELSE Take(w, market, last(S), g[S \ {last(S)}])
    BY DEF Selects, last
  <1>3. 0 \in T
    <2>1. Selected(w, market, Start(w, market))
      BY StartSelected DEF Start
    <2>2. \A S \in SUBSET Q : Cardinality(S) = 0 => S = {}
      BY <1>1, FS_EmptySet
    <2> QED
      BY <1>2, <2>1, <2>2
  <1>4. ASSUME NEW n \in Nat, n \in T PROVE n + 1 \in T
    <2>1. ASSUME NEW S \in SUBSET Q, Cardinality(S) = n + 1 PROVE Selected(w, market, g[S])
      <3> DEFINE R == S \ {last(S)}
      <3>1. S # {}
        BY <2>1, FS_EmptySet
      <3>2. last(S) \in S /\ R \in SUBSET Q /\ Cardinality(R) = n
        <4>1. S \in SUBSET Stocks
          OBVIOUS
        <4> QED
          BY <2>1, <3>1, <4>1, WithoutLast DEF last
      <3> HIDE DEF R
      <3>3. Selected(w, market, g[R])
        BY <1>4, <3>2
      <3>4. g[S] = Take(w, market, last(S), g[R])
        BY <1>2, <3>1 DEF R
      <3>5. last(S) \in Stocks \ Held(w)
        BY <3>2
      <3> QED
        BY <3>3, <3>4, <3>5, TakeKeeps
    <2> QED
      BY <2>1
  <1>5. Cardinality(Q) \in T
    <2> HIDE DEF T
    <2> QED
      BY <1>1, <1>3, <1>4, AllNumbers
  <1> QED
    BY <1>5

-----------------------------------------------------------------------------
(* What a decision over an account promises.                                *)
Group(of, s, w) == {h \in Held(w) : of[h] = of[s]}

Bound(r) ==
    \A s \in r.in :
        /\ WeightOf(r.target, Group(Sector, s, r.target)) <= SectorMax
        /\ IF Cluster[s] = Unknown THEN r.target[s] <= UnknownMax
           ELSE WeightOf(r.target, Group(Cluster, s, r.target)) <= ClusterMax

Keeps(w, market, r) ==
    /\ Account(r.target)
    /\ Cardinality(Held(w)) <= MaximumHoldings => Cardinality(Held(r.target)) <= MaximumHoldings
    /\ r.in # {} => Cash(r.target) >= MinimumCash
    /\ r.mode \in {"OPEN_SLOT", "FULL"} => Bound(r)
    /\ \A s \in Held(w) : r.target[s] <= Left(w[s], market[s].hold)
    /\ r.mode = "REDUCE_ONLY" => Held(r.target) \subseteq Held(w)

LEMMA DecidedFields ==
    ASSUME NEW mode, NEW target, NEW in, NEW out, NEW fast
    PROVE  /\ Decided(mode, target, in, out, fast).mode = mode
           /\ Decided(mode, target, in, out, fast).target = target
           /\ Decided(mode, target, in, out, fast).in = in
  BY DEF Decided

(* Nothing is bought.                                                       *)
LEMMA HoldingKeeps ==
    ASSUME NEW w, Account(w), NEW market \in [Stocks -> Evaluation], NEW mode, NEW out, NEW fast
    PROVE  Keeps(w, market, Decided(mode, HoldingTargets(w, market), {}, out, fast))
  <1> DEFINE target == HoldingTargets(w, market)
             r == Decided(mode, target, {}, out, fast)
  <1>1. r.mode = mode /\ r.target = target /\ r.in = {}
    BY DecidedFields
  <1>2. target \in Weights /\ w \in Weights
    BY HoldingTargetsFacts DEF Account
  <1>3. \A h \in Stocks : target[h] \in Nat /\ w[h] \in Nat /\ target[h] <= w[h]
                          /\ target[h] = Left(w[h], market[h].hold)
    BY <1>2, HoldingTargetsFacts, WeightsAreNat
  <1> HIDE DEF target, r
  <1>4. Held(target) \subseteq Held(w) /\ Held(target) \in SUBSET Stocks /\ Held(w) \in SUBSET Stocks
    BY <1>3 DEF Held
  <1>5. WeightOf(target, Held(target)) <= WeightOf(w, Held(w))
    BY <1>2, <1>3, <1>4, WeightBelow
  <1>6. Account(target)
    BY <1>2, <1>4, <1>5, WeightIsNat, UnitIsNat DEF Account
  <1>7. Cardinality(Held(target)) <= Cardinality(Held(w))
        /\ Cardinality(Held(target)) \in Nat /\ Cardinality(Held(w)) \in Nat
    BY <1>4, HeldFinite, FS_Subset, FS_CardinalityType
  <1>8. Cardinality(Held(w)) <= MaximumHoldings => Cardinality(Held(target)) <= MaximumHoldings
    BY <1>7 DEF MaximumHoldings
  <1>9. \A s \in Held(w) : target[s] <= Left(w[s], market[s].hold)
    BY <1>3, <1>4
  <1>10. Keeps(w, market, r)
    BY <1>1, <1>4, <1>6, <1>8, <1>9 DEF Keeps, Bound
  <1> QED
    BY <1>10 DEF r, target

(* A group of holdings after a newcomer entered it and another left.        *)
LEMMA GroupGrows ==
    ASSUME NEW w \in Weights, NEW target \in Weights, NEW s \in Stocks, NEW out,
           \A h \in Stocks \ {s} : target[h] > 0 => h # out /\ target[h] <= w[h],
           NEW C \in SUBSET Stocks, s \in C
    PROVE  WeightOf(target, Held(target) \cap C) <= target[s] + WeightOf(w, (Held(w) \ {out}) \cap C)
  <1> DEFINE S == (Held(target) \cap C) \ {s}
             R == (Held(w) \ {out}) \cap C
  <1>1. S \in SUBSET Stocks /\ R \in SUBSET Stocks /\ Held(target) \cap C \in SUBSET Stocks
    OBVIOUS
  <1>2. target[s] \in Nat /\ \A h \in Stocks : target[h] \in Nat /\ w[h] \in Nat
    BY WeightsAreNat
  <1>3. \A h \in S : target[h] > 0 => h \in R /\ target[h] <= w[h]
    <2> SUFFICES ASSUME NEW h \in S, target[h] > 0 PROVE h \in R /\ target[h] <= w[h]
      OBVIOUS
    <2>1. h \in Stocks \ {s} /\ h \in C
      OBVIOUS
    <2>2. h # out /\ target[h] <= w[h] /\ w[h] > 0
      BY <1>2, <2>1
    <2> QED
      BY <2>1, <2>2 DEF Held
  <1>4. WeightOf(target, S) <= WeightOf(w, R) /\ WeightOf(target, S) \in Nat /\ WeightOf(w, R) \in Nat
    <2> HIDE DEF S, R
    <2> QED
      BY <1>1, <1>3, WeightBelow, WeightIsNat
  <1>5. CASE s \in Held(target)
    <2>1. WeightOf(target, Held(target) \cap C) = target[s] + WeightOf(target, S)
      BY <1>1, <1>5, WeightTakesOut
    <2> HIDE DEF S, R
    <2>2. WeightOf(target, Held(target) \cap C) <= target[s] + WeightOf(w, R)
      BY <1>2, <1>4, <2>1
    <2> QED
      BY <2>2 DEF R
  <1>6. CASE s \notin Held(target)
    <2>1. Held(target) \cap C = S
      BY <1>6
    <2> HIDE DEF S, R
    <2>2. WeightOf(target, Held(target) \cap C) = WeightOf(target, S)
      BY <2>1
    <2>3. WeightOf(target, Held(target) \cap C) <= target[s] + WeightOf(w, R)
      BY <1>2, <1>4, <2>2
    <2> QED
      BY <2>3 DEF R
  <1> QED
    BY <1>5, <1>6

LEMMA ImprovesKeepsReserve ==
    ASSUME NEW w, NEW market, NEW s, NEW t, NEW out, Improves(w, market, s, t, out),
           WeightOf(w, Held(w) \ {out}) \in Int, t \in Int
    PROVE  Unit - WeightOf(w, Held(w) \ {out}) - t >= MinimumCash
  <1>1. AtLeastZero(Unit - WeightOf(w, Held(w) \ {out}) - t) >= MinimumCash
    BY DEF Improves
  <1> QED
    BY <1>1, UnitIsNat, ReserveIsNat DEF AtLeastZero

(* One newcomer, for a free seat or for the seat of out.                    *)
LEMMA NewcomerKeeps ==
    ASSUME NEW w, Account(w), NEW market \in [Stocks -> Evaluation],
           NEW s \in Stocks \ Held(w), NEW available \in Nat, NEW out,
           NEW target \in Weights,
           target[s] = Target(w, market, s, available, out),
           target[s] > 0,
           \A h \in Stocks \ {s} : /\ target[h] <= HoldingTargets(w, market)[h]
                                   /\ h = out => target[h] = 0,
           Improves(w, market, s, target[s], out),
           Cardinality(Held(w) \ {out}) <= 3,
           NEW mode, mode # "REDUCE_ONLY", NEW o, NEW fast
    PROVE  Keeps(w, market, Decided(mode, target, {s}, o, fast))
  <1> DEFINE r == Decided(mode, target, {s}, o, fast)
             t == target[s]
             rest == Held(w) \ {out}
  <1>1. r.mode = mode /\ r.target = target /\ r.in = {s}
    BY DecidedFields
  <1> HIDE DEF r
  <1>2. w \in Weights /\ Held(w) \subseteq Stocks /\ rest \in SUBSET Stocks /\ Held(target) \in SUBSET Stocks
    BY HeldFinite DEF Account
  <1>3. t \in Nat /\ \A h \in Stocks : /\ target[h] \in Nat /\ w[h] \in Nat
                                        /\ HoldingTargets(w, market)[h] <= w[h]
                                        /\ HoldingTargets(w, market)[h] \in Nat
                                        /\ HoldingTargets(w, market)[h] = Left(w[h], market[h].hold)
    BY <1>2, WeightsAreNat, HoldingTargetsFacts
  <1>4. \A h \in Stocks \ {s} : target[h] > 0 => h # out /\ target[h] <= w[h]
    BY <1>3
  <1>5. WeightOf(w, rest) \in Nat
    BY <1>2, WeightIsNat
  <1>6. WeightOf(target, Held(target)) <= Unit - MinimumCash
    <2>1. Stocks \in SUBSET Stocks /\ Held(target) \cap Stocks = Held(target) /\ rest \cap Stocks = rest
      BY <1>2
    <2>2. WeightOf(target, Held(target)) <= t + WeightOf(w, rest)
      BY <1>2, <1>4, <2>1, GroupGrows
    <2>3. Unit - WeightOf(w, rest) - t >= MinimumCash
      BY <1>3, <1>5, ImprovesKeepsReserve
    <2>4. WeightOf(target, Held(target)) \in Nat
      BY <1>2, WeightIsNat
    <2>5. MinimumCash \in Nat
      BY ReserveIsNat
    <2> HIDE DEF t, rest
    <2> QED
      BY <1>3, <1>5, <2>2, <2>3, <2>4, <2>5, UnitIsNat
  <1>7. WeightOf(target, Held(target)) \in Nat
    BY <1>2, WeightIsNat
  <1>8. Account(target) /\ Cash(target) >= MinimumCash
    BY <1>6, <1>7, UnitIsNat, ReserveIsNat DEF Account, Cash
  <1>9. Cardinality(Held(target)) <= MaximumHoldings
    <2>1. Held(target) \subseteq rest \cup {s}
      BY <1>2, <1>3, <1>4 DEF Held
    <2>2. IsFiniteSet(rest) /\ s \notin rest
      BY <1>2, StocksFinite
    <2>3. IsFiniteSet(rest \cup {s}) /\ Cardinality(rest \cup {s}) = Cardinality(rest) + 1
      BY <2>2, FS_AddElement
    <2>4. Cardinality(rest) \in Nat /\ Cardinality(Held(target)) \in Nat
      BY <2>2, HeldFinite, FS_CardinalityType
    <2>5. Cardinality(Held(target)) <= Cardinality(rest \cup {s})
      BY <2>1, <2>3, FS_Subset
    <2>6. Cardinality(rest) <= 3
      OBVIOUS
    <2> HIDE DEF rest
    <2> QED
      BY <2>3, <2>4, <2>5, <2>6 DEF MaximumHoldings
  <1>10. ASSUME NEW of
         PROVE  WeightOf(target, Group(of, s, target)) <= t + Peers(w, of, s, out)
    <2> DEFINE C == {h \in Stocks : of[h] = of[s]}
    <2>1. C \in SUBSET Stocks /\ s \in C
      OBVIOUS
    <2>2. Group(of, s, target) = Held(target) \cap C
      BY <1>2 DEF Group
    <2>3. {h \in rest : of[h] = of[s]} = rest \cap C
      BY <1>2
    <2>4. Peers(w, of, s, out) = WeightOf(w, rest \cap C)
      BY <2>3 DEF Peers
    <2> HIDE DEF C
    <2> QED
      BY <1>2, <1>4, <2>1, <2>2, <2>4, GroupGrows
  <1>11. /\ t + Peers(w, Sector, s, out) <= SectorMax
         /\ IF Cluster[s] = Unknown THEN t <= UnknownMax ELSE t + Peers(w, Cluster, s, out) <= ClusterMax
    BY <1>2, TargetBounds
  <1>12. \A of : Peers(w, of, s, out) \in Nat /\ WeightOf(target, Group(of, s, target)) \in Nat
    <2>1. \A of : Group(of, s, target) \in SUBSET Stocks
      BY <1>2 DEF Group
    <2> QED
      BY <1>2, <2>1, PeersIsNat, WeightIsNat
  <1>13. Bound(r)
    <2>1. WeightOf(target, Group(Sector, s, target)) <= SectorMax
      BY <1>3, <1>10, <1>11, <1>12 DEF SectorMax
    <2>2. IF Cluster[s] = Unknown THEN t <= UnknownMax
          ELSE WeightOf(target, Group(Cluster, s, target)) <= ClusterMax
      BY <1>3, <1>10, <1>11, <1>12 DEF ClusterMax
    <2> QED
      BY <1>1, <2>1, <2>2 DEF Bound
  <1>14. \A h \in Held(w) : target[h] <= Left(w[h], market[h].hold)
    BY <1>2, <1>3
  <1>15. Keeps(w, market, r)
    BY <1>1, <1>8, <1>9, <1>13, <1>14 DEF Keeps
  <1> QED
    BY <1>15 DEF r

(* Fewer than three holdings.                                               *)
LEMMA DirectKeeps ==
    ASSUME NEW w, Account(w), NEW market \in [Stocks -> Evaluation], Cardinality(Held(w)) < 3
    PROVE  Keeps(w, market, DirectSelection(w, market))
  <1> DEFINE Q == Queue(w, market)
             end == (CHOOSE g : Selects(g, w, market, Q))[Q]
             r == DirectSelection(w, market)
             target == end.target
  <1>1. r = Decided("DIRECT", target, end.in, NoStock, FALSE)
    BY DirectIsRecursion, Zenon
  <1>2. Q \in SUBSET (Stocks \ Held(w)) /\ Q \in SUBSET Stocks
    BY DEF Queue
  <1> HIDE DEF Q
  <1>3. Selected(w, market, end)
    <2> DEFINE g == CHOOSE g : Selects(g, w, market, Q)
    <2>1. Selects(g, w, market, Q)
      BY <1>2, SelectionExists
    <2> HIDE DEF g
    <2>2. Selected(w, market, g[Q])
      BY <1>2, <2>1, SelectionKeeps
    <2> QED
      BY <2>2 DEF g
  <1> HIDE DEF end, r
  <1>4. r.mode = "DIRECT" /\ r.target = target /\ r.in = end.in
    <2> DEFINE fast == FALSE
    <2>1. r = Decided("DIRECT", target, end.in, NoStock, fast)
      BY <1>1
    <2> HIDE DEF target, fast
    <2> QED
      BY <2>1, DecidedFields
  <1>5. /\ target \in Weights /\ w \in Weights /\ end.in \in SUBSET Stocks /\ end.slots \in Nat /\ end.cash \in Nat
        /\ Held(w) \in SUBSET Stocks /\ Held(target) \in SUBSET Stocks /\ Stocks \in SUBSET Stocks
    BY <1>3, HeldFinite DEF Selected, Selections, Account
  <1>6. end.in \cap Held(w) = {} /\ \A h \in Stocks \ end.in : target[h] = HoldingTargets(w, market)[h]
    BY <1>3 DEF Selected
  <1> HIDE DEF target
  <1>7. \A h \in Stocks : /\ target[h] \in Nat /\ w[h] \in Nat
                          /\ HoldingTargets(w, market)[h] \in Nat
                          /\ HoldingTargets(w, market)[h] <= w[h]
                          /\ HoldingTargets(w, market)[h] = Left(w[h], market[h].hold)
    BY <1>5, WeightsAreNat, HoldingTargetsFacts
  <1>8. WeightOf(target, Held(target)) <= WeightOf(w, Held(w)) + CashCapacity(w)
    <2>1. WeightOf(target, Stocks) + end.cash <= WeightOf(w, Held(w)) + CashCapacity(w)
      BY <1>3 DEF Selected, target
    <2>2. \A h \in Held(target) : target[h] > 0 => h \in Stocks /\ target[h] <= target[h]
      BY <1>5, <1>7
    <2>3. WeightOf(target, Held(target)) <= WeightOf(target, Stocks)
      BY <1>5, <2>2, WeightBelow
    <2>4. WeightOf(target, Held(target)) \in Nat /\ WeightOf(target, Stocks) \in Nat
          /\ WeightOf(w, Held(w)) \in Nat /\ CashCapacity(w) \in Nat
      BY <1>5, WeightIsNat, CashFacts, UnitIsNat
    <2> QED
      BY <1>5, <2>1, <2>3, <2>4
  <1>9. /\ WeightOf(w, Held(w)) \in Nat /\ CashCapacity(w) \in Nat
        /\ CashCapacity(w) + WeightOf(w, Held(w)) <= Unit
        /\ CashCapacity(w) > 0 => CashCapacity(w) + WeightOf(w, Held(w)) = Unit - MinimumCash
        /\ WeightOf(target, Held(target)) \in Nat /\ MinimumCash \in Nat
    BY <1>5, WeightIsNat, CashFacts, UnitIsNat, ReserveIsNat
  <1>10. Account(target)
    BY <1>5, <1>8, <1>9, UnitIsNat DEF Account
  <1>11. end.in # {} => Cash(target) >= MinimumCash
    <2>1. end.in # {} => CashCapacity(w) > 0
      BY <1>3 DEF Selected
    <2> QED
      BY <1>8, <1>9, <2>1, UnitIsNat DEF Cash
  <1>12. Cardinality(Held(target)) <= MaximumHoldings
    <2>1. Held(target) \subseteq Held(w) \cup end.in
      BY <1>5, <1>6, <1>7 DEF Held
    <2>2. IsFiniteSet(Held(w)) /\ IsFiniteSet(end.in) /\ IsFiniteSet(Held(w) \cup end.in)
      BY <1>5, StocksFinite, FS_Union
    <2>3. Cardinality(Held(target)) <= Cardinality(Held(w) \cup end.in)
      BY <2>1, <2>2, FS_Subset
    <2>4. Cardinality(Held(w) \cup end.in)
            = Cardinality(Held(w)) + Cardinality(end.in) - Cardinality(Held(w) \cap end.in)
      BY <2>2, FS_Union
    <2>5. Held(w) \cap end.in = {} /\ Cardinality({}) = 0
      BY <1>6, FS_EmptySet
    <2>6. Cardinality(Held(w) \cup end.in) = Cardinality(Held(w)) + Cardinality(end.in)
      <3>1. Cardinality(Held(w)) \in Nat /\ Cardinality(end.in) \in Nat
        BY <2>2, FS_CardinalityType
      <3>2. Cardinality(Held(w) \cap end.in) = 0
        BY <2>5
      <3> QED
        BY <2>4, <3>1, <3>2
    <2>7. Cardinality(end.in) + end.slots <= 3 - Cardinality(Held(w))
      BY <1>3 DEF Selected
    <2>8. /\ Cardinality(Held(w)) \in Nat /\ Cardinality(end.in) \in Nat
          /\ Cardinality(Held(target)) \in Nat
      BY <2>2, HeldFinite, FS_CardinalityType
    <2> QED
      BY <1>5, <2>3, <2>6, <2>7, <2>8 DEF MaximumHoldings
  <1>13. \A s \in Held(w) : target[s] <= Left(w[s], market[s].hold)
    BY <1>5, <1>6, <1>7
  <1>14. Keeps(w, market, r)
    BY <1>4, <1>10, <1>11, <1>12, <1>13 DEF Keeps
  <1> QED
    BY <1>14 DEF r

(* Three holdings.                                                          *)
LEMMA OpenSlotKeeps ==
    ASSUME NEW w, Account(w), NEW market \in [Stocks -> Evaluation], Cardinality(Held(w)) = 3
    PROVE  Keeps(w, market, OpenSlot(w, market))
  <1> DEFINE weight(s) == Target(w, market, s, CashCapacity(w), NoStock)
             fit == {s \in Candidates(w, market) : weight(s) > 0 /\ Improves(w, market, s, weight(s), NoStock)}
             best == CHOOSE s \in fit : \A t \in fit \ {s} : Ahead(market, s, t)
             held == HoldingTargets(w, market)
             target == [held EXCEPT ![best] = weight(best)]
  <1>1. OpenSlot(w, market) = IF fit = {} THEN Decided("OPEN_SLOT", held, {}, NoStock, FALSE)
                              ELSE Decided("OPEN_SLOT", target, {best}, NoStock, FALSE)
    BY DEF OpenSlot
  <1>2. CASE fit = {}
    <2> HIDE DEF fit, best, target, weight
    <2> QED
      BY <1>1, <1>2, HoldingKeeps
  <1>3. CASE fit # {}
    <2>1. fit \in SUBSET Stocks
      BY DEF Candidates
    <2>2. best \in fit
      <3> HIDE DEF fit
      <3> QED
        BY <1>3, <2>1, HeadExists
    <2>3. best \in Stocks \ Held(w) /\ weight(best) > 0 /\ Improves(w, market, best, weight(best), NoStock)
      <3> HIDE DEF best, weight
      <3> QED
        BY <2>2 DEF Candidates
    <2>4. CashCapacity(w) \in Nat /\ w \in Weights
      BY CashFacts, UnitIsNat DEF Account
    <2> HIDE DEF best
    <2>5. weight(best) \in 0..Unit
      BY <2>3, <2>4, TargetBounds
    <2>6. held \in Weights
      BY <2>4, HoldingTargetsFacts
    <2> HIDE DEF held
    <2>7. /\ target \in Weights /\ target[best] = weight(best)
          /\ \A h \in Stocks \ {best} : target[h] = held[h]
      <3> HIDE DEF weight
      <3> QED
        BY <2>3, <2>5, <2>6 DEF Weights
    <2>8. \A h \in Stocks \ {best} : target[h] <= held[h] /\ (h = NoStock => target[h] = 0)
      <3>1. \A h \in Stocks : held[h] \in Nat /\ h # NoStock
        BY <2>6, WeightsAreNat, StockAssumption
      <3> HIDE DEF target
      <3> SUFFICES ASSUME NEW h \in Stocks \ {best} PROVE target[h] <= held[h] /\ h # NoStock
        OBVIOUS
      <3>2. target[h] = held[h] /\ held[h] \in Nat /\ h # NoStock
        BY <2>7, <3>1
      <3> QED
        BY <3>2
    <2> HIDE DEF target
    <2>9. Cardinality(Held(w) \ {NoStock}) <= 3
      <3>1. Held(w) \ {NoStock} = Held(w)
        BY HeldFinite, StockAssumption
      <3> QED
        BY <3>1
    <2>10. Keeps(w, market, Decided("OPEN_SLOT", target, {best}, NoStock, FALSE))
      <3> DEFINE available == CashCapacity(w)
                 out == NoStock
                 fast == FALSE
      <3>1. /\ target[best] = Target(w, market, best, available, out) /\ target[best] > 0
            /\ Improves(w, market, best, target[best], out) /\ available \in Nat
        BY <2>3, <2>4, <2>7
      <3>2. \A h \in Stocks \ {best} : target[h] <= held[h] /\ (h = out => target[h] = 0)
        BY <2>8
      <3>3. Cardinality(Held(w) \ {out}) <= 3
        BY <2>9
      <3> HIDE DEF weight, available, out, fast
      <3>4. Keeps(w, market, Decided("OPEN_SLOT", target, {best}, NoStock, fast))
        BY <2>3, <2>7, <3>1, <3>2, <3>3, NewcomerKeeps DEF held
      <3> QED
        BY <3>4 DEF fast
    <2> HIDE DEF fit, weight
    <2> QED
      BY <1>1, <1>3, <2>10
  <1> QED
    BY <1>2, <1>3

(* Four holdings.                                                           *)
LEMMA FullKeeps ==
    ASSUME NEW w, Account(w), NEW market \in [Stocks -> Evaluation], NEW persistent,
           Cardinality(Held(w)) = 4
    PROVE  Keeps(w, market, FullPortfolio(w, market, persistent))
  <1> DEFINE weight(p) == Target(w, market, p[1], CashCapacity(w) + w[p[2]], p[2])
             fit == {p \in Candidates(w, market) \X Held(w) :
                        /\ Replaces(market, p[1], p[2], p \in persistent)
                        /\ weight(p) > 0 /\ Improves(w, market, p[1], weight(p), p[2])}
             best == CHOOSE p \in fit : \A q \in fit \ {p} : Better(market, p, q)
             held == HoldingTargets(w, market)
             target == Swapped(held, best[1], weight(best), best[2])
             fast == FastPath(market, best[1], best[2])
  <1>1. FullPortfolio(w, market, persistent)
          = IF fit = {} THEN Decided("FULL", held, {}, NoStock, FALSE)
            ELSE Decided("FULL", target, {best[1]}, best[2], fast)
    BY DEF FullPortfolio
  <1>2. CASE fit = {}
    <2> HIDE DEF fit, best, target, weight, fast
    <2> QED
      BY <1>1, <1>2, HoldingKeeps
  <1>3. CASE fit # {}
    <2>1. fit \in SUBSET (Stocks \X Stocks) /\ IsFiniteSet(fit)
      <3>1. Candidates(w, market) \subseteq Stocks /\ IsFiniteSet(Candidates(w, market))
        <4>1. Candidates(w, market) \in SUBSET Stocks
          BY DEF Candidates
        <4> QED
          BY <4>1, StocksFinite
      <3>2. IsFiniteSet(Candidates(w, market) \X Held(w))
        BY <3>1, HeldFinite, FS_Product
      <3>3. fit \in SUBSET (Candidates(w, market) \X Held(w))
        OBVIOUS
      <3>4. IsFiniteSet(fit)
        <4> HIDE DEF fit
        <4> QED
          BY <3>2, <3>3, FS_Subset
      <3> QED
        BY <3>1, <3>3, <3>4, HeldFinite
    <2>2. best \in fit
      <3> HIDE DEF fit
      <3> QED
        BY <1>3, <2>1, BestExists
    <2> DEFINE s == best[1]
               out == best[2]
               t == weight(best)
    <2>3. /\ s \in Candidates(w, market) /\ out \in Held(w) /\ t > 0
          /\ Improves(w, market, s, t, out)
      <3> HIDE DEF best, weight
      <3> QED
        BY <2>2
    <2>4. s \in Stocks \ Held(w) /\ out \in Stocks /\ s # out
      <3> HIDE DEF s, out, t
      <3> QED
        BY <2>3, HeldFinite DEF Candidates
    <2>5. CashCapacity(w) \in Nat /\ w \in Weights
      BY CashFacts, UnitIsNat DEF Account
    <2> DEFINE available == CashCapacity(w) + w[out]
    <2>6. available \in Nat
      <3> HIDE DEF out
      <3> QED
        BY <2>4, <2>5, WeightsAreNat
    <2>7. t = Target(w, market, s, available, out)
      OBVIOUS
    <2> HIDE DEF s, out, t, available
    <2>8. t \in 0..Unit
      BY <2>4, <2>5, <2>6, <2>7, TargetBounds
    <2>9. held \in Weights
      BY <2>5, HoldingTargetsFacts
    <2>10. target = Swapped(held, s, t, out)
      BY DEF s, out, t
    <2> HIDE DEF held, target
    <2>11. /\ target \in Weights /\ target[s] = t /\ target[out] = 0
           /\ \A h \in Stocks \ {s, out} : target[h] = held[h]
      BY <2>4, <2>8, <2>9, <2>10, UnitIsNat DEF Swapped, Weights
    <2>12. \A h \in Stocks \ {s} : target[h] <= held[h] /\ (h = out => target[h] = 0)
      <3> SUFFICES ASSUME NEW h \in Stocks \ {s}
                   PROVE  target[h] <= held[h] /\ (h = out => target[h] = 0)
        OBVIOUS
      <3>1. held[h] \in Nat
        BY <2>9, WeightsAreNat
      <3>2. target[h] = 0 \/ target[h] = held[h]
        BY <2>11
      <3> QED
        BY <2>11, <3>1, <3>2
    <2>13. Cardinality(Held(w) \ {out}) <= 3
      <3>1. Cardinality(Held(w) \ {out}) = Cardinality(Held(w)) - 1
        BY <2>3, HeldFinite, FS_RemoveElement
      <3> QED
        BY <3>1
    <2>14. Keeps(w, market, Decided("FULL", target, {s}, out, fast))
      <3> HIDE DEF fast
      <3> QED
        BY <2>3, <2>4, <2>6, <2>7, <2>11, <2>12, <2>13, NewcomerKeeps DEF held
    <2> HIDE DEF fit, weight, fast, best
    <2> QED
      BY <1>1, <1>3, <2>14 DEF s, out
  <1> QED
    BY <1>2, <1>3

LEMMA AllocateKeeps ==
    ASSUME NEW w, Account(w), NEW market \in [Stocks -> Evaluation], NEW persistent
    PROVE  Keeps(w, market, Allocate(w, market, persistent))
  <1> DEFINE n == Cardinality(Held(w))
  <1>1. n \in Nat
    BY HeldFinite, FS_CardinalityType
  <1>2. CASE n < 3
    <2>1. Mode(w) = "DIRECT"
      BY <1>1, <1>2 DEF Mode
    <2>2. Allocate(w, market, persistent) = DirectSelection(w, market)
      BY <2>1 DEF Allocate
    <2> QED
      BY <1>2, <2>2, DirectKeeps
  <1>3. CASE n = 3
    <2>1. Mode(w) = "OPEN_SLOT"
      BY <1>1, <1>3 DEF Mode
    <2>2. Allocate(w, market, persistent) = OpenSlot(w, market)
      BY <2>1 DEF Allocate
    <2> QED
      BY <1>3, <2>2, OpenSlotKeeps
  <1>4. CASE n = 4
    <2>1. Mode(w) = "FULL"
      BY <1>1, <1>4 DEF Mode
    <2>2. Allocate(w, market, persistent) = FullPortfolio(w, market, persistent)
      BY <2>1 DEF Allocate
    <2> QED
      BY <1>4, <2>2, FullKeeps
  <1>5. CASE n > 4
    <2>1. Mode(w) = "REDUCE_ONLY"
      BY <1>1, <1>5 DEF Mode
    <2>2. Allocate(w, market, persistent) = Decided("REDUCE_ONLY", HoldingTargets(w, market), {}, NoStock, FALSE)
      BY <2>1 DEF Allocate, BreachTargets
    <2> QED
      BY <2>2, HoldingKeeps
  <1> QED
    BY <1>1, <1>2, <1>3, <1>4, <1>5

-----------------------------------------------------------------------------
(* The account and every decision about it keep the rules.                  *)
RowsType(kept) == \A d \in Days : /\ DOMAIN kept[d] \subseteq AllPairs
                                  /\ \A p \in DOMAIN kept[d] : kept[d][p] \in BOOLEAN

RulesInv ==
    /\ TypeOK
    /\ decision # None => Keeps(decision.before, decision.market, decision.result)

LEMMA RulesParts ==
    TypeOK <=> /\ kind \in {"ordinary", "research"} /\ day \in Days
               /\ data \in [Days -> Markets \cup {None}]
               /\ Account(weights) /\ RowsType(rows)
               /\ DOMAIN sealed \subseteq Days
               /\ run \in Published \cup {None} /\ (run # None => kind = "ordinary")
               /\ traded \in 0..day /\ events \in 0..MaxEvents
  BY DEF TypeOK, Account, RowsType

LEMMA InitRules == Init => RulesInv
  <1> SUFFICES ASSUME Init PROVE RulesInv
    OBVIOUS
  <1>1. day \in Days /\ traded \in 0..day /\ events \in 0..MaxEvents
    BY SeriesAssumption DEF Init, Days
  <1>2. data \in [Days -> Markets \cup {None}]
    BY DEF Init
  <1>3. Account(weights)
    BY SeriesAssumption DEF Init, Account
  <1>4. RowsType(rows) /\ DOMAIN sealed = {}
    <2>1. DOMAIN <<>> = {}
      OBVIOUS
    <2> QED
      BY <2>1 DEF Init, RowsType
  <1>5. kind \in {"ordinary", "research"} /\ run = None /\ decision = None
    BY DEF Init
  <1> QED
    BY <1>1, <1>2, <1>3, <1>4, <1>5, RulesParts DEF RulesInv

LEMMA ObservationsType ==
    ASSUME NEW w, NEW market
    PROVE  /\ DOMAIN Observations(w, market) \subseteq AllPairs
           /\ \A p \in DOMAIN Observations(w, market) : Observations(w, market)[p] \in BOOLEAN
  <1>1. DOMAIN Observations(w, market) = Pairs(w)
    BY DEF Observations
  <1>2. Pairs(w) \subseteq AllPairs
    BY HeldFinite DEF Pairs, AllPairs
  <1>3. ASSUME NEW p \in Pairs(w) PROVE Observations(w, market)[p] \in BOOLEAN
    <2>1. Observations(w, market)[p] = Crosses(market, p[1], p[2])
      BY DEF Observations
    <2>2. Crosses(market, p[1], p[2]) \in BOOLEAN
      BY DEF Crosses
    <2> QED
      BY <2>1, <2>2
  <1> QED
    BY <1>1, <1>2, <1>3

LEMMA FiledType ==
    ASSUME RowsType(rows), rows = [e \in Days |-> rows[e]], NEW d \in Days, NEW new,
           DOMAIN new \subseteq AllPairs, \A p \in DOMAIN new : new[p] \in BOOLEAN
    PROVE  RowsType([rows EXCEPT ![d] = new]) /\ RowsType([rows EXCEPT ![d] = Over(new, rows[d])])
  <1> DEFINE over == Over(new, rows[d])
  <1>1. DOMAIN over \subseteq AllPairs /\ \A p \in DOMAIN over : over[p] \in BOOLEAN
    BY DEF Over, RowsType
  <1> HIDE DEF over
  <1>2. RowsType([rows EXCEPT ![d] = over])
    BY <1>1 DEF RowsType
  <1>3. RowsType([rows EXCEPT ![d] = new])
    BY DEF RowsType
  <1> QED
    BY <1>2, <1>3 DEF over

LEMMA AdviceKeeps ==
    ASSUME Account(weights), NEW d \in Days, data[d] \in Markets, NEW evidence,
           decision' = Advice(d, evidence)
    PROVE  Keeps(decision'.before, decision'.market, decision'.result)
  <1> DEFINE result == Allocate(weights, data[d], Persistent(evidence))
  <1>1. decision'.before = weights /\ decision'.market = data[d] /\ decision'.result = result
    BY DEF Advice
  <1>2. data[d] \in [Stocks -> Evaluation]
    BY SeriesAssumption
  <1>3. Keeps(weights, data[d], result)
    BY <1>2, AllocateKeeps
  <1> HIDE DEF result
  <1> QED
    BY <1>1, <1>3

(* A run decides, or records what it evaluated.                             *)
LEMMA RunRules ==
    ASSUME LedgerInv, EarnedInv, RulesInv, NEW d \in Days,
           Record(d) \/ DecideAlone(d) \/ Session(d) \/ (Decide /\ run = d)
    PROVE  RulesInv'
  <1>1. /\ UNCHANGED <<kind, day, data, weights, events, traded>>
        /\ d \in Published /\ Published' = Published
    BY RulesParts DEF Record, DecideAlone, Session, Decide, RulesInv, Published
  <1>2. /\ kind \in {"ordinary", "research"} /\ day \in Days
        /\ data \in [Days -> Markets \cup {None}]
        /\ Account(weights) /\ RowsType(rows)
        /\ DOMAIN sealed \subseteq Days
        /\ run \in Published \cup {None} /\ (run # None => kind = "ordinary")
        /\ traded \in 0..day /\ events \in 0..MaxEvents
    BY RulesParts DEF RulesInv
  <1>3. data[d] \in Markets /\ rows = [e \in Days |-> rows[e]]
    BY <1>1 DEF EarnedInv
  <1>4. RowsType(rows')
    <2> DEFINE observed == Observations(weights, data[d])
    <2>1. DOMAIN observed \subseteq AllPairs /\ \A p \in DOMAIN observed : observed[p] \in BOOLEAN
      BY ObservationsType
    <2>2. \/ rows' = rows
          \/ rows' = [rows EXCEPT ![d] = observed]
          \/ rows' = [rows EXCEPT ![d] = Over(observed, rows[d])]
      BY DEF Record, DecideAlone, Session, Decide, Filed
    <2> HIDE DEF observed
    <2> DEFINE plain == [rows EXCEPT ![d] = observed]
               over == [rows EXCEPT ![d] = Over(observed, rows[d])]
    <2>3. RowsType(plain) /\ RowsType(over)
      BY <1>2, <1>3, <2>1, FiledType, Zenon
    <2>4. rows' = rows \/ rows' = plain \/ rows' = over
      BY <2>2
    <2> HIDE DEF plain, over
    <2> QED
      BY <1>2, <2>3, <2>4
  <1>5. DOMAIN sealed' \subseteq Days
    <2>1. sealed' = sealed \/ DOMAIN sealed' = DOMAIN sealed \cup {d}
      BY DEF Record, DecideAlone, Session, Decide
    <2> QED
      BY <1>2, <2>1
  <1>6. run' \in Published \cup {None} /\ (run' # None => kind = "ordinary")
    BY <1>1, <1>2 DEF Record, DecideAlone, Session, Decide
  <1>7. TypeOK'
    <2>1. RowsType(rows)' /\ Days' = Days
      BY <1>4 DEF RowsType, AllPairs, Days
    <2>2. Account(weights)'
      BY <1>1, <1>2 DEF Account
    <2> QED
      BY <1>1, <1>2, <1>5, <1>6, <2>1, <2>2 DEF TypeOK, Account, RowsType
  <1>8. decision' = None \/ \E evidence : decision' = Advice(d, evidence)
    BY DEF Record, DecideAlone, Session, Decide
  <1>9. decision' # None => Keeps(decision'.before, decision'.market, decision'.result)
    BY <1>2, <1>3, <1>8, AdviceKeeps
  <1> QED
    BY <1>7, <1>9 DEF RulesInv

(* The other steps bring no decision; the owner follows the one there is.   *)
LEMMA OtherRules ==
    ASSUME EarnedInv, RulesInv,
           \/ Abandon \/ Follow \/ NextDay \/ UNCHANGED vars
           \/ \E market \in Markets : Publish(market) \/ \E d \in Days : Revise(d, market)
    PROVE  RulesInv'
  <1>1. /\ kind \in {"ordinary", "research"} /\ day \in Days
        /\ data \in [Days -> Markets \cup {None}]
        /\ Account(weights) /\ RowsType(rows)
        /\ DOMAIN sealed \subseteq Days
        /\ run \in Published \cup {None} /\ (run # None => kind = "ordinary")
        /\ traded \in 0..day /\ events \in 0..MaxEvents
        /\ day \in Nat /\ traded \in Nat /\ events \in Nat /\ LastDay \in Nat /\ MaxEvents \in Nat
    BY RulesParts, SeriesAssumption DEF RulesInv, Days
  <1>2. UNCHANGED <<kind, rows, sealed>>
    BY DEF Abandon, Follow, NextDay, Publish, Revise, vars
  <1>3. data' \in [Days -> Markets \cup {None}]
    BY <1>1, <1>2 DEF Abandon, Follow, NextDay, Publish, Revise, vars
  <1>4. Account(weights')
    <2>1. weights' = weights \/ (decision # None /\ weights' = decision.result.target)
      BY DEF Abandon, Follow, NextDay, Publish, Revise, vars
    <2> QED
      BY <1>1, <2>1 DEF RulesInv, Keeps
  <1>5. run' \in Published' \cup {None} /\ (run' # None => kind = "ordinary")
    <2>1. run' = None \/ UNCHANGED <<run, data>>
      BY DEF Abandon, Follow, NextDay, Publish, Revise, vars
    <2> QED
      BY <1>1, <2>1 DEF Published
  <1>6. day' \in Days /\ traded' \in 0..day' /\ events' \in 0..MaxEvents
    <2>1. day' = day \/ (day < LastDay /\ day' = day + 1)
      BY DEF Abandon, Follow, NextDay, Publish, Revise, vars
    <2>2. traded' = traded \/ (traded' = day /\ day' = day)
      BY DEF Abandon, Follow, NextDay, Publish, Revise, vars
    <2>3. events' = events \/ (events < MaxEvents /\ events' = events + 1)
      BY DEF Abandon, Follow, NextDay, Publish, Revise, vars
    <2> QED
      BY <1>1, <2>1, <2>2, <2>3 DEF Days
  <1>7. TypeOK'
    <2>1. Days' = Days /\ AllPairs' = AllPairs
      BY DEF Days, AllPairs
    <2> QED
      BY <1>1, <1>2, <1>3, <1>4, <1>5, <1>6, <2>1 DEF TypeOK, Account, RowsType
  <1>8. decision' = None \/ decision' = decision
    BY DEF Abandon, Follow, NextDay, Publish, Revise, vars
  <1>9. decision' # None => Keeps(decision'.before, decision'.market, decision'.result)
    BY <1>8 DEF RulesInv
  <1> QED
    BY <1>7, <1>9 DEF RulesInv

LEMMA NextRules == LedgerInv /\ EarnedInv /\ RulesInv /\ [Next]_vars => RulesInv'
  <1> SUFFICES ASSUME LedgerInv, EarnedInv, RulesInv, [Next]_vars PROVE RulesInv'
    OBVIOUS
  <1>1. CASE Decide
    <2>1. PICK d \in Days : d = run
      BY <1>1, RulesParts DEF Decide, RulesInv, Published
    <2> QED
      BY <1>1, <2>1, RunRules
  <1>2. ASSUME NEW d \in Days, Record(d) \/ DecideAlone(d) \/ Session(d) PROVE RulesInv'
    BY <1>2, RunRules
  <1>3. CASE Abandon \/ Follow \/ NextDay \/ UNCHANGED vars
    BY <1>3, OtherRules
  <1>4. ASSUME NEW market \in Markets, Publish(market) \/ \E d \in Days : Revise(d, market)
        PROVE  RulesInv'
    BY <1>4, OtherRules
  <1> QED
    BY <1>1, <1>2, <1>3, <1>4 DEF Next, Outside

(* Every decision keeps the seats, the reserve and the caps, and carries    *)
(* the exits, and an account that follows the decisions stays one, for all  *)
(* stocks, markets and portfolios (PortfolioAllocationEngineV2.allocate).   *)
THEOREM RulesKept == Spec => []TargetsKeepTheRules
  <1>1. RulesInv => TargetsKeepTheRules
    <2> SUFFICES ASSUME RulesInv PROVE TargetsKeepTheRules
      OBVIOUS
    <2>1. CASE decision = None
      BY <2>1 DEF RulesInv, TargetsKeepTheRules, SeatsAndCash, BindingCaps, ExitsStand
    <2>2. CASE decision # None
      <3>1. Keeps(decision.before, decision.market, decision.result)
        BY <2>2 DEF RulesInv
      <3>2. SeatsAndCash
        BY <2>2, <3>1 DEF SeatsAndCash, Keeps
      <3>3. BindingCaps
        BY <2>2, <3>1 DEF BindingCaps, Keeps, Bound, Group
      <3>4. ExitsStand
        BY <2>2, <3>1 DEF ExitsStand, Keeps
      <3> QED
        BY <3>2, <3>3, <3>4 DEF RulesInv, TargetsKeepTheRules
    <2> QED
      BY <2>1, <2>2
  <1> QED
    BY <1>1, LedgerHolds, InitEarned, NextEarned, InitRules, NextRules, PTL DEF Spec
=============================================================================
