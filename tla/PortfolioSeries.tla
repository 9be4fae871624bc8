-------------------------- MODULE PortfolioSeries --------------------------
(***************************************************************************)
(* A portfolio decided session after session.  A run evaluates one         *)
(* published session, records of every pair of a candidate and a holding   *)
(* whether the candidate crosses the replacement hurdle, and lets the      *)
(* engine decide with the recent observations of each pair.  The ordinary  *)
(* store records and loads in two transactions and overwrites what a rerun *)
(* evaluates anew; the research store does all in one transaction and      *)
(* seals each session once, in the order of the days.                      *)
(***************************************************************************)
EXTENDS PortfolioAllocation

CONSTANTS
    Window,         \* persistence_window_sessions
    RequiredPasses, \* persistence_required_sessions
    LastDay,        \* bound on the calendar
    Markets,        \* what a session's data can say: [Stocks -> Evaluation]
    Portfolios,     \* the weights an account may start with
    MaxEvents,      \* bound on revisions of data and kills
    None

ASSUME SeriesAssumption ==
    /\ Window \in Nat \ {0} /\ RequiredPasses \in 1..Window
    /\ LastDay \in Nat \ {0} /\ MaxEvents \in Nat
    /\ Markets \subseteq [Stocks -> Evaluation]
    /\ Portfolios \subseteq Weights /\ \A w \in Portfolios : WeightOf(w, Held(w)) <= Unit

VARIABLES
    kind,           \* the store of this series: "ordinary" or "research"
    day,            \* wall clock
    data,           \* published data of each session, or None
    weights,        \* the account
    rows,           \* observations of each session: partial function of pairs
    sealed,         \* research: the observations each sealed session consists of
    run,            \* None, or the session of a run between its transactions
    decision,       \* None, or the last run's decision and what it was about
    traded,         \* day of the owner's last transaction
    events,         \* events and kills so far
    judged,         \* history: what the last evaluation of a session said of a pair
    answers         \* history: the evidence the research store gave of each session

vars == <<kind, day, data, weights, rows, sealed, run, decision, events, traded, judged, answers>>

Days == 1..LastDay
Published == {d \in Days : data[d] # None}
Pairs(w) == (Stocks \ Held(w)) \X Held(w)
AllPairs == {p \in Stocks \X Stocks : p[1] # p[2]}

Over(new, old) == [p \in DOMAIN new \cup DOMAIN old |-> IF p \in DOMAIN new THEN new[p] ELSE old[p]]

(* persistence_observations                                                 *)
Observations(w, market) == [p \in Pairs(w) |-> Crosses(market, p[1], p[2])]

(* The passes among the latest recorded sessions of the pair up to d.       *)
RecentPasses(kept, d, p) ==
    LET recorded == {e \in 1..d : p \in DOMAIN kept[e]}
    IN  {e \in recorded : kept[e][p] /\ Cardinality({f \in recorded : f > e}) < Window}

Evidence(kept, d, w) == [p \in Pairs(w) |-> RecentPasses(kept, d, p)]

(* persistence_passed                                                       *)
Persistent(evidence) == {p \in DOMAIN evidence : Cardinality(evidence[p]) >= RequiredPasses}

Advice(d, evidence) ==
    [date |-> d, before |-> weights, market |-> data[d],
     result |-> Allocate(weights, data[d], Persistent(evidence))]

Init ==
    /\ kind \in {"ordinary", "research"}
    /\ day = 1
    /\ data = [d \in Days |-> None]
    /\ weights \in Portfolios
    /\ rows = [d \in Days |-> <<>>]
    /\ sealed = <<>>
    /\ run = None /\ decision = None
    /\ traded = 0 /\ events = 0
    /\ judged = [d \in Days |-> <<>>]
    /\ answers = [d \in Days |-> {}]

-----------------------------------------------------------------------------
(* No holdings or no candidates: the engine decides without evidence.       *)
Trivial == Pairs(weights) = {}

Judge(d) == judged' = [judged EXCEPT ![d] = Over(Observations(weights, data[d]), @)]

(* Mutant: the observations are filed under the day of the run.             *)
FiledAtClock(d) == [rows EXCEPT ![day] = Over(Observations(weights, data[d]), @)]

(* Every pair of the run is written or overwritten; others stay.            *)
Filed(d) == [rows EXCEPT ![d] = Over(Observations(weights, data[d]), @)]

(* Ordinary store: the first transaction of a run.                          *)
Record(d) ==
    /\ kind = "ordinary" /\ run = None
    /\ d \in Published /\ ~Trivial
    /\ rows' = Filed(d) /\ Judge(d)
    /\ run' = d
    /\ decision' = None
    /\ UNCHANGED <<kind, day, data, weights, sealed, events, traded, answers>>

(* The second: the evidence up to the session is loaded and the engine      *)
(* decides.                                                                 *)
Decide ==
    /\ run # None
    /\ decision' = Advice(run, Evidence(rows, run, weights))
    /\ run' = None
    /\ UNCHANGED <<kind, day, data, weights, rows, sealed, events, traded, judged, answers>>

(* A kill or an error of the database between the two.                      *)
Abandon ==
    /\ run # None /\ events < MaxEvents
    /\ events' = events + 1
    /\ run' = None
    /\ UNCHANGED <<kind, day, data, weights, rows, sealed, decision, traded, judged, answers>>

DecideAlone(d) ==
    /\ kind = "ordinary" /\ run = None
    /\ d \in Published /\ Trivial
    /\ decision' = Advice(d, <<>>)
    /\ UNCHANGED <<kind, day, data, weights, rows, sealed, run, events, traded, judged, answers>>

-----------------------------------------------------------------------------
(* Mutant: a session may be added behind the latest one.                    *)
InAnyOrder(d) == TRUE

InOrder(d) == \A e \in DOMAIN sealed : e <= d

(* Mutant: a sealed session accepts other observations.                     *)
AcceptsChanged(d, observed) == TRUE

Unchanged(d, observed) == d \in DOMAIN sealed => sealed[d] = observed

(* Research store: identity, order, observations, evidence and decision in  *)
(* one transaction; without pairs an empty session is sealed.  A refusal, a *)
(* changed version or a kill rolls it back.                                 *)
Session(d) ==
    LET observed == Observations(weights, data[d])
        kept == [rows EXCEPT ![d] = observed]
        evidence == Evidence(kept, d, weights)
    IN  /\ kind = "research"
        /\ d \in Published
        /\ InOrder(d) /\ Unchanged(d, observed)
        /\ rows' = kept /\ Judge(d)
        /\ sealed' = [e \in DOMAIN sealed \cup {d} |-> IF e = d THEN observed ELSE sealed[e]]
        /\ decision' = Advice(d, evidence)
        /\ answers' = [answers EXCEPT ![d] = @ \cup {evidence}]
        /\ UNCHANGED <<kind, day, data, weights, run, events, traded>>

-----------------------------------------------------------------------------
(* The owner carries out the decision, once a day at most, or never does.   *)
Follow ==
    /\ run = None /\ decision # None
    /\ traded < day
    /\ traded' = day
    /\ weights' = decision.result.target
    /\ decision' = None
    /\ UNCHANGED <<kind, day, data, rows, sealed, run, events, judged, answers>>

(* Data of a session appear on its day, and may be revised later.           *)
Publish(market) ==
    /\ run = None
    /\ data[day] = None
    /\ data' = [data EXCEPT ![day] = market]
    /\ decision' = None
    /\ UNCHANGED <<kind, day, weights, rows, sealed, run, events, traded, judged, answers>>

Revise(d, market) ==
    /\ run = None /\ events < MaxEvents
    /\ d \in Published /\ data[d] # market
    /\ data' = [data EXCEPT ![d] = market]
    /\ events' = events + 1
    /\ decision' = None
    /\ UNCHANGED <<kind, day, weights, rows, sealed, run, traded, judged, answers>>

NextDay ==
    /\ run = None /\ day < LastDay
    /\ day' = day + 1
    /\ decision' = None
    /\ UNCHANGED <<kind, data, weights, rows, sealed, run, events, traded, judged, answers>>

Outside == NextDay \/ \E market \in Markets : Publish(market) \/ \E d \in Days : Revise(d, market)

Next ==
    \/ Decide \/ Abandon
    \/ \E d \in Days : Record(d) \/ DecideAlone(d) \/ Session(d)
    \/ Follow \/ Outside

Spec == Init /\ [][Next]_vars

-----------------------------------------------------------------------------
(* Only cells of the grid hold observations, and a decided account is one:  *)
(* its weights and its cash are not negative.                               *)
TypeOK ==
    /\ kind \in {"ordinary", "research"} /\ day \in Days
    /\ data \in [Days -> Markets \cup {None}]
    /\ weights \in Weights /\ WeightOf(weights, Held(weights)) <= Unit
    /\ \A d \in Days : /\ DOMAIN rows[d] \subseteq AllPairs
                       /\ \A p \in DOMAIN rows[d] : rows[d][p] \in BOOLEAN
    /\ DOMAIN sealed \subseteq Days
    /\ run \in Published \cup {None} /\ (run # None => kind = "ordinary")
    /\ traded \in 0..day /\ events \in 0..MaxEvents

(* A holding is given up for a candidate, but on the fast path, only when   *)
(* enough different sessions, among the latest ones judged of this pair and *)
(* none after the one decided, had the candidate across the hurdle: reruns  *)
(* on old data, retries after a kill and backfills never count a session    *)
(* twice, use a verdict since taken back or look ahead                      *)
(* (_evaluate_native_persistence, load_recent_v2).                          *)
RotationIsEarned ==
    decision # None /\ decision.result.out # NoStock /\ ~decision.result.fast =>
        \A s \in decision.result.in :
            LET p == <<s, decision.result.out>>
            IN  \E first \in 1..decision.date :
                    LET since == {d \in first..decision.date : p \in DOMAIN judged[d]}
                    IN  /\ Cardinality(since) <= Window
                        /\ Cardinality({d \in since : judged[d][p]}) >= RequiredPasses

(* The research store answers every evaluation of a session alike, whatever *)
(* was decided, revised or retried in between (evaluate_session_v2).        *)
Reproducible == \A d \in Days : Cardinality(answers[d]) <= 1

(* The research store is a ledger of sessions: each sealed once, in the     *)
(* order of the days, for good (record_session_v2 of _ResearchSession).     *)
Ledger == INSTANCE SessionLedger WITH SessionDays <- Days
SealedForGood == Ledger!Spec

(* Newcomers leave the cash reserve, and a decision never leads from four   *)
(* holdings or fewer to more than four, the count at which the engine fails *)
(* the run (allocate).                                                      *)
SeatsAndCash ==
    decision # None =>
        LET target == decision.result.target
        IN  /\ Cardinality(Held(decision.before)) <= MaximumHoldings =>
                   Cardinality(Held(target)) <= MaximumHoldings
            /\ decision.result.in # {} => Cash(target) >= MinimumCash

(* When the decision binds, the newcomer keeps its sector and its cluster   *)
(* within their caps (target_weight).                                       *)
BindingCaps ==
    decision # None /\ decision.result.mode \in {"OPEN_SLOT", "FULL"} =>
        \A s \in decision.result.in :
            LET target == decision.result.target
                group(of) == WeightOf(target, {h \in Held(target) : of[h] = of[s]})
            IN  /\ group(Sector) <= SectorMax
                /\ IF Cluster[s] = Unknown THEN target[s] <= UnknownMax ELSE group(Cluster) <= ClusterMax

(* An exit or a trim is carried into every decision, also into that over a  *)
(* portfolio of too many holdings, which buys nothing (breach_lines).       *)
ExitsStand ==
    decision # None =>
        LET target == decision.result.target
        IN  /\ \A s \in Held(decision.before) :
                   target[s] <= Left(decision.before[s], decision.market[s].hold)
            /\ decision.result.mode = "REDUCE_ONLY" => Held(target) \subseteq Held(decision.before)

(* Every decision keeps seats, cash and caps, and carries the exits, and    *)
(* leaves an account whose weights and cash are not negative.               *)
TargetsKeepTheRules == TypeOK /\ SeatsAndCash /\ BindingCaps /\ ExitsStand
=============================================================================
