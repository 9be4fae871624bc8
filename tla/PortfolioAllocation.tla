------------------------ MODULE PortfolioAllocation ------------------------
(***************************************************************************)
(* Portfolio Allocation Engine v2: the decision over one request, the held *)
(* weights and the evaluation of every stock.  Pure operators, no state.   *)
(*                                                                         *)
(* Weights are counted in units of 1/2000 of the account, rounded down;    *)
(* returns in tenths of a percent.  A stock is a number, which is also its *)
(* place in every ordering.  Of a stock's evaluation in a session only     *)
(* what the engine compares is kept:                                       *)
(*   cer    certainty-equivalent return, or NoCer when an input is missing *)
(*   les    the entry signal                                               *)
(*   gates  quality, valuation, risk, falling-knife and liquidity all pass *)
(*   clear  the fast path's own conditions, but for the return             *)
(*   cap    least of its own position caps, or 0 when one is missing       *)
(*   hold   what the exit policy says of a holding: "HARD_EXIT" is the     *)
(*          fundamental one, which also bars an entry; "EXIT" stands for   *)
(*          EREM's, a breached stop and a cyclical downturn, which do not  *)
(*   trust  confidence in its data, in percent                             *)
(*   premium  what EREM's confidence in a holding adds to the hurdle       *)
(***************************************************************************)
EXTENDS Integers, FiniteSets, FiniteSetsExt, Folds

CONSTANTS
    Stocks,         \* a set of numbers
    Sector,         \* of each stock
    Cluster,        \* correlation cluster of each stock, or Unknown
    Quality,        \* quality score of each stock
    Unknown,
    Reserved        \* cash kept for other uses or near liabilities, whichever is more

NoStock == 0
NoCer == -1000

ASSUME StockAssumption ==
    /\ Stocks \subseteq Nat \ {NoStock} /\ IsFiniteSet(Stocks)
    /\ Quality \in [Stocks -> 1..100]
    /\ Reserved \in Nat

Unit == 2000
MinimumCash == IF Reserved > 200 THEN Reserved ELSE 200
SingleMax == 700
StarterMax == 200
UnknownMax == 100
SectorMax == 1000
ClusterMax == 1000
MaximumHoldings == 4
RequiredReturn == 100
CashReturn == 20
Friction == 3
BaseHurdle == 33
FullExcess == 50
ObviousExcess == 50
ObviousReturn == RequiredReturn + 70

Signals == {"BUY", "EARLY_BUY", "BUY_SMALL", "NONE"}
Evaluation ==
    [cer : Int, les : Signals, gates : BOOLEAN, clear : BOOLEAN, cap : 0..Unit,
     hold : {"HARD_EXIT", "INSUFFICIENT", "EXIT", "REDUCE_25", "PEAK", "KEEP"},
     trust : 0..100, premium : {0, 5, 10, 20, 30}]
Weights == [Stocks -> 0..Unit]

Least(S) == CHOOSE x \in S : \A y \in S : x <= y
AtLeastZero(x) == IF x < 0 THEN 0 ELSE x
WeightOf(w, S) == MapThenSumSet(LAMBDA s : w[s], S)
Held(w) == {s \in Stocks : w[s] > 0}
Cash(w) == Unit - WeightOf(w, Held(w))

Mode(w) ==
    LET n == Cardinality(Held(w))
    IN  CASE n < 3 -> "DIRECT" [] n = 3 -> "OPEN_SLOT" [] n = 4 -> "FULL" [] n > 4 -> "REDUCE_ONLY"

Signalled(e) == e.gates /\ e.les # "NONE"
Executable(e) == Signalled(e) /\ e.hold # "HARD_EXIT" /\ e.cer # NoCer /\ e.cer >= RequiredReturn
Factor(les) == CASE les = "BUY" -> 100 [] les = "EARLY_BUY" -> 65 [] les = "BUY_SMALL" -> 50 [] les = "NONE" -> 0

(***************************************************************************)
(* Exits.                                                                  *)
(***************************************************************************)
(* What the exit policy leaves of a holding.                                *)
Left(weight, hold) ==
    CASE hold \in {"HARD_EXIT", "EXIT"} -> 0
      [] hold \in {"REDUCE_25", "PEAK"} -> (weight * 3) \div 4
      [] hold \in {"INSUFFICIENT", "KEEP"} -> weight

HoldingTargets(w, market) == [s \in Stocks |-> Left(w[s], market[s].hold)]

(* Mutant: every holding of an oversized portfolio is only marked.          *)
BreachTargetsMarked(w, market) == w

(* With too many holdings exits and trims stand, the others are marked.     *)
BreachTargets(w, market) == HoldingTargets(w, market)

(***************************************************************************)
(* Weights.                                                                *)
(***************************************************************************)
(* Mutant: the reserve is forgotten.                                        *)
CashCapacityAll(w) == Cash(w)

CashCapacity(w) == AtLeastZero(Cash(w) - MinimumCash)

Peers(w, of, s, out) == WeightOf(w, {h \in Held(w) \ {out} : of[h] = of[s]})

(* Mutant: a sector takes newcomers until it is over its cap.               *)
SectorRoomAny(w, s, out) == IF Peers(w, Sector, s, out) < SectorMax THEN Unit ELSE 0

SectorRoom(w, s, out) == AtLeastZero(SectorMax - Peers(w, Sector, s, out))

ClusterRoom(w, s, out) ==
    IF Cluster[s] = Unknown THEN UnknownMax ELSE AtLeastZero(ClusterMax - Peers(w, Cluster, s, out))

Target(w, market, s, available, out) ==
    LET caps == {market[s].cap, SingleMax, StarterMax, available, SectorRoom(w, s, out), ClusterRoom(w, s, out)}
    IN  (Least(caps) * Factor(market[s].les)) \div 100

(* The portfolio with s at that weight, and without out, returns more after *)
(* friction, is of no lower quality and keeps the reserve.                  *)
Improves(w, market, s, target, out) ==
    LET rest == Held(w) \ {out}
        cash == AtLeastZero(Unit - WeightOf(w, rest) - target)
        value(S) == MapThenSumSet(LAMBDA h : w[h] * market[h].cer, S)
        known == {h \in Held(w) : market[h].cer # NoCer}
        before == value(known) + Cash(w) * CashReturn
        after == value(rest) + target * market[s].cer + cash * CashReturn
        merit(S) == MapThenSumSet(LAMBDA h : w[h] * Quality[h], S)
    IN  /\ \A h \in rest : market[h].cer # NoCer
        /\ after - before - target * Friction > 0
        /\ (merit(rest) + target * Quality[s]) * WeightOf(w, Held(w))
           >= merit(Held(w)) * (WeightOf(w, rest) + target)
        /\ cash >= MinimumCash

(***************************************************************************)
(* Replacement.                                                            *)
(***************************************************************************)
(* switch_hurdle: buffer and friction, up to 2% for worse data, and the     *)
(* premium of the incumbent.                                                *)
Hurdle(market, s, out) ==
    BaseHurdle + AtLeastZero(market[out].trust - market[s].trust) \div 5 + market[out].premium

Excess(market, s, out) == market[s].cer - market[out].cer - Hurdle(market, s, out)

(* pair_crosses_replacement_hurdle                                          *)
Crosses(market, s, out) ==
    /\ Executable(market[s])
    /\ Quality[s] >= Quality[out]
    /\ market[out].cer # NoCer
    /\ Excess(market, s, out) > 0

FastPath(market, s, out) ==
    /\ market[s].les \in {"BUY", "EARLY_BUY"} /\ market[s].clear
    /\ market[s].cer >= ObviousReturn
    /\ Excess(market, s, out) >= ObviousExcess

(* replacement_comparison; the pair's evidence is its recent observations.  *)
Replaces(market, s, out, persistent) ==
    /\ Crosses(market, s, out)
    /\ FastPath(market, s, out) \/ (persistent /\ Excess(market, s, out) >= FullExcess)

(***************************************************************************)
(* The decision.                                                           *)
(***************************************************************************)
Decided(mode, target, in, out, fast) ==
    [mode |-> mode, target |-> target, in |-> in, out |-> out, fast |-> fast]

(* The order in which the direct selection looks at the candidates.         *)
Rank(les) == CASE les = "BUY" -> 0 [] les = "EARLY_BUY" -> 1 [] les = "BUY_SMALL" -> 2 [] les = "NONE" -> 3
Before(market, s, t) ==
    \/ Rank(market[s].les) < Rank(market[t].les)
    \/ Rank(market[s].les) = Rank(market[t].les) /\ Quality[s] > Quality[t]
    \/ Rank(market[s].les) = Rank(market[t].les) /\ Quality[s] = Quality[t] /\ s < t

(* One candidate more gets its weight from the cash that is left, if a seat *)
(* is left too.                                                             *)
Take(w, market, s, so) ==
    LET t == Target(w, market, s, so.cash, NoStock)
    IN  IF so.slots = 0 \/ so.cash = 0 \/ t = 0 THEN so
        ELSE [slots |-> so.slots - 1, cash |-> so.cash - t, target |-> [so.target EXCEPT ![s] = t],
              in |-> so.in \cup {s}]

(* Fewer than three holdings: the entry signals fill the seats up to three. *)
DirectSelection(w, market) ==
    LET queue == {s \in Stocks \ Held(w) : Signalled(market[s]) /\ market[s].hold # "HARD_EXIT"}
        last(S) == CHOOSE t \in S : \A s \in S \ {t} : Before(market, s, t)
        end == MapThenFoldSet(LAMBDA s, so : Take(w, market, s, so),
                              [slots |-> 3 - Cardinality(Held(w)), cash |-> CashCapacity(w),
                               target |-> HoldingTargets(w, market), in |-> {}],
                              LAMBDA s : s, last, queue)
    IN  Decided("DIRECT", end.target, end.in, NoStock, FALSE)

(* rank_candidates: by capital claim, quality, number.                      *)
Claim(market, s) == (market[s].cer - RequiredReturn) * Factor(market[s].les)
Ahead(market, s, t) ==
    \/ Claim(market, s) > Claim(market, t)
    \/ Claim(market, s) = Claim(market, t) /\ Quality[s] > Quality[t]
    \/ Claim(market, s) = Claim(market, t) /\ Quality[s] = Quality[t] /\ s < t
Candidates(w, market) == {s \in Stocks \ Held(w) : Executable(market[s])}

(* Three holdings: the best candidate that improves the portfolio, if any.  *)
OpenSlot(w, market) ==
    LET target(s) == Target(w, market, s, CashCapacity(w), NoStock)
        fit == {s \in Candidates(w, market) : target(s) > 0 /\ Improves(w, market, s, target(s), NoStock)}
        held == HoldingTargets(w, market)
    IN  IF fit = {} THEN Decided("OPEN_SLOT", held, {}, NoStock, FALSE)
        ELSE LET s == CHOOSE s \in fit : \A t \in fit \ {s} : Ahead(market, s, t)
             IN  Decided("OPEN_SLOT", [held EXCEPT ![s] = target(s)], {s}, NoStock, FALSE)

(* Mutant: the seat of the incumbent is not released.                       *)
SwappedKeeping(targets, s, target, out) == [targets EXCEPT ![s] = target]

(* The two lines of a replacement.                                          *)
Swapped(targets, s, target, out) == [targets EXCEPT ![s] = target, ![out] = 0]

(* The order of the search: excess, then rank, then place among the holdings. *)
Better(market, p, q) ==
    LET x == Excess(market, p[1], p[2])
        y == Excess(market, q[1], q[2])
    IN  \/ x > y
        \/ x = y /\ Ahead(market, p[1], q[1])
        \/ x = y /\ p[1] = q[1] /\ p[2] < q[2]

(* Four holdings: the pair of greatest excess, the first of equals.         *)
FullPortfolio(w, market, persistent) ==
    LET target(p) == Target(w, market, p[1], CashCapacity(w) + w[p[2]], p[2])
        fit == {p \in Candidates(w, market) \X Held(w) :
                   /\ Replaces(market, p[1], p[2], p \in persistent)
                   /\ target(p) > 0 /\ Improves(w, market, p[1], target(p), p[2])}
        held == HoldingTargets(w, market)
    IN  IF fit = {} THEN Decided("FULL", held, {}, NoStock, FALSE)
        ELSE LET p == CHOOSE p \in fit : \A q \in fit \ {p} : Better(market, p, q)
             IN  Decided("FULL", Swapped(held, p[1], target(p), p[2]), {p[1]}, p[2], FastPath(market, p[1], p[2]))

(* PortfolioAllocationEngineV2.allocate; persistent are the pairs whose     *)
(* evidence suffices.                                                       *)
Allocate(w, market, persistent) ==
    CASE Mode(w) = "DIRECT" -> DirectSelection(w, market)
      [] Mode(w) = "OPEN_SLOT" -> OpenSlot(w, market)
      [] Mode(w) = "FULL" -> FullPortfolio(w, market, persistent)
      [] Mode(w) = "REDUCE_ONLY" -> Decided("REDUCE_ONLY", BreachTargets(w, market), {}, NoStock, FALSE)
=============================================================================
