------------------------- MODULE MCPortfolioSeries -------------------------
(***************************************************************************)
(* Five stocks: three of one sector, one without a known cluster.  The     *)
(* markets differ in who crosses the hurdle, how far and with which        *)
(* signal; the portfolios have one to five holdings, near the caps.        *)
(***************************************************************************)
EXTENDS PortfolioSeries

S == 1..5
InSector == <<"a", "a", "b", "b", "a">>
InCluster == <<"p", "q", "p", "r", "q">>
OfQuality == <<60, 70, 80, 70, 80>>

Said(cer, les, hold) ==
    [cer |-> cer, les |-> les, gates |-> les # "NONE", clear |-> les = "BUY", cap |-> 300, hold |-> hold,
     trust |-> 90, premium |-> 0]

(* Nothing moves: one holding has no estimate.                              *)
Quiet == <<Said(90, "NONE", "KEEP"), Said(110, "NONE", "KEEP"), Said(150, "BUY_SMALL", "KEEP"),
           Said(NoCer, "NONE", "INSUFFICIENT"), Said(120, "BUY_SMALL", "KEEP")>>
(* The last two stocks are far ahead, without the fast path; EREM is sure    *)
(* of the second holding, and the data of the fourth stock are worse.       *)
Chance == <<Said(60, "NONE", "KEEP"), [Said(120, "NONE", "REDUCE_25") EXCEPT !.premium = 30],
            Said(150, "EARLY_BUY", "KEEP"), [Said(150, "EARLY_BUY", "KEEP") EXCEPT !.trust = 60],
            [Said(260, "EARLY_BUY", "KEEP") EXCEPT !.clear = FALSE]>>
(* The last is further ahead and clear; others must go.                     *)
Rush == <<Said(40, "NONE", "EXIT"), Said(100, "NONE", "HARD_EXIT"), Said(130, "BUY", "PEAK"),
          Said(120, "NONE", "KEEP"), Said(300, "BUY", "KEEP")>>

MCMarkets == {Quiet, Chance, Rush}
MCPortfolios == {
    <<0, 0, 900, 880, 0>>,
    <<500, 410, 400, 0, 0>>,
    <<500, 400, 400, 450, 0>>,
    <<560, 400, 500, 540, 0>>,
    <<400, 400, 300, 300, 300>>}
=============================================================================
