--------------------------------- MODULE Bars ---------------------------------
(***************************************************************************)
(* The additive measures of gold_bars_1m (src/awsnative/bars.py): a bar    *)
(* from the trades inside it, and the measures a rollup of bars reports.   *)
(*                                                                         *)
(* A bar's trades are given as their positions on the tape, which are in   *)
(* event order, and a rollup takes a function to bars: no measure depends  *)
(* on the order of the bars.  Ratios are kept as the pair of their         *)
(* numerator and denominator.  The squared log return of a bar is the pair *)
(* of its open and close prices, which is what it is computed from; a sum  *)
(* of them is a bag of pairs.                                              *)
(***************************************************************************)
EXTENDS Integers, Sequences, FiniteSetsExt, Functions

CONSTANTS Prices, Sizes,   \* small sets of numbers
          MaxMinutes,      \* bound: minutes
          MaxTrades        \* bound: trades of the whole window

ASSUME BarInputs == Prices \subseteq Nat \ {0} /\ Sizes \subseteq Nat /\ MaxMinutes \in Nat

VARIABLES tape,    \* the trades of the window, in event order
          minute   \* the minute that runs

barVars == <<tape, minute>>

Trade == [price : Prices, size : Sizes, side : {"BUY", "SELL"}, minute : 1..MaxMinutes]

-----------------------------------------------------------------------------
\* ADDITIVE_SUM: what one trade adds to each of them.
Adds(t, measure) ==
  CASE measure = "volume" -> t.size
    [] measure = "notional" -> t.price * t.size
    [] measure = "buy_vol" -> IF t.side = "BUY" THEN t.size ELSE 0
    [] measure = "sell_vol" -> IF t.side = "SELL" THEN t.size ELSE 0
Total(at, measure) == SumFunction([i \in at |-> Adds(tape[i], measure)])
PricesOf(at) == {tape[i].price : i \in at}

\* Bar and bar_from_trades.  A bar without a trade is a ValueError.
BarFromTrades(at) ==
  [open |-> tape[Min(at)].price, close |-> tape[Max(at)].price,
   high |-> Max(PricesOf(at)), low |-> Min(PricesOf(at)),
   volume |-> Total(at, "volume"), notional |-> Total(at, "notional"),
   buy_vol |-> Total(at, "buy_vol"), sell_vol |-> Total(at, "sell_vol"),
   sq_log_return |-> <<tape[Min(at)].price, tape[Max(at)].price>>,
   trade_count |-> Cardinality(at)]

\* ADDITIVE_SUM, ADDITIVE_EXTREMA and rollup, with Measures.  It has neither
\* open nor close; zero volume is a ValueError.
RollSum(bars, measure) == SumFunction([b \in DOMAIN bars |-> bars[b][measure]])
FieldOf(bars, field) == {bars[b][field] : b \in DOMAIN bars}

CanRollup_Always(bars) == DOMAIN bars # {}
CanRollup(bars) == DOMAIN bars # {} /\ RollSum(bars, "volume") > 0

Vwap(bars) == <<RollSum(bars, "notional"), RollSum(bars, "volume")>>

Rollup(bars) ==
  [vwap |-> Vwap(bars),
   high |-> Max(FieldOf(bars, "high")), low |-> Min(FieldOf(bars, "low")),
   realized_vol |-> [r \in FieldOf(bars, "sq_log_return") |->
                       Cardinality({b \in DOMAIN bars : bars[b].sq_log_return = r})],
   flow_imbalance |-> <<RollSum(bars, "buy_vol") - RollSum(bars, "sell_vol"), RollSum(bars, "volume")>>,
   volume |-> RollSum(bars, "volume"), trade_count |-> RollSum(bars, "trade_count")]

-----------------------------------------------------------------------------
\* The bars of n minutes each: the merge makes none for a time without a trade.
Grain(n, i) == tape[i].minute \div n
BarsOf(n) ==
  [g \in {Grain(n, i) : i \in DOMAIN tape} |-> BarFromTrades({i \in DOMAIN tape : Grain(n, i) = g})]
\* One bar of the whole window.
Whole == [g \in {"window"} |-> BarFromTrades(DOMAIN tape)]

BarsInit == tape = <<>> /\ minute = 1
TradeArrives(t) ==
  /\ Len(tape) < MaxTrades /\ t.minute = minute
  /\ tape' = Append(tape, t) /\ UNCHANGED minute
MinutePasses == minute < MaxMinutes /\ minute' = minute + 1 /\ UNCHANGED tape
BarsNext == MinutePasses \/ \E t \in Trade : TradeArrives(t)

BarsSpec == BarsInit /\ [][BarsNext]_barVars

-----------------------------------------------------------------------------
(* Properties. *)

SameRatio(p, q) == p[1] * q[2] = q[1] * p[2]

\* A measure is the same at every grain: rolling up the bars of one minute, or
\* of several, and making one bar of all their trades agree on vwap, extrema,
\* imbalance, volume and count, however the trades fall into minutes
\* (bar_from_trades and rollup).  A rollup that answers has a positive volume
\* and answers sensibly: the vwap between the extremes, the imbalance between
\* minus one and one.
RollupComposes ==
  \A n \in 1..MaxMinutes : CanRollup(BarsOf(n)) =>
    LET fine == Rollup(BarsOf(n))
        coarse == Rollup(Whole) IN
    /\ SameRatio(fine.vwap, coarse.vwap)
    /\ SameRatio(fine.flow_imbalance, coarse.flow_imbalance)
    /\ <<fine.high, fine.low, fine.volume, fine.trade_count>>
         = <<coarse.high, coarse.low, coarse.volume, coarse.trade_count>>
    /\ fine.vwap[2] > 0
    /\ fine.low * fine.vwap[2] <= fine.vwap[1] /\ fine.vwap[1] <= fine.high * fine.vwap[2]
    /\ -fine.flow_imbalance[2] <= fine.flow_imbalance[1]
    /\ fine.flow_imbalance[1] <= fine.flow_imbalance[2]
=============================================================================
