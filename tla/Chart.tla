-------------------------------- MODULE Chart --------------------------------
(***************************************************************************)
(* The price chart of the trade page (ChartSection of page.tsx): bars      *)
(* loaded from the keeper for a market and a timeframe, extended by the    *)
(* live price of useOracle, and the series the chart library draws, which  *)
(* is built from a snapshot of the bars and then only fed its last bar.    *)
(* An action is an event with every effect React runs after it, up to the  *)
(* two things that are asynchronous: the keeper's answer, and the import   *)
(* of the chart library.                                                   *)
(***************************************************************************)
EXTENDS Integers, Sequences, SequencesExt, FiniteSetsExt

CONSTANTS
    ChartPrices,   \* live prices; 0 is "none yet"
    LastMoment     \* bound on the clock

ASSUME ChartAssumption == ChartPrices \subseteq Nat \ {0} /\ LastMoment \in Nat

VARIABLES
    moment,
    live,       \* useOracle of the selected market: price and lastUpdated
    timeframe,
    mode,       \* line or candle
    bars,       \* chartData
    lastLive,   \* lastLiveRef
    loading,    \* a load of the present market and timeframe is under way
    seed,       \* oracle.price as the load effect captured it when it started
    own,        \* the bars were loaded for the present market and timeframe
    building,   \* snapshot handed to the import of the library; <<>> if none
    drawn,      \* the series on screen; <<>> if there is no chart
    trader      \* the wallet has a margin account, polled every 3 s

chartVars == <<moment, live, timeframe, mode, bars, lastLive, loading, seed, own,
               building, drawn, trader>>

Timeframes == {"live", "hours"}

\* TF_CONFIG: a short bucket for live prices, longer ones for candles.
Bucket(tf, t) == IF tf = "live" THEN t ELSE (t \div 2) * 2

\* A new bar that leaves the gap to the last close out of its range.
BarOfOwn(t, o, p) == [at |-> t, open |-> o, high |-> p, low |-> p, close |-> p]

Bar(t, o, p) == [at |-> t, open |-> o, high |-> Max({o, p}), low |-> Min({o, p}), close |-> p]

WithPrice(bar, p) == [bar EXCEPT !.high = Max({@, p}), !.low = Min({@, p}), !.close = p]

ApplyLivePrice(points, p, tf, t) ==
    LET bucket == Bucket(tf, t)
        last   == Last(points)
    IN IF p <= 0 THEN points
       ELSE IF points = <<>> THEN <<Bar(bucket, p, p)>>
       ELSE IF last.at = bucket
       THEN [points EXCEPT ![Len(points)] = WithPrice(last, p)]
       ELSE IF bucket > last.at THEN Append(points, Bar(bucket, last.close, p))
       ELSE points

-----------------------------------------------------------------------------
(* Drawing.                                                                *)
Snapshot(points, mine) == [points |-> points, own |-> mine]
NoChart == Snapshot(<<>>, FALSE)
Enough(points) == Len(points) >= 2

\* The library takes a bar at or after its last one, and throws otherwise.
Fed(series, bar) ==
    LET old == series.points IN
    IF series = NoChart \/ Last(old).at > bar.at THEN series
    ELSE IF Last(old).at = bar.at
    THEN [series EXCEPT !.points = [old EXCEPT ![Len(old)] = bar]]
    ELSE [series EXCEPT !.points = Append(old, bar)]

\* The chart is removed and, with enough bars, built again from a snapshot.
Rebuild(points, mine) ==
    /\ drawn' = NoChart
    /\ building' = IF Enough(points) THEN Snapshot(points, mine) ELSE NoChart

\* The bars changed: the chart is built again when there are enough of them
\* for the first time or not any more, and only fed the last bar otherwise.
Redraw(points, mine) ==
    IF Enough(points) # Enough(bars) THEN Rebuild(points, mine)
    ELSE /\ drawn' = IF points = <<>> THEN drawn ELSE Fed(drawn, Last(points))
         /\ UNCHANGED building

-----------------------------------------------------------------------------
(* The effect that appends every live price.                               *)
Extended(points, p, t, tf) ==
    IF p <= 0 \/ (p = lastLive /\ points # <<>>) THEN points
    ELSE ApplyLivePrice(points, p, tf, IF t > 0 THEN t ELSE moment)

Remembered(p) == IF p > 0 THEN p ELSE lastLive

MomentPasses ==
    /\ moment < LastMoment
    /\ moment' = moment + 1
    /\ UNCHANGED <<live, timeframe, mode, bars, lastLive, loading, seed, own, building,
                   drawn, trader>>

\* useOracle reports a price.
LivePrice(p) ==
    /\ live' = [price |-> p, at |-> moment]
    /\ bars' = Extended(bars, p, moment, timeframe)
    /\ lastLive' = Remembered(p)
    /\ Redraw(bars', own)
    /\ UNCHANGED <<moment, timeframe, mode, loading, seed, own, trader>>

\* Another market or timeframe: the load starts again with the price of this
\* moment in its closure, the live price is appended to the old bars, and the
\* chart is built again from them.
Reload(now, tf) ==
    /\ loading' = TRUE
    /\ seed' = now.price
    /\ own' = FALSE
    /\ Rebuild(bars, FALSE)
    /\ bars' = Extended(bars, now.price, now.at, tf)
    /\ lastLive' = Remembered(now.price)
    /\ UNCHANGED <<moment, trader>>

SelectMarket ==
    /\ \E p \in ChartPrices \cup {0}, t \in 1..moment : live' = [price |-> p, at |-> t]
    /\ Reload(live', timeframe)
    /\ UNCHANGED <<timeframe, mode>>

SelectTimeframe(tf) ==
    /\ tf # timeframe
    /\ timeframe' = tf
    /\ mode' = IF tf = "live" THEN "line" ELSE mode
    /\ Reload(live, tf)
    /\ UNCHANGED live

SelectMode(d) ==
    /\ d # mode
    /\ d = "candle" => timeframe # "live"
    /\ mode' = d
    /\ Rebuild(bars, own)
    /\ UNCHANGED <<moment, live, timeframe, bars, lastLive, loading, seed, own, trader>>

\* The timer of the load effect.
LoadAgain ==
    /\ ~loading
    /\ loading' = TRUE
    /\ UNCHANGED <<moment, live, timeframe, mode, bars, lastLive, seed, own, building,
                   drawn, trader>>

\* The keeper's readings of some past moments: rows of /prices, put into
\* buckets one by one, or candles, which it has made in the same way.
FromRows(tf, times, prices) ==
    LET upTo[t \in 0 .. moment] ==
            IF t = 0 THEN <<>>
            ELSE IF t \in times THEN ApplyLivePrice(upTo[t - 1], prices[t], tf, t)
            ELSE upTo[t - 1]
    IN  upTo[moment]

LoadArrives ==
    /\ loading
    /\ loading' = FALSE
    /\ \E times \in SUBSET (1..moment) : \E prices \in [times -> ChartPrices] :
          bars' = ApplyLivePrice(FromRows(timeframe, times, prices), seed, timeframe, moment)
    /\ own' = TRUE
    /\ Redraw(bars', TRUE)
    /\ UNCHANGED <<moment, live, timeframe, mode, lastLive, seed, trader>>

LoadFails ==
    /\ loading
    /\ loading' = FALSE
    /\ bars' = <<>>
    /\ own' = TRUE
    /\ Redraw(bars', TRUE)
    /\ UNCHANGED <<moment, live, timeframe, mode, lastLive, seed, trader>>

\* The library is there: the series shows the snapshot, not the present bars.
Build ==
    /\ building # NoChart
    /\ drawn' = building
    /\ building' = NoChart
    /\ UNCHANGED <<moment, live, timeframe, mode, bars, lastLive, loading, seed, own, trader>>

\* Every poll of a margin account makes a new array of positions, on which
\* the chart depends; without an account the array stays the same.
PositionsPolled ==
    /\ trader
    /\ Rebuild(bars, own)
    /\ UNCHANGED <<moment, live, timeframe, mode, bars, lastLive, loading, seed, own, trader>>

-----------------------------------------------------------------------------
ChartInit ==
    /\ moment = 1
    /\ live = [price |-> 0, at |-> 0]
    /\ timeframe = "live"
    /\ mode = "line"
    /\ bars = <<>>
    /\ lastLive = 0
    /\ loading = TRUE
    /\ seed = 0
    /\ own = FALSE
    /\ building = NoChart
    /\ drawn = NoChart
    /\ trader \in BOOLEAN

ChartNext ==
    \/ MomentPasses
    \/ \E p \in ChartPrices : LivePrice(p)
    \/ SelectMarket
    \/ \E tf \in Timeframes : SelectTimeframe(tf)
    \/ \E d \in {"line", "candle"} : SelectMode(d)
    \/ LoadAgain
    \/ LoadArrives
    \/ LoadFails
    \/ Build
    \/ PositionsPolled

ChartSpec == ChartInit /\ [][ChartNext]_chartVars
-----------------------------------------------------------------------------
SoundBars(points) ==
    /\ \A i, j \in DOMAIN points : i < j => points[i].at < points[j].at
    /\ \A i \in DOMAIN points :
          LET b == points[i] IN
          b.low <= b.open /\ b.low <= b.close /\ b.high >= b.open /\ b.high >= b.close

(* Whatever order loads, live prices, changes of market, timeframe and     *)
(* chart mode come in, the bars and the series drawn from them are in      *)
(* strict order of time, which the library requires, and every bar's range *)
(* holds its open and its close.                                           *)
ChartSound == SoundBars(bars) /\ SoundBars(drawn.points) /\ SoundBars(building.points)

(* page.tsx:614 says a load is seeded "with current live oracle price": the *)
(* last bar of a load that has just arrived closes at the price shown.     *)
(* Violated: the effect keeps the price of the moment it started, at every *)
(* later tick of its timer.                                                *)
SeededWithLivePrice ==
    [][loading /\ ~loading' /\ bars' # <<>> /\ live.price > 0
            => Last(bars').close = live.price]_chartVars

(* page.tsx:656 and 793 say the series is created when the timeframe       *)
(* changes and then fed the live bar: once the new bars are there, what is *)
(* drawn was loaded for the market and timeframe selected.  Violated: the  *)
(* series is built from the old bars before the answer and never again.    *)
DrawnAsSelected ==
    ~loading /\ building = NoChart /\ drawn # NoChart => drawn.own
=============================================================================
