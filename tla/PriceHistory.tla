---------------------------- MODULE PriceHistory ----------------------------
(***************************************************************************)
(* The price history of watch-keeper.js: one point per pushed price, at    *)
(* most one every RECORD_INTERVAL_S seconds and HISTORY_MAX_POINTS in all, *)
(* written to history.json now and then, and the candles and rows that the *)
(* API computes from it.  Markets share nothing; this is one of them.      *)
(***************************************************************************)
EXTENDS Integers, Sequences, FiniteSets, FiniteSetsExt, SequencesExt

CONSTANTS
    Prices,
    RecordInterval,     \* RECORD_INTERVAL_S
    MaxPoints,          \* HISTORY_MAX_POINTS
    Resolution,         \* seconds per candle
    MaxTime             \* bound on the clock

ASSUME HistoryAssumption ==
    /\ Prices \subseteq Nat \ {0}
    /\ {RecordInterval, MaxPoints, Resolution, MaxTime} \subseteq Nat \ {0}

VARIABLES
    clock,
    points,         \* history[marketId], oldest first
    historyFile

historyVars == <<clock, points, historyFile>>

Points == [ts: 0 .. MaxTime, price: Prices]

HistoryTypeOK ==
    /\ clock \in 0 .. MaxTime
    /\ points \in Seq(Points) /\ Len(points) <= MaxPoints
    /\ historyFile \in Seq(Points)

HistoryInit == clock = 0 /\ points = << >> /\ historyFile = << >>

Second ==
    /\ clock < MaxTime /\ clock' = clock + 1
    /\ UNCHANGED <<points, historyFile>>

(* recordPoint, called after a push.                                       *)
Recorded(pts, p) ==
    LET new == Append(pts, [ts |-> clock, price |-> p])
    IN  IF pts # << >> /\ clock - Last(pts).ts < RecordInterval THEN pts
        ELSE IF Len(new) > MaxPoints THEN SubSeq(new, Len(new) - MaxPoints + 1, Len(new))
        ELSE new

RecordPoint(p) ==
    /\ points' = Recorded(points, p)
    /\ UNCHANGED <<clock, historyFile>>

PersistHistory ==
    /\ historyFile' = points
    /\ UNCHANGED <<clock, points>>

(* A restart: a signal persists the history first, a crash does not.       *)
RestartKeeper ==
    /\ points' = historyFile
    /\ UNCHANGED <<clock, historyFile>>

HistoryNext ==
    \/ Second
    \/ \E p \in Prices : RecordPoint(p)
    \/ PersistHistory \/ RestartKeeper

HistorySpec == HistoryInit /\ [][HistoryNext]_historyVars

-----------------------------------------------------------------------------
Bucket(t) == (t \div Resolution) * Resolution

Opened(b, p) == [timestamp |-> b, open |-> p, high |-> p, low |-> p, close |-> p]

(* Mutant: the open of a candle moves with its points.                     *)
OpenMoves(c, p) == [c EXCEPT !.open = p, !.high = Max({@, p}), !.low = Min({@, p}), !.close = p]

Extended(c, p) == [c EXCEPT !.high = Max({@, p}), !.low = Min({@, p}), !.close = p]

(* One point more, in the candle of its bucket.                            *)
PutPoint(cs, x) ==
    LET b == Bucket(x.ts)
    IN  [t \in DOMAIN cs \cup {b} |->
            IF t # b THEN cs[t]
            ELSE IF b \in DOMAIN cs THEN Extended(cs[b], x.price) ELSE Opened(b, x.price)]

(* The candle of each bucket, made in the order of the points.             *)
CandleOf(pts) ==
    LET after[n \in 0 .. Len(pts)] == IF n = 0 THEN << >> ELSE PutPoint(after[n - 1], pts[n])
    IN  after[Len(pts)]

(* Times from the first to the last.                                       *)
InTime(S) ==
    CHOOSE s \in [1 .. Cardinality(S) -> S] : \A i, j \in DOMAIN s : i < j => s[i] < s[j]

(* candlesFor: the candles, sorted by their time.                          *)
Candles(pts) ==
    LET cs == CandleOf(pts)  times == InTime(DOMAIN cs)
    IN  [n \in DOMAIN times |-> cs[times[n]]]

(* The points that are the rows of /prices between two times, at most      *)
(* limit of them, the newest.                                              *)
PriceRows(from, to, limit) ==
    LET rows == {n \in DOMAIN points : points[n].ts >= from /\ points[n].ts <= to}
    IN  IF limit = 0 THEN rows ELSE {n \in rows : Cardinality({k \in rows : k >= n}) <= limit}

(* Each candle is what its bucket says: the first and the last point, the  *)
(* highest and the lowest, one candle per bucket, in order of time;        *)
(* whatever was capped, reloaded or skipped (candlesFor).                  *)
CandlesFaithful ==
    LET cs == Candles(points)
    IN  /\ \A i, j \in DOMAIN cs : i < j => cs[i].timestamp < cs[j].timestamp
        /\ {cs[n].timestamp : n \in DOMAIN cs} = {Bucket(points[n].ts) : n \in DOMAIN points}
        /\ \A n \in DOMAIN cs :
            LET in == {k \in DOMAIN points : Bucket(points[k].ts) = cs[n].timestamp}
                ps == {points[k].price : k \in in}
            IN  cs[n] = [timestamp |-> cs[n].timestamp,
                         open |-> points[Min(in)].price, close |-> points[Max(in)].price,
                         high |-> Max(ps), low |-> Min(ps)]

(* Points are apart by the interval also across restarts, so that the rows *)
(* of /prices since a time are at most as many as that time allows.        *)
RowsSpaced ==
    \A t \in 0 .. clock :
        Cardinality(PriceRows(t, clock, 0)) <= (clock - t) \div RecordInterval + 1
=============================================================================
