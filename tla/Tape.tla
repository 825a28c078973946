-------------------------------- MODULE Tape --------------------------------
(***************************************************************************)
(* The price cache of useOracle.ts for one market, shared by every         *)
(* component of the page: the keeper's /prices/all polled for as long as   *)
(* the page lives, its /prices history polled while somebody watches the   *)
(* market, and the history that both write.  Answers arrive in any order.  *)
(* A reading is [price, at]; price 0 is "no price".  fetchOracleOnChain    *)
(* has no caller.                                                          *)
(***************************************************************************)
EXTENDS Integers, Sequences, SequencesExt, FiniteSetsExt

CONSTANTS
    Watchers,    \* components that may use the market's oracle
    Prices,      \* prices the keeper may report; 0 before the first one
    LastTick,     \* bound on the clock
    MaxAnswers,  \* bound on answers under way of each kind
    MaxAhead,    \* bound on how far live readings run ahead of the clock
    MaxPoints    \* capacity of the history (5000 readings)

ASSUME TapeAssumption == Prices \subseteq Nat /\ LastTick \in Nat /\ MaxPoints \in Nat

VARIABLES
    clock,
    feed,      \* what the keeper would answer now
    record,    \* the readings the keeper has stored
    cache,     \* oracleCache of the market; price 0 before the first answer
    readings,   \* historyCache of the market
    bulk,      \* answers of /prices/all under way
    answers,   \* answers of /prices under way
    watching,  \* historySubscribers of the market
    polling    \* historyIntervals holds a timer for the market

tapeVars == <<clock, feed, record, cache, readings, bulk, answers, watching, polling>>

NoPrice == [price |-> 0, at |-> 0]

Capped(h) == SubSeq(h, Len(h) - MaxPoints + 1, Len(h))
Within(h) == IF Len(h) > MaxPoints THEN Capped(h) ELSE h

\* A late answer stored under its own time.
AppendUnordered(h, p, t) ==
    IF p <= 0 \/ t <= 0 THEN h ELSE Within(Append(h, [price |-> p, at |-> t]))

\* A live price of an older moment than the last reading is given the moment
\* after it.
AppendLiveTick(h, p, t) ==
    IF p <= 0 \/ t <= 0 THEN h
    ELSE IF h = <<>> THEN <<[price |-> p, at |-> t]>>
    ELSE LET last == Last(h) IN
         IF last.at < t THEN Within(Append(h, [price |-> p, at |-> t]))
         ELSE IF last.at = t THEN [h EXCEPT ![Len(h)] = [price |-> p, at |-> t]]
         ELSE IF p # last.price THEN Within(Append(h, [price |-> p, at |-> last.at + 1]))
         ELSE h

\* A map from moments to prices, as readings in order of time.
Entries(prices) ==
    LET latest == Max(DOMAIN prices \cup {0})
        upTo[t \in 0 .. latest] ==
            IF t = 0 THEN <<>>
            ELSE IF t \in DOMAIN prices THEN Append(upTo[t - 1], [price |-> prices[t], at |-> t])
            ELSE upTo[t - 1]
    IN  upTo[latest]

\* Rows of the keeper replace readings of the same moment and leave the others.
MergeHistory(h, incoming) ==
    LET good   == {i \in DOMAIN incoming : incoming[i].price > 0 /\ incoming[i].at > 0}
        At(t)  == {i \in good : incoming[i].at = t}
        times  == {incoming[i].at : i \in good} \cup {h[i].at : i \in DOMAIN h}
        Of(t)  == IF At(t) # {} THEN incoming[Max(At(t))].price
                  ELSE (CHOOSE r \in ToSet(h) : r.at = t).price
    IN Within(Entries([t \in times |-> Of(t)]))

\* dayChangePercent: the last reading at or before midnight, else the nearest.
Opening(h, midnight) ==
    LET before  == {i \in DOMAIN h : h[i].at <= midnight}
        Away(i) == IF h[i].at > midnight THEN h[i].at - midnight ELSE midnight - h[i].at
        nearest == {i \in DOMAIN h : \A j \in DOMAIN h : Away(i) <= Away(j)}
    IN IF before # {} THEN h[Max(before)].price ELSE h[Min(nearest)].price

\* What a component is shown: the last good price, and the change of the day.
PriceShown == cache.price

ChangeShown(midnight) ==
    IF PriceShown = 0 \/ readings = <<>> THEN 0 ELSE PriceShown - Opening(readings, midnight)

-----------------------------------------------------------------------------
ClockTicks ==
    /\ clock < LastTick
    /\ clock' = clock + 1
    /\ UNCHANGED <<feed, record, cache, readings, bulk, answers, watching, polling>>

\* The keeper reports a price, and records it.
Report(p) ==
    /\ feed' = [price |-> p, at |-> clock]
    /\ feed' # feed
    /\ record' = IF record # <<>> /\ Last(record).at = clock
                 THEN [record EXCEPT ![Len(record)] = feed'] ELSE Append(record, feed')
    /\ UNCHANGED <<clock, cache, readings, bulk, answers, watching, polling>>

FetchAllPrices ==
    /\ Len(bulk) < MaxAnswers
    /\ bulk' = Append(bulk, feed)
    /\ UNCHANGED <<clock, feed, record, cache, readings, answers, watching, polling>>

\* A price that is not positive is passed over; a failed call changes nothing.
AllPricesArrive(i) ==
    /\ readings # <<>> => Last(readings).at < LastTick + MaxAhead
    /\ bulk' = RemoveAt(bulk, i)
    /\ \/ /\ bulk[i].price > 0
          /\ cache' = bulk[i]
          /\ readings' = AppendLiveTick(readings, bulk[i].price, bulk[i].at)
       \/ UNCHANGED <<cache, readings>>
    /\ UNCHANGED <<clock, feed, record, answers, watching, polling>>

FetchHistory ==
    /\ polling
    /\ Len(answers) < MaxAnswers
    /\ answers' = Append(answers, record)
    /\ UNCHANGED <<clock, feed, record, cache, readings, bulk, watching, polling>>

\* An empty answer never wipes the live history.
HistoryArrives(i) ==
    /\ answers' = RemoveAt(answers, i)
    /\ readings' = IF answers[i] = <<>> THEN readings ELSE MergeHistory(readings, answers[i])
    /\ UNCHANGED <<clock, feed, record, cache, bulk, watching, polling>>

\* A component mounts: it subscribes, and the first one starts the timer,
\* whose first call is made at once.
Watch(w) ==
    /\ w \notin watching
    /\ watching' = watching \cup {w}
    /\ polling' = TRUE
    /\ answers' = IF polling \/ Len(answers) = MaxAnswers THEN answers ELSE Append(answers, record)
    /\ UNCHANGED <<clock, feed, record, cache, readings, bulk>>

\* It unmounts; the last one stops the timer.  Answers under way still count.
Unwatch(w) ==
    /\ w \in watching
    /\ watching' = watching \ {w}
    /\ polling' = (watching' # {})
    /\ UNCHANGED <<clock, feed, record, cache, readings, bulk, answers>>

-----------------------------------------------------------------------------
TapeInit ==
    /\ clock = 1
    /\ feed = NoPrice
    /\ record = <<>>
    /\ cache = NoPrice
    /\ readings = <<>>
    /\ bulk = <<>>
    /\ answers = <<>>
    /\ watching = {}
    /\ polling = FALSE

TapeNext ==
    \/ ClockTicks
    \/ \E p \in Prices : Report(p)
    \/ FetchAllPrices
    \/ \E i \in DOMAIN bulk : AllPricesArrive(i)
    \/ FetchHistory
    \/ \E i \in DOMAIN answers : HistoryArrives(i)
    \/ \E w \in Watchers : Watch(w) \/ Unwatch(w)

TapeSpec == TapeInit /\ [][TapeNext]_tapeVars
-----------------------------------------------------------------------------
(* The history every chart and every "24h change" is drawn from is in      *)
(* strict order of time whatever order answers of two endpoints arrive in; *)
(* so that the change shown is from the day's opening, the last reading    *)
(* before midnight or, if there is none, the first one; and the market is  *)
(* polled exactly while a component watches it.                            *)
TapeSound ==
    /\ \A i, j \in DOMAIN readings : i < j => readings[i].at < readings[j].at
    /\ \A midnight \in 0..LastTick : readings # <<>> /\ PriceShown # 0 =>
          ChangeShown(midnight) = PriceShown -
              IF Head(readings).at > midnight THEN Head(readings).price
              ELSE (CHOOSE r \in ToSet(readings) :
                       /\ r.at <= midnight
                       /\ \A q \in ToSet(readings) : q.at <= midnight => q.at <= r.at).price
    /\ polling <=> watching # {}
=============================================================================
