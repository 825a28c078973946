----------------------------- MODULE PriceFeeds -----------------------------
(***************************************************************************)
(* price-feeds.js: where the targets of the keeper come from.  A refresh   *)
(* asks one source after another: metals from one quote, watches from the  *)
(* asking prices of listings; what fails is held, taken from the cache or  *)
(* set to the configured fallback.  WL500 is the weighted mean of the      *)
(* watches.  The timer starts a refresh whether or not the last has ended, *)
(* and the cache is saved when a refresh ends.                             *)
(*                                                                         *)
(* 0 stands for a price that is not there.                                 *)
(***************************************************************************)
EXTENDS Integers, Sequences, FiniteSets, FiniteSetsExt, SequencesExt

CONSTANTS
    Metals, Watches, Statics,
    FallbackUsd, Weight,    \* of each watch and static market; fallback of all
    Quotes,                 \* what Yahoo may say
    Listings,               \* what one search may find: the prices on a page
    Searches,               \* searches per watch: its queries at two dealers
    Refreshes,              \* refreshes that may be under way at once
    MaxFailures             \* bound on failed saves, failed loads and crashes

FeedMarkets == Metals \cup Watches \cup Statics

ASSUME FeedsAssumption ==
    /\ IsFiniteSet(FeedMarkets) /\ "resting" \notin FeedMarkets /\ Metals \cap Watches = {}
    /\ FallbackUsd \in [FeedMarkets -> Nat] /\ Weight \in [Watches \cup Statics -> Nat]
    /\ Quotes \subseteq Nat \ {0} /\ Listings \subseteq Seq(Nat)
    /\ Searches \in Nat /\ MaxFailures \in Nat

VARIABLES
    feed,       \* targets: price and source of each market
    wl500,
    diskCache,  \* the cached live prices
    cacheFile,  \* what can be read of feeds-cache.json
    refresh,    \* the markets each refresh has yet to ask for, or Resting
    running,    \* the first refresh has ended, or failed, and the timer is set
    refreshed,  \* lastRefreshAt: a refresh of this process has ended
    saved,      \* history: markets with a live price that has been saved, in
                \* this process or in the file that it read when it started
    failures

feedVars == <<feed, wl500, diskCache, cacheFile, refresh, running, refreshed, saved,
              failures>>

Resting == <<"resting">>
Sources == {"none", "live", "cache", "fallback", "static"}

FeedTypeOK ==
    /\ \A m \in FeedMarkets : feed[m].price \in Nat /\ feed[m].source \in Sources
    /\ wl500 \in Nat
    /\ diskCache \in [FeedMarkets -> Nat] /\ cacheFile \in [FeedMarkets -> Nat]
    /\ \A r \in Refreshes : refresh[r] = Resting \/ ToSet(refresh[r]) \subseteq Metals \cup Watches
    /\ running \in BOOLEAN /\ refreshed \in BOOLEAN /\ saved \subseteq FeedMarkets
    /\ failures \in 0 .. MaxFailures

Unknown == [price |-> 0, source |-> "none"]

(* start: the targets are seeded from the cache.                           *)
Seeded(cache) ==
    [m \in FeedMarkets |-> IF cache[m] > 0 THEN [price |-> cache[m], source |-> "cache"] ELSE Unknown]

(* A file that is not there, was torn by a save that did not end, or does  *)
(* not parse: nothing can be read of it.                                   *)
Nothing == [m \in FeedMarkets |-> 0]

FeedInit ==
    /\ cacheFile = Nothing
    /\ diskCache = cacheFile
    /\ feed = Seeded(cacheFile)
    /\ wl500 = 0
    /\ refresh = [r \in Refreshes |-> Resting]
    /\ running = FALSE /\ refreshed = FALSE
    /\ saved = {} /\ failures = 0

-----------------------------------------------------------------------------
(* The listings of a page are named by their positions on it.              *)

(* Mutant: every listing counts.                                           *)
AnyPrices(page, at, anchor) == at

(* The listings of a search that are no outliers against the fallback.     *)
FilterPrices(page, at, anchor) ==
    {i \in at : anchor = 0 \/ (page[i] * 100 >= anchor * 35 /\ page[i] * 10 <= anchor * 35)}

(* The k-th price of those listings when they are sorted.                  *)
IsRanked(page, at, k, p) ==
    /\ Cardinality({i \in at : page[i] < p}) < k
    /\ Cardinality({i \in at : page[i] <= p}) >= k

Ranked(page, at, k) == CHOOSE p \in {page[i] : i \in at} : IsRanked(page, at, k, p)

Median(page, at) ==
    LET n == Cardinality(at)  mid == n \div 2
    IN  IF n % 2 = 1 THEN Ranked(page, at, mid + 1)
        ELSE (Ranked(page, at, mid) + Ranked(page, at, mid + 1)) \div 2

(* A single listing must be closer to the fallback than several.           *)
Accepted(hit, n, anchor) ==
    anchor > 0 /\ n < 2 => hit * 100 >= anchor * 55 /\ hit * 10 <= anchor * 18

(* The price a search yields, 0 for none.                                  *)
Hit(page, at, anchor) ==
    LET fit == FilterPrices(page, at, anchor)
    IN  IF fit # {} /\ Accepted(Median(page, fit), Cardinality(fit), anchor)
        THEN Median(page, fit) ELSE 0

(* The asking prices of a page of listings; the second dealer's page says  *)
(* each several times, so that equal ones count once.                      *)
BobsPrices(page)    == {i \in DOMAIN page : page[i] > 0}
The1916Prices(page) == {i \in BobsPrices(page) : \A j \in 1 .. i - 1 : page[j] # page[i]}

(* All queries are put to one dealer and then to the other.                *)
Yield(m, found, q) ==
    Hit(found[q], IF 2 * q <= Searches THEN BobsPrices(found[q]) ELSE The1916Prices(found[q]),
        FallbackUsd[m])

(* resolveWatchMid: the first search that yields a price.                  *)
WatchMid(m, found) ==
    LET hits == {q \in 1 .. Searches : Yield(m, found, q) > 0}
    IN  IF hits = {} THEN 0 ELSE Yield(m, found, Min(hits))

SetTarget(m, p, source) == [feed EXCEPT ![m] = [price |-> p, source |-> source]]

(* applyFallback: the cache, then the configured price, then what there is.*)
Fallback(m) ==
    IF diskCache[m] > 0 THEN SetTarget(m, diskCache[m], "cache")
    ELSE IF FallbackUsd[m] > 0 THEN SetTarget(m, FallbackUsd[m], "fallback")
    ELSE feed

Live(m, p) ==
    /\ feed' = SetTarget(m, p, "live")
    /\ diskCache' = [diskCache EXCEPT ![m] = p]

Held(m) == feed' = Fallback(m) /\ UNCHANGED diskCache

(* recomputeWl500; without a price the index stays.                        *)
Known(f)       == {m \in Watches \cup Statics : Weight[m] > 0 /\ f[m].price > 0}
WeightOf(f)    == SumFunctionOnSet(Weight, Known(f))
WeightedSum(f) == SumFunction([m \in Known(f) |-> f[m].price * Weight[m]])
IndexOf(f)     == IF Known(f) = {} THEN wl500 ELSE WeightedSum(f) \div WeightOf(f)

(* Mutant: the index is computed once.                                     *)
ComputeOnce == wl500' = IF wl500 = 0 THEN IndexOf(feed) ELSE wl500

RecomputeWl500 == wl500' = IndexOf(feed)

-----------------------------------------------------------------------------
Failure == failures < MaxFailures /\ failures' = failures + 1

(* The timer, or start, begins a refresh; the markets with a fixed price   *)
(* get it at once (applyStaticOnly).                                       *)
BeginRefresh(r) ==
    /\ refresh[r] = Resting
    /\ running \/ \A q \in Refreshes : refresh[q] = Resting
    /\ feed' = [m \in FeedMarkets |->
                    IF m \in Statics /\ FallbackUsd[m] > 0
                    THEN [price |-> FallbackUsd[m], source |-> "static"] ELSE feed[m]]
    /\ refresh' = [refresh EXCEPT ![r] = SetToSeq(Metals) \o SetToSeq(Watches)]
    /\ UNCHANGED <<wl500, diskCache, cacheFile, running, refreshed, saved, failures>>

(* feeds.json cannot be read: the refresh is over.  If it was the first,   *)
(* start sets the timer all the same.                                      *)
ConfigFails(r) ==
    /\ refresh[r] = Resting
    /\ running \/ \A q \in Refreshes : refresh[q] = Resting
    /\ Failure
    /\ running' = TRUE
    /\ UNCHANGED <<feed, wl500, diskCache, cacheFile, refresh, refreshed, saved>>

Asks(r, m) == /\ refresh[r] \notin {Resting, << >>} /\ Head(refresh[r]) = m
              /\ refresh' = [refresh EXCEPT ![r] = Tail(@)]

(* refreshYahoo for one metal.                                             *)
YahooAnswers(r, m, p) ==
    /\ m \in Metals /\ Asks(r, m)
    /\ Live(m, p)
    /\ UNCHANGED <<wl500, cacheFile, running, refreshed, saved, failures>>

YahooFails(r, m) ==
    /\ m \in Metals /\ Asks(r, m)
    /\ IF feed[m].price > 0 THEN UNCHANGED <<feed, diskCache>> ELSE Held(m)
    /\ UNCHANGED <<wl500, cacheFile, running, refreshed, saved, failures>>

(* refreshWatches for one watch; a search that fails finds nothing.        *)
WatchAnswers(r, m, found) ==
    /\ m \in Watches /\ Asks(r, m)
    /\ LET p == WatchMid(m, found) IN IF p > 0 THEN Live(m, p) ELSE Held(m)
    /\ UNCHANGED <<wl500, cacheFile, running, refreshed, saved, failures>>

(* The end of a refresh: the index, then the cache file.  A save that      *)
(* fails has written nothing, or not all of it.                            *)
EndRefresh(r) ==
    /\ refresh[r] = << >>
    /\ refresh' = [refresh EXCEPT ![r] = Resting]
    /\ RecomputeWl500
    /\ \/ /\ cacheFile' = diskCache
          /\ saved' = saved \cup {m \in FeedMarkets : diskCache[m] > 0}
          /\ UNCHANGED failures
       \/ Failure /\ cacheFile' \in {cacheFile, Nothing} /\ UNCHANGED saved
    /\ running' = TRUE /\ refreshed' = TRUE
    /\ UNCHANGED <<feed, diskCache>>

(* Mutant: the targets get what was read, the cache does not.              *)
LoadTargets(c) == feed' = Seeded(c) /\ diskCache' = Nothing

(* A new process takes what it read of the cache.                          *)
LoadDiskCache(c) == feed' = Seeded(c) /\ diskCache' = c

(* The process dies, perhaps in the middle of a save, and starts anew.  It *)
(* finds what can be read of the file, or cannot read it this time.        *)
FeedRestart ==
    /\ Failure
    /\ \/ UNCHANGED cacheFile
       \/ (\E r \in Refreshes : refresh[r] = << >>) /\ cacheFile' = Nothing
    /\ \/ LoadDiskCache(cacheFile') /\ saved' = IF cacheFile' = Nothing THEN {} ELSE saved
       \/ LoadDiskCache(Nothing) /\ saved' = {}
    /\ wl500' = 0
    /\ refresh' = [r \in Refreshes |-> Resting] /\ running' = FALSE /\ refreshed' = FALSE

FeedNext ==
    \/ \E r \in Refreshes :
        \/ BeginRefresh(r) \/ ConfigFails(r) \/ EndRefresh(r)
        \/ \E m \in Metals : YahooFails(r, m) \/ \E p \in Quotes : YahooAnswers(r, m, p)
        \/ \E m \in Watches, found \in [1 .. Searches -> Listings] : WatchAnswers(r, m, found)
    \/ FeedRestart

FeedSpec == FeedInit /\ [][FeedNext]_feedVars

-----------------------------------------------------------------------------
(* A market whose live price has once been saved is not priced by the      *)
(* configured fallback (hold the last good target, then the cache, then    *)
(* the fallback), whatever fails while the process runs, and after a       *)
(* restart too if the file could be read; nor is one that is cached.       *)
SavedIsHeld ==
    \A m \in FeedMarkets :
        feed[m].source = "fallback" => m \notin saved /\ ~(diskCache[m] > 0)

(* From the end of the first refresh that reads its configuration on every *)
(* market that has a fallback has a price, whatever its source said.       *)
AllPriced == refreshed => \A m \in FeedMarkets : FallbackUsd[m] > 0 => feed[m].price > 0

(* Between 0.35 and 3.5 times the fallback, but for a half unit of the     *)
(* mean of two prices that is left out here.                               *)
NoOutlier(m, p) ==
    p > 0 /\ FallbackUsd[m] > 0 =>
        p * 100 >= FallbackUsd[m] * 35 - 50 /\ p * 10 <= FallbackUsd[m] * 35

(* So it is, and the price of a watch is not an outlier, whatever listings *)
(* the searches found and whatever was held, cached or saved meanwhile.    *)
TargetsSound == AllPriced /\ \A m \in Watches : NoOutlier(m, feed[m].price)

(* When a refresh has ended and none is under way the index is the         *)
(* weighted mean of the prices it is made of, though refreshes overlap and *)
(* end in any order.                                                       *)
IndexFollows ==
    refreshed /\ (\A r \in Refreshes : refresh[r] = Resting) => wl500 = IndexOf(feed)
=============================================================================
