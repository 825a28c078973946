---------------------------- MODULE KeeperProofs ----------------------------
(***************************************************************************)
(* Of the keeper's services: that a price once saved is held, that no      *)
(* price of a watch is an outlier and that the index follows the prices,   *)
(* whatever the sources say and however refreshes overlap; that the        *)
(* indexer stores what its cursor passes, whatever order its polls end in  *)
(* and wherever it stops; and that the candles of the history say what its *)
(* points say.                                                             *)
(***************************************************************************)
EXTENDS PriceFeeds, TradeIndexer, PriceHistory, FiniteSetTheorems, FunctionTheorems,
        SequenceTheorems, TLAPS

(* Induction in the form of a set that holds zero and is closed under      *)
(* successor.                                                              *)
LEMMA SetInduction ==
    ASSUME NEW S, 0 \in S, \A n \in Nat : n \in S => n + 1 \in S
    PROVE  Nat \subseteq S
<1>. DEFINE Less == {p \in Nat \X Nat : p[1] < p[2]}
<1>0. IsWellFoundedOn(Less, Nat)
    BY NatLessThanWellFounded, Zenon DEF OpToRel
<1>. HIDE DEF Less
<1>1. SUFFICES ASSUME Nat \ S # {} PROVE FALSE
    OBVIOUS
<1>2. PICK x \in Nat \ S : \A y \in Nat \ S : <<y, x>> \notin Less
    BY <1>0, <1>1, WFMin, Zenon
<1>3. \A y \in Nat \ S : ~(y < x)
    BY <1>2 DEF Less
<1>4. x # 0 /\ x - 1 \in Nat /\ x - 1 < x
    OBVIOUS
<1>5. x - 1 \in S
    BY <1>3, <1>4
<1>6. (x - 1) + 1 \in S
    BY <1>4, <1>5
<1>7. QED
    BY <1>6

(* SetToSeq names every element of a finite set.                           *)
LEMMA SetToSeqTyped ==
    ASSUME NEW S, IsFiniteSet(S)
    PROVE  SetToSeq(S) \in Seq(S) /\ ToSet(SetToSeq(S)) = S
<1>1. Cardinality(S) \in Nat /\ ExistsBijection(1 .. Cardinality(S), S)
    BY FS_CardinalityType
<1>2. PICK g : g \in Bijection(1 .. Cardinality(S), S)
    BY <1>1 DEF ExistsBijection
<1>3. g \in [1 .. Cardinality(S) -> S] /\ IsInjective(g)
    BY <1>2 DEF Bijection, Injection, IsInjective
<1>. DEFINE f == SetToSeq(S)
<1>4. f \in [1 .. Cardinality(S) -> S] /\ IsInjective(f)
    BY <1>3, Zenon DEF SetToSeq
<1>. HIDE DEF f
<1>5. f \in Seq(S)
    BY <1>1, <1>4
<1>6. f \in Injection(1 .. Cardinality(S), S)
    BY <1>4 DEF Injection, IsInjective
<1>7. IsFiniteSet(1 .. Cardinality(S)) /\ Cardinality(1 .. Cardinality(S)) = Cardinality(S)
    BY <1>1, FS_Interval
<1>8. f \in Surjection(1 .. Cardinality(S), S)
    BY <1>6, <1>7, FS_Injection
<1>9. ToSet(f) = S
    BY <1>4, <1>8 DEF Surjection, ToSet
<1>10. QED
    BY <1>5, <1>9 DEF f

-----------------------------------------------------------------------------
(* The targets                                                             *)

Asked == Metals \cup Watches

FeedsTyped ==
    /\ DOMAIN feed = FeedMarkets
    /\ DOMAIN diskCache = FeedMarkets /\ DOMAIN cacheFile = FeedMarkets
    /\ DOMAIN refresh = Refreshes
    /\ \A r \in Refreshes : refresh[r] \in Seq(Asked) \cup {Resting}

(* What is saved is in the cache, and in its file if that can be read, and *)
(* what the cache holds is never priced by the fallback.                   *)
CacheSound ==
    /\ \A m \in saved : /\ m \in FeedMarkets /\ diskCache[m] > 0
                        /\ cacheFile # Nothing => cacheFile[m] > 0
    /\ \A m \in FeedMarkets : feed[m].source = "fallback" => ~(diskCache[m] > 0)

(* Whom a refresh has asked, or has no need to ask, has a price.           *)
Priced(m) == FallbackUsd[m] > 0 => feed[m].price > 0

AnsweredPriced ==
    \A r \in Refreshes : refresh[r] # Resting =>
        \A m \in FeedMarkets \ ToSet(refresh[r]) : Priced(m)

FeedsSound == FeedsTyped /\ CacheSound /\ AllPriced /\ AnsweredPriced /\ IndexFollows

LEMMA RestingApart == Resting \notin Seq(Asked)
BY FeedsAssumption DEF Resting, Asked, FeedMarkets

LEMMA FeedsInit == FeedInit => FeedsSound
<1>. SUFFICES ASSUME FeedInit PROVE FeedsSound
    OBVIOUS
<1>1. FeedsTyped
    BY DEF FeedInit, FeedsTyped, Seeded, Nothing
<1>2. CacheSound
    BY DEF FeedInit, CacheSound, Seeded, Unknown, Nothing
<1>3. AllPriced /\ AnsweredPriced /\ IndexFollows
    BY DEF FeedInit, AllPriced, AnsweredPriced, IndexFollows
<1>4. QED
    BY <1>1, <1>2, <1>3 DEF FeedsSound

(* What a refresh has yet to ask.                                          *)
LEMMA AsksTyped ==
    ASSUME FeedsTyped, NEW r \in Refreshes, NEW m, Asks(r, m)
    PROVE  /\ refresh[r] \in Seq(Asked) /\ refresh[r] # << >>
           /\ m \in Asked
           /\ refresh'[r] \in Seq(Asked)
           /\ refresh'[r] # Resting /\ refresh[r] # Resting
           /\ ToSet(refresh[r]) \subseteq ToSet(refresh'[r]) \cup {m}
           /\ \A q \in Refreshes \ {r} : refresh'[q] = refresh[q]
           /\ DOMAIN refresh' = Refreshes
<1>1. refresh[r] \in Seq(Asked) /\ refresh[r] # << >> /\ refresh[r] # Resting
    BY DEF FeedsTyped, Asks
<1>. PICK s \in Seq(Asked) : s = refresh[r]
    BY <1>1
<1>2. s # << >> /\ Head(s) = m /\ refresh' = [refresh EXCEPT ![r] = Tail(s)]
    BY <1>1 DEF Asks
<1>3. m \in Asked /\ Tail(s) \in Seq(Asked)
    BY <1>2
<1>4. ToSet(s) \subseteq ToSet(Tail(s)) \cup {m}
    <2>0. ToSet(s) = {s[i] : i \in 1 .. Len(s)}
        <3>1. DOMAIN s = 1 .. Len(s)
            OBVIOUS
        <3>2. QED
            BY <3>1, Zenon DEF ToSet
    <2>. SUFFICES ASSUME NEW i \in 1 .. Len(s) PROVE s[i] \in ToSet(Tail(s)) \cup {m}
        BY <2>0, Zenon
    <2>1. CASE i = 1
        BY <2>1, <1>2
    <2>2. CASE i # 1
        <3>1. i - 1 \in 1 .. Len(Tail(s)) /\ Tail(s)[i - 1] = s[i]
            BY <2>2, <1>2
        <3>2. i - 1 \in DOMAIN Tail(s)
            BY <3>1, <1>3
        <3>3. QED
            BY <3>1, <3>2 DEF ToSet
    <2>3. QED
        BY <2>1, <2>2
<1>5. refresh'[r] = Tail(s) /\ DOMAIN refresh' = Refreshes
      /\ \A q \in Refreshes \ {r} : refresh'[q] = refresh[q]
    BY <1>2 DEF FeedsTyped
<1>6. QED
    BY <1>1, <1>3, <1>4, <1>5, RestingApart

-----------------------------------------------------------------------------
(* A market that has been asked: it gets a live price, the one of the      *)
(* cache, the fallback, or keeps the one it has.                           *)
Settles(m) ==
    /\ DOMAIN feed' = FeedMarkets /\ DOMAIN diskCache' = FeedMarkets
    /\ \A n \in FeedMarkets \ {m} : feed'[n] = feed[n] /\ diskCache'[n] = diskCache[n]
    /\ feed'[m].source = "fallback" => ~(diskCache'[m] > 0)
    /\ diskCache[m] > 0 => diskCache'[m] > 0
    /\ feed[m].price > 0 => feed'[m].price > 0
    /\ FallbackUsd[m] > 0 => feed'[m].price > 0

LEMMA HeldSettles ==
    ASSUME FeedsTyped, CacheSound, NEW m \in FeedMarkets, Held(m)
    PROVE  Settles(m)
<1>1. CASE diskCache[m] > 0
    BY <1>1 DEF Settles, Held, Fallback, SetTarget, FeedsTyped
<1>2. CASE ~(diskCache[m] > 0) /\ FallbackUsd[m] > 0
    BY <1>2 DEF Settles, Held, Fallback, SetTarget, FeedsTyped
<1>3. CASE ~(diskCache[m] > 0) /\ ~(FallbackUsd[m] > 0)
    BY <1>3 DEF Settles, Held, Fallback, FeedsTyped, CacheSound
<1>4. QED
    BY <1>1, <1>2, <1>3

LEMMA LiveSettles ==
    ASSUME FeedsTyped, NEW m \in FeedMarkets, NEW p, p > 0, Live(m, p)
    PROVE  Settles(m)
BY DEF Settles, Live, SetTarget, FeedsTyped

LEMMA AnswerSettles ==
    ASSUME FeedsTyped, CacheSound, NEW r \in Refreshes, NEW m \in FeedMarkets,
           NEW found,
           \/ YahooFails(r, m) \/ WatchAnswers(r, m, found)
           \/ \E p \in Quotes : YahooAnswers(r, m, p)
    PROVE  Settles(m) /\ Asks(r, m) /\ UNCHANGED <<wl500, cacheFile, running, refreshed, saved>>
<1>1. CASE YahooFails(r, m)
    <2>1. CASE feed[m].price > 0
        BY <1>1, <2>1 DEF YahooFails, Settles, FeedsTyped, CacheSound
    <2>2. CASE ~(feed[m].price > 0)
        BY <1>1, <2>2, HeldSettles DEF YahooFails
    <2>3. QED
        BY <1>1, <2>1, <2>2 DEF YahooFails
<1>2. CASE WatchAnswers(r, m, found)
    <2>. DEFINE p == WatchMid(m, found)
    <2>1. Asks(r, m) /\ IF p > 0 THEN Live(m, p) ELSE Held(m)
        BY <1>2, Zenon DEF WatchAnswers
    <2>2. UNCHANGED <<wl500, cacheFile, running, refreshed, saved>>
        BY <1>2 DEF WatchAnswers
    <2>. HIDE DEF p
    <2>3. QED
        BY <2>1, <2>2, HeldSettles, LiveSettles
<1>3. CASE \E p \in Quotes : YahooAnswers(r, m, p)
    <2>1. PICK p \in Quotes : YahooAnswers(r, m, p)
        BY <1>3
    <2>2. p > 0
        BY FeedsAssumption
    <2>3. QED
        BY <2>1, <2>2, LiveSettles DEF YahooAnswers
<1>4. QED
    BY <1>1, <1>2, <1>3

LEMMA SettlesSound ==
    ASSUME FeedsSound, NEW r \in Refreshes, NEW m \in FeedMarkets,
           Settles(m), Asks(r, m), UNCHANGED <<wl500, cacheFile, running, refreshed, saved>>
    PROVE  FeedsSound'
<1>1. /\ FeedsTyped /\ CacheSound /\ AllPriced /\ AnsweredPriced
    BY DEF FeedsSound
<1>2. FeedsTyped'
    BY <1>1, AsksTyped DEF FeedsTyped, Settles
<1>3. CacheSound'
    BY <1>1 DEF CacheSound, Settles
<1>4. AllPriced'
    BY <1>1 DEF AllPriced, Settles
<1>5. AnsweredPriced'
    <2>. SUFFICES ASSUME NEW q \in Refreshes, refresh'[q] # Resting,
                         NEW n \in FeedMarkets, n \notin ToSet(refresh'[q]),
                         FallbackUsd[n] > 0
                  PROVE  feed'[n].price > 0
        BY DEF AnsweredPriced, Priced
    <2>1. CASE n = m
        BY <2>1 DEF Settles
    <2>2. CASE n # m
        <3>1. feed'[n] = feed[n]
            BY <2>2 DEF Settles
        <3>2. refresh[q] # Resting /\ n \notin ToSet(refresh[q])
            BY <1>1, <2>2, AsksTyped
        <3>3. QED
            BY <1>1, <3>1, <3>2 DEF AnsweredPriced, Priced
    <2>3. QED
        BY <2>1, <2>2
<1>6. IndexFollows'
    BY <1>1, AsksTyped DEF IndexFollows
<1>7. QED
    BY <1>2, <1>3, <1>4, <1>5, <1>6 DEF FeedsSound

-----------------------------------------------------------------------------
LEMMA BeginSound ==
    ASSUME FeedsSound, NEW r \in Refreshes, BeginRefresh(r)
    PROVE  FeedsSound'
<1>1. /\ FeedsTyped /\ CacheSound /\ AllPriced /\ AnsweredPriced
    BY DEF FeedsSound
<1>. DEFINE s == SetToSeq(Metals) \o SetToSeq(Watches)
<1>2. s \in Seq(Asked) /\ ToSet(s) = Asked
    <2>1. IsFiniteSet(Metals) /\ IsFiniteSet(Watches)
        BY FeedsAssumption, FS_Subset DEF FeedMarkets
    <2>2. PICK a, b : a = SetToSeq(Metals) /\ b = SetToSeq(Watches)
        OBVIOUS
    <2>3. /\ a \in Seq(Metals) /\ ToSet(a) = Metals
          /\ b \in Seq(Watches) /\ ToSet(b) = Watches
        BY <2>1, <2>2, SetToSeqTyped
    <2>4. a \in Seq(Asked) /\ b \in Seq(Asked)
        BY <2>3 DEF Asked
    <2>5. a \o b \in Seq(Asked)
        BY <2>4
    <2>6. ToSet(a \o b) = Asked
        <3>1. ToSet(a \o b) \subseteq Asked
            BY <2>5 DEF ToSet
        <3>2. ASSUME NEW m \in Metals PROVE m \in ToSet(a \o b)
            <4>1. PICK i \in DOMAIN a : a[i] = m
                BY <2>3 DEF ToSet
            <4>2. i \in DOMAIN (a \o b) /\ (a \o b)[i] = m
                BY <4>1, <2>4
            <4>3. QED
                BY <4>2 DEF ToSet
        <3>3. ASSUME NEW m \in Watches PROVE m \in ToSet(a \o b)
            <4>1. PICK i \in DOMAIN b : b[i] = m
                BY <2>3 DEF ToSet
            <4>2. Len(a) + i \in DOMAIN (a \o b) /\ (a \o b)[Len(a) + i] = m
                BY <4>1, <2>4
            <4>3. QED
                BY <4>2 DEF ToSet
        <3>4. QED
            BY <3>1, <3>2, <3>3 DEF Asked
    <2>7. QED
        BY <2>2, <2>5, <2>6
<1>3. refresh' = [refresh EXCEPT ![r] = s]
    BY DEF BeginRefresh
<1>. HIDE DEF s
<1>4. FeedsTyped'
    BY <1>1, <1>2, <1>3 DEF FeedsTyped, BeginRefresh
<1>5. \A m \in FeedMarkets : feed[m].price > 0 => feed'[m].price > 0
    BY DEF BeginRefresh
<1>6. CacheSound'
    BY <1>1 DEF CacheSound, BeginRefresh
<1>7. AllPriced'
    BY <1>1, <1>5 DEF AllPriced, BeginRefresh
<1>8. AnsweredPriced'
    <2>1. ASSUME NEW m \in FeedMarkets, m \notin Asked, FallbackUsd[m] > 0
          PROVE  feed'[m].price > 0
        BY <2>1 DEF BeginRefresh, FeedMarkets, Asked
    <2>2. refresh'[r] = s /\ \A q \in Refreshes \ {r} : refresh'[q] = refresh[q]
        BY <1>1, <1>3 DEF FeedsTyped
    <2>3. QED
        BY <1>1, <1>2, <1>5, <2>1, <2>2 DEF AnsweredPriced, Priced
<1>9. IndexFollows'
    BY <1>1, <1>2, <1>3, RestingApart DEF IndexFollows, FeedsTyped
<1>10. QED
    BY <1>4, <1>6, <1>7, <1>8, <1>9 DEF FeedsSound

LEMMA EndSound ==
    ASSUME FeedsSound, NEW r \in Refreshes, EndRefresh(r)
    PROVE  FeedsSound'
<1>1. /\ FeedsTyped /\ CacheSound /\ AllPriced /\ AnsweredPriced
    BY DEF FeedsSound
<1>2. /\ refresh[r] = << >> /\ refresh' = [refresh EXCEPT ![r] = Resting]
      /\ feed' = feed /\ diskCache' = diskCache /\ refreshed' = TRUE
    BY DEF EndRefresh
<1>3. FeedsTyped'
    BY <1>1, <1>2 DEF FeedsTyped, EndRefresh, Nothing
<1>4. CacheSound'
    BY <1>1, <1>2 DEF CacheSound, EndRefresh, FeedsTyped
<1>5. << >> # Resting /\ ToSet(<< >>) = {}
    BY DEF Resting, ToSet
<1>6. \A m \in FeedMarkets : Priced(m)
    BY <1>1, <1>2, <1>5 DEF AnsweredPriced
<1>7. AllPriced' /\ AnsweredPriced'
    BY <1>2, <1>6 DEF AllPriced, AnsweredPriced, Priced
<1>8. IndexFollows'
    <2>1. wl500' = IndexOf(feed)
        BY DEF EndRefresh, RecomputeWl500
    <2>2. wl500' = IndexOf(feed)'
        BY <1>2, <2>1, Zenon DEF IndexOf, Known, WeightOf, WeightedSum
    <2>3. QED
        BY <2>2 DEF IndexFollows
<1>9. QED
    BY <1>3, <1>4, <1>7, <1>8 DEF FeedsSound

LEMMA RestartSound ==
    ASSUME FeedsSound, FeedRestart
    PROVE  FeedsSound'
<1>1. /\ FeedsTyped /\ CacheSound
    BY DEF FeedsSound
<1>2. /\ refresh' = [r \in Refreshes |-> Resting] /\ refreshed' = FALSE
      /\ cacheFile' = cacheFile \/ cacheFile' = Nothing
    BY DEF FeedRestart
<1>. PICK read : /\ feed' = Seeded(read) /\ diskCache' = read
                 /\ \/ read = cacheFile' /\ saved' = IF cacheFile' = Nothing THEN {} ELSE saved
                    \/ read = Nothing /\ saved' = {}
    BY DEF FeedRestart, LoadDiskCache
<1>3. DOMAIN cacheFile' = FeedMarkets /\ DOMAIN read = FeedMarkets
    BY <1>1, <1>2 DEF FeedsTyped, Nothing
<1>4. FeedsTyped'
    BY <1>1, <1>2, <1>3 DEF FeedsTyped, Seeded
<1>5. ASSUME NEW m \in saved'
      PROVE  /\ m \in FeedMarkets /\ diskCache'[m] > 0
             /\ cacheFile' # Nothing => cacheFile'[m] > 0
    <2>1. m \in saved /\ read = cacheFile' /\ cacheFile' = cacheFile /\ cacheFile # Nothing
        BY <1>2, <1>5
    <2>2. m \in FeedMarkets /\ cacheFile[m] > 0
        BY <1>1, <2>1 DEF CacheSound
    <2>3. QED
        BY <2>1, <2>2
<1>6. \A m \in FeedMarkets : feed'[m].source # "fallback"
    BY DEF Seeded, Unknown
<1>7. CacheSound'
    BY <1>5, <1>6 DEF CacheSound, Nothing
<1>8. AllPriced' /\ AnsweredPriced' /\ IndexFollows'
    BY <1>2 DEF AllPriced, AnsweredPriced, IndexFollows
<1>9. QED
    BY <1>4, <1>7, <1>8 DEF FeedsSound

LEMMA FeedsKept ==
    ASSUME FeedsSound, UNCHANGED <<feed, wl500, diskCache, cacheFile, refresh, refreshed, saved>>
    PROVE  FeedsSound'
<1>1. FeedsTyped' /\ CacheSound'
    BY DEF FeedsSound, FeedsTyped, CacheSound
<1>2. AllPriced' /\ AnsweredPriced'
    BY DEF FeedsSound, AllPriced, AnsweredPriced, Priced
<1>3. IndexFollows'
    BY Zenon DEF FeedsSound, IndexFollows, IndexOf, Known, WeightOf, WeightedSum
<1>4. QED
    BY <1>1, <1>2, <1>3 DEF FeedsSound

LEMMA FeedsStep == FeedsSound /\ [FeedNext]_feedVars => FeedsSound'
<1>. SUFFICES ASSUME FeedsSound, [FeedNext]_feedVars PROVE FeedsSound'
    OBVIOUS
<1>1. ASSUME NEW r \in Refreshes, ConfigFails(r) PROVE FeedsSound'
    BY <1>1, FeedsKept DEF ConfigFails
<1>2. CASE UNCHANGED feedVars
    BY <1>2, FeedsKept DEF feedVars
<1>3. ASSUME NEW r \in Refreshes, NEW m \in Metals,
             YahooFails(r, m) \/ \E p \in Quotes : YahooAnswers(r, m, p)
      PROVE  FeedsSound'
    BY <1>3, AnswerSettles, SettlesSound DEF FeedsSound, FeedMarkets
<1>4. ASSUME NEW r \in Refreshes, NEW m \in Watches, NEW found, WatchAnswers(r, m, found)
      PROVE  FeedsSound'
    BY <1>4, AnswerSettles, SettlesSound DEF FeedsSound, FeedMarkets
<1>5. QED
    BY <1>1, <1>2, <1>3, <1>4, BeginSound, EndSound, RestartSound, Zenon DEF FeedNext

LEMMA FeedsAlways == FeedSpec => []FeedsSound
BY FeedsInit, FeedsStep, PTL DEF FeedSpec

(* A market whose live price was saved is not priced by the configured     *)
(* fallback, for any markets and sources, any number of refreshes at once  *)
(* and any failures, and across the restarts that can read the cache file. *)
THEOREM SavedAreHeld == FeedSpec => []SavedIsHeld
<1>1. FeedsSound => SavedIsHeld
    BY DEF FeedsSound, CacheSound, SavedIsHeld
<1>2. QED
    BY <1>1, FeedsAlways, PTL

(* From the first refresh that ends on every market that can have a price  *)
(* has one.                                                                *)
THEOREM AllArePriced == FeedSpec => []AllPriced
<1>1. FeedsSound => AllPriced
    BY DEF FeedsSound
<1>2. QED
    BY <1>1, FeedsAlways, PTL

(* Between refreshes, once one has ended, the index is the mean of the     *)
(* prices as they are: any refresh that changes one ends, and the last to  *)
(* end recomputes it.                                                      *)
THEOREM IndexDoesFollow == FeedSpec => []IndexFollows
<1>1. FeedsSound => IndexFollows
    BY DEF FeedsSound
<1>2. QED
    BY <1>1, FeedsAlways, PTL

-----------------------------------------------------------------------------
(* Outliers                                                                *)

LEMMA SmallestNat ==
    ASSUME NEW S, S \subseteq Nat, S # {}
    PROVE  \E x \in S : \A y \in S : x <= y
<1>. DEFINE Less == {p \in Nat \X Nat : p[1] < p[2]}
<1>1. IsWellFoundedOn(Less, Nat)
    BY NatLessThanWellFounded, Zenon DEF OpToRel
<1>. HIDE DEF Less
<1>2. PICK x \in S : \A y \in S : <<y, x>> \notin Less
    BY <1>1, WFMin, Zenon
<1>3. \A y \in S : ~(y < x)
    BY <1>2 DEF Less
<1>4. QED
    BY <1>3

(* The prices on a page are bounded.                                       *)
LEMMA PageBounded ==
    ASSUME NEW page \in Seq(Nat)
    PROVE  \E b \in Nat : \A i \in DOMAIN page : page[i] <= b
<1>. DEFINE S == {n \in Nat : \E b \in Nat : \A i \in DOMAIN page : i <= n => page[i] <= b}
<1>1. 0 \in S
    OBVIOUS
<1>2. ASSUME NEW n \in Nat, n \in S PROVE n + 1 \in S
    <2>1. PICK b \in Nat : \A i \in DOMAIN page : i <= n => page[i] <= b
        BY <1>2
    <2>2. CASE n + 1 \in DOMAIN page
        <3>1. /\ b + page[n + 1] \in Nat
              /\ \A i \in DOMAIN page : i <= n + 1 => page[i] <= b + page[n + 1]
            BY <2>1, <2>2, SMTT(40)
        <3>2. \E d \in Nat : \A i \in DOMAIN page : i <= n + 1 => page[i] <= d
            BY <3>1, Zenon
        <3>3. QED
            BY <3>2
    <2>3. CASE n + 1 \notin DOMAIN page
        <3>1. \A i \in DOMAIN page : i <= n + 1 => page[i] <= b
            BY <2>1, <2>3
        <3>2. QED
            BY <3>1
    <2>4. QED
        BY <2>2, <2>3
<1>3. S \subseteq Nat
    OBVIOUS
<1>. HIDE DEF S
<1>4. Len(page) \in S
    BY <1>1, <1>2, SetInduction, SMTT(40)
<1>5. PICK b \in Nat : \A i \in DOMAIN page : i <= Len(page) => page[i] <= b
    BY <1>4 DEF S
<1>6. \A i \in DOMAIN page : i <= Len(page)
    OBVIOUS
<1>7. QED
    BY <1>5, <1>6

(* There is a k-th price as long as there are k listings: the smallest     *)
(* number that k prices do not exceed.                                     *)
LEMMA RankExists ==
    ASSUME NEW page \in Seq(Nat), NEW at, at \subseteq DOMAIN page,
           NEW k \in 1 .. Cardinality(at)
    PROVE  Ranked(page, at, k) \in {page[i] : i \in at}
<1>1. IsFiniteSet(at) /\ Cardinality(at) \in Nat
    <2>1. IsFiniteSet(1 .. Len(page)) /\ DOMAIN page = 1 .. Len(page)
        BY FS_Interval
    <2>2. QED
        BY <2>1, FS_Subset, FS_CardinalityType
<1>. DEFINE UpTo(x) == {i \in at : page[i] <= x}
<1>2. ASSUME NEW x PROVE IsFiniteSet(UpTo(x)) /\ Cardinality(UpTo(x)) \in Nat
    BY <1>1, FS_Subset, FS_CardinalityType
<1>. DEFINE Enough == {x \in Nat : Cardinality(UpTo(x)) >= k}
<1>3. Enough # {}
    <2>1. PICK b \in Nat : \A i \in DOMAIN page : page[i] <= b
        BY PageBounded
    <2>2. UpTo(b) = at
        BY <2>1
    <2>3. Cardinality(UpTo(b)) = Cardinality(at)
        BY <2>2, Zenon
    <2>4. Cardinality(at) >= k
        BY <1>1
    <2>5. Cardinality(UpTo(b)) >= k
        BY <2>3, <2>4
    <2>6. b \in Enough
        BY <2>1, <2>5, Zenon
    <2>7. QED
        BY <2>6, Zenon
<1>4. PICK x \in Enough : \A y \in Enough : x <= y
    BY <1>3, SmallestNat
<1>5. x \in Nat /\ Cardinality(UpTo(x)) >= k
    BY <1>4
<1>. DEFINE Below == {i \in at : page[i] < x}
<1>6. IsFiniteSet(Below) /\ Cardinality(Below) \in Nat
    BY <1>1, FS_Subset, FS_CardinalityType
<1>7. Cardinality(Below) < k
    <2>1. CASE x = 0
        <3>1. Below = {}
            BY <2>1
        <3>. HIDE DEF Below
        <3>2. Cardinality(Below) = 0
            BY <3>1, FS_EmptySet
        <3>3. QED
            BY <3>2
    <2>2. CASE x # 0
        <3>1. x - 1 \in Nat /\ ~(x <= x - 1)
            BY <1>5, <2>2
        <3>2. x - 1 \notin Enough
            BY <1>4, <3>1
        <3>3. ~(Cardinality(UpTo(x - 1)) >= k)
            BY <3>1, <3>2
        <3>4. Below = UpTo(x - 1)
            BY <1>5
        <3>. HIDE DEF Below, UpTo
        <3>5. QED
            BY <1>6, <3>3, <3>4
    <2>3. QED
        BY <2>1, <2>2
<1>8. PICK j \in at : page[j] = x
    <2>1. Below # UpTo(x)
        <3>. HIDE DEF Below, UpTo
        <3>1. QED
            BY <1>5, <1>6, <1>7
    <2>2. QED
        BY <2>1, <1>5
<1>9. x \in {page[i] : i \in at} /\ IsRanked(page, at, k, x)
    BY <1>5, <1>7, <1>8 DEF IsRanked
<1>10. QED
    BY <1>9, Zenon DEF Ranked

(* The median is a price of the listings or the mean of two.               *)
LEMMA MedianOfPrices ==
    ASSUME NEW page \in Seq(Nat), NEW at, at \subseteq DOMAIN page, at # {}
    PROVE  \E i, j \in at : Median(page, at) = page[i] \/ Median(page, at) = (page[i] + page[j]) \div 2
<1>1. IsFiniteSet(at)
    BY FS_Interval, FS_Subset
<1>2. Cardinality(at) \in Nat \ {0}
    BY <1>1, FS_EmptySet, FS_CardinalityType
<1>. DEFINE n   == Cardinality(at)
            mid == n \div 2
<1>3. CASE n % 2 = 1
    <2>1. mid + 1 \in 1 .. n
        BY <1>2, <1>3
    <2>2. PICK i \in at : Ranked(page, at, mid + 1) = page[i]
        BY <2>1, RankExists
    <2>3. Median(page, at) = page[i]
        BY <1>3, <2>2 DEF Median
    <2>4. QED
        BY <2>3
<1>4. CASE n % 2 # 1
    <2>1. mid \in 1 .. n /\ mid + 1 \in 1 .. n
        BY <1>2, <1>4
    <2>2. PICK i \in at : Ranked(page, at, mid) = page[i]
        BY <2>1, RankExists
    <2>3. PICK j \in at : Ranked(page, at, mid + 1) = page[j]
        BY <2>1, RankExists
    <2>4. Median(page, at) = (page[i] + page[j]) \div 2
        BY <1>4, <2>2, <2>3 DEF Median
    <2>5. QED
        BY <2>4
<1>5. QED
    BY <1>3, <1>4

LEMMA HitFits ==
    ASSUME NEW page \in Seq(Nat), NEW at, at \subseteq DOMAIN page,
           NEW m \in Watches, FallbackUsd[m] \in Nat
    PROVE  NoOutlier(m, Hit(page, at, FallbackUsd[m]))
<1>. DEFINE fit == FilterPrices(page, at, FallbackUsd[m])
<1>1. fit \subseteq at
    BY DEF FilterPrices
<1>2. CASE fit = {} \/ FallbackUsd[m] = 0
    BY <1>2 DEF Hit, NoOutlier
<1>3. CASE fit # {} /\ FallbackUsd[m] # 0
    <2>1. \A i \in fit : /\ page[i] \in Nat
                         /\ page[i] * 100 >= FallbackUsd[m] * 35
                         /\ page[i] * 10 <= FallbackUsd[m] * 35
        <3>1. \A i \in fit : i \in at /\ page[i] * 100 >= FallbackUsd[m] * 35
                                      /\ page[i] * 10 <= FallbackUsd[m] * 35
            BY <1>3, SMTT(30) DEF FilterPrices
        <3>2. \A i \in at : page[i] \in Nat
            OBVIOUS
        <3>. HIDE DEF fit
        <3>3. QED
            BY <3>1, <3>2, ZenonT(30)
    <2>2. fit \subseteq DOMAIN page
        BY <1>1
    <2>. HIDE DEF fit
    <2>3. PICK i \in fit, j \in fit : \/ Median(page, fit) = page[i]
                                      \/ Median(page, fit) = (page[i] + page[j]) \div 2
        BY <1>3, <2>2, MedianOfPrices
    <2>4. NoOutlier(m, page[i])
        BY <2>1 DEF NoOutlier
    <2>5. NoOutlier(m, (page[i] + page[j]) \div 2)
        <3>1. PICK a, b, c \in Nat : a = page[i] /\ b = page[j] /\ c = FallbackUsd[m]
            BY <2>1
        <3>2. /\ a * 100 >= c * 35 /\ b * 100 >= c * 35
              /\ a * 10 <= c * 35 /\ b * 10 <= c * 35
            BY <2>1, <3>1
        <3>. DEFINE h == (a + b) \div 2
        <3>3. h * 100 >= c * 35 - 50 /\ h * 10 <= c * 35
            <4>1. h \in Int /\ 2 * h <= a + b /\ a + b <= 2 * h + 1
                OBVIOUS
            <4>. HIDE DEF h
            <4>2. QED
                BY <3>2, <4>1
        <3>4. QED
            BY <3>1, <3>3 DEF NoOutlier
    <2>6. NoOutlier(m, Median(page, fit)) /\ NoOutlier(m, 0)
        BY <2>3, <2>4, <2>5 DEF NoOutlier
    <2>7. Hit(page, at, FallbackUsd[m]) \in {Median(page, fit), 0}
        BY DEF Hit, fit
    <2>8. QED
        BY <2>6, <2>7
<1>4. QED
    BY <1>2, <1>3

(* What the searches for a watch find is no outlier.                       *)
LEMMA WatchMidFits ==
    ASSUME NEW m \in Watches, NEW found \in [1 .. Searches -> Listings]
    PROVE  NoOutlier(m, WatchMid(m, found))
<1>1. FallbackUsd[m] \in Nat /\ Searches \in Nat
    BY FeedsAssumption DEF FeedMarkets
<1>2. ASSUME NEW q \in 1 .. Searches PROVE NoOutlier(m, Yield(m, found, q))
    <2>1. found[q] \in Seq(Nat)
        BY FeedsAssumption
    <2>2. /\ BobsPrices(found[q]) \subseteq DOMAIN found[q]
          /\ The1916Prices(found[q]) \subseteq DOMAIN found[q]
        BY DEF BobsPrices, The1916Prices
    <2>3. QED
        BY <1>1, <2>1, <2>2, HitFits DEF Yield
<1>. DEFINE hits == {q \in 1 .. Searches : Yield(m, found, q) > 0}
<1>3. CASE hits = {}
    BY <1>3 DEF WatchMid, NoOutlier
<1>4. CASE hits # {}
    <2>1. hits \subseteq 1 .. Searches /\ hits \subseteq Nat
        BY <1>1
    <2>2. WatchMid(m, found) = Yield(m, found, Min(hits))
        BY <1>4 DEF WatchMid
    <2>. HIDE DEF hits
    <2>3. \E x \in hits : \A y \in hits : x <= y
        BY <1>4, <2>1, SmallestNat
    <2>4. Min(hits) \in hits
        BY <2>3, Zenon DEF Min
    <2>5. QED
        BY <1>2, <2>1, <2>2, <2>4
<1>5. QED
    BY <1>3, <1>4

-----------------------------------------------------------------------------
(* No target of a watch is an outlier, nor is what the cache and its file  *)
(* hold of it, which become targets after a failure or a restart.          *)
WatchesFit ==
    \A m \in Watches :
        /\ NoOutlier(m, feed[m].price)
        /\ NoOutlier(m, diskCache[m])
        /\ NoOutlier(m, cacheFile[m])

LEMMA FallbackFits ==
    ASSUME NEW m \in Watches
    PROVE  NoOutlier(m, FallbackUsd[m]) /\ NoOutlier(m, 0)
<1>1. FallbackUsd[m] \in Nat
    BY FeedsAssumption DEF FeedMarkets
<1>2. QED
    BY <1>1 DEF NoOutlier

LEMMA FitsInit == FeedInit => WatchesFit
BY FallbackFits DEF FeedInit, WatchesFit, Seeded, Unknown, Nothing, FeedMarkets

LEMMA HeldFits ==
    ASSUME FeedsTyped, WatchesFit, NEW m \in FeedMarkets, Held(m), UNCHANGED cacheFile
    PROVE  WatchesFit'
<1>. SUFFICES ASSUME NEW w \in Watches
              PROVE  NoOutlier(w, feed'[w].price) /\ NoOutlier(w, diskCache'[w])
                     /\ NoOutlier(w, cacheFile'[w])
    BY DEF WatchesFit, NoOutlier
<1>1. /\ NoOutlier(w, feed[w].price) /\ NoOutlier(w, diskCache[w])
      /\ NoOutlier(w, cacheFile[w]) /\ NoOutlier(w, FallbackUsd[w])
    BY FallbackFits DEF WatchesFit
<1>2. /\ feed'[w].price \in {feed[w].price, diskCache[w], FallbackUsd[w]}
      /\ diskCache' = diskCache /\ cacheFile' = cacheFile
    BY DEF Held, Fallback, SetTarget, FeedsTyped, FeedMarkets
<1>3. QED
    BY <1>1, <1>2

LEMMA LiveFits ==
    ASSUME FeedsTyped, WatchesFit, NEW m \in FeedMarkets, NEW p, Live(m, p),
           m \in Watches => NoOutlier(m, p), UNCHANGED cacheFile
    PROVE  WatchesFit'
<1>. SUFFICES ASSUME NEW w \in Watches
              PROVE  NoOutlier(w, feed'[w].price) /\ NoOutlier(w, diskCache'[w])
                     /\ NoOutlier(w, cacheFile'[w])
    BY DEF WatchesFit, NoOutlier
<1>1. /\ NoOutlier(w, feed[w].price) /\ NoOutlier(w, diskCache[w])
      /\ NoOutlier(w, cacheFile[w])
    BY DEF WatchesFit
<1>2. cacheFile' = cacheFile /\ w \in FeedMarkets
    BY DEF FeedMarkets
<1>3. CASE w = m
    <2>1. feed'[w].price = p /\ diskCache'[w] = p
        BY <1>2, <1>3 DEF Live, SetTarget, FeedsTyped
    <2>2. QED
        BY <1>1, <1>2, <1>3, <2>1
<1>4. CASE w # m
    <2>1. feed'[w] = feed[w] /\ diskCache'[w] = diskCache[w]
        BY <1>2, <1>4 DEF Live, SetTarget, FeedsTyped
    <2>2. QED
        BY <1>1, <1>2, <2>1
<1>5. QED
    BY <1>3, <1>4

LEMMA FitsSame ==
    ASSUME WatchesFit, UNCHANGED <<feed, diskCache, cacheFile>>
    PROVE  WatchesFit'
BY DEF WatchesFit, NoOutlier

LEMMA BeginFits ==
    ASSUME FeedsTyped, WatchesFit, NEW r \in Refreshes, BeginRefresh(r)
    PROVE  WatchesFit'
<1>. SUFFICES ASSUME NEW w \in Watches
              PROVE  NoOutlier(w, feed'[w].price) /\ NoOutlier(w, diskCache'[w])
                     /\ NoOutlier(w, cacheFile'[w])
    BY DEF WatchesFit, NoOutlier
<1>1. /\ NoOutlier(w, feed[w].price) /\ NoOutlier(w, diskCache[w])
      /\ NoOutlier(w, cacheFile[w]) /\ NoOutlier(w, FallbackUsd[w])
    BY FallbackFits DEF WatchesFit
<1>2. /\ feed'[w].price \in {feed[w].price, FallbackUsd[w]}
      /\ diskCache' = diskCache /\ cacheFile' = cacheFile
    BY DEF BeginRefresh, FeedMarkets
<1>3. QED
    BY <1>1, <1>2

LEMMA EndFits ==
    ASSUME WatchesFit, NEW r \in Refreshes, EndRefresh(r)
    PROVE  WatchesFit'
<1>. SUFFICES ASSUME NEW w \in Watches
              PROVE  NoOutlier(w, feed'[w].price) /\ NoOutlier(w, diskCache'[w])
                     /\ NoOutlier(w, cacheFile'[w])
    BY DEF WatchesFit, NoOutlier
<1>1. /\ NoOutlier(w, feed[w].price) /\ NoOutlier(w, diskCache[w])
      /\ NoOutlier(w, cacheFile[w]) /\ NoOutlier(w, 0)
    BY FallbackFits DEF WatchesFit
<1>2. /\ feed' = feed /\ diskCache' = diskCache
      /\ cacheFile'[w] \in {diskCache[w], cacheFile[w], 0}
    BY DEF EndRefresh, Nothing, FeedMarkets
<1>3. QED
    BY <1>1, <1>2

LEMMA RestartFits ==
    ASSUME WatchesFit, FeedRestart
    PROVE  WatchesFit'
<1>. SUFFICES ASSUME NEW w \in Watches
              PROVE  NoOutlier(w, feed'[w].price) /\ NoOutlier(w, diskCache'[w])
                     /\ NoOutlier(w, cacheFile'[w])
    BY DEF WatchesFit, NoOutlier
<1>1. NoOutlier(w, cacheFile[w]) /\ NoOutlier(w, 0)
    BY FallbackFits DEF WatchesFit
<1>2. cacheFile'[w] \in {cacheFile[w], 0}
    BY DEF FeedRestart, Nothing, FeedMarkets
<1>3. PICK read : read \in {cacheFile', Nothing} /\ feed' = Seeded(read) /\ diskCache' = read
    BY DEF FeedRestart, LoadDiskCache
<1>4. read[w] \in {cacheFile[w], 0} /\ feed'[w].price \in {read[w], 0}
    BY <1>2, <1>3 DEF Seeded, Unknown, Nothing, FeedMarkets
<1>5. QED
    BY <1>1, <1>2, <1>3, <1>4

LEMMA AnswerFits ==
    ASSUME FeedsTyped, WatchesFit, NEW r \in Refreshes, NEW m \in Watches,
           NEW found \in [1 .. Searches -> Listings], WatchAnswers(r, m, found)
    PROVE  WatchesFit'
<1>. DEFINE p == WatchMid(m, found)
<1>1. NoOutlier(m, p) /\ m \in FeedMarkets
    BY WatchMidFits DEF FeedMarkets
<1>2. /\ IF p > 0 THEN Live(m, p) ELSE Held(m)
      /\ UNCHANGED cacheFile
    BY Zenon DEF WatchAnswers
<1>. HIDE DEF p
<1>3. QED
    BY <1>1, <1>2, HeldFits, LiveFits

LEMMA YahooFits ==
    ASSUME FeedsTyped, WatchesFit, NEW r \in Refreshes, NEW m \in Metals,
           YahooFails(r, m) \/ \E p \in Quotes : YahooAnswers(r, m, p)
    PROVE  WatchesFit'
<1>1. m \in FeedMarkets /\ m \notin Watches
    BY FeedsAssumption DEF FeedMarkets
<1>2. CASE YahooFails(r, m)
    BY <1>1, <1>2, HeldFits, FitsSame DEF YahooFails
<1>3. CASE \E p \in Quotes : YahooAnswers(r, m, p)
    BY <1>1, <1>3, LiveFits DEF YahooAnswers
<1>4. QED
    BY <1>2, <1>3

LEMMA FitsStep == FeedsTyped /\ WatchesFit /\ [FeedNext]_feedVars => WatchesFit'
<1>. SUFFICES ASSUME FeedsTyped, WatchesFit, [FeedNext]_feedVars PROVE WatchesFit'
    OBVIOUS
<1>1. ASSUME NEW r \in Refreshes, ConfigFails(r) PROVE WatchesFit'
    BY <1>1, FitsSame DEF ConfigFails
<1>2. CASE UNCHANGED feedVars
    BY <1>2, FitsSame DEF feedVars
<1>3. QED
    BY <1>1, <1>2, YahooFits, AnswerFits, BeginFits, EndFits, RestartFits, Zenon DEF FeedNext

(* No target of a watch is ever an outlier, whatever the listings say, and *)
(* however refreshes overlap and fail: what is held, cached, saved and     *)
(* loaded went through the same filter.                                    *)
THEOREM TargetsAreSound == FeedSpec => []TargetsSound
<1>1. FeedsSound => FeedsTyped /\ AllPriced
    BY DEF FeedsSound
<1>2. AllPriced /\ WatchesFit => TargetsSound
    BY DEF WatchesFit, TargetsSound
<1>3. FeedSpec => [](FeedsTyped /\ AllPriced)
    BY <1>1, FeedsAlways, PTL
<1>4. FeedSpec => []WatchesFit
    BY <1>3, FitsInit, FitsStep, PTL DEF FeedSpec
<1>5. QED
    BY <1>2, <1>3, <1>4, PTL

-----------------------------------------------------------------------------
(* The indexer                                                             *)

(* Pushing events one after another is a recursive function that exists.   *)
Pushes(f, st, s, c, n) ==
    f = [i \in 0 .. n |-> IF i = 0 THEN st ELSE PushTrade(f[i - 1], s, c[i])]

LEMMA PushedExists ==
    ASSUME NEW st, NEW s, NEW c, NEW n \in Nat
    PROVE  \E f : Pushes(f, st, s, c, n)
<1>. DEFINE Body(f, i) == IF i = 0 THEN st ELSE PushTrade(f[i - 1], s, c[i])
            Has == {k \in Nat : \E f : f = [i \in 0 .. k |-> Body(f, i)]}
<1>1. 0 \in Has
    <2>1. [i \in 0 .. 0 |-> st] = [i \in 0 .. 0 |-> Body([j \in 0 .. 0 |-> st], i)]
        OBVIOUS
    <2>2. QED
        BY <2>1
<1>2. ASSUME NEW k \in Nat, k \in Has PROVE k + 1 \in Has
    <2>1. PICK f : f = [i \in 0 .. k |-> Body(f, i)]
        BY <1>2
    <2>. DEFINE g == [i \in 0 .. (k + 1) |->
                         IF i = k + 1 THEN PushTrade(f[k], s, c[k + 1]) ELSE f[i]]
    <2>2. ASSUME NEW i \in 0 .. (k + 1) PROVE g[i] = Body(g, i)
        <3>1. CASE i = k + 1
            BY <3>1
        <3>2. CASE i \in 0 .. k /\ i # 0
            <4>1. f[i] = PushTrade(f[i - 1], s, c[i])
                BY <2>1, <3>2
            <4>2. g[i] = f[i] /\ g[i - 1] = f[i - 1]
                BY <3>2
            <4>3. QED
                BY <4>1, <4>2, <3>2
        <3>3. CASE i = 0
            BY <3>3, <2>1
        <3>4. QED
            BY <3>1, <3>2, <3>3
    <2>3. g = [i \in 0 .. (k + 1) |-> Body(g, i)]
        BY <2>2
    <2>4. \E z : z = [i \in 0 .. (k + 1) |-> Body(z, i)]
        <3>. WITNESS g
        <3>. QED
            BY <2>3
    <2>5. QED
        BY <2>4
<1>3. Nat \subseteq Has
    <2>. HIDE DEF Has
    <2>1. QED
        BY <1>1, <1>2, SetInduction
<1>4. \E f : f = [i \in 0 .. n |-> Body(f, i)]
    BY <1>3
<1>5. QED
    BY <1>4 DEF Pushes

(* The rows a store may hold: of signatures of the chain, with an event of *)
(* theirs.                                                                 *)
OfChain(row) == row.sig \in DOMAIN log /\ \E i \in DOMAIN log[row.sig] : row.ev = log[row.sig][i]

RowsSound(rows) == rows \in Seq(Rows) /\ \A k \in DOMAIN rows : OfChain(rows[k])

(* The rows after i events of the signature s: old ones, and its own among *)
(* the last i.                                                             *)
Among(rows, old, s, i) ==
    \A k \in DOMAIN rows :
        \/ rows[k] \in ToSet(old)
        \/ rows[k].sig = s /\ Len(rows) - k < i

(* The event e of s is among the old rows or the last i.                   *)
Covered(rows, old, s, e, i) ==
    \/ \E row \in ToSet(old) : row.sig = s /\ row.ev = e
    \/ \E k \in DOMAIN rows : rows[k].sig = s /\ rows[k].ev = e /\ Len(rows) - k < i

LEMMA PushKeeps ==
    ASSUME NEW st, st.trades \in Seq(Rows), st.nextId \in Nat,
           NEW old, NEW s \in DOMAIN log, NEW j \in DOMAIN log[s],
           log[s][j] \in Events, s \in Nat, j \in Nat, 0 < j, j <= Cap,
           \A k \in DOMAIN st.trades : OfChain(st.trades[k]),
           Among(st.trades, old, s, j - 1),
           NEW new, new = PushTrade(st, s, log[s][j])
    PROVE  /\ new.trades \in Seq(Rows) /\ new.nextId \in Nat
           /\ \A k \in DOMAIN new.trades : OfChain(new.trades[k])
           /\ Among(new.trades, old, s, j)
           /\ \A e : Covered(st.trades, old, s, e, j - 1) => Covered(new.trades, old, s, e, j)
           /\ \/ Covered(new.trades, old, s, log[s][j], j)
              \/ \E i \in DOMAIN log[s] : i # j /\ log[s][i].action = log[s][j].action
                                                /\ log[s][i].user = log[s][j].user
<1>. DEFINE ev  == log[s][j]
            row == [id |-> st.nextId, sig |-> s, ev |-> ev]
            rows == Append(st.trades, row)
            d == IF Len(rows) > Cap THEN Len(rows) - Cap ELSE 0
<1>. PICK old_ : old_ = st.trades
    OBVIOUS
<1>0. Cap \in Nat /\ Cap > 0
    BY IndexerAssumption
<1>1. CASE Duplicate(row, st.trades)
    <2>1. new = st
        BY <1>1, Zenon DEF PushTrade
    <2>2. \A e : Covered(st.trades, old, s, e, j - 1) => Covered(new.trades, old, s, e, j)
        BY <2>1 DEF Covered
    <2>3. Among(new.trades, old, s, j)
        BY <2>1 DEF Among
    <2>4. PICK k \in DOMAIN st.trades : Same(row, st.trades[k])
        BY <1>1 DEF Duplicate
    <2>5. /\ st.trades[k].sig = s /\ st.trades[k].ev.action = ev.action
          /\ st.trades[k].ev.user = ev.user
        BY <2>4 DEF Same
    <2>6. PICK i \in DOMAIN log[s] : st.trades[k].ev = log[s][i]
        BY <2>5 DEF OfChain
    <2>7. CASE i = j
        <3>1. st.trades[k].ev = log[s][j]
            BY <2>6, <2>7
        <3>2. Covered(new.trades, old, s, log[s][j], j)
            BY <2>1, <2>5, <3>1 DEF Covered, Among
        <3>3. QED
            BY <2>1, <2>2, <2>3, <3>2
    <2>8. CASE i # j
        BY <2>1, <2>2, <2>3, <2>5, <2>6, <2>8
    <2>9. QED
        BY <2>7, <2>8
<1>2. CASE ~Duplicate(row, st.trades)
    <2>1. row \in Rows /\ row.sig = s /\ row.ev = ev
        BY DEF Rows
    <2>. HIDE DEF row
    <2>2. /\ rows \in Seq(Rows) /\ Len(rows) = Len(st.trades) + 1
          /\ rows[Len(rows)] = row
          /\ \A k \in 1 .. Len(st.trades) : rows[k] = st.trades[k]
        BY <2>1
    <2>3. /\ new.trades = IF Len(rows) > Cap THEN Newest(rows) ELSE rows
          /\ new.nextId = st.nextId + 1
        <3>1. new = [trades |-> IF Len(rows) > Cap THEN Newest(rows) ELSE rows,
                     nextId |-> st.nextId + 1]
            BY <1>2, Zenon DEF PushTrade, row
        <3>. HIDE DEF rows
        <3>2. QED
            BY <3>1
    <2>. HIDE DEF rows
    <2>4. /\ new.trades \in Seq(Rows) /\ Len(new.trades) = Len(rows) - d
          /\ \A k \in 1 .. Len(new.trades) : new.trades[k] = rows[k + d]
        <3>1. CASE Len(rows) > Cap
            <4>1. new.trades = SubSeq(rows, Len(rows) - Cap + 1, Len(rows))
                BY <2>3, <3>1 DEF Newest
            <4>2. /\ Len(rows) - Cap + 1 \in 1 .. Len(rows) + 1
                  /\ Len(rows) \in Len(rows) - Cap .. Len(rows)
                BY <2>2, <3>1, <1>0
            <4>3. \A k \in 1 .. Cap : new.trades[k] = rows[k + (Len(rows) - Cap)]
                BY <4>1, <4>2, <2>2, <1>0, <3>1
            <4>4. new.trades \in Seq(Rows) /\ Len(new.trades) = Cap
                BY <4>1, <4>2, <2>2, <1>0, <3>1, SMTT(30)
            <4>5. QED
                BY <4>3, <4>4, <2>2, <3>1, <1>0
        <3>2. CASE ~(Len(rows) > Cap)
            BY <2>3, <3>2, <2>2
        <3>3. QED
            BY <3>1, <3>2
    <2>5. d \in Nat /\ Len(rows) - d >= 1 /\ (d > 0 => Len(rows) - d = Cap)
        BY <1>0, <2>2, SMTT(30)
    <2>. HIDE DEF d
    <2>6. new.nextId \in Nat
        BY <2>3
    <2>7. OfChain(row)
        BY <2>1 DEF OfChain
    <2>8. ASSUME NEW k \in 1 .. Len(new.trades)
          PROVE  /\ OfChain(new.trades[k])
                 /\ \/ k + d = Len(rows) /\ new.trades[k] = row
                    \/ k + d \in 1 .. Len(st.trades) /\ new.trades[k] = st.trades[k + d]
        <3>0. Len(rows) \in Nat /\ k \in Nat /\ k >= 1 /\ k <= Len(rows) - d
            BY <2>2, <2>4, <2>5
        <3>1. k + d \in 1 .. Len(rows) /\ new.trades[k] = rows[k + d]
            <4>1. k + d \in 1 .. Len(rows)
                BY <3>0, <2>5
            <4>2. QED
                BY <4>1, <2>4, Zenon
        <3>2. CASE k + d = Len(rows)
            BY <3>1, <3>2, <2>2, <2>7
        <3>3. CASE k + d # Len(rows)
            <4>1. k + d \in 1 .. Len(st.trades)
                BY <3>1, <3>3, <2>2
            <4>2. rows[k + d] = st.trades[k + d]
                BY <4>1, <2>2
            <4>3. OfChain(st.trades[k + d])
                BY <4>1
            <4>4. QED
                BY <3>1, <4>1, <4>2, <4>3
        <3>4. QED
            BY <3>2, <3>3
    <2>9. Among(new.trades, old, s, j)
        <3>. SUFFICES ASSUME NEW k \in 1 .. Len(new.trades)
                      PROVE  \/ new.trades[k] \in ToSet(old)
                             \/ new.trades[k].sig = s /\ Len(new.trades) - k < j
            BY <2>4 DEF Among
        <3>1. CASE new.trades[k] = row /\ k + d = Len(rows)
            <4>1. Len(new.trades) - k = 0
                BY <3>1, <2>2, <2>4, <2>5
            <4>2. QED
                BY <3>1, <4>1, <2>1
        <3>2. CASE k + d \in 1 .. Len(st.trades) /\ new.trades[k] = st.trades[k + d]
            <4>1. Len(new.trades) - k = Len(st.trades) - (k + d) + 1
                BY <2>2, <2>4, <2>5
            <4>2. \/ st.trades[k + d] \in ToSet(old)
                  \/ st.trades[k + d].sig = s /\ Len(st.trades) - (k + d) < j - 1
                BY <3>2 DEF Among
            <4>3. Len(st.trades) \in Nat /\ k + d \in Int
                BY <2>5
            <4>4. CASE st.trades[k + d] \in ToSet(old)
                BY <4>4, <3>2
            <4>5. CASE /\ st.trades[k + d].sig = s
                       /\ Len(st.trades) - (k + d) < j - 1
                <5>1. Len(new.trades) - k < j
                    BY <4>1, <4>3, <4>5
                <5>2. QED
                    BY <5>1, <4>5, <3>2
            <4>6. QED
                BY <4>2, <4>4, <4>5
        <3>3. QED
            BY <3>1, <3>2, <2>8
    <2>10. ASSUME NEW e, Covered(st.trades, old, s, e, j - 1)
           PROVE  Covered(new.trades, old, s, e, j)
        <3>1. CASE \E r \in ToSet(old) : r.sig = s /\ r.ev = e
            BY <3>1 DEF Covered
        <3>2. CASE \E k \in DOMAIN st.trades : /\ st.trades[k].sig = s /\ st.trades[k].ev = e
                                               /\ Len(st.trades) - k < j - 1
            <4>1. PICK k \in 1 .. Len(st.trades) :
                        /\ st.trades[k].sig = s /\ st.trades[k].ev = e
                        /\ Len(st.trades) - k < j - 1
                BY <3>2
            <4>2. k - d \in 1 .. Len(new.trades)
                BY <4>1, <2>2, <2>4, <2>5
            <4>3. new.trades[k - d] = st.trades[k]
                <5>1. new.trades[k - d] = rows[(k - d) + d]
                    BY <4>2, <2>4, Zenon
                <5>2. (k - d) + d = k
                    BY <4>1, <2>5
                <5>3. QED
                    BY <5>1, <5>2, <4>1, <2>2
            <4>4. Len(new.trades) - (k - d) < j
                BY <4>1, <2>2, <2>4, <2>5
            <4>5. k - d \in DOMAIN new.trades
                BY <4>2, <2>4
            <4>6. QED
                BY <4>1, <4>3, <4>4, <4>5 DEF Covered
        <3>3. QED
            BY <2>10, <3>1, <3>2 DEF Covered
    <2>11. Covered(new.trades, old, s, ev, j)
        <3>1. Len(new.trades) \in DOMAIN new.trades /\ new.trades[Len(new.trades)] = row
            <4>1. Len(new.trades) \in 1 .. Len(new.trades) /\ Len(new.trades) + d = Len(rows)
                BY <2>2, <2>4, <2>5
            <4>2. QED
                BY <4>1, <2>2, <2>4, <2>8
        <3>2. Len(new.trades) - Len(new.trades) < j
            BY <2>2, <2>4, <2>5
        <3>3. QED
            BY <2>1, <3>1, <3>2 DEF Covered
    <2>12. QED
        BY <2>4, <2>6, <2>8, <2>9, <2>10, <2>11, SMTT(30)
<1>3. QED
    BY <1>1, <1>2

LEMMA ContentsTyped == Contents \subseteq Seq(Events)
<1>. SUFFICES ASSUME NEW c \in Contents PROVE c \in Seq(Events)
    OBVIOUS
<1>1. c \in Seq(ToSet(c))
    BY IndexerAssumption
<1>2. ToSet(c) \subseteq Events
    BY DEF Events
<1>3. QED
    BY <1>1, <1>2

(* What processing the signature s leaves.                                 *)
Twins(s) == \E i, j \in DOMAIN log[s] :
                i < j /\ log[s][i].action = log[s][j].action /\ log[s][i].user = log[s][j].user

LogTyped == log \in Seq(Contents)

LEMMA ProcessedSound ==
    ASSUME LogTyped, RowsSound(trades), nextId \in Nat, NEW s \in DOMAIN log,
           NEW st, st = Processed(s)
    PROVE  /\ RowsSound(st.trades) /\ st.nextId \in Nat
           /\ Twins(s) \/ \A j \in DOMAIN log[s] :
                              Covered(st.trades, trades, s, log[s][j], Len(log[s]))
<1>. PICK start : start = [trades |-> trades, nextId |-> nextId]
    OBVIOUS
<1>. PICK c : c = log[s]
    OBVIOUS
<1>0. /\ c \in Seq(Events) /\ Len(c) \in Nat /\ Len(c) <= Cap /\ DOMAIN c = 1 .. Len(c)
      /\ s \in Nat /\ Cap \in Nat
    BY IndexerAssumption, ContentsTyped DEF LogTyped
<1>. PICK n \in Nat : n = Len(c)
    BY <1>0
<1>1. c \in Seq(Events) /\ n <= Cap /\ DOMAIN c = 1 .. n /\ s \in Nat /\ Cap \in Nat
    BY <1>0
<1>. DEFINE Body(f, i) == IF i = 0 THEN start ELSE PushTrade(f[i - 1], s, c[i])
            F == CHOOSE f : Pushes(f, start, s, c, n)
<1>2. Pushes(F, start, s, c, n)
    <2>1. \E f : Pushes(f, start, s, c, n)
        BY PushedExists
    <2>2. QED
        BY <2>1, Zenon
<1>3. st = F[n]
    BY Zenon DEF Processed, PushTrades, Pushes
<1>. HIDE DEF F
<1>. PICK after : after = F
    OBVIOUS
<1>4. start.trades = trades /\ start.nextId = nextId
    OBVIOUS
<1>10. after = [i \in 0 .. n |-> Body(after, i)]
    BY <1>2 DEF Pushes
<1>. DEFINE Good(i) ==
        LET t == after[i] IN
        /\ RowsSound(t.trades) /\ t.nextId \in Nat
        /\ Among(t.trades, trades, s, i)
        /\ Twins(s) \/ \A j \in 1 .. i : Covered(t.trades, trades, s, c[j], i)
     GoodSet == {i \in Nat : i <= n => Good(i)}
<1>5. 0 \in GoodSet
    <2>1. after[0] = start
        BY <1>10
    <2>2. Among(trades, trades, s, 0)
        BY DEF Among, ToSet
    <2>3. QED
        BY <2>1, <2>2, <1>4
<1>6. ASSUME NEW i \in Nat, i \in GoodSet PROVE i + 1 \in GoodSet
    <2>. SUFFICES ASSUME i + 1 <= n PROVE Good(i + 1)
        OBVIOUS
    <2>. DEFINE j == i + 1
    <2>1. after[j] = PushTrade(after[i], s, c[j])
        <3>1. j \in 0 .. n /\ j # 0 /\ j - 1 = i
            OBVIOUS
        <3>. HIDE DEF j
        <3>2. QED
            BY <1>10, <3>1
    <2>2. Good(i)
        BY <1>6, <1>1
    <2>3. /\ j \in 1 .. n /\ j \in Nat /\ 0 < j /\ j <= Cap /\ j - 1 = i
          /\ j \in DOMAIN c /\ c[j] \in Events
        <3>1. j \in 1 .. n /\ 0 < j /\ j - 1 = i
            BY <1>1
        <3>. HIDE DEF j
        <3>2. QED
            BY <1>1, <3>1
    <2>. PICK new : new = after[j]
        OBVIOUS
    <2>. HIDE DEF j
    <2>4. /\ new.trades \in Seq(Rows) /\ new.nextId \in Nat
          /\ \A k \in DOMAIN new.trades : OfChain(new.trades[k])
          /\ Among(new.trades, trades, s, j)
          /\ \A e : Covered(after[i].trades, trades, s, e, i) => Covered(new.trades, trades, s, e, j)
          /\ \/ Covered(new.trades, trades, s, log[s][j], j)
             \/ \E h \in DOMAIN log[s] : h # j /\ log[s][h].action = log[s][j].action
                                               /\ log[s][h].user = log[s][j].user
        <3>1. PICK t : t = after[i]
            OBVIOUS
        <3>2. /\ t.trades \in Seq(Rows) /\ t.nextId \in Nat
              /\ \A k \in DOMAIN t.trades : OfChain(t.trades[k])
              /\ Among(t.trades, trades, s, j - 1)
            BY <2>2, <2>3, <3>1 DEF RowsSound
        <3>3. new = PushTrade(t, s, log[s][j])
            BY <2>1, <3>1
        <3>. HIDE DEF Good, GoodSet
        <3>4. log[s][j] \in Events /\ j \in DOMAIN log[s]
            BY <2>3
        <3>5. PICK o : o = trades
            OBVIOUS
        <3>6. /\ new.trades \in Seq(Rows) /\ new.nextId \in Nat
              /\ \A k \in DOMAIN new.trades : OfChain(new.trades[k])
              /\ Among(new.trades, o, s, j)
              /\ \A e : Covered(t.trades, o, s, e, j - 1) => Covered(new.trades, o, s, e, j)
              /\ \/ Covered(new.trades, o, s, log[s][j], j)
                 \/ \E h \in DOMAIN log[s] : h # j /\ log[s][h].action = log[s][j].action
                                                   /\ log[s][h].user = log[s][j].user
            <4>1. s \in Nat /\ j \in Nat /\ 0 < j /\ j <= Cap
                BY <1>1, <2>3
            <4>2. Among(t.trades, o, s, j - 1)
                BY <3>2, <3>5
            <4>3. QED
                BY <4>1, <4>2, <3>2, <3>3, <3>4, PushKeeps
        <3>7. QED
            BY <2>3, <3>1, <3>5, <3>6
    <2>5. ASSUME NEW h \in DOMAIN c, h # j, c[h].action = c[j].action, c[h].user = c[j].user
          PROVE  Twins(s)
        <3>1. h < j \/ j < h
            BY <2>3, <2>5, <1>1
        <3>2. j \in DOMAIN c
            BY <2>3, <1>1
        <3>3. QED
            BY <2>5, <3>1, <3>2, Zenon DEF Twins
    <2>6. ASSUME ~Twins(s), NEW h \in 1 .. j
          PROVE  Covered(new.trades, trades, s, c[h], j)
        <3>1. CASE h = j
            BY <2>4, <2>5, <2>6, <3>1
        <3>2. CASE h # j
            <4>1. h \in 1 .. i
                BY <3>2, <2>3
            <4>2. QED
                BY <4>1, <2>2, <2>4, <2>6
        <3>3. QED
            BY <3>1, <3>2
    <2>7. Good(j)
        BY <2>4, <2>6 DEF RowsSound
    <2>8. QED
        BY <2>7 DEF j
<1>7. Nat \subseteq GoodSet
    <2>. HIDE DEF GoodSet
    <2>1. QED
        BY <1>5, <1>6, SetInduction
<1>8. Good(n)
    BY <1>1, <1>7
<1>9. QED
    BY <1>0, <1>1, <1>3, <1>8

-----------------------------------------------------------------------------
PollState ==
    [pc: {"idle", "asking", "working"}, until: Nat, page: Seq(Nat), newest: Nat,
     added: BOOLEAN]

DiskState == [trades: Seq(Rows), nextId: Nat, cursor: Nat]

IndexerTyped ==
    /\ LogTyped
    /\ nextId \in Nat /\ cursor \in 0 .. Len(log)
    /\ disk \in DiskState /\ disk.cursor <= Len(log)
    /\ RowsSound(trades) /\ RowsSound(disk.trades)
    /\ poll \in [Polls -> PollState]

Stored(rows, s)    == s \in missed \/ Holds(rows, s)
AllStored(rows, n) == \A s \in 1 .. n : Stored(rows, s)

(* What the cursors have passed is stored, and memory has what the cursor  *)
(* of the file has passed: a crash between the two writes leaves new rows  *)
(* under the old cursor.                                                   *)
StoreSound ==
    /\ AllStored(trades, cursor)
    /\ AllStored(disk.trades, disk.cursor)
    /\ AllStored(trades, disk.cursor)

(* A poll that waits for an answer asked after a cursor that was passed;   *)
(* one that works has what is not stored yet on its page.                  *)
PollSound(p) ==
    /\ poll[p].pc = "asking" =>
          poll[p].until <= Len(log) /\ AllStored(trades, poll[p].until)
    /\ poll[p].pc = "working" =>
          /\ poll[p].newest <= Len(log)
          /\ \A i \in DOMAIN poll[p].page : poll[p].page[i] \in 1 .. Len(log)
          /\ \A s \in 1 .. poll[p].newest :
                Stored(trades, s) \/ s \in ToSet(poll[p].page)

PollsSound == \A p \in Polls : PollSound(p)

IndexerSound == IndexerTyped /\ StoreSound /\ PollsSound

(* Nothing leaves the chain, what was missed or, unless it is missed then, *)
(* the rows.                                                               *)
LogGrows ==
    /\ log' \in Seq(Contents) /\ Len(log) <= Len(log')
    /\ \A s \in DOMAIN log : log'[s] = log[s]
    /\ missed \subseteq missed'

RowsGrow(old, new) ==
    \A k \in DOMAIN old : old[k].sig \in missed' \/ \E m \in DOMAIN new : new[m] = old[k]

LEMMA StoredKept ==
    ASSUME LogTyped, LogGrows, NEW old, NEW new, RowsGrow(old, new),
           NEW s \in DOMAIN log, Stored(old, s)
    PROVE  Stored(new, s)'
<1>1. s \in DOMAIN log' /\ log'[s] = log[s]
    BY DEF LogTyped, LogGrows
<1>2. CASE s \in missed
    BY <1>2 DEF LogGrows, Stored
<1>3. CASE Holds(old, s)
    <2>1. SUFFICES ASSUME s \notin missed', NEW i \in DOMAIN log[s]
                   PROVE  \E n \in DOMAIN new : new[n].sig = s /\ new[n].ev = log[s][i]
        BY <1>1 DEF Stored, Holds
    <2>2. PICK k \in DOMAIN old : old[k].sig = s /\ old[k].ev = log[s][i]
        BY <1>3 DEF Holds
    <2>3. PICK m \in DOMAIN new : new[m] = old[k]
        BY <2>1, <2>2 DEF RowsGrow
    <2>4. QED
        BY <2>2, <2>3
<1>4. QED
    BY <1>2, <1>3 DEF Stored

LEMMA AllStoredKept ==
    ASSUME LogTyped, LogGrows, NEW old, NEW new, RowsGrow(old, new),
           NEW n \in 0 .. Len(log), AllStored(old, n)
    PROVE  AllStored(new, n)'
<1>1. ASSUME NEW s \in 1 .. n PROVE Stored(new, s)'
    <2>1. s \in DOMAIN log /\ Stored(old, s)
        BY DEF LogTyped, AllStored
    <2>2. QED
        BY <2>1, StoredKept
<1>2. QED
    BY <1>1 DEF AllStored

LEMMA RowsSame ==
    ASSUME NEW rows
    PROVE  RowsGrow(rows, rows)
BY DEF RowsGrow

LEMMA RowsSoundKept ==
    ASSUME LogTyped, LogGrows, NEW rows, RowsSound(rows)
    PROVE  RowsSound(rows)'
<1>1. \A s \in DOMAIN log : s \in DOMAIN log' /\ log'[s] = log[s]
    BY DEF LogTyped, LogGrows
<1>2. \A k \in DOMAIN rows : OfChain(rows[k])'
    BY <1>1 DEF RowsSound, OfChain
<1>3. QED
    BY <1>2 DEF RowsSound

(* A poll that does nothing while the others work.                         *)
LEMMA PollKept ==
    ASSUME IndexerTyped, LogGrows, RowsGrow(trades, trades'),
           NEW p \in Polls, PollSound(p), poll'[p] = poll[p]
    PROVE  PollSound(p)'
<1>. PICK state \in PollState : state = poll[p]
    BY DEF IndexerTyped
<1>. PICK old : old = trades
    OBVIOUS
<1>. PICK new : new = trades'
    OBVIOUS
<1>0. LogTyped /\ Len(log) \in Nat /\ Len(log') \in Nat /\ Len(log) <= Len(log')
      /\ state.until \in Nat /\ state.newest \in Nat /\ DOMAIN log = 1 .. Len(log)
    BY DEF IndexerTyped, LogTyped, LogGrows, PollState
<1>1. ASSUME state.pc = "asking"
      PROVE  state.until <= Len(log') /\ AllStored(new, state.until)'
    <2>1. state.until <= Len(log) /\ AllStored(old, state.until)
        BY <1>1 DEF PollSound
    <2>2. QED
        BY <1>0, <2>1, AllStoredKept
<1>2. ASSUME state.pc = "working"
      PROVE  /\ state.newest <= Len(log')
             /\ \A i \in DOMAIN state.page : state.page[i] \in 1 .. Len(log')
             /\ \A s \in 1 .. state.newest :
                    Stored(new, s)' \/ s \in ToSet(state.page)
    <2>1. /\ state.newest <= Len(log)
          /\ \A i \in DOMAIN state.page : state.page[i] \in 1 .. Len(log)
          /\ \A s \in 1 .. state.newest : Stored(old, s) \/ s \in ToSet(state.page)
        BY <1>2 DEF PollSound
    <2>2. ASSUME NEW s \in 1 .. state.newest, Stored(old, s) PROVE Stored(new, s)'
        BY <1>0, <2>1, <2>2, StoredKept
    <2>3. QED
        BY <1>0, <2>1, <2>2
<1>3. QED
    BY <1>1, <1>2 DEF PollSound

LEMMA PollsKept ==
    ASSUME IndexerTyped, LogGrows, RowsGrow(trades, trades'), PollsSound,
           NEW p \in Polls, NEW state \in PollState, poll' = [poll EXCEPT ![p] = state],
           PollSound(p)'
    PROVE  PollsSound' /\ poll' \in [Polls -> PollState] /\ poll'[p] = state
<1>1. poll' \in [Polls -> PollState] /\ poll'[p] = state
    BY DEF IndexerTyped
<1>2. ASSUME NEW q \in Polls PROVE PollSound(q)'
    <2>1. CASE q = p
        BY <2>1
    <2>2. CASE q # p
        <3>1. poll'[q] = poll[q]
            BY <2>2 DEF IndexerTyped
        <3>2. PollSound(q)
            BY DEF PollsSound
        <3>3. QED
            BY <3>1, <3>2, PollKept
    <2>3. QED
        BY <2>1, <2>2
<1>3. QED
    BY <1>1, <1>2 DEF PollsSound

(* Steps that touch neither the rows nor the files.                        *)
LEMMA RestKept ==
    ASSUME IndexerTyped, StoreSound, LogGrows, UNCHANGED <<trades, nextId, cursor, disk>>
    PROVE  /\ LogTyped' /\ RowsSound(trades)' /\ RowsSound(disk.trades)'
           /\ nextId' \in Nat /\ cursor' \in 0 .. Len(log')
           /\ disk' \in DiskState /\ disk'.cursor <= Len(log')
           /\ StoreSound' /\ RowsGrow(trades, trades')
<1>. PICK old : old = trades
    OBVIOUS
<1>. PICK file \in DiskState : file = disk
    BY DEF IndexerTyped
<1>. PICK n : n = cursor
    OBVIOUS
<1>1. LogTyped /\ Len(log) \in Nat /\ Len(log') \in Nat /\ Len(log) <= Len(log')
    BY DEF IndexerTyped, LogTyped, LogGrows
<1>2. n \in 0 .. Len(log) /\ file.cursor \in 0 .. Len(log)
    BY <1>1 DEF IndexerTyped, DiskState
<1>3. /\ RowsSound(old)' /\ RowsSound(file.trades)'
    BY <1>1, RowsSoundKept DEF IndexerTyped
<1>4. /\ AllStored(old, n)' /\ AllStored(file.trades, file.cursor)'
      /\ AllStored(old, file.cursor)'
    <2>1. AllStored(old, n) /\ AllStored(file.trades, file.cursor) /\ AllStored(old, file.cursor)
        BY DEF StoreSound
    <2>2. QED
        BY <1>1, <1>2, <2>1, RowsSame, AllStoredKept
<1>5. StoreSound'
    BY <1>4 DEF StoreSound
<1>6. LogTyped' /\ RowsGrow(trades, trades')
    BY RowsSame DEF LogTyped, LogGrows
<1>7. QED
    BY <1>1, <1>2, <1>3, <1>5, <1>6 DEF IndexerTyped

LEMMA ExecutedSound ==
    ASSUME IndexerSound, NEW c \in Contents, Executed(c)
    PROVE  IndexerSound'
<1>1. IndexerTyped /\ StoreSound /\ PollsSound
    BY DEF IndexerSound
<1>2. LogGrows
    <2>1. log \in Seq(Contents) /\ log' = Append(log, c) /\ missed' = missed
        BY <1>1 DEF IndexerTyped, LogTyped, Executed, indexer
    <2>2. QED
        BY <2>1 DEF LogGrows
<1>3. UNCHANGED <<trades, nextId, cursor, disk, poll>>
    BY DEF Executed, indexer, memory
<1>4. RowsGrow(trades, trades')
    BY <1>1, <1>2, <1>3, RestKept
<1>5. \A p \in Polls : PollSound(p)'
    BY <1>1, <1>2, <1>3, <1>4, PollKept DEF PollsSound
<1>6. QED
    BY <1>1, <1>2, <1>3, <1>5, RestKept DEF IndexerSound, IndexerTyped, PollsSound

LEMMA LogKept == IndexerTyped /\ UNCHANGED log /\ missed \subseteq missed' => LogGrows
BY DEF IndexerTyped, LogTyped, LogGrows

(* A step of a poll that touches neither the rows nor the files.           *)
LEMMA PollMoves ==
    ASSUME IndexerSound, UNCHANGED <<log, trades, nextId, cursor, disk>>,
           missed \subseteq missed', NEW p \in Polls, NEW state \in PollState,
           poll' = [poll EXCEPT ![p] = state], PollSound(p)'
    PROVE  IndexerSound'
<1>1. IndexerTyped /\ StoreSound /\ PollsSound
    BY DEF IndexerSound
<1>2. LogGrows
    BY <1>1, LogKept
<1>3. PollsSound' /\ poll' \in [Polls -> PollState]
    BY <1>1, <1>2, RestKept, PollsKept
<1>4. QED
    BY <1>1, <1>2, <1>3, RestKept DEF IndexerSound, IndexerTyped

LEMMA IdleTyped == Idle \in PollState
BY DEF Idle, PollState

LEMMA IdleSound ==
    ASSUME IndexerTyped, NEW p \in Polls, poll' = [poll EXCEPT ![p] = Idle]
    PROVE  Idle \in PollState /\ PollSound(p)'
<1>1. Idle \in PollState
    BY IdleTyped
<1>2. poll'[p] = Idle
    BY DEF IndexerTyped
<1>3. poll'[p].pc = "idle"
    BY <1>2 DEF Idle
<1>4. QED
    BY <1>1, <1>3 DEF PollSound

LEMMA AskSound ==
    ASSUME IndexerSound, NEW p \in Polls, AskSignatures(p)
    PROVE  IndexerSound'
<1>1. IndexerTyped /\ StoreSound
    BY DEF IndexerSound
<1>. DEFINE state == [Idle EXCEPT !.pc = "asking", !.until = cursor]
<1>2. /\ state \in PollState /\ state.pc = "asking" /\ state.until = cursor
    <2>1. PICK rest \in PollState : rest = Idle
        BY IdleTyped
    <2>2. PICK n \in Nat : n = cursor
        BY <1>1 DEF IndexerTyped
    <2>3. PICK new : new = [rest EXCEPT !.pc = "asking", !.until = n]
        OBVIOUS
    <2>4. new \in PollState /\ new.pc = "asking" /\ new.until = n
        BY <2>3 DEF PollState
    <2>5. QED
        BY <2>1, <2>2, <2>3, <2>4
<1>3. poll' = [poll EXCEPT ![p] = state] /\ UNCHANGED <<log, trades, nextId, cursor, disk, missed>>
    BY DEF AskSignatures, memory
<1>. HIDE DEF state
<1>4. poll'[p] = state
    BY <1>1, <1>3 DEF IndexerTyped
<1>5. PollSound(p)'
    <2>1. AllStored(trades, cursor)'
        BY <1>1, <1>3 DEF StoreSound, AllStored, Stored, Holds
    <2>2. cursor <= Len(log')
        BY <1>1, <1>3 DEF IndexerTyped, LogTyped
    <2>3. poll'[p].pc = "asking" /\ poll'[p].until = cursor'
        BY <1>2, <1>3, <1>4
    <2>4. QED
        BY <1>3, <2>1, <2>2, <2>3 DEF PollSound
<1>6. PICK st \in PollState : st = state
    BY <1>2
<1>7. QED
    BY <1>3, <1>5, <1>6, PollMoves

LEMMA AnswerFailsSound ==
    ASSUME IndexerSound, NEW p \in Polls, AnswerFails(p)
    PROVE  IndexerSound'
BY IdleSound, PollMoves DEF AnswerFails, IndexerSound, memory

-----------------------------------------------------------------------------
LEMMA MinOfTwo ==
    ASSUME NEW a \in Int, NEW b \in Int
    PROVE  Min({a, b}) = IF a <= b THEN a ELSE b
<1>. DEFINE m == IF a <= b THEN a ELSE b
<1>1. m \in {a, b} /\ \A y \in {a, b} : m <= y
    OBVIOUS
<1>2. ASSUME NEW x \in {a, b}, \A y \in {a, b} : x <= y
      PROVE  x = m
    BY <1>2
<1>. HIDE DEF m
<1>3. QED
    BY <1>1, <1>2, Zenon DEF Min, m

(* The page is the end of the chain.                                       *)
LEMMA PageTyped ==
    ASSUME LogTyped, NEW until \in 0 .. Len(log)
    PROVE  \E taken \in 0 .. Len(log) - until :
               PageAfter(until) = [n \in 1 .. taken |-> Len(log) - taken + n]
<1>. PICK last \in Nat : last = Len(log)
    BY DEF LogTyped
<1>0. /\ last - until \in Nat /\ Limit \in Nat /\ Backfill \in Nat
    BY IndexerAssumption
<1>. DEFINE size  == Min({last - until, Limit})
            taken == IF cursor = 0 THEN Min({size, Backfill}) ELSE size
<1>1. size \in 0 .. last - until
    BY <1>0, MinOfTwo
<1>. HIDE DEF size
<1>2. taken \in 0 .. last - until
    BY <1>0, <1>1, MinOfTwo
<1>3. PageAfter(until) = [n \in 1 .. taken |-> Len(log) - taken + n]
    BY Zenon DEF PageAfter, taken, size
<1>4. QED
    BY <1>2, <1>3

LEMMA AnswerSound ==
    ASSUME IndexerSound, NEW p \in Polls, AnswerPage(p)
    PROVE  IndexerSound'
<1>1. IndexerTyped /\ StoreSound /\ PollSound(p) /\ LogTyped
    BY DEF IndexerSound, PollsSound, IndexerTyped
<1>. PICK state \in PollState : state = poll[p]
    BY <1>1 DEF IndexerTyped
<1>. PICK last \in Nat : last = Len(log)
    BY <1>1 DEF LogTyped
<1>. PICK until \in Nat : until = state.until
    BY DEF PollState
<1>2. until \in 0 .. last /\ AllStored(trades, until)
    BY <1>1 DEF PollSound, AnswerPage
<1>. PICK page : page = PageAfter(until)
    OBVIOUS
<1>3. PICK taken \in 0 .. last - until : page = [n \in 1 .. taken |-> last - taken + n]
    BY <1>1, <1>2, PageTyped, ZenonT(60)
<1>4. UNCHANGED <<log, trades, nextId, cursor, disk>>
    BY DEF AnswerPage, memory
<1>5. CASE taken = 0
    <2>1. page = << >>
        BY <1>3, <1>5
    <2>2. poll' = [poll EXCEPT ![p] = Idle] /\ UNCHANGED missed
        BY <2>1, Zenon DEF AnswerPage
    <2>3. QED
        BY <1>1, <1>4, <2>2, IdleSound, PollMoves
<1>6. CASE taken # 0
    <2>1. /\ page \in Seq(Nat) /\ Len(page) = taken /\ page # << >>
          /\ Head(page) = last - taken + 1 /\ page[Len(page)] = last
        BY <1>3, <1>6, SMTT(30)
    <2>. DEFINE new == [Idle EXCEPT !.pc = "working", !.page = page, !.newest = Last(page)]
    <2>2. /\ poll' = [poll EXCEPT ![p] = new]
          /\ missed' = missed \cup {s \in until + 1 .. last : s < Head(page)}
        BY <2>1, Zenon DEF AnswerPage
    <2>3. new \in PollState /\ new.pc = "working" /\ new.page = page /\ new.newest = last
        <3>1. PICK rest \in PollState : rest = Idle
            BY IdleTyped
        <3>2. PICK st : st = [rest EXCEPT !.pc = "working", !.page = page, !.newest = last]
            OBVIOUS
        <3>3. st \in PollState /\ st.pc = "working" /\ st.page = page /\ st.newest = last
            BY <2>1, <3>2 DEF PollState
        <3>4. Last(page) = last
            BY <2>1 DEF Last
        <3>5. QED
            BY <3>1, <3>2, <3>3, <3>4
    <2>. HIDE DEF new
    <2>4. new \in PollState
        BY <2>3
    <2>5. poll'[p] = new
        BY <1>1, <2>2 DEF IndexerTyped
    <2>6. ASSUME NEW s \in 1 .. last
          PROVE  Stored(trades, s)' \/ s \in ToSet(page)
        <3>1. CASE s <= until
            <4>1. Stored(trades, s)
                BY <1>2, <3>1 DEF AllStored
            <4>2. QED
                BY <4>1, <1>4, <2>2 DEF Stored, Holds
        <3>2. CASE until < s /\ s < last - taken + 1
            BY <1>2, <2>1, <2>2, <3>2 DEF Stored
        <3>3. CASE s >= last - taken + 1
            <4>. PICK t \in Nat : t = taken /\ t <= last /\ page = [n \in 1 .. t |-> last - t + n]
                BY <1>2, <1>3
            <4>0. s - (last - t) \in 1 .. t
                BY <3>3
            <4>. PICK k \in 1 .. t : k = s - (last - t)
                BY <4>0
            <4>1. page[k] = s /\ k \in DOMAIN page
                OBVIOUS
            <4>2. QED
                BY <4>1 DEF ToSet
        <3>4. QED
            BY <1>2, <1>3, <3>1, <3>2, <3>3
    <2>7. \A i \in DOMAIN page : page[i] \in 1 .. last
        BY <1>2, <1>3
    <2>8. PollSound(p)'
        <3>1. /\ poll'[p].pc = "working" /\ poll'[p].newest = last /\ poll'[p].page = page
              /\ Len(log') = last
            BY <1>4, <2>3, <2>5
        <3>2. QED
            BY <2>6, <2>7, <3>1 DEF PollSound
    <2>9. PICK st \in PollState : st = new
        BY <2>4
    <2>10. QED
        BY <1>4, <2>2, <2>8, <2>9, PollMoves
<1>7. QED
    BY <1>5, <1>6

(* What is left of a page.                                                 *)
LEMMA HeadAndTail ==
    ASSUME NEW page \in Seq(Nat), page # << >>
    PROVE  /\ Tail(page) \in Seq(Nat) /\ Head(page) \in ToSet(page)
           /\ ToSet(Tail(page)) \subseteq ToSet(page)
           /\ ToSet(page) \subseteq {Head(page)} \cup ToSet(Tail(page))
<1>1. /\ Tail(page) \in Seq(Nat) /\ Len(page) \in Nat /\ Len(page) >= 1
      /\ Len(Tail(page)) = Len(page) - 1 /\ Head(page) = page[1]
      /\ \A i \in 1 .. Len(page) - 1 : Tail(page)[i] = page[i + 1]
    OBVIOUS
<1>. PICK rest : rest = Tail(page)
    OBVIOUS
<1>2. DOMAIN rest = 1 .. Len(page) - 1 /\ DOMAIN page = 1 .. Len(page)
    BY <1>1
<1>3. Head(page) \in ToSet(page)
    BY <1>1, <1>2 DEF ToSet
<1>4. ASSUME NEW i \in DOMAIN rest PROVE rest[i] \in ToSet(page)
    <2>1. i + 1 \in DOMAIN page /\ rest[i] = page[i + 1]
        BY <1>1, <1>2
    <2>2. QED
        BY <2>1 DEF ToSet
<1>5. ASSUME NEW i \in DOMAIN page PROVE page[i] = Head(page) \/ page[i] \in ToSet(rest)
    <2>1. CASE i = 1
        BY <1>1, <2>1
    <2>2. CASE i # 1
        <3>1. i - 1 \in DOMAIN rest /\ rest[i - 1] = page[(i - 1) + 1] /\ (i - 1) + 1 = i
            BY <1>1, <1>2, <2>2
        <3>2. rest[i - 1] \in ToSet(rest)
            BY <3>1 DEF ToSet
        <3>3. QED
            BY <3>1, <3>2
    <2>3. QED
        BY <2>1, <2>2
<1>6. QED
    BY <1>1, <1>3, <1>4, <1>5 DEF ToSet

LEMMA NextTyped ==
    ASSUME IndexerTyped, NEW p \in Polls, NEW added \in BOOLEAN, poll[p].page # << >>,
           poll' = NextOf(p, added)
    PROVE  \E state \in PollState :
               /\ poll' = [poll EXCEPT ![p] = state] /\ poll'[p] = state
               /\ state.pc = poll[p].pc /\ state.newest = poll[p].newest
               /\ state.page = Tail(poll[p].page)
<1>. DEFINE old == poll[p]
            half == [old EXCEPT !.page = Tail(old.page)]
            state == [half EXCEPT !.added = old.added \/ added]
<1>1. poll' = [poll EXCEPT ![p] = state]
    BY DEF NextOf, IndexerTyped
<1>2. PICK o \in PollState : o = old
    BY DEF IndexerTyped
<1>3. PICK b \in BOOLEAN : b = (o.added \/ added)
    BY Zenon
<1>4. PICK tail \in Seq(Nat) : tail = Tail(o.page)
    BY <1>2, HeadAndTail DEF PollState
<1>5. PICK h : h = [o EXCEPT !.page = tail]
    OBVIOUS
<1>6. h \in PollState /\ h.pc = o.pc /\ h.newest = o.newest /\ h.page = tail
    BY <1>5 DEF PollState
<1>7. PICK new : new = [h EXCEPT !.added = b]
    OBVIOUS
<1>8. new \in PollState /\ new.pc = o.pc /\ new.newest = o.newest /\ new.page = tail
    BY <1>6, <1>7 DEF PollState
<1>9. new = state
    BY <1>2, <1>3, <1>4, <1>5, <1>7, Zenon
<1>. HIDE DEF old, half, state
<1>10. poll' = [poll EXCEPT ![p] = new] /\ poll'[p] = new
    BY <1>1, <1>9 DEF IndexerTyped
<1>11. QED
    BY <1>2, <1>4, <1>8, <1>10 DEF old

(* The poll that has dealt with the head of its page.                      *)
LEMMA HeadDone ==
    ASSUME IndexerSound, LogGrows, Len(log') = Len(log), RowsGrow(trades, trades'),
           NEW p \in Polls, poll[p].pc = "working", poll[p].page # << >>,
           NEW added \in BOOLEAN, poll' = NextOf(p, added),
           NEW s, s = Head(poll[p].page), Stored(trades, s)'
    PROVE  \E state \in PollState : poll' = [poll EXCEPT ![p] = state] /\ PollSound(p)'
<1>1. IndexerTyped /\ PollSound(p) /\ LogTyped
    BY DEF IndexerSound, PollsSound, IndexerTyped
<1>. PICK old : old = trades
    OBVIOUS
<1>. PICK new : new = trades'
    OBVIOUS
<1>2. PICK page \in Seq(Nat), newest \in Nat : page = poll[p].page /\ newest = poll[p].newest
    BY <1>1 DEF IndexerTyped, PollState
<1>3. PICK state \in PollState :
               /\ poll' = [poll EXCEPT ![p] = state] /\ poll'[p] = state
               /\ state.pc = poll[p].pc /\ state.newest = poll[p].newest
               /\ state.page = Tail(poll[p].page)
    BY <1>1, NextTyped
<1>. PICK tail : tail = Tail(page)
    OBVIOUS
<1>. PICK last \in Nat : last = Len(log)
    BY <1>1 DEF LogTyped
<1>4. /\ tail \in Seq(Nat) /\ s \in ToSet(page)
      /\ ToSet(tail) \subseteq ToSet(page) /\ ToSet(page) \subseteq {s} \cup ToSet(tail)
    BY <1>2, HeadAndTail
<1>5. newest <= last /\ ToSet(page) \subseteq 1 .. last
    BY <1>1, <1>2 DEF PollSound, ToSet
<1>6. ASSUME NEW t \in 1 .. newest PROVE Stored(new, t)' \/ t \in ToSet(tail)
    <2>1. Stored(old, t) \/ t \in ToSet(page)
        BY <1>1, <1>2 DEF PollSound
    <2>2. CASE Stored(old, t)
        <3>1. t \in DOMAIN log
            BY <1>1, <1>5 DEF LogTyped
        <3>2. QED
            BY <1>1, <2>2, <3>1, StoredKept
    <2>3. CASE t \in ToSet(page)
        BY <1>4, <2>3
    <2>4. QED
        BY <2>1, <2>2, <2>3
<1>7. \A i \in DOMAIN tail : tail[i] \in 1 .. last
    BY <1>4, <1>5 DEF ToSet
<1>8. PollSound(p)'
    <2>1. /\ poll'[p].pc = "working" /\ poll'[p].newest = newest /\ poll'[p].page = tail
          /\ Len(log') = last
        BY <1>2, <1>3
    <2>2. QED
        BY <1>5, <1>6, <1>7, <2>1 DEF PollSound
<1>9. QED
    BY <1>3, <1>8

LEMMA SkipSound ==
    ASSUME IndexerSound, NEW p \in Polls, SkipCursor(p)
    PROVE  IndexerSound'
<1>1. IndexerTyped /\ StoreSound /\ PollSound(p) /\ LogTyped
    BY DEF IndexerSound, PollsSound, IndexerTyped
<1>2. UNCHANGED <<log, trades, nextId, cursor, disk, missed>>
    BY DEF SkipCursor, memory
<1>3. LogGrows /\ RowsGrow(trades, trades')
    BY <1>1, <1>2, LogKept, RestKept
<1>4. PICK s : s = Head(poll[p].page)
    OBVIOUS
<1>5. s = cursor /\ s \in 1 .. Len(log)
    <2>1. poll[p].page \in Seq(Nat) /\ poll[p].page # << >>
        BY <1>1 DEF IndexerTyped, PollState, SkipCursor
    <2>2. s = poll[p].page[1] /\ 1 \in DOMAIN poll[p].page
        BY <1>4, <2>1
    <2>3. QED
        BY <1>1, <1>4, <2>2 DEF PollSound, SkipCursor
<1>6. Stored(trades, s)
    <2>1. s \in 1 .. cursor
        BY <1>5
    <2>2. QED
        BY <1>1, <2>1 DEF StoreSound, AllStored
<1>7. Stored(trades, s)'
    BY <1>2, <1>6 DEF Stored, Holds
<1>8. PICK state \in PollState : poll' = [poll EXCEPT ![p] = state] /\ PollSound(p)'
    BY <1>2, <1>3, <1>4, <1>7, HeadDone DEF SkipCursor
<1>9. QED
    BY <1>2, <1>8, PollMoves

LEMMA FetchFailsSound ==
    ASSUME IndexerSound, NEW p \in Polls, FetchFails(p)
    PROVE  IndexerSound'
<1>1. IndexerTyped /\ StoreSound
    BY DEF IndexerSound
<1>2. UNCHANGED <<log, trades, nextId, cursor, disk>> /\ missed \subseteq missed'
    BY DEF FetchFails, memory
<1>3. LogGrows /\ RowsGrow(trades, trades')
    BY <1>1, <1>2, LogKept, RestKept
<1>4. PICK s : s = Head(poll[p].page)
    OBVIOUS
<1>5. Stored(trades, s)'
    BY <1>4 DEF FetchFails, Stored
<1>6. PICK state \in PollState : poll' = [poll EXCEPT ![p] = state] /\ PollSound(p)'
    BY <1>2, <1>3, <1>4, <1>5, HeadDone DEF FetchFails
<1>7. QED
    BY <1>2, <1>6, PollMoves

(* The rows of what is processed come after those that were there; the cap *)
(* drops the oldest, and what is dropped counts as missed.                 *)
LEMMA ProcessSound ==
    ASSUME IndexerSound, NEW p \in Polls, ProcessSignature(p)
    PROVE  IndexerSound'
<1>1. IndexerTyped /\ StoreSound /\ PollsSound /\ PollSound(p) /\ LogTyped /\ RowsSound(trades)
    BY DEF IndexerSound, PollsSound, IndexerTyped
<1>. PICK s : s = Head(poll[p].page)
    OBVIOUS
<1>. PICK st : st = Processed(s)
    OBVIOUS
<1>. PICK old : old = trades
    OBVIOUS
<1>. PICK new : new = st.trades
    OBVIOUS
<1>. PICK file \in DiskState : file = disk
    BY <1>1 DEF IndexerTyped
<1>2. /\ trades' = new /\ nextId' = st.nextId /\ UNCHANGED <<log, cursor, disk>>
      /\ poll' = NextOf(p, st.nextId # nextId)
      /\ poll[p].pc = "working" /\ poll[p].page # << >>
    BY Zenon DEF ProcessSignature
<1>3. missed' = missed \cup (IF Twins(s) THEN {s} ELSE {})
                       \cup {row.sig : row \in ToSet(old) \ ToSet(new)}
    BY Zenon DEF ProcessSignature, Twins
<1>4. s \in DOMAIN log
    <2>1. poll[p].page \in Seq(Nat)
        BY <1>1 DEF IndexerTyped, PollState
    <2>2. s = poll[p].page[1] /\ 1 \in DOMAIN poll[p].page
        BY <1>2, <2>1
    <2>3. QED
        BY <1>1, <1>2, <2>2 DEF PollSound, LogTyped
<1>5. /\ RowsSound(new) /\ st.nextId \in Nat
      /\ Twins(s) \/ \A j \in DOMAIN log[s] : Covered(new, old, s, log[s][j], Len(log[s]))
    BY <1>1, <1>4, ProcessedSound DEF IndexerTyped
<1>6. LogGrows
    BY <1>1, <1>2, <1>3, LogKept
<1>7. RowsGrow(old, new)
    <2>. SUFFICES ASSUME NEW k \in DOMAIN old, old[k].sig \notin missed'
                  PROVE  \E m \in DOMAIN new : new[m] = old[k]
        BY DEF RowsGrow
    <2>1. old[k] \in ToSet(old)
        BY DEF ToSet
    <2>2. old[k] \in ToSet(new)
        BY <1>3, <2>1
    <2>3. QED
        BY <2>2 DEF ToSet
<1>8. Stored(new, s)'
    <2>. SUFFICES ASSUME s \notin missed', NEW i \in DOMAIN log[s]
                  PROVE  \E n \in DOMAIN new : new[n].sig = s /\ new[n].ev = log[s][i]
        BY <1>2 DEF Stored, Holds
    <2>1. ~Twins(s)
        BY <1>3
    <2>2. Covered(new, old, s, log[s][i], Len(log[s]))
        BY <1>5, <2>1
    <2>3. CASE \E r \in ToSet(old) : r.sig = s /\ r.ev = log[s][i]
        <3>1. PICK k \in DOMAIN old : old[k].sig = s /\ old[k].ev = log[s][i]
            BY <2>3 DEF ToSet
        <3>2. QED
            BY <1>7, <3>1, SMTT(30) DEF RowsGrow
    <2>4. QED
        BY <2>2, <2>3 DEF Covered
<1>9. PICK state \in PollState : poll' = [poll EXCEPT ![p] = state] /\ PollSound(p)'
    <2>1. PICK added \in BOOLEAN : added = (st.nextId # nextId)
        BY Zenon
    <2>2. poll' = NextOf(p, added)
        BY <1>2, <2>1, Zenon
    <2>3. Stored(trades, s)'
        BY <1>2, <1>8
    <2>4. QED
        BY <1>2, <1>6, <1>7, <2>2, <2>3, HeadDone
<1>10. PollsSound' /\ poll' \in [Polls -> PollState]
    BY <1>1, <1>2, <1>6, <1>7, <1>9, PollsKept
<1>11. RowsSound(new)' /\ RowsSound(file.trades)'
    BY <1>1, <1>5, <1>6, RowsSoundKept DEF IndexerTyped
<1>. PICK n \in Nat : n = cursor
    BY <1>1 DEF IndexerTyped
<1>12. /\ n \in 0 .. Len(log) /\ file.cursor \in 0 .. Len(log)
    BY <1>1 DEF IndexerTyped, DiskState
<1>13. AllStored(new, n)' /\ AllStored(file.trades, file.cursor)' /\ AllStored(new, file.cursor)'
    <2>1. AllStored(old, n) /\ AllStored(file.trades, file.cursor) /\ AllStored(old, file.cursor)
        BY <1>1 DEF StoreSound
    <2>2. QED
        BY <1>1, <1>6, <1>7, <1>12, <2>1, RowsSame, AllStoredKept
<1>14. StoreSound'
    BY <1>2, <1>13 DEF StoreSound
<1>15. LogTyped'
    BY <1>1, <1>2 DEF LogTyped
<1>16. QED
    BY <1>2, <1>5, <1>10, <1>11, <1>12, <1>14, <1>15 DEF IndexerSound, IndexerTyped

-----------------------------------------------------------------------------
(* What persistStore leaves in the files.                                  *)
CursorMoved(half, c, full) ==
    full \in DiskState /\ full.trades = half.trades /\ full.cursor \in {c, half.cursor}

LEMMA CursorTyped ==
    \A half \in DiskState, c \in Nat : CursorMoved(half, c, CursorSaved(half, c))
<1>. SUFFICES ASSUME NEW half \in DiskState, NEW c \in Nat
              PROVE  CursorMoved(half, c, CursorSaved(half, c))
    BY Zenon
<1>1. PICK full : full = CursorSaved(half, c)
    OBVIOUS
<1>2. CASE c = 0
    BY <1>1, <1>2 DEF CursorSaved, CursorMoved
<1>3. CASE c # 0
    <2>1. full = [half EXCEPT !.cursor = c]
        BY <1>1, <1>3 DEF CursorSaved
    <2>2. CursorMoved(half, c, full)
        BY <2>1 DEF DiskState, CursorMoved
    <2>3. QED
        BY <1>1, <2>2
<1>4. QED
    BY <1>2, <1>3

(* A step that leaves the chain and the rows alone and writes the files.   *)
LEMMA FilesKept ==
    ASSUME IndexerTyped, StoreSound, UNCHANGED <<log, trades, nextId, missed>>,
           NEW n \in 0 .. Len(log), AllStored(trades, n), cursor' = n,
           NEW file \in DiskState, disk' = file, file.cursor \in {n, disk.cursor},
           file.trades = trades \/ file = disk
    PROVE  LogTyped' /\ StoreSound' /\ RowsSound(trades)' /\ RowsSound(disk.trades)'
           /\ disk'.cursor <= Len(log')
<1>1. LogTyped /\ LogGrows
    BY LogKept DEF IndexerTyped
<1>. PICK old : old = trades
    OBVIOUS
<1>2. RowsSound(old) /\ RowsSound(file.trades)
    BY DEF IndexerTyped
<1>3. RowsSound(old)' /\ RowsSound(file.trades)'
    BY <1>1, <1>2, RowsSoundKept
<1>4. AllStored(old, n) /\ AllStored(old, file.cursor) /\ AllStored(file.trades, file.cursor)
    BY DEF StoreSound
<1>5. AllStored(old, n)' /\ AllStored(old, file.cursor)' /\ AllStored(file.trades, file.cursor)'
    BY <1>4 DEF AllStored, Stored, Holds
<1>6. StoreSound'
    BY <1>5 DEF StoreSound
<1>7. QED
    BY <1>1, <1>3, <1>6 DEF IndexerTyped, LogTyped

LEMMA EndPollSound ==
    ASSUME IndexerSound, NEW p \in Polls, EndPoll(p)
    PROVE  IndexerSound'
<1>1. IndexerTyped /\ StoreSound /\ PollsSound /\ PollSound(p) /\ LogTyped /\ trades \in Seq(Rows)
    BY DEF IndexerSound, PollsSound, IndexerTyped, RowsSound
<1>. PICK newest \in Nat : newest = poll[p].newest
    BY <1>1 DEF IndexerTyped, PollState
<1>. PICK old \in DiskState : old = disk
    BY <1>1 DEF IndexerTyped
<1>. PICK rows \in Seq(Rows), id \in Nat : rows = trades /\ id = nextId
    BY <1>1 DEF IndexerTyped
<1>. PICK half : half = [old EXCEPT !.trades = rows, !.nextId = id]
    OBVIOUS
<1>. PICK full : full = CursorSaved(half, newest)
    OBVIOUS
<1>2. /\ poll[p].pc = "working" /\ poll[p].page = << >> /\ cursor' = newest
      /\ UNCHANGED <<log, trades, nextId, missed>>
      /\ poll' = [poll EXCEPT ![p] = Idle]
    BY DEF EndPoll
<1>3. disk' \in {old, half, full}
    BY <1>2, Zenon DEF EndPoll, RowsSaved, HalfSaved
<1>4. newest \in 0 .. Len(log) /\ AllStored(trades, newest)
    <2>1. ToSet(poll[p].page) = {}
        BY <1>2 DEF ToSet
    <2>2. QED
        BY <1>1, <1>2, <2>1 DEF PollSound, AllStored, LogTyped
<1>5. /\ half \in DiskState /\ half.trades = trades /\ half.cursor = old.cursor
      /\ full \in DiskState /\ full.trades = trades /\ full.cursor \in {newest, old.cursor}
    <2>1. half \in DiskState /\ half.trades = rows /\ half.cursor = old.cursor
        BY DEF DiskState
    <2>2. CursorMoved(half, newest, full)
        BY <2>1, CursorTyped, Zenon
    <2>3. QED
        BY <2>1, <2>2 DEF CursorMoved
<1>6. PICK file \in DiskState : /\ disk' = file /\ file.cursor \in {newest, disk.cursor}
                                /\ file.trades = trades \/ file = disk
    BY <1>3, <1>5
<1>7. LogTyped' /\ StoreSound' /\ RowsSound(trades)' /\ RowsSound(disk.trades)'
      /\ disk'.cursor <= Len(log')
    BY <1>1, <1>2, <1>4, <1>6, FilesKept
<1>8. PollsSound' /\ poll' \in [Polls -> PollState]
    BY <1>1, <1>2, LogKept, RowsSame, IdleSound, PollsKept
<1>9. QED
    BY <1>1, <1>2, <1>4, <1>6, <1>7, <1>8 DEF IndexerSound, IndexerTyped

-----------------------------------------------------------------------------
(* After a restart memory is what the files hold.                          *)
LEMMA LoadSound ==
    ASSUME LogTyped', NEW file \in DiskState, disk' = file, Load(file),
           RowsSound(file.trades)', file.cursor <= Len(log'),
           AllStored(file.trades, file.cursor)'
    PROVE  IndexerSound'
<1>1. /\ trades' = file.trades /\ nextId' = file.nextId /\ cursor' = file.cursor
      /\ poll' = [p \in Polls |-> Idle]
    BY DEF Load
<1>2. file.nextId \in Nat /\ file.cursor \in Nat /\ Len(log') \in Nat
    BY DEF DiskState, LogTyped
<1>3. IndexerTyped'
    BY <1>1, <1>2, IdleTyped DEF IndexerTyped
<1>4. StoreSound'
    BY <1>1 DEF StoreSound
<1>5. PollsSound'
    <2>1. ASSUME NEW p \in Polls PROVE poll'[p].pc = "idle"
        <3>1. poll'[p] = Idle
            BY <1>1
        <3>2. QED
            BY <3>1 DEF Idle
    <2>2. QED
        BY <2>1 DEF PollsSound, PollSound
<1>6. QED
    BY <1>3, <1>4, <1>5 DEF IndexerSound

LEMMA StopSound == IndexerSound /\ StopAndStart => IndexerSound'
<1>. SUFFICES ASSUME IndexerSound, StopAndStart PROVE IndexerSound'
    OBVIOUS
<1>1. IndexerTyped /\ StoreSound /\ LogTyped /\ RowsSound(trades) /\ trades \in Seq(Rows)
    BY DEF IndexerSound, IndexerTyped, RowsSound
<1>. PICK old \in DiskState : old = disk
    BY <1>1 DEF IndexerTyped
<1>. PICK rows \in Seq(Rows), id \in Nat : rows = trades /\ id = nextId
    BY <1>1 DEF IndexerTyped
<1>. PICK half : half = [old EXCEPT !.trades = rows, !.nextId = id]
    OBVIOUS
<1>. PICK n \in Nat : n = cursor
    BY <1>1 DEF IndexerTyped
<1>. PICK full : full = CursorSaved(half, n)
    OBVIOUS
<1>2. disk' = full /\ Load(full) /\ UNCHANGED <<log, missed>>
    BY Zenon DEF StopAndStart, RowsSaved
<1>3. full \in DiskState /\ full.trades = trades /\ full.cursor \in {n, old.cursor}
    <2>1. half \in DiskState /\ half.trades = rows /\ half.cursor = old.cursor
        BY DEF DiskState
    <2>2. CursorMoved(half, n, full)
        BY <2>1, CursorTyped, Zenon
    <2>3. QED
        BY <2>1, <2>2 DEF CursorMoved
<1>4. LogGrows
    BY <1>1, <1>2, LogKept
<1>5. RowsSound(rows)'
    BY <1>1, <1>4, RowsSoundKept
<1>6. AllStored(rows, full.cursor)'
    <2>1. AllStored(rows, full.cursor)
        BY <1>1, <1>3 DEF StoreSound
    <2>2. QED
        BY <1>2, <2>1 DEF AllStored, Stored, Holds
<1>7. full.cursor <= Len(log') /\ LogTyped'
    BY <1>1, <1>2, <1>3 DEF IndexerTyped, LogTyped
<1>8. QED
    BY <1>2, <1>3, <1>5, <1>6, <1>7, LoadSound

LEMMA CrashSound == IndexerSound /\ CrashAndStart => IndexerSound'
<1>. SUFFICES ASSUME IndexerSound, CrashAndStart PROVE IndexerSound'
    OBVIOUS
<1>1. IndexerTyped /\ StoreSound /\ LogTyped
    BY DEF IndexerSound, IndexerTyped
<1>. PICK file \in DiskState : file = disk
    BY <1>1 DEF IndexerTyped
<1>2. disk' = file /\ Load(file) /\ UNCHANGED <<log, missed>>
    BY DEF CrashAndStart
<1>3. LogGrows
    BY <1>1, <1>2, LogKept
<1>4. RowsSound(file.trades)'
    BY <1>1, <1>3, RowsSoundKept DEF IndexerTyped
<1>5. AllStored(file.trades, file.cursor)'
    <2>1. AllStored(file.trades, file.cursor)
        BY <1>1 DEF StoreSound
    <2>2. QED
        BY <1>2, <2>1 DEF AllStored, Stored, Holds
<1>6. file.cursor <= Len(log') /\ LogTyped'
    BY <1>1, <1>2 DEF IndexerTyped, LogTyped
<1>7. QED
    BY <1>2, <1>4, <1>5, <1>6, LoadSound

LEMMA TornSound == IndexerSound /\ TornAndStart => IndexerSound'
<1>. SUFFICES ASSUME IndexerSound, TornAndStart PROVE IndexerSound'
    OBVIOUS
<1>1. IndexerTyped /\ LogTyped
    BY DEF IndexerSound, IndexerTyped
<1>. PICK c \in Nat : c = disk.cursor
    BY <1>1 DEF IndexerTyped, DiskState
<1>. PICK none : none = NoFile
    OBVIOUS
<1>2. none \in DiskState /\ none.trades = << >>
    BY DEF NoFile, DiskState
<1>. PICK file : file = [none EXCEPT !.cursor = c]
    OBVIOUS
<1>3. file \in DiskState /\ file.trades = << >> /\ file.cursor = c
    BY <1>2 DEF DiskState
<1>4. disk' = file /\ Load(file) /\ UNCHANGED log /\ missed' = missed \cup 1 .. c
    BY Zenon DEF TornAndStart
<1>5. RowsSound(file.trades)'
    <2>1. << >> \in Seq(Rows) /\ \A k \in DOMAIN << >> : FALSE
        OBVIOUS
    <2>2. QED
        BY <1>3, <2>1, Zenon DEF RowsSound
<1>6. AllStored(file.trades, file.cursor)'
    BY <1>3, <1>4 DEF AllStored, Stored
<1>7. file.cursor <= Len(log') /\ LogTyped'
    BY <1>1, <1>3, <1>4 DEF IndexerTyped, LogTyped
<1>8. QED
    BY <1>3, <1>4, <1>5, <1>6, <1>7, LoadSound

LEMMA IndexerStart == IndexerInit => IndexerSound
<1>. SUFFICES ASSUME IndexerInit PROVE IndexerSound
    OBVIOUS
<1>1. /\ log = << >> /\ trades = << >> /\ nextId = 1 /\ cursor = 0 /\ missed = {}
      /\ disk = NoFile /\ poll = [p \in Polls |-> Idle]
    BY DEF IndexerInit
<1>2. disk \in DiskState /\ disk.trades = << >> /\ disk.cursor = 0
    BY <1>1 DEF NoFile, DiskState
<1>3. RowsSound(<< >>) /\ LogTyped /\ Len(log) = 0
    BY <1>1 DEF RowsSound, LogTyped
<1>4. IndexerTyped
    BY <1>1, <1>2, <1>3, IdleTyped DEF IndexerTyped
<1>5. StoreSound
    BY <1>1, <1>2 DEF StoreSound, AllStored
<1>6. PollsSound
    <2>1. ASSUME NEW p \in Polls PROVE poll[p].pc = "idle"
        <3>1. poll[p] = Idle
            BY <1>1
        <3>2. QED
            BY <3>1 DEF Idle
    <2>2. QED
        BY <2>1 DEF PollsSound, PollSound
<1>7. QED
    BY <1>4, <1>5, <1>6 DEF IndexerSound

LEMMA IndexerStep == IndexerSound /\ [IndexerNext]_indexerVars => IndexerSound'
<1>. SUFFICES ASSUME IndexerSound, [IndexerNext]_indexerVars PROVE IndexerSound'
    OBVIOUS
<1>1. CASE UNCHANGED indexerVars
    <2>1. UNCHANGED <<log, trades, nextId, cursor, disk, poll, missed>>
        BY <1>1 DEF indexerVars, indexer, memory
    <2>2. RowsSound(trades)' /\ RowsSound(disk.trades)'
        BY <2>1 DEF IndexerSound, IndexerTyped, RowsSound, OfChain
    <2>3. IndexerTyped'
        BY <2>1, <2>2 DEF IndexerSound, IndexerTyped, LogTyped
    <2>4. StoreSound'
        BY <2>1 DEF IndexerSound, StoreSound, AllStored, Stored, Holds
    <2>5. PollsSound'
        BY <2>1 DEF IndexerSound, PollsSound, PollSound, AllStored, Stored, Holds
    <2>6. QED
        BY <2>3, <2>4, <2>5 DEF IndexerSound
<1>2. ASSUME NEW c \in Contents, Executed(c) PROVE IndexerSound'
    BY <1>2, ExecutedSound
<1>3. ASSUME NEW p \in Polls, Poll(p) \/ AnswerFails(p) \/ FetchFails(p) PROVE IndexerSound'
    BY <1>3, AskSound, AnswerSound, SkipSound, ProcessSound, EndPollSound, AnswerFailsSound,
       FetchFailsSound, Zenon DEF Poll
<1>4. QED
    BY <1>1, <1>2, <1>3, StopSound, CrashSound, TornSound, Zenon DEF IndexerNext

LEMMA IndexerAlways == IndexerSpec => []IndexerSound
<1>1. QED
    BY IndexerStart, IndexerStep, PTL DEF IndexerSpec

(* What the cursors have passed is a row or was given up, in memory and in *)
(* the file, for any number of polls that overlap, any page size, cap and  *)
(* log: the crash between the two writes of persistStore leaves rows ahead *)
(* of the cursor and never a cursor ahead of the rows, and a poll that     *)
(* ends late sets the cursor back only to what is stored.                  *)
THEOREM PassedAreStored == IndexerSpec => []PassedIsStored
<1>1. IndexerSound => PassedIsStored
    BY DEF IndexerSound, StoreSound, AllStored, Stored, PassedIsStored
<1>2. QED
    BY <1>1, IndexerAlways, PTL

-----------------------------------------------------------------------------
(* Rows are numbered upwards, below the next number, and none stands twice *)
Numbered(rows, id) ==
    /\ \A i \in DOMAIN rows : rows[i].id < id
    /\ \A i, j \in DOMAIN rows :
          i < j => /\ rows[i].id < rows[j].id
                   /\ ~(rows[i].sig = rows[j].sig /\ rows[i].ev = rows[j].ev)

(* A transaction with two events that look alike is missed by the time one *)
(* of them is a row.                                                       *)
TwinsMissed(rows) == \A k \in DOMAIN rows : Twins(rows[k].sig) => rows[k].sig \in missed

OnceSound ==
    /\ Numbered(trades, nextId) /\ Numbered(disk.trades, disk.nextId)
    /\ disk.nextId <= nextId
    /\ TwinsMissed(trades) /\ TwinsMissed(disk.trades)

Store(st) == st.trades \in Seq(Rows) /\ st.nextId \in Nat /\ Numbered(st.trades, st.nextId)

(* The store st after rows of s.                                           *)
Later(new, st, s) ==
    /\ Store(new) /\ st.nextId <= new.nextId
    /\ \A k \in DOMAIN new.trades : new.trades[k] \in ToSet(st.trades) \/ new.trades[k].sig = s

LEMMA PushNumbers ==
    ASSUME NEW st, Store(st), NEW s \in Nat, NEW ev \in Events, NEW new, new = PushTrade(st, s, ev)
    PROVE  Later(new, st, s)
<1>. DEFINE row == [id |-> st.nextId, sig |-> s, ev |-> ev]
            rows == Append(st.trades, row)
<1>0. Cap \in Nat /\ Cap > 0
    BY IndexerAssumption
<1>00. st.trades \in Seq(Rows) /\ st.nextId \in Nat /\ Numbered(st.trades, st.nextId)
    BY DEF Store
<1>1. CASE Duplicate(row, st.trades)
    <2>1. new = st
        BY <1>1, Zenon DEF PushTrade
    <2>2. QED
        BY <1>00, <2>1 DEF ToSet, Later, Store
<1>2. CASE ~Duplicate(row, st.trades)
    <2>1. row \in Rows /\ row.id = st.nextId /\ row.sig = s /\ row.ev = ev
        BY <1>00 DEF Rows
    <2>2. \A k \in DOMAIN st.trades : ~(st.trades[k].sig = s /\ st.trades[k].ev = ev)
        BY <1>2, <2>1 DEF Duplicate, Same
    <2>3. /\ new.trades = IF Len(rows) > Cap THEN Newest(rows) ELSE rows
          /\ new.nextId = st.nextId + 1
        <3>1. new = [trades |-> IF Len(rows) > Cap THEN Newest(rows) ELSE rows,
                     nextId |-> st.nextId + 1]
            BY <1>2, Zenon DEF PushTrade
        <3>. HIDE DEF rows
        <3>2. QED
            BY <3>1
    <2>. HIDE DEF row
    <2>. PICK n \in Nat : n = Len(st.trades)
        BY <1>00
    <2>4. /\ rows \in Seq(Rows) /\ Len(rows) = n + 1 /\ DOMAIN rows = 1 .. n + 1
          /\ rows[n + 1] = row /\ DOMAIN st.trades = 1 .. n
          /\ \A k \in 1 .. n : rows[k] = st.trades[k]
        BY <1>00, <2>1
    <2>. HIDE DEF rows
    <2>5. \A k \in 1 .. n : st.trades[k] \in Rows /\ st.trades[k].id \in Nat
        <3>1. \A k \in 1 .. n : st.trades[k] \in Rows
            BY <1>00, <2>4
        <3>2. \A r \in Rows : r.id \in Nat
            BY DEF Rows
        <3>3. QED
            BY <3>1, <3>2
    <2>6. \A k \in 1 .. n + 1 : rows[k].id \in Nat
        BY <1>00, <2>1, <2>4, <2>5
    <2>7. Numbered(rows, st.nextId + 1)
        <3>1. ASSUME NEW k \in 1 .. n + 1 PROVE rows[k].id < st.nextId + 1
            <4>1. CASE k = n + 1
                BY <1>00, <2>1, <2>4, <4>1
            <4>2. CASE k \in 1 .. n
                <5>1. st.trades[k].id < st.nextId
                    BY <1>00, <2>4, <4>2 DEF Numbered
                <5>2. rows[k].id = st.trades[k].id /\ st.trades[k].id \in Nat
                    BY <2>4, <2>5, <4>2
                <5>3. QED
                    BY <1>00, <5>1, <5>2
            <4>3. QED
                BY <4>1, <4>2
        <3>2. ASSUME NEW i \in 1 .. n + 1, NEW j \in 1 .. n + 1, i < j
              PROVE  /\ rows[i].id < rows[j].id
                     /\ ~(rows[i].sig = rows[j].sig /\ rows[i].ev = rows[j].ev)
            <4>1. i \in 1 .. n
                BY <3>2
            <4>2. CASE j \in 1 .. n
                <5>1. rows[i] = st.trades[i] /\ rows[j] = st.trades[j]
                    BY <2>4, <4>1, <4>2
                <5>2. /\ st.trades[i].id < st.trades[j].id
                      /\ ~(/\ st.trades[i].sig = st.trades[j].sig
                           /\ st.trades[i].ev = st.trades[j].ev)
                    <6>1. i \in DOMAIN st.trades /\ j \in DOMAIN st.trades
                        BY <2>4, <4>1, <4>2
                    <6>2. QED
                        BY <1>00, <3>2, <6>1, Zenon DEF Numbered
                <5>3. QED
                    BY <5>1, <5>2
            <4>3. CASE j = n + 1
                <5>1. rows[i] = st.trades[i] /\ rows[j] = row
                    BY <2>4, <4>1, <4>3
                <5>2. st.trades[i].id < st.nextId
                    BY <1>00, <2>4, <4>1 DEF Numbered
                <5>3. ~(st.trades[i].sig = s /\ st.trades[i].ev = ev)
                    BY <2>2, <2>4, <4>1
                <5>4. QED
                    BY <2>1, <5>1, <5>2, <5>3
            <4>4. QED
                BY <4>2, <4>3
        <3>3. QED
            BY <2>4, <3>1, <3>2 DEF Numbered
    <2>8. PICK d \in Nat : /\ new.trades \in Seq(Rows) /\ Len(new.trades) + d = n + 1
                           /\ \A k \in 1 .. Len(new.trades) : new.trades[k] = rows[k + d]
        <3>1. CASE n + 1 > Cap
            <4>1. new.trades = SubSeq(rows, (n + 1) - Cap + 1, n + 1)
                BY <2>3, <2>4, <3>1 DEF Newest
            <4>0. (n + 1) - Cap \in Nat
                BY <1>0, <3>1
            <4>. PICK d \in Nat : d = (n + 1) - Cap
                BY <4>0, Zenon
            <4>2. d + 1 \in 1 .. n + 2 /\ n + 1 \in d .. n + 1 /\ (n + 1) - d = Cap
                BY <1>0
            <4>3. /\ new.trades \in Seq(Rows) /\ Len(new.trades) = Cap
                  /\ \A k \in 1 .. Cap : new.trades[k] = rows[k + d]
                BY <4>1, <4>2, <2>4, <1>0, SMTT(40)
            <4>4. Len(new.trades) + d = n + 1
                BY <4>2, <4>3
            <4>5. \A k \in 1 .. Len(new.trades) : new.trades[k] = rows[k + d]
                BY <4>3
            <4>6. QED
                BY <4>3, <4>4, <4>5
        <3>2. CASE ~(n + 1 > Cap)
            <4>1. new.trades = rows
                BY <2>3, <2>4, <3>2
            <4>2. /\ Len(new.trades) + 0 = n + 1
                  /\ \A k \in 1 .. Len(new.trades) : new.trades[k] = rows[k + 0]
                BY <2>4, <4>1
            <4>3. new.trades \in Seq(Rows)
                BY <2>4, <4>1
            <4>4. \E e \in Nat : e = 0
                OBVIOUS
            <4>5. QED
                BY <4>2, <4>3, <4>4
        <3>3. QED
            BY <3>1, <3>2
    <2>. PICK m \in Nat : m = Len(new.trades)
        BY <2>8
    <2>9. /\ DOMAIN new.trades = 1 .. m /\ m + d = n + 1
          /\ \A k \in 1 .. m : k + d \in 1 .. n + 1 /\ new.trades[k] = rows[k + d]
        BY <2>8
    <2>10. Numbered(new.trades, new.nextId)
        <3>1. ASSUME NEW k \in 1 .. m PROVE new.trades[k].id < new.nextId
            <4>. PICK a : a = k + d
                OBVIOUS
            <4>1. a \in DOMAIN rows /\ new.trades[k] = rows[a]
                BY <2>4, <2>9
            <4>2. rows[a].id < st.nextId + 1
                BY <2>7, <4>1 DEF Numbered
            <4>3. QED
                BY <2>3, <4>1, <4>2
        <3>2. ASSUME NEW i \in 1 .. m, NEW j \in 1 .. m, i < j
              PROVE  /\ new.trades[i].id < new.trades[j].id
                     /\ ~(/\ new.trades[i].sig = new.trades[j].sig
                          /\ new.trades[i].ev = new.trades[j].ev)
            <4>1. i + d \in 1 .. n + 1 /\ j + d \in 1 .. n + 1 /\ i + d < j + d
                BY <2>9, <3>2
            <4>. PICK a, b : a = i + d /\ b = j + d
                OBVIOUS
            <4>2. new.trades[i] = rows[a] /\ new.trades[j] = rows[b]
                BY <2>9
            <4>3. a \in DOMAIN rows /\ b \in DOMAIN rows /\ a < b
                BY <2>4, <4>1
            <4>4. QED
                BY <2>7, <4>2, <4>3 DEF Numbered
        <3>. PICK got, id : got = new.trades /\ id = new.nextId
            OBVIOUS
        <3>3. DOMAIN got = 1 .. m
            BY <2>9
        <3>4. \A k \in 1 .. m : got[k].id < id
            BY <3>1
        <3>5. \A i, j \in 1 .. m :
                 i < j => /\ got[i].id < got[j].id
                          /\ ~(got[i].sig = got[j].sig /\ got[i].ev = got[j].ev)
            BY <3>2
        <3>6. Numbered(got, id)
            BY <3>3, <3>4, <3>5 DEF Numbered
        <3>7. QED
            BY <3>6
    <2>11. ASSUME NEW k \in DOMAIN new.trades
           PROVE  new.trades[k] \in ToSet(st.trades) \/ new.trades[k].sig = s
        <3>1. k + d \in 1 .. n + 1 /\ new.trades[k] = rows[k + d]
            BY <2>9
        <3>. PICK a \in 1 .. n + 1 : a = k + d
            BY <3>1
        <3>2. CASE a = n + 1
            BY <2>1, <2>4, <3>1, <3>2
        <3>3. CASE a \in 1 .. n
            <4>1. new.trades[k] = st.trades[a] /\ a \in DOMAIN st.trades
                BY <2>4, <3>1, <3>3
            <4>2. QED
                BY <4>1 DEF ToSet
        <3>4. QED
            BY <3>2, <3>3
    <2>12. new.nextId \in Nat /\ st.nextId <= new.nextId
        BY <1>00, <2>3
    <2>13. QED
        BY <2>8, <2>10, <2>11, <2>12 DEF Later, Store
<1>3. QED
    BY <1>1, <1>2

LEMMA ProcessedNumbered ==
    ASSUME LogTyped, RowsSound(trades), nextId \in Nat, Numbered(trades, nextId),
           NEW s \in DOMAIN log, NEW st, st = Processed(s)
    PROVE  Later(st, [trades |-> trades, nextId |-> nextId], s)
<1>. PICK start : start = [trades |-> trades, nextId |-> nextId]
    OBVIOUS
<1>. PICK c : c = log[s]
    OBVIOUS
<1>0. c \in Seq(Events) /\ s \in Nat
    BY ContentsTyped DEF LogTyped
<1>. PICK n \in Nat : n = Len(c)
    BY <1>0
<1>1. \A i \in 1 .. n : c[i] \in Events
    BY <1>0
<1>. DEFINE Body(f, i) == IF i = 0 THEN start ELSE PushTrade(f[i - 1], s, c[i])
            F == CHOOSE f : Pushes(f, start, s, c, n)
<1>2. Pushes(F, start, s, c, n)
    <2>1. \E f : Pushes(f, start, s, c, n)
        BY PushedExists
    <2>2. QED
        BY <2>1, Zenon
<1>3. st = F[n]
    BY Zenon DEF Processed, PushTrades, Pushes
<1>. HIDE DEF F
<1>. PICK after : after = F
    OBVIOUS
<1>4. start.trades = trades /\ start.nextId = nextId
    OBVIOUS
<1>5. after = [i \in 0 .. n |-> Body(after, i)]
    BY <1>2 DEF Pushes
<1>. DEFINE GoodSet == {i \in Nat : i <= n => Later(after[i], start, s)}
<1>6. 0 \in GoodSet
    <2>1. after[0] = start
        BY <1>5
    <2>2. Store(start)
        BY <1>4 DEF Store, RowsSound
    <2>3. Later(start, start, s)
        BY <1>4, <2>2 DEF Later, ToSet
    <2>4. QED
        BY <2>1, <2>3
<1>7. ASSUME NEW i \in Nat, i \in GoodSet PROVE i + 1 \in GoodSet
    <2>. SUFFICES ASSUME i + 1 <= n PROVE Later(after[i + 1], start, s)
        OBVIOUS
    <2>. PICK t : t = after[i]
        OBVIOUS
    <2>. PICK j : j = i + 1
        OBVIOUS
    <2>. PICK new : new = after[j]
        OBVIOUS
    <2>1. j \in 1 .. n /\ j \in 0 .. n /\ j # 0 /\ j - 1 = i /\ i <= n
        OBVIOUS
    <2>2. Later(t, start, s)
        BY <1>7, <2>1
    <2>3. new = PushTrade(t, s, c[j])
        <3>1. after[j] = PushTrade(after[j - 1], s, c[j])
            BY <1>5, <2>1
        <3>2. QED
            BY <2>1, <3>1
    <2>4. Later(new, t, s)
        <3>1. c[j] \in Events /\ s \in Nat
            BY <1>0, <1>1, <2>1
        <3>2. Store(t)
            BY <2>2 DEF Later
        <3>3. QED
            BY <2>3, <3>1, <3>2, PushNumbers, Zenon
    <2>5. ASSUME NEW k \in DOMAIN new.trades
          PROVE  new.trades[k] \in ToSet(start.trades) \/ new.trades[k].sig = s
        <3>1. CASE new.trades[k] \in ToSet(t.trades)
            <4>1. PICK h \in DOMAIN t.trades : new.trades[k] = t.trades[h]
                BY <3>1 DEF ToSet
            <4>2. QED
                BY <2>2, <4>1 DEF Later
        <3>2. QED
            BY <2>4, <3>1 DEF Later
    <2>6. start.nextId <= new.nextId
        <3>1. /\ start.nextId <= t.nextId /\ t.nextId <= new.nextId
              /\ t.nextId \in Nat /\ new.nextId \in Nat
            BY <2>2, <2>4 DEF Later, Store
        <3>2. start.nextId \in Nat
            BY <1>4
        <3>3. QED
            BY <3>1, <3>2
    <2>7. Later(new, start, s)
        BY <2>4, <2>5, <2>6 DEF Later
    <2>8. QED
        BY <2>7
<1>8. Nat \subseteq GoodSet
    <2>. HIDE DEF GoodSet
    <2>1. QED
        BY <1>6, <1>7, SetInduction
<1>9. QED
    BY <1>3, <1>8

LEMMA TwinsStay ==
    ASSUME NEW s, log'[s] = log[s], Twins(s)'
    PROVE  Twins(s)
BY DEF Twins

(* Whatever rows a step leaves, if they are old ones and the chain only    *)
(* grows.                                                                  *)
LEMMA TwinsMissedKept ==
    ASSUME LogTyped, LogGrows, NEW rows, RowsSound(rows), TwinsMissed(rows)
    PROVE  TwinsMissed(rows)'
<1>. SUFFICES ASSUME NEW k \in DOMAIN rows, Twins(rows[k].sig)'
              PROVE  rows[k].sig \in missed'
    BY DEF TwinsMissed
<1>1. rows[k].sig \in DOMAIN log
    BY DEF RowsSound, OfChain
<1>2. log'[rows[k].sig] = log[rows[k].sig]
    BY <1>1 DEF LogGrows
<1>3. Twins(rows[k].sig)
    BY <1>2, TwinsStay
<1>4. QED
    BY <1>3 DEF TwinsMissed, LogGrows

LEMMA OnceKept ==
    ASSUME IndexerTyped, OnceSound, LogGrows, UNCHANGED <<trades, nextId, disk>>
    PROVE  OnceSound'
<1>. PICK old : old = trades
    OBVIOUS
<1>. PICK file : file = disk
    OBVIOUS
<1>1. TwinsMissed(old)' /\ TwinsMissed(file.trades)'
    BY TwinsMissedKept DEF IndexerTyped, OnceSound
<1>2. Numbered(old, nextId) /\ Numbered(file.trades, file.nextId) /\ file.nextId <= nextId
    BY DEF OnceSound
<1>3. QED
    BY <1>1, <1>2 DEF OnceSound

LEMMA OnceProcess ==
    ASSUME IndexerSound, OnceSound, NEW p \in Polls, ProcessSignature(p)
    PROVE  OnceSound'
<1>1. IndexerTyped /\ PollSound(p) /\ LogTyped /\ RowsSound(trades) /\ nextId \in Nat
    BY DEF IndexerSound, PollsSound, IndexerTyped
<1>. PICK s : s = Head(poll[p].page)
    OBVIOUS
<1>. PICK st : st = Processed(s)
    OBVIOUS
<1>. PICK old : old = trades
    OBVIOUS
<1>. PICK new : new = st.trades
    OBVIOUS
<1>. PICK file \in DiskState : file = disk
    BY <1>1 DEF IndexerTyped
<1>2. /\ trades' = new /\ nextId' = st.nextId /\ UNCHANGED <<log, disk>>
      /\ poll[p].pc = "working" /\ poll[p].page # << >>
    BY Zenon DEF ProcessSignature
<1>3. missed' = missed \cup (IF Twins(s) THEN {s} ELSE {})
                       \cup {row.sig : row \in ToSet(old) \ ToSet(new)}
    BY Zenon DEF ProcessSignature, Twins
<1>4. s \in DOMAIN log
    <2>1. poll[p].page \in Seq(Nat)
        BY <1>1 DEF IndexerTyped, PollState
    <2>2. s = poll[p].page[1] /\ 1 \in DOMAIN poll[p].page
        BY <1>2, <2>1
    <2>3. QED
        BY <1>1, <1>2, <2>2 DEF PollSound, LogTyped
<1>5. /\ RowsSound(new) /\ st.nextId \in Nat
      /\ Numbered(new, st.nextId) /\ nextId <= st.nextId
      /\ \A k \in DOMAIN new : new[k] \in ToSet(old) \/ new[k].sig = s
    <2>1. Numbered(trades, nextId)
        BY DEF OnceSound
    <2>2. RowsSound(new) /\ st.nextId \in Nat
        BY <1>1, <1>4, ProcessedSound
    <2>. PICK start : start = [trades |-> trades, nextId |-> nextId]
        OBVIOUS
    <2>3. start.trades = trades /\ start.nextId = nextId
        OBVIOUS
    <2>4. Later(st, start, s)
        BY <1>1, <1>4, <2>1, ProcessedNumbered
    <2>5. QED
        BY <2>2, <2>3, <2>4 DEF Later, Store
<1>6. LogGrows
    BY <1>1, <1>2, <1>3, LogKept
<1>7. TwinsMissed(file.trades)'
    BY <1>1, <1>6, TwinsMissedKept DEF IndexerTyped, OnceSound
<1>8. TwinsMissed(new)'
    <2>. SUFFICES ASSUME NEW k \in DOMAIN new, Twins(new[k].sig)' PROVE new[k].sig \in missed'
        BY DEF TwinsMissed
    <2>0. log'[new[k].sig] = log[new[k].sig]
        BY <1>2
    <2>1. Twins(new[k].sig)
        BY <2>0, TwinsStay
    <2>2. CASE new[k] \in ToSet(old)
        <3>1. PICK h \in DOMAIN old : new[k] = old[h]
            BY <2>2 DEF ToSet
        <3>2. old[h].sig \in missed
            BY <2>1, <3>1 DEF OnceSound, TwinsMissed
        <3>3. QED
            BY <1>3, <3>1, <3>2
    <2>3. CASE new[k].sig = s
        BY <1>3, <2>1, <2>3
    <2>4. QED
        BY <1>5, <2>2, <2>3
<1>9. /\ Numbered(new, st.nextId) /\ Numbered(file.trades, file.nextId)
      /\ file.nextId <= st.nextId
    <2>1. Numbered(file.trades, file.nextId) /\ file.nextId <= nextId /\ file.nextId \in Nat
        BY DEF OnceSound, DiskState
    <2>2. QED
        BY <1>1, <1>5, <2>1, SMTT(40)
<1>10. QED
    BY <1>2, <1>7, <1>8, <1>9 DEF OnceSound

SameStore(f, g) == g.trades = f.trades /\ g.nextId = f.nextId

LEMMA SavedSame ==
    \A f \in DiskState, c \in Nat : SameStore(f, CursorSaved(f, c))
<1>. SUFFICES ASSUME NEW f \in DiskState, NEW c \in Nat PROVE SameStore(f, CursorSaved(f, c))
    BY Zenon
<1>. PICK g : g = CursorSaved(f, c)
    OBVIOUS
<1>1. CASE c = 0
    BY <1>1 DEF CursorSaved, SameStore
<1>2. CASE c # 0
    <2>1. g = [f EXCEPT !.cursor = c]
        BY <1>2 DEF CursorSaved
    <2>2. SameStore(f, g)
        BY <2>1 DEF DiskState, SameStore
    <2>3. QED
        BY <2>2
<1>3. QED
    BY <1>1, <1>2

LEMMA OnceEndPoll ==
    ASSUME IndexerSound, OnceSound, NEW p \in Polls, EndPoll(p)
    PROVE  OnceSound'
<1>1. IndexerTyped /\ LogTyped /\ trades \in Seq(Rows) /\ nextId \in Nat
    BY DEF IndexerSound, IndexerTyped, RowsSound
<1>. PICK newest \in Nat : newest = poll[p].newest
    BY <1>1 DEF IndexerTyped, PollState
<1>. PICK old \in DiskState : old = disk
    BY <1>1 DEF IndexerTyped
<1>. PICK rows \in Seq(Rows), id \in Nat : rows = trades /\ id = nextId
    BY <1>1
<1>. PICK half : half = [old EXCEPT !.trades = rows, !.nextId = id]
    OBVIOUS
<1>. PICK full : full = CursorSaved(half, newest)
    OBVIOUS
<1>2. UNCHANGED <<log, trades, nextId, missed>> /\ cursor' = newest
    BY DEF EndPoll
<1>3. disk' \in {old, half, full}
    BY <1>2, Zenon DEF EndPoll, RowsSaved, HalfSaved
<1>4. half \in DiskState /\ half.trades = rows /\ half.nextId = id
    BY DEF DiskState
<1>5. full.trades = rows /\ full.nextId = id
    <2>1. SameStore(half, full)
        BY <1>4, SavedSame, Zenon
    <2>2. QED
        BY <1>4, <2>1 DEF SameStore
<1>6. LogGrows
    BY <1>1, <1>2, LogKept
<1>. PICK file : file = disk'
    OBVIOUS
<1>7. \/ file.trades = rows /\ file.nextId = id
      \/ file.trades = old.trades /\ file.nextId = old.nextId
    BY <1>3, <1>4, <1>5
<1>8. /\ Numbered(rows, id) /\ Numbered(file.trades, file.nextId) /\ file.nextId <= id
    BY <1>7 DEF OnceSound
<1>9. TwinsMissed(rows)' /\ TwinsMissed(old.trades)'
    BY <1>1, <1>6, TwinsMissedKept DEF IndexerTyped, OnceSound
<1>10. TwinsMissed(file.trades)'
    BY <1>7, <1>9
<1>11. QED
    BY <1>2, <1>8, <1>9, <1>10 DEF OnceSound

(* After a restart memory and file are the same.                           *)
LEMMA OnceLoad ==
    ASSUME NEW file, disk' = file, Load(file), Numbered(file.trades, file.nextId),
           file.nextId \in Nat, TwinsMissed(file.trades)'
    PROVE  OnceSound'
<1>1. trades' = file.trades /\ nextId' = file.nextId
    BY DEF Load
<1>2. QED
    BY <1>1 DEF OnceSound

LEMMA OnceStop == IndexerSound /\ OnceSound /\ StopAndStart => OnceSound'
<1>. SUFFICES ASSUME IndexerSound, OnceSound, StopAndStart PROVE OnceSound'
    OBVIOUS
<1>1. IndexerTyped /\ LogTyped /\ trades \in Seq(Rows) /\ nextId \in Nat
    BY DEF IndexerSound, IndexerTyped, RowsSound
<1>. PICK old \in DiskState : old = disk
    BY <1>1 DEF IndexerTyped
<1>. PICK rows \in Seq(Rows), id \in Nat : rows = trades /\ id = nextId
    BY <1>1
<1>. PICK half : half = [old EXCEPT !.trades = rows, !.nextId = id]
    OBVIOUS
<1>. PICK n \in Nat : n = cursor
    BY <1>1 DEF IndexerTyped
<1>. PICK full : full = CursorSaved(half, n)
    OBVIOUS
<1>2. disk' = full /\ Load(full) /\ UNCHANGED <<log, missed>>
    BY Zenon DEF StopAndStart, RowsSaved
<1>3. half \in DiskState /\ half.trades = rows /\ half.nextId = id
    BY DEF DiskState
<1>4. full.trades = rows /\ full.nextId = id
    <2>1. SameStore(half, full)
        BY <1>3, SavedSame, Zenon
    <2>2. QED
        BY <1>3, <2>1 DEF SameStore
<1>5. Numbered(rows, id) /\ LogGrows
    BY <1>1, <1>2, LogKept DEF OnceSound
<1>6. TwinsMissed(rows)'
    BY <1>1, <1>5, TwinsMissedKept DEF IndexerTyped, OnceSound
<1>7. QED
    BY <1>2, <1>4, <1>5, <1>6, OnceLoad

LEMMA OnceCrash == IndexerSound /\ OnceSound /\ CrashAndStart => OnceSound'
<1>. SUFFICES ASSUME IndexerSound, OnceSound, CrashAndStart PROVE OnceSound'
    OBVIOUS
<1>1. IndexerTyped /\ LogTyped
    BY DEF IndexerSound, IndexerTyped
<1>. PICK file \in DiskState : file = disk
    BY <1>1 DEF IndexerTyped
<1>2. disk' = file /\ Load(file) /\ UNCHANGED <<log, missed>>
    BY DEF CrashAndStart
<1>3. LogGrows
    BY <1>1, <1>2, LogKept
<1>4. TwinsMissed(file.trades)'
    BY <1>1, <1>3, TwinsMissedKept DEF IndexerTyped, OnceSound
<1>5. Numbered(file.trades, file.nextId) /\ file.nextId \in Nat
    BY DEF OnceSound, DiskState
<1>6. QED
    BY <1>2, <1>4, <1>5, OnceLoad

LEMMA OnceTorn == IndexerSound /\ OnceSound /\ TornAndStart => OnceSound'
<1>. SUFFICES ASSUME TornAndStart PROVE OnceSound'
    OBVIOUS
<1>. PICK none : none = NoFile
    OBVIOUS
<1>. PICK c : c = disk.cursor
    OBVIOUS
<1>. PICK file : file = [none EXCEPT !.cursor = c]
    OBVIOUS
<1>1. none.trades = << >> /\ none.nextId = 1 /\ none = [trades |-> << >>, nextId |-> 1, cursor |-> 0]
    BY DEF NoFile
<1>2. file.trades = << >> /\ file.nextId = 1
    BY <1>1
<1>3. disk' = file /\ Load(file)
    BY Zenon DEF TornAndStart
<1>4. DOMAIN file.trades = {} /\ file.nextId \in Nat
    BY <1>2
<1>5. Numbered(file.trades, file.nextId)
    BY <1>4, Zenon DEF Numbered
<1>6. TwinsMissed(file.trades)'
    BY <1>4, Zenon DEF TwinsMissed
<1>7. QED
    BY <1>3, <1>4, <1>5, <1>6, OnceLoad

LEMMA OnceStart == IndexerInit => OnceSound
<1>. SUFFICES ASSUME IndexerInit PROVE OnceSound
    OBVIOUS
<1>1. trades = << >> /\ nextId = 1 /\ disk.trades = << >> /\ disk.nextId = 1
    BY DEF IndexerInit, NoFile
<1>2. DOMAIN trades = {} /\ DOMAIN disk.trades = {}
    BY <1>1
<1>3. QED
    BY <1>1, <1>2 DEF OnceSound, Numbered, TwinsMissed

LEMMA OnceStep == IndexerSound /\ OnceSound /\ [IndexerNext]_indexerVars => OnceSound'
<1>. SUFFICES ASSUME IndexerSound, OnceSound, [IndexerNext]_indexerVars PROVE OnceSound'
    OBVIOUS
<1>1. IndexerTyped /\ log \in Seq(Contents)
    BY DEF IndexerSound, IndexerTyped, LogTyped
<1>2. ASSUME UNCHANGED <<trades, nextId, disk, log>>, missed \subseteq missed'
      PROVE  OnceSound'
    BY <1>1, <1>2, LogKept, OnceKept
<1>3. CASE UNCHANGED indexerVars
    BY <1>2, <1>3 DEF indexerVars, indexer, memory
<1>4. ASSUME NEW c \in Contents, Executed(c) PROVE OnceSound'
    <2>1. log' = Append(log, c) /\ UNCHANGED <<trades, nextId, disk, missed>>
        BY <1>4 DEF Executed, indexer, memory
    <2>2. LogGrows
        BY <1>1, <2>1 DEF LogGrows
    <2>3. QED
        BY <1>1, <2>1, <2>2, OnceKept
<1>5. ASSUME NEW p \in Polls, AskSignatures(p) \/ AnswerPage(p) \/ SkipCursor(p)
      PROVE  OnceSound'
    <2>1. UNCHANGED <<trades, nextId, disk, log>> /\ missed \subseteq missed'
        BY <1>5 DEF AskSignatures, AnswerPage, SkipCursor, memory
    <2>2. QED
        BY <1>2, <2>1
<1>6. ASSUME NEW p \in Polls, AnswerFails(p) \/ FetchFails(p)
      PROVE  OnceSound'
    <2>1. UNCHANGED <<trades, nextId, disk, log>> /\ missed \subseteq missed'
        BY <1>6 DEF AnswerFails, FetchFails, memory
    <2>2. QED
        BY <1>2, <2>1
<1>7. ASSUME NEW p \in Polls, ProcessSignature(p) \/ EndPoll(p) PROVE OnceSound'
    BY <1>7, OnceProcess, OnceEndPoll
<1>8. QED
    BY <1>3, <1>4, <1>5, <1>6, <1>7, OnceStop, OnceCrash, OnceTorn, Zenon DEF IndexerNext, Poll

LEMMA OnceAlways == IndexerSpec => []OnceSound
BY OnceStart, OnceStep, IndexerAlways, PTL DEF IndexerSpec

-----------------------------------------------------------------------------
(* The sums of the reports                                                 *)

(* Adding up the values of f one after the other, in the order that CHOOSE *)
(* takes: g has the sum over each part of S.                               *)
PartSums(g, f, S) ==
    g = [A \in SUBSET S |->
            IF A = {} THEN 0 ELSE LET x == CHOOSE x \in A : TRUE IN f[x] + g[A \ {x}]]

LEMMA SumIs ==
    ASSUME NEW f
    PROVE  SumFunction(f) = (CHOOSE g : PartSums(g, f, DOMAIN f))[DOMAIN f]
BY Zenon DEF SumFunction, SumFunctionOnSet, FoldFunctionOnSet, MapThenFoldSet, PartSums

LEMMA PartSumsExist ==
    ASSUME NEW f, NEW S, IsFiniteSet(S)
    PROVE  \E g : PartSums(g, f, S)
<1>. DEFINE Body(g, A) == IF A = {} THEN 0 ELSE LET x == CHOOSE x \in A : TRUE IN f[x] + g[A \ {x}]
            Upto(g, n) == \A A \in SUBSET S : Cardinality(A) <= n => g[A] = Body(g, A)
            Has == {n \in Nat : \E g : Upto(g, n)}
<1>1. \A A \in SUBSET S : IsFiniteSet(A) /\ Cardinality(A) \in Nat
                           /\ Cardinality(A) <= Cardinality(S)
    BY FS_Subset, FS_CardinalityType
<1>2. \A A \in SUBSET S : Cardinality(A) = 0 <=> A = {}
    BY <1>1, FS_EmptySet
<1>3. 0 \in Has
    <2>. DEFINE g == [A \in SUBSET S |-> 0]
    <2>1. \A A \in SUBSET S : Cardinality(A) <= 0 => A = {}
        BY <1>1, <1>2
    <2>2. Upto(g, 0)
        BY <2>1
    <2>3. QED
        BY <2>2
<1>4. ASSUME NEW n \in Nat, n \in Has PROVE n + 1 \in Has
    <2>1. PICK g : Upto(g, n)
        BY <1>4
    <2>. DEFINE h == [A \in SUBSET S |-> IF Cardinality(A) <= n THEN g[A] ELSE Body(g, A)]
    <2>2. ASSUME NEW A \in SUBSET S, Cardinality(A) <= n + 1, A # {}
          PROVE  h[A] = Body(h, A)
        <3>. PICK x \in A : x = CHOOSE y \in A : TRUE
            BY <2>2
        <3>1. A \ {x} \in SUBSET S /\ Cardinality(A \ {x}) <= n
            <4>1. Cardinality(A \ {x}) = Cardinality(A) - 1
                BY <1>1, FS_RemoveElement
            <4>2. QED
                BY <4>1, <2>2, <1>1
        <3>2. h[A \ {x}] = g[A \ {x}]
            BY <3>1
        <3>3. Body(h, A) = f[x] + h[A \ {x}] /\ Body(g, A) = f[x] + g[A \ {x}]
            BY <2>2, Zenon
        <3>4. h[A] = Body(g, A)
            <4>1. CASE Cardinality(A) <= n
                <5>1. h[A] = g[A]
                    BY <4>1
                <5>. HIDE DEF h, Body
                <5>2. QED
                    BY <5>1, <4>1, <2>1
            <4>2. CASE ~(Cardinality(A) <= n)
                <5>. HIDE DEF Body
                <5>1. QED
                    BY <4>2
            <4>3. QED
                BY <4>1, <4>2
        <3>. HIDE DEF h, Body
        <3>5. QED
            BY <3>2, <3>3, <3>4
    <2>3. ASSUME NEW A \in SUBSET S, A = {}
          PROVE  h[A] = Body(h, A)
        <3>1. Cardinality(A) <= n
            BY <1>1, <1>2, <2>3
        <3>2. h[A] = g[A]
            BY <3>1
        <3>3. g[A] = Body(g, A)
            <4>. HIDE DEF Body, h
            <4>1. QED
                BY <2>1, <3>1
        <3>4. Body(g, A) = 0 /\ Body(h, A) = 0
            BY <2>3
        <3>. HIDE DEF h, Body
        <3>5. QED
            BY <3>2, <3>3, <3>4
    <2>4. Upto(h, n + 1)
        <3>. HIDE DEF h, Body
        <3>1. QED
            BY <2>2, <2>3
    <2>5. \E z : Upto(z, n + 1)
        <3>. HIDE DEF Upto, h
        <3>1. QED
            BY <2>4
    <2>. HIDE DEF Upto
    <2>6. QED
        BY <2>5
<1>5. Nat \subseteq Has
    <2>. HIDE DEF Has
    <2>1. QED
        BY <1>3, <1>4, SetInduction
<1>6. Cardinality(S) \in Nat
    BY FS_CardinalityType
<1>7. PICK g : Upto(g, Cardinality(S))
    <2>. HIDE DEF Upto
    <2>1. QED
        BY <1>5, <1>6
<1>8. \A A \in SUBSET S : g[A] = Body(g, A)
    <2>. HIDE DEF Body
    <2>1. QED
        BY <1>1, <1>7
<1>. DEFINE h == [A \in SUBSET S |-> g[A]]
<1>9. ASSUME NEW A \in SUBSET S PROVE Body(h, A) = g[A]
    <2>1. CASE A = {}
        BY <1>8, <2>1
    <2>2. CASE A # {}
        <3>. PICK x \in A : x = CHOOSE y \in A : TRUE
            BY <2>2
        <3>1. h[A \ {x}] = g[A \ {x}]
            OBVIOUS
        <3>2. Body(h, A) = f[x] + h[A \ {x}] /\ Body(g, A) = f[x] + g[A \ {x}]
            BY <2>2, Zenon
        <3>. HIDE DEF h, Body
        <3>3. QED
            BY <1>8, <3>1, <3>2
    <2>3. QED
        BY <2>1, <2>2
<1>10. h = [A \in SUBSET S |-> Body(h, A)]
    <2>1. \A A \in SUBSET S : g[A] = Body(h, A)
        BY <1>9
    <2>. HIDE DEF Body
    <2>2. QED
        BY <2>1
<1>11. PartSums(h, f, S)
    BY <1>10 DEF PartSums
<1>12. QED
    <2>. HIDE DEF h
    <2>1. QED
        BY <1>11

(* The order does not matter: each sum is that without any one value, and  *)
(* this value.                                                             *)
LEMMA PartSumsAdd ==
    ASSUME NEW S, IsFiniteSet(S), NEW f, \A x \in S : f[x] \in Int,
           NEW g, PartSums(g, f, S)
    PROVE  /\ g[{}] = 0
           /\ \A A \in SUBSET S : g[A] \in Int
           /\ \A A \in SUBSET S : \A y \in A : g[A] = f[y] + g[A \ {y}]
<1>. DEFINE Good(A) == g[A] \in Int /\ \A y \in A : g[A] = f[y] + g[A \ {y}]
            Fine == {n \in Nat : \A A \in SUBSET S : Cardinality(A) <= n => Good(A)}
<1>1. \A A \in SUBSET S : IsFiniteSet(A) /\ Cardinality(A) \in Nat
                           /\ Cardinality(A) <= Cardinality(S)
    BY FS_Subset, FS_CardinalityType
<1>2. \A A \in SUBSET S : Cardinality(A) = 0 <=> A = {}
    BY <1>1, FS_EmptySet
<1>3. g[{}] = 0
    BY DEF PartSums
<1>4. ASSUME NEW A \in SUBSET S, A # {}
      PROVE  \E x \in A : g[A] = f[x] + g[A \ {x}]
    <2>. PICK x \in A : x = CHOOSE y \in A : TRUE
        BY <1>4
    <2>1. g[A] = f[x] + g[A \ {x}]
        BY <1>4, Zenon DEF PartSums
    <2>2. QED
        BY <2>1
<1>5. 0 \in Fine
    BY <1>1, <1>2, <1>3
<1>6. ASSUME NEW n \in Nat, n \in Fine PROVE n + 1 \in Fine
    <2>. SUFFICES ASSUME NEW A \in SUBSET S, Cardinality(A) <= n + 1 PROVE Good(A)
        OBVIOUS
    <2>0. \A B \in SUBSET S : Cardinality(B) <= n => Good(B)
        BY <1>6
    <2>. HIDE DEF Good, Fine
    <2>1. CASE A = {}
        BY <1>3, <2>1 DEF Good
    <2>2. CASE A # {}
        <3>1. PICK x \in A : g[A] = f[x] + g[A \ {x}]
            BY <1>4, <2>2
        <3>2. \A z \in A : A \ {z} \in SUBSET S /\ Cardinality(A \ {z}) <= n
            <4>1. \A z \in A : Cardinality(A \ {z}) = Cardinality(A) - 1
                BY <1>1, FS_RemoveElement
            <4>2. Cardinality(A) \in Nat /\ Cardinality(A) <= n + 1
                BY <1>1
            <4>3. QED
                BY <4>1, <4>2
        <3>3. \A z \in A : Good(A \ {z})
            BY <2>0, <3>2
        <3>4. g[A] \in Int
            BY <3>1, <3>3 DEF Good
        <3>5. ASSUME NEW y \in A PROVE g[A] = f[y] + g[A \ {y}]
            <4>1. CASE y = x
                BY <3>1, <4>1
            <4>2. CASE y # x
                <5>1. g[A \ {x}] = f[y] + g[(A \ {x}) \ {y}]
                    BY <3>3, <4>2 DEF Good
                <5>2. g[A \ {y}] = f[x] + g[(A \ {y}) \ {x}]
                    BY <3>3, <4>2 DEF Good
                <5>3. (A \ {x}) \ {y} = (A \ {y}) \ {x}
                    OBVIOUS
                <5>4. g[(A \ {y}) \ {x}] \in Int
                    <6>1. (A \ {y}) \ {x} \in SUBSET S
                        OBVIOUS
                    <6>2. Cardinality((A \ {y}) \ {x}) <= Cardinality(A \ {y})
                        BY <1>1, <3>2, FS_Subset
                    <6>3. Cardinality((A \ {y}) \ {x}) <= n
                        BY <1>1, <3>2, <6>1, <6>2
                    <6>4. QED
                        BY <2>0, <6>1, <6>3 DEF Good
                <5>. PICK a, b, c : a = f[x] /\ b = f[y] /\ c = g[(A \ {y}) \ {x}]
                    OBVIOUS
                <5>5. a \in Int /\ b \in Int /\ c \in Int
                    BY <5>4
                <5>6. g[A] = a + (b + c) /\ g[A \ {y}] = a + c
                    BY <3>1, <5>1, <5>2, <5>3
                <5>7. QED
                    BY <5>5, <5>6
            <4>3. QED
                BY <4>1, <4>2
        <3>6. QED
            BY <3>4, <3>5 DEF Good
    <2>3. QED
        BY <2>1, <2>2
<1>7. Nat \subseteq Fine
    <2>. HIDE DEF Fine
    <2>1. QED
        BY <1>5, <1>6, SetInduction
<1>8. \A A \in SUBSET S : Good(A)
    <2>1. Cardinality(S) \in Fine
        BY <1>7, FS_CardinalityType
    <2>2. QED
        BY <1>1, <2>1
<1>9. QED
    BY <1>3, <1>8

(* One value for another of the same kind, each once: the sum is the same. *)
LEMMA SumRenamed ==
    ASSUME NEW S, IsFiniteSet(S), NEW T, IsFiniteSet(T),
           NEW f \in [S -> Int], NEW h \in [T -> Int],
           NEW b \in [S -> T], \A x, y \in S : b[x] = b[y] => x = y,
           \A t \in T : \E x \in S : b[x] = t,
           \A x \in S : f[x] = h[b[x]]
    PROVE  SumFunction(f) = SumFunction(h)
<1>. DEFINE F == CHOOSE g : PartSums(g, f, S)
            H == CHOOSE g : PartSums(g, h, T)
            Named(A) == {b[x] : x \in A}
            Fine == {n \in Nat : \A A \in SUBSET S : Cardinality(A) = n => F[A] = H[Named(A)]}
<1>1. PartSums(F, f, S) /\ PartSums(H, h, T)
    <2>1. (\E g : PartSums(g, f, S)) /\ (\E g : PartSums(g, h, T))
        BY PartSumsExist
    <2>2. QED
        BY <2>1, Zenon
<1>2. SumFunction(f) = F[S] /\ SumFunction(h) = H[T]
    <2>1. DOMAIN f = S /\ DOMAIN h = T
        OBVIOUS
    <2>2. QED
        BY <2>1, SumIs, Zenon
<1>. HIDE DEF F, H
<1>3. /\ F[{}] = 0 /\ \A A \in SUBSET S : \A y \in A : F[A] = f[y] + F[A \ {y}]
    BY <1>1, PartSumsAdd
<1>4. /\ H[{}] = 0 /\ \A A \in SUBSET T : \A y \in A : H[A] = h[y] + H[A \ {y}]
    BY <1>1, PartSumsAdd
<1>5. \A A \in SUBSET S : IsFiniteSet(A) /\ Cardinality(A) \in Nat
    BY FS_Subset, FS_CardinalityType
<1>6. 0 \in Fine
    <2>1. ASSUME NEW A \in SUBSET S, Cardinality(A) = 0 PROVE F[A] = H[Named(A)]
        <3>1. A = {}
            BY <1>5, <2>1, FS_EmptySet
        <3>2. Named(A) = {}
            BY <3>1
        <3>. HIDE DEF Named
        <3>3. QED
            BY <1>3, <1>4, <3>1, <3>2
    <2>. HIDE DEF Named
    <2>2. QED
        BY <2>1
<1>7. ASSUME NEW n \in Nat, n \in Fine PROVE n + 1 \in Fine
    <2>1. ASSUME NEW A \in SUBSET S, Cardinality(A) = n + 1 PROVE F[A] = H[Named(A)]
        <3>1. PICK y \in A : TRUE
            <4>1. A # {}
                BY <2>1, FS_EmptySet
            <4>2. QED
                BY <4>1
        <3>2. Cardinality(A \ {y}) = n
            BY <1>5, <2>1, FS_RemoveElement
        <3>3. F[A \ {y}] = H[Named(A \ {y})]
            <4>. HIDE DEF Named
            <4>1. A \ {y} \in SUBSET S
                OBVIOUS
            <4>2. QED
                BY <1>7, <3>2, <4>1
        <3>4. Named(A \ {y}) = Named(A) \ {b[y]}
            OBVIOUS
        <3>5. Named(A) \in SUBSET T /\ b[y] \in Named(A)
            OBVIOUS
        <3>. HIDE DEF Named
        <3>6. H[Named(A)] = h[b[y]] + H[Named(A) \ {b[y]}]
            BY <1>4, <3>5
        <3>7. F[A] = f[y] + F[A \ {y}]
            BY <1>3
        <3>8. QED
            BY <3>3, <3>4, <3>6, <3>7
    <2>. HIDE DEF Named
    <2>2. QED
        BY <2>1
<1>8. Nat \subseteq Fine
    <2>. HIDE DEF Fine
    <2>1. QED
        BY <1>6, <1>7, SetInduction
<1>9. F[S] = H[Named(S)]
    <2>. HIDE DEF Named
    <2>1. Cardinality(S) \in Nat
        BY <1>5
    <2>2. QED
        BY <1>8, <2>1
<1>10. Named(S) = T
    OBVIOUS
<1>11. QED
    BY <1>2, <1>9, <1>10

(* The things of S and those of T, one by one.                             *)
Matching(b, S, T) ==
    /\ b \in [S -> T]
    /\ \A x, y \in S : b[x] = b[y] => x = y
    /\ \A t \in T : \E x \in S : b[x] = t

(* So do a part of S and a part of T, and their values.                    *)
Parted(b, S, T, P, Q) ==
    /\ IsFiniteSet(S) /\ Matching(b, S, T) /\ P \in SUBSET S /\ Q \in SUBSET T
    /\ \A x \in S : x \in P <=> b[x] \in Q

Alike(f, h, b, P, Q) ==
    f \in [P -> Int] /\ h \in [Q -> Int] /\ \A x \in P : f[x] = h[b[x]]

SameCount(P, Q) == Cardinality(P) = Cardinality(Q)

SameSum(f, h) == SumFunction(f) = SumFunction(h)

LEMMA PartsMatched ==
    ASSUME NEW S, NEW T, NEW b, NEW P, NEW Q, Parted(b, S, T, P, Q)
    PROVE  /\ IsFiniteSet(P) /\ IsFiniteSet(Q) /\ SameCount(P, Q)
           /\ Matching([x \in P |-> b[x]], P, Q)
<1>1. IsFiniteSet(P)
    BY FS_Subset DEF Parted
<1>. DEFINE c == [x \in P |-> b[x]]
<1>2. Matching(c, P, Q)
    BY DEF Matching, Parted
<1>3. c \in Bijection(P, Q)
    BY <1>2 DEF Matching, Bijection, Injection, Surjection, IsInjective
<1>4. ExistsBijection(P, Q)
    BY <1>3 DEF ExistsBijection
<1>5. IsFiniteSet(Q) /\ Cardinality(Q) = Cardinality(P)
    BY <1>1, <1>4, FS_Bijection
<1>6. QED
    BY <1>1, <1>2, <1>5 DEF SameCount

LEMMA SumsMatched ==
    ASSUME NEW S, NEW T, NEW b, NEW P, NEW Q, Parted(b, S, T, P, Q),
           NEW f, NEW h, Alike(f, h, b, P, Q)
    PROVE  SameSum(f, h)
<1>. PICK c : c = [x \in P |-> b[x]]
    OBVIOUS
<1>1. IsFiniteSet(P) /\ IsFiniteSet(Q) /\ Matching(c, P, Q)
    BY PartsMatched
<1>2. f \in [P -> Int] /\ h \in [Q -> Int] /\ \A x \in P : f[x] = h[c[x]]
    BY DEF Alike
<1>3. QED
    BY <1>1, <1>2, SumRenamed DEF Matching, SameSum

-----------------------------------------------------------------------------
(* The reports                                                             *)

(* The place in the chain of the event of a row.                           *)
PlaceOf(row) == <<row.sig, CHOOSE i \in DOMAIN log[row.sig] : log[row.sig][i] = row.ev>>

Places(since) == UNION {{s} \X DOMAIN log[s] : s \in since .. cursor}

(* While nothing is given up the rows and the events that were passed      *)
(* match one by one.                                                       *)
LEMMA RowsMatch ==
    ASSUME IndexerSound, OnceSound, missed = {}, \A n \in DOMAIN trades : trades[n].sig <= cursor,
           NEW b, b = [n \in DOMAIN trades |-> PlaceOf(trades[n])]
    PROVE  /\ Matching(b, DOMAIN trades, Places(1))
           /\ \A n \in DOMAIN trades : /\ b[n][1] = trades[n].sig
                                       /\ log[b[n][1]][b[n][2]] = trades[n].ev
<1>. PICK rows \in Seq(Rows) : rows = trades
    BY DEF IndexerSound, IndexerTyped, RowsSound
<1>1. /\ log \in Seq(Contents) /\ cursor \in 0 .. Len(log) /\ Len(log) \in Nat
      /\ DOMAIN log = 1 .. Len(log)
    BY DEF IndexerSound, IndexerTyped, LogTyped
<1>2. ASSUME NEW n \in DOMAIN rows
      PROVE  /\ rows[n].sig \in 1 .. cursor
             /\ \E i \in DOMAIN log[rows[n].sig] : log[rows[n].sig][i] = rows[n].ev
    <2>1. OfChain(rows[n])
        BY DEF IndexerSound, IndexerTyped, RowsSound
    <2>2. rows[n].sig \in DOMAIN log /\ rows[n].sig <= cursor
        BY <2>1 DEF OfChain
    <2>3. rows[n].sig \in 1 .. cursor
        BY <1>1, <2>2
    <2>4. QED
        BY <2>1, <2>3 DEF OfChain
<1>3. ASSUME NEW n \in DOMAIN rows
      PROVE  \E i \in DOMAIN log[rows[n].sig] : b[n] = <<rows[n].sig, i>> /\ log[rows[n].sig][i] = rows[n].ev
    <2>. PICK i : i = CHOOSE j \in DOMAIN log[rows[n].sig] : log[rows[n].sig][j] = rows[n].ev
        OBVIOUS
    <2>1. i \in DOMAIN log[rows[n].sig] /\ log[rows[n].sig][i] = rows[n].ev
        BY <1>2, Zenon
    <2>2. b[n] = PlaceOf(rows[n])
        OBVIOUS
    <2>3. b[n] = <<rows[n].sig, i>>
        BY <2>2, Zenon DEF PlaceOf
    <2>4. QED
        BY <2>1, <2>3
<1>4. \A n \in DOMAIN rows : /\ b[n] \in Places(1) /\ b[n][1] = rows[n].sig
                             /\ log[b[n][1]][b[n][2]] = rows[n].ev
    <2>. SUFFICES ASSUME NEW n \in DOMAIN rows
                  PROVE  /\ b[n] \in Places(1) /\ b[n][1] = rows[n].sig
                         /\ log[b[n][1]][b[n][2]] = rows[n].ev
        OBVIOUS
    <2>. PICK s : s = rows[n].sig
        OBVIOUS
    <2>1. PICK i \in DOMAIN log[s] : b[n] = <<s, i>> /\ log[s][i] = rows[n].ev
        BY <1>3
    <2>2. s \in 1 .. cursor
        BY <1>2
    <2>3. <<s, i>> \in {s} \X DOMAIN log[s]
        OBVIOUS
    <2>4. <<s, i>> \in Places(1)
        BY <2>2, <2>3, Zenon DEF Places
    <2>5. QED
        BY <2>1, <2>4, SMTT(30)
<1>5. ASSUME NEW m \in DOMAIN rows, NEW n \in DOMAIN rows, b[m] = b[n] PROVE m = n
    <2>1. rows[m].sig = rows[n].sig /\ rows[m].ev = rows[n].ev
        BY <1>4, <1>5
    <2>2. \A i, j \in DOMAIN rows : i < j => ~(rows[i].sig = rows[j].sig /\ rows[i].ev = rows[j].ev)
        BY DEF OnceSound, Numbered
    <2>3. ~(m < n) /\ ~(n < m)
        BY <2>1, <2>2
    <2>4. m \in Nat /\ n \in Nat
        OBVIOUS
    <2>5. QED
        BY <2>3, <2>4
<1>6. ASSUME NEW x \in Places(1) PROVE \E n \in DOMAIN rows : b[n] = x
    <2>1. PICK s \in 1 .. cursor : x \in {s} \X DOMAIN log[s]
        BY Zenon DEF Places
    <2>2. PICK i \in DOMAIN log[s] : x = <<s, i>>
        BY <2>1
    <2>3. Holds(rows, s)
        BY DEF IndexerSound, StoreSound, AllStored, Stored
    <2>4. PICK n \in DOMAIN rows : rows[n].sig = s /\ rows[n].ev = log[s][i]
        BY <2>3 DEF Holds
    <2>5. PICK j \in DOMAIN log[s] : b[n] = <<s, j>> /\ log[s][j] = log[s][i]
        BY <1>3, <2>4
    <2>6. ~Twins(s)
        BY <2>4 DEF OnceSound, TwinsMissed
    <2>7. log[s] \in Seq(Events)
        BY <1>1, ContentsTyped
    <2>8. i \in Nat /\ j \in Nat
        BY <2>7
    <2>9. ~(i < j) /\ ~(j < i)
        BY <2>5, <2>6 DEF Twins
    <2>10. i = j
        BY <2>8, <2>9
    <2>11. QED
        BY <2>2, <2>5, <2>10
<1>7. b \in [DOMAIN rows -> Places(1)]
    BY <1>4
<1>8. Matching(b, DOMAIN rows, Places(1))
    BY <1>5, <1>6, <1>7 DEF Matching
<1>9. QED
    BY <1>4, <1>8

LEMMA FiguresTyped ==
    \A e \in Events : /\ VolumeOf(e) \in Int /\ PnlOf(e) \in Int
                      /\ e.notional = VolumeOf(e)
<1>. SUFFICES ASSUME NEW e \in Events
              PROVE  VolumeOf(e) \in Int /\ PnlOf(e) \in Int /\ e.notional = VolumeOf(e)
    OBVIOUS
<1>1. PICK c \in Contents : \E i \in DOMAIN c : c[i] = e
    BY DEF Events, ToSet
<1>2. PICK i \in DOMAIN c : c[i] = e
    BY <1>1
<1>3. e.pnl \in Int /\ e.notional \in Nat /\ (e.action # "open" => e.notional = 0)
    BY <1>2, IndexerAssumption
<1>4. QED
    BY <1>3 DEF VolumeOf, PnlOf

(* Rows and events that match have the same report.                        *)
SameEvents(f, h, b, S, T) ==
    /\ IsFiniteSet(S) /\ Matching(b, S, T)
    /\ f \in [S -> Events] /\ h \in [T -> Events] /\ \A n \in S : f[n] = h[b[n]]

SameReport(f, h, u) == ReportOf(f, u) = ReportOf(h, u)

LEMMA ReportsMatch ==
    ASSUME NEW S, NEW T, NEW f, NEW h, NEW b, SameEvents(f, h, b, S, T), NEW u
    PROVE  SameReport(f, h, u)
<1>. PICK P : P = {n \in S : f[n].user = u}
    OBVIOUS
<1>. PICK Q : Q = {x \in T : h[x].user = u}
    OBVIOUS
<1>0. /\ IsFiniteSet(S) /\ Matching(b, S, T) /\ f \in [S -> Events] /\ h \in [T -> Events]
      /\ \A n \in S : b[n] \in T /\ f[n] = h[b[n]]
    BY DEF Matching, SameEvents
<1>1. Parted(b, S, T, P, Q)
    BY <1>0 DEF Parted
<1>2. SumFunction([n \in P |-> VolumeOf(f[n])]) = SumFunction([x \in Q |-> VolumeOf(h[x])])
    <2>. PICK v : v = [n \in P |-> VolumeOf(f[n])]
        OBVIOUS
    <2>. PICK w : w = [x \in Q |-> VolumeOf(h[x])]
        OBVIOUS
    <2>1. v \in [P -> Int] /\ w \in [Q -> Int]
        BY <1>0, FiguresTyped
    <2>2. \A n \in P : v[n] = w[b[n]]
        BY <1>0, <1>1 DEF Parted
    <2>3. Alike(v, w, b, P, Q)
        BY <2>1, <2>2 DEF Alike
    <2>4. SumFunction(v) = SumFunction(w)
        <3>1. SameSum(v, w)
            BY <1>1, <2>3, SumsMatched
        <3>2. QED
            BY <3>1, Zenon DEF SameSum
    <2>5. QED
        BY <2>4
<1>3. SumFunction([n \in P |-> PnlOf(f[n])]) = SumFunction([x \in Q |-> PnlOf(h[x])])
    <2>. PICK v : v = [n \in P |-> PnlOf(f[n])]
        OBVIOUS
    <2>. PICK w : w = [x \in Q |-> PnlOf(h[x])]
        OBVIOUS
    <2>1. v \in [P -> Int] /\ w \in [Q -> Int]
        BY <1>0, FiguresTyped
    <2>2. \A n \in P : v[n] = w[b[n]]
        BY <1>0, <1>1 DEF Parted
    <2>3. Alike(v, w, b, P, Q)
        BY <2>1, <2>2 DEF Alike
    <2>4. SumFunction(v) = SumFunction(w)
        <3>1. SameSum(v, w)
            BY <1>1, <2>3, SumsMatched
        <3>2. QED
            BY <3>1, Zenon DEF SameSum
    <2>5. QED
        BY <2>4
<1>4. Cardinality({n \in P : f[n].action = "open"}) = Cardinality({x \in Q : h[x].action = "open"})
    <2>. PICK A : A = {n \in P : f[n].action = "open"}
        OBVIOUS
    <2>. PICK B : B = {x \in Q : h[x].action = "open"}
        OBVIOUS
    <2>1. A \in SUBSET S /\ B \in SUBSET T /\ \A n \in S : n \in A <=> b[n] \in B
        BY <1>0, <1>1 DEF Parted, SameEvents
    <2>2. Parted(b, S, T, A, B)
        BY <2>1 DEF Parted, SameEvents
    <2>3. Cardinality(A) = Cardinality(B)
        <3>1. SameCount(A, B)
            BY <2>2, PartsMatched
        <3>2. QED
            BY <3>1, Zenon DEF SameCount
    <2>4. QED
        BY <2>3
<1>5. Cardinality({n \in P : PnlOf(f[n]) > 0}) = Cardinality({x \in Q : PnlOf(h[x]) > 0})
    <2>. PICK A : A = {n \in P : PnlOf(f[n]) > 0}
        OBVIOUS
    <2>. PICK B : B = {x \in Q : PnlOf(h[x]) > 0}
        OBVIOUS
    <2>1. A \in SUBSET S /\ B \in SUBSET T /\ \A n \in S : n \in A <=> b[n] \in B
        BY <1>0, <1>1 DEF Parted, SameEvents
    <2>2. Parted(b, S, T, A, B)
        BY <2>1 DEF Parted, SameEvents
    <2>3. Cardinality(A) = Cardinality(B)
        <3>1. SameCount(A, B)
            BY <2>2, PartsMatched
        <3>2. QED
            BY <3>1, Zenon DEF SameCount
    <2>4. QED
        BY <2>3
<1>6. DOMAIN f = S /\ DOMAIN h = T
    BY <1>0
<1>7. ReportOf(f, u) =
        [trades |-> Cardinality({n \in P : f[n].action = "open"}),
         volume |-> SumFunction([n \in P |-> VolumeOf(f[n])]),
         total_pnl |-> SumFunction([n \in P |-> PnlOf(f[n])]),
         wins |-> Cardinality({n \in P : PnlOf(f[n]) > 0})]
    BY <1>6, Zenon DEF ReportOf
<1>8. ReportOf(h, u) =
        [trades |-> Cardinality({x \in Q : h[x].action = "open"}),
         volume |-> SumFunction([x \in Q |-> VolumeOf(h[x])]),
         total_pnl |-> SumFunction([x \in Q |-> PnlOf(h[x])]),
         wins |-> Cardinality({x \in Q : PnlOf(h[x]) > 0})]
    BY <1>6, Zenon DEF ReportOf
<1>9. QED
    BY <1>2, <1>3, <1>4, <1>5, <1>7, <1>8, Zenon DEF SameReport

(* No row stands twice, whatever was read again, and while nothing has     *)
(* been given up the leaderboard and the volumes are those of the chain,   *)
(* for any contents of its transactions and any polls that overlap.        *)
THEOREM ReportsDoAgree == IndexerSpec => []ReportsAgree
<1>1. ASSUME IndexerSound, OnceSound PROVE RowsOnce
    <2>. PICK now, id : now = trades /\ id = nextId
        OBVIOUS
    <2>. PICK file, last : file = disk.trades /\ last = disk.nextId
        OBVIOUS
    <2>0. id \in Nat /\ last \in Nat
        BY <1>1 DEF IndexerSound, IndexerTyped, DiskState
    <2>1. Numbered(now, id) /\ Numbered(file, last) /\ last <= id
        BY <1>1 DEF OnceSound
    <2>2. now \in Seq(Rows) /\ file \in Seq(Rows)
        BY <1>1 DEF IndexerSound, IndexerTyped, RowsSound
    <2>3. \A j \in DOMAIN file : file[j].id < id
        <3>1. ASSUME NEW j \in DOMAIN file PROVE file[j].id \in Nat /\ file[j].id < last
            <4>1. file[j] \in Rows
                BY <2>2
            <4>2. file[j].id \in Nat
                BY <4>1 DEF Rows
            <4>3. QED
                BY <2>1, <4>2 DEF Numbered
        <3>2. QED
            BY <2>0, <2>1, <3>1
    <2>4. QED
        BY <2>1, <2>3 DEF Numbered, RowsOnce
<1>2. ASSUME IndexerSound, OnceSound, missed = {}, \A n \in DOMAIN trades : trades[n].sig <= cursor
      PROVE  /\ \A u \in Users : LeaderboardRow(u) = ReportOf(Passed(1), u)
             /\ \A s \in 1 .. cursor :
                  TotalVolume(s) = SumFunction([x \in DOMAIN Passed(s) |-> VolumeOf(Passed(s)[x])])
             /\ disk.trades = trades => DailyVolume = TotalVolume(1)
    <2>. PICK rows \in Seq(Rows) : rows = trades
        BY <1>2 DEF IndexerSound, IndexerTyped, RowsSound
    <2>. PICK S : S = DOMAIN rows
        OBVIOUS
    <2>. PICK b : b = [n \in DOMAIN trades |-> PlaceOf(trades[n])]
        OBVIOUS
    <2>1. IsFiniteSet(S)
        BY FS_Interval
    <2>2. /\ Matching(b, S, Places(1))
          /\ \A n \in S : b[n][1] = rows[n].sig /\ log[b[n][1]][b[n][2]] = rows[n].ev
        BY <1>2, RowsMatch
    <2>3. \A n \in S : rows[n].ev \in Events /\ rows[n].sig \in Nat
        <3>1. \A n \in S : rows[n] \in Rows
            OBVIOUS
        <3>2. QED
            BY <3>1 DEF Rows
    <2>4. ASSUME NEW s \in 1 .. cursor
          PROVE  /\ Places(s) \in SUBSET Places(1)
                 /\ \A x \in Places(1) : x \in Places(s) <=> x[1] >= s
                 /\ DOMAIN Passed(s) = Places(s)
                 /\ \A x \in Places(s) : Passed(s)[x] = log[x[1]][x[2]]
        <3>1. cursor \in Nat /\ s \in Nat /\ s >= 1
            BY <1>2 DEF IndexerSound, IndexerTyped, LogTyped
        <3>2. ASSUME NEW x PROVE x \in Places(s) <=> \E t \in s .. cursor : x \in {t} \X DOMAIN log[t]
            BY Zenon DEF Places
        <3>3. ASSUME NEW x PROVE x \in Places(1) <=> \E t \in 1 .. cursor : x \in {t} \X DOMAIN log[t]
            BY Zenon DEF Places
        <3>4. \A t : \A x \in {t} \X DOMAIN log[t] : x[1] = t
            OBVIOUS
        <3>5. \A t \in s .. cursor : t \in 1 .. cursor /\ t >= s
            BY <3>1
        <3>6. \A t \in 1 .. cursor : t >= s => t \in s .. cursor
            BY <3>1
        <3>7. Places(s) \in SUBSET Places(1)
            BY <3>2, <3>3, <3>5
        <3>8. \A x \in Places(1) : x \in Places(s) <=> x[1] >= s
            BY <3>2, <3>3, <3>4, <3>5, <3>6
        <3>9. Passed(s) = [x \in Places(s) |-> log[x[1]][x[2]]]
            BY Zenon DEF Passed, Places
        <3>10. QED
            BY <3>7, <3>8, <3>9
    <2>5. Passed(1) = [x \in Places(1) |-> log[x[1]][x[2]]]
        BY Zenon DEF Passed, Places
    <2>. PICK h : h = [x \in Places(1) |-> log[x[1]][x[2]]]
        OBVIOUS
    <2>. PICK f : f = [n \in S |-> rows[n].ev]
        OBVIOUS
    <2>. PICK T : T = Places(1)
        OBVIOUS
    <2>6. f \in [S -> Events]
        BY <2>3
    <2>7. \A x \in T : h[x] \in Events
        <3>. SUFFICES ASSUME NEW x \in T PROVE h[x] \in Events
            OBVIOUS
        <3>1. PICK n \in S : b[n] = x
            BY <2>2 DEF Matching
        <3>2. h[x] = rows[n].ev
            BY <2>2, <3>1
        <3>3. QED
            BY <2>3, <3>2
    <2>8. h \in [T -> Events]
        BY <2>7
    <2>9. Matching(b, S, T) /\ \A n \in S : b[n] \in T /\ f[n] = h[b[n]]
        BY <2>2 DEF Matching
    <2>10. \A u \in Users : LeaderboardRow(u) = ReportOf(Passed(1), u)
        <3>. SUFFICES ASSUME NEW u \in Users PROVE LeaderboardRow(u) = ReportOf(Passed(1), u)
            OBVIOUS
        <3>1. SameEvents(f, h, b, S, T)
            BY <2>1, <2>6, <2>8, <2>9 DEF SameEvents
        <3>2. ReportOf(f, u) = ReportOf(h, u)
            <4>1. SameReport(f, h, u)
                BY <3>1, ReportsMatch
            <4>2. QED
                BY <4>1, Zenon DEF SameReport
        <3>3. LeaderboardRow(u) = ReportOf(f, u)
            BY Zenon DEF LeaderboardRow
        <3>4. QED
            BY <2>5, <3>2, <3>3
    <2>11. ASSUME NEW s \in 1 .. cursor
           PROVE  TotalVolume(s) = SumFunction([x \in DOMAIN Passed(s) |-> VolumeOf(Passed(s)[x])])
        <3>. PICK P : P = {n \in DOMAIN trades : trades[n].sig >= s}
            OBVIOUS
        <3>. PICK Q : Q = Places(s)
            OBVIOUS
        <3>. PICK v : v = [n \in P |-> VolumeOf(trades[n].ev)]
            OBVIOUS
        <3>. PICK w : w = [x \in Q |-> VolumeOf(Passed(s)[x])]
            OBVIOUS
        <3>1. /\ P \in SUBSET S /\ Q \in SUBSET T
              /\ \A n \in S : n \in P <=> b[n] \in Q
            BY <2>2, <2>4, <2>9, ZenonT(60)
        <3>2. \A n \in P : v[n] = VolumeOf(f[n])
            OBVIOUS
        <3>3. \A x \in Q : w[x] = VolumeOf(h[x])
            BY <2>4, <3>1
        <3>4. v \in [P -> Int] /\ w \in [Q -> Int]
            BY <2>3, <2>7, <3>1, <3>3, FiguresTyped
        <3>5. ASSUME NEW n \in P PROVE v[n] = w[b[n]]
            <4>1. n \in S /\ b[n] \in Q
                BY <3>1
            <4>2. f[n] = h[b[n]] /\ v[n] = VolumeOf(f[n]) /\ w[b[n]] = VolumeOf(h[b[n]])
                BY <2>9, <3>2, <3>3, <4>1
            <4>3. QED
                BY <4>2
        <3>6. SumFunction(v) = SumFunction(w)
            <4>1. Parted(b, S, T, P, Q)
                BY <2>1, <2>9, <3>1 DEF Parted
            <4>2. Alike(v, w, b, P, Q)
                BY <3>4, <3>5 DEF Alike
            <4>3. SameSum(v, w)
                BY <4>1, <4>2, SumsMatched
            <4>4. QED
                BY <4>3, Zenon DEF SameSum
        <3>7. TotalVolume(s) = SumFunction(v)
            BY Zenon DEF TotalVolume
        <3>8. w = [x \in DOMAIN Passed(s) |-> VolumeOf(Passed(s)[x])]
            BY <2>4
        <3>9. QED
            BY <3>6, <3>7, <3>8
    <2>12. ASSUME disk.trades = trades PROVE DailyVolume = TotalVolume(1)
        <3>1. \A n \in S : rows[n].sig >= 1
            <4>1. \A n \in S : rows[n].sig \in DOMAIN log
                BY <1>2 DEF IndexerSound, IndexerTyped, RowsSound, OfChain
            <4>2. DOMAIN log = 1 .. Len(log) /\ Len(log) \in Nat
                BY <1>2 DEF IndexerSound, IndexerTyped, LogTyped
            <4>3. QED
                BY <4>1, <4>2
        <3>2. {k \in DOMAIN trades : trades[k].sig >= 1} = S
            BY <3>1
        <3>3. \A n \in S : rows[n].ev.notional = VolumeOf(rows[n].ev)
            BY <2>3, FiguresTyped
        <3>4. [n \in S |-> rows[n].ev.notional] = [n \in S |-> VolumeOf(rows[n].ev)]
            BY <3>3, Zenon
        <3>5. DailyVolume = SumFunction([n \in S |-> rows[n].ev.notional])
            BY <2>12, Zenon DEF DailyVolume
        <3>6. TotalVolume(1) = SumFunction([n \in S |-> VolumeOf(rows[n].ev)])
            BY <3>2, Zenon DEF TotalVolume
        <3>7. QED
            BY <3>4, <3>5, <3>6, Zenon
    <2>13. QED
        BY <2>10, <2>11, <2>12
<1>3. IndexerSound /\ OnceSound => ReportsAgree
    BY <1>1, <1>2 DEF ReportsAgree
<1>4. QED
    BY <1>3, IndexerAlways, OnceAlways, PTL

-----------------------------------------------------------------------------
(* The candles                                                             *)

(* Points are apart by the interval, and none is of the future.            *)
Apart(pts) ==
    \A i, j \in DOMAIN pts : i < j => pts[j].ts - pts[i].ts >= RecordInterval * (j - i)

HistoryKept(pts) ==
    /\ pts \in Seq(Points) /\ Len(pts) <= MaxPoints
    /\ \A i \in DOMAIN pts : pts[i].ts <= clock
    /\ Apart(pts)

HistorySound == clock \in 0 .. MaxTime /\ HistoryKept(points) /\ HistoryKept(historyFile)

LEMMA NatProduct ==
    ASSUME NEW a \in Nat, NEW b \in Nat
    PROVE  a * b \in Nat
OBVIOUS

LEMMA PointsTyped ==
    ASSUME NEW pts \in Seq(Points), NEW i \in DOMAIN pts
    PROVE  /\ pts[i] \in Points /\ pts[i].ts \in 0 .. MaxTime /\ pts[i].ts \in Nat
           /\ pts[i].price \in Prices /\ pts[i].price \in Nat
<1>1. pts[i] \in Points
    OBVIOUS
<1>2. pts[i].ts \in 0 .. MaxTime /\ pts[i].price \in Prices
    BY <1>1 DEF Points
<1>3. MaxTime \in Nat /\ Prices \subseteq Nat
    BY HistoryAssumption
<1>4. \A x \in 0 .. MaxTime : x \in Nat
    BY <1>3
<1>5. QED
    BY <1>1, <1>2, <1>3, <1>4, Zenon

LEMMA HistoryStart == HistoryInit => HistorySound
<1>. SUFFICES ASSUME HistoryInit PROVE HistorySound
    OBVIOUS
<1>1. clock = 0 /\ points = << >> /\ historyFile = << >>
    BY DEF HistoryInit
<1>2. << >> \in Seq(Points) /\ Len(<< >>) = 0 /\ DOMAIN << >> = {}
    OBVIOUS
<1>3. HistoryKept(points) /\ HistoryKept(historyFile)
    BY <1>1, <1>2, HistoryAssumption DEF HistoryKept, Apart
<1>4. QED
    BY <1>1, <1>3, HistoryAssumption DEF HistorySound

LEMMA OneMore ==
    ASSUME NEW w \in Nat, NEW k \in Int
    PROVE  w * k \in Int /\ w * (k + 1) = w * k + w
OBVIOUS

LEMMA AppendApart ==
    ASSUME HistorySound, NEW p \in Prices, NEW new,
           new = Append(points, [ts |-> clock, price |-> p]),
           points # << >> => clock - Last(points).ts >= RecordInterval
    PROVE  /\ new \in Seq(Points) /\ Len(new) = Len(points) + 1 /\ Apart(new)
           /\ \A i \in DOMAIN new : new[i].ts <= clock
<1>. DEFINE n == Len(points)
<1>1. /\ points \in Seq(Points) /\ n \in Nat /\ DOMAIN points = 1 .. n
      /\ clock \in 0 .. MaxTime /\ MaxTime \in Nat /\ RecordInterval \in Nat
    BY HistoryAssumption DEF HistorySound, HistoryKept
<1>2. [ts |-> clock, price |-> p] \in Points
    BY <1>1 DEF Points
<1>3. /\ new \in Seq(Points) /\ Len(new) = n + 1 /\ DOMAIN new = 1 .. n + 1
      /\ new[n + 1].ts = clock /\ \A i \in 1 .. n : new[i] = points[i]
    BY <1>1, <1>2
<1>4. \A i \in 1 .. n : points[i].ts \in Nat /\ points[i].ts <= clock
    BY <1>1, PointsTyped DEF HistorySound, HistoryKept
<1>5. ASSUME NEW i \in 1 .. n + 1, NEW j \in 1 .. n + 1, i < j
      PROVE  new[j].ts - new[i].ts >= RecordInterval * (j - i)
    <2>1. i \in 1 .. n
        BY <1>1, <1>5
    <2>2. CASE j \in 1 .. n
        BY <1>1, <1>3, <1>5, <2>1, <2>2 DEF HistorySound, HistoryKept, Apart
    <2>3. CASE j = n + 1
        <3>1. points # << >> /\ Last(points) = points[n]
            BY <1>1, <2>1 DEF Last
        <3>2. clock - points[n].ts >= RecordInterval
            BY <3>1
        <3>3. CASE i = n
            <4>1. RecordInterval * (j - i) = RecordInterval
                BY <1>1, <2>3, <3>3
            <4>2. QED
                BY <1>3, <2>1, <2>3, <3>2, <3>3, <4>1
        <3>4. CASE i < n
            <4>1. points[n].ts - points[i].ts >= RecordInterval * (n - i)
                <5>1. i \in DOMAIN points /\ n \in DOMAIN points
                    BY <1>1, <2>1, <3>4
                <5>. HIDE DEF n
                <5>2. QED
                    BY <3>4, <5>1 DEF HistorySound, HistoryKept, Apart
            <4>2. RecordInterval * (j - i) = RecordInterval * (n - i) + RecordInterval
                <5>1. n - i \in Int /\ j - i = (n - i) + 1
                    <6>1. n \in Int /\ i \in Int /\ j = n + 1
                        BY <1>1, <2>1, <2>3
                    <6>. HIDE DEF n
                    <6>2. QED
                        BY <6>1
                <5>. HIDE DEF n
                <5>2. QED
                    BY <1>1, <5>1, OneMore
            <4>3. RecordInterval * (n - i) \in Int
                <5>1. n - i \in Int
                    BY <1>1, <2>1
                <5>. HIDE DEF n
                <5>2. QED
                    BY <1>1, <5>1, OneMore
            <4>4. new[j].ts = clock /\ new[i] = points[i]
                BY <1>3, <2>1, <2>3
            <4>5. n \in 1 .. n
                BY <2>1, <1>1
            <4>6. points[n].ts \in Nat /\ points[i].ts \in Nat /\ clock \in Nat
                BY <1>1, <1>4, <2>1, <4>5
            <4>. HIDE DEF n
            <4>. PICK x, y, z : x = points[n].ts /\ y = points[i].ts
                                /\ z = RecordInterval * (n - i)
                OBVIOUS
            <4>7. clock - y >= z + RecordInterval
                BY <1>1, <3>2, <4>1, <4>3, <4>6, SMTT(30)
            <4>8. new[j].ts = clock /\ new[i].ts = y
                BY <4>4
            <4>9. RecordInterval * (j - i) = z + RecordInterval
                BY <4>2
            <4>10. QED
                BY <4>7, <4>8, <4>9
        <3>5. i = n \/ i < n
            <4>1. n \in Nat /\ i \in 1 .. n
                BY <1>1, <2>1
            <4>. HIDE DEF n
            <4>2. QED
                BY <4>1
        <3>6. QED
            BY <3>3, <3>4, <3>5, Zenon
    <2>4. QED
        BY <1>1, <2>2, <2>3
<1>6. \A i \in DOMAIN new : new[i].ts <= clock
    BY <1>1, <1>3, <1>4
<1>7. QED
    BY <1>3, <1>5, <1>6 DEF Apart

LEMMA NewestPoints ==
    ASSUME NEW pts \in Seq(Points), NEW m \in Nat, NEW n \in Nat, n = Len(pts), m < n
    PROVE  /\ SubSeq(pts, m + 1, n) \in Seq(Points)
           /\ Len(SubSeq(pts, m + 1, n)) = n - m
           /\ \A i \in 1 .. n - m : SubSeq(pts, m + 1, n)[i] = pts[i + m] /\ i + m \in DOMAIN pts
<1>. DEFINE g == SubSeq(pts, m + 1, n)
<1>1. g \in Seq(Points) /\ Len(g) = n - m
    BY SubSeqProperties
<1>2. \A i \in 1 .. n - m : g[i] = pts[i + m]
    BY SubSeqProperties
<1>3. \A i \in 1 .. n - m : i + m \in DOMAIN pts
    OBVIOUS
<1>4. QED
    BY <1>1, <1>2, <1>3

LEMMA RecordedKept ==
    ASSUME HistorySound, NEW p \in Prices
    PROVE  HistoryKept(Recorded(points, p))
<1>. PICK new : new = Append(points, [ts |-> clock, price |-> p])
    OBVIOUS
<1>1. CASE points # << >> /\ clock - Last(points).ts < RecordInterval
    BY <1>1 DEF Recorded, HistorySound
<1>2. CASE ~(points # << >> /\ clock - Last(points).ts < RecordInterval)
    <2>1. points # << >> => Last(points).ts \in Int
        <3>1. points # << >> => Len(points) \in DOMAIN points
            BY DEF HistorySound, HistoryKept
        <3>2. QED
            BY <3>1, PointsTyped DEF HistorySound, HistoryKept, Last
    <2>2. clock \in Int /\ RecordInterval \in Int /\ MaxPoints \in Nat \ {0}
        BY HistoryAssumption DEF HistorySound
    <2>3. points # << >> => clock - Last(points).ts >= RecordInterval
        BY <1>2, <2>1, <2>2
    <2>4. /\ new \in Seq(Points) /\ Len(new) = Len(points) + 1 /\ Apart(new)
          /\ \A i \in DOMAIN new : new[i].ts <= clock
        BY <2>3, AppendApart
    <2>5. Len(points) \in Nat /\ Len(points) <= MaxPoints
        BY DEF HistorySound, HistoryKept
    <2>6. CASE Len(new) > MaxPoints
        <3>1. Recorded(points, p) = SubSeq(new, Len(new) - MaxPoints + 1, Len(new))
            BY <1>2, <2>6, Zenon DEF Recorded
        <3>. PICK d \in Nat : d = Len(new) - MaxPoints
            BY <2>2, <2>4, <2>5, <2>6
        <3>. PICK kept : kept = SubSeq(new, d + 1, Len(new))
            OBVIOUS
        <3>. PICK n \in Nat : n = Len(new)
            BY <2>4, <2>5
        <3>0. d < n /\ n - d = MaxPoints
            BY <2>2
        <3>2. /\ kept \in Seq(Points) /\ Len(kept) = MaxPoints
              /\ \A i \in 1 .. MaxPoints : kept[i] = new[i + d] /\ i + d \in DOMAIN new
            <4>1. kept = SubSeq(new, d + 1, n) /\ new \in Seq(Points)
                BY <2>4
            <4>2. /\ SubSeq(new, d + 1, n) \in Seq(Points)
                  /\ Len(SubSeq(new, d + 1, n)) = n - d
                  /\ \A i \in 1 .. n - d : SubSeq(new, d + 1, n)[i] = new[i + d] /\ i + d \in DOMAIN new
                <5>1. n = Len(new) /\ new \in Seq(Points) /\ d < n /\ d \in Nat /\ n \in Nat
                    BY <2>4, <3>0
                <5>2. QED
                    BY <5>1, NewestPoints, ZenonT(60)
            <4>3. QED
                BY <3>0, <4>1, <4>2
        <3>3. DOMAIN kept = 1 .. MaxPoints
            <4>1. kept \in Seq(Points) /\ Len(kept) = MaxPoints
                BY <3>2
            <4>2. QED
                BY <4>1, SMTT(30)
        <3>4. ASSUME NEW i \in DOMAIN kept PROVE kept[i].ts <= clock
            <4>. PICK k : k = i + d
                OBVIOUS
            <4>1. kept[i] = new[k] /\ k \in DOMAIN new
                BY <3>2, <3>3
            <4>2. new[k].ts <= clock
                BY <2>4, <4>1, Zenon
            <4>3. QED
                BY <4>1, <4>2
        <3>5. ASSUME NEW i \in DOMAIN kept, NEW j \in DOMAIN kept, i < j
              PROVE  kept[j].ts - kept[i].ts >= RecordInterval * (j - i)
            <4>1. i + d < j + d /\ (j + d) - (i + d) = j - i
                BY <2>2, <3>3, <3>5
            <4>2. new[j + d].ts - new[i + d].ts >= RecordInterval * ((j + d) - (i + d))
                BY <2>4, <3>2, <3>3, <4>1 DEF Apart
            <4>3. QED
                BY <3>2, <3>3, <4>1, <4>2
        <3>6. HistoryKept(kept)
            <4>1. Len(kept) <= MaxPoints
                BY <2>2, <3>2
            <4>2. Apart(kept)
                BY <3>5 DEF Apart
            <4>3. QED
                BY <3>2, <3>4, <4>1, <4>2 DEF HistoryKept
        <3>7. QED
            BY <3>1, <3>6
    <2>7. CASE ~(Len(new) > MaxPoints)
        <3>1. Recorded(points, p) = new
            BY <1>2, <2>7, Zenon DEF Recorded
        <3>2. Len(new) <= MaxPoints
            BY <2>2, <2>4, <2>5, <2>7
        <3>3. QED
            BY <2>4, <3>1, <3>2 DEF HistoryKept
    <2>8. QED
        BY <2>6, <2>7
<1>3. QED
    BY <1>1, <1>2

LEMMA HistoryStep == HistorySound /\ [HistoryNext]_historyVars => HistorySound'
<1>. SUFFICES ASSUME HistorySound, [HistoryNext]_historyVars PROVE HistorySound'
    OBVIOUS
<1>0. MaxTime \in Nat
    BY HistoryAssumption
<1>1. CASE Second
    <2>1. /\ clock' = clock + 1 /\ clock' \in 0 .. MaxTime
          /\ points' = points /\ historyFile' = historyFile
        BY <1>0, <1>1 DEF Second, HistorySound
    <2>2. ASSUME NEW pts, HistoryKept(pts) PROVE \A i \in DOMAIN pts : pts[i].ts <= clock'
        <3>. SUFFICES ASSUME NEW i \in DOMAIN pts PROVE pts[i].ts <= clock'
            OBVIOUS
        <3>1. pts[i].ts \in Nat /\ pts[i].ts <= clock /\ clock \in Nat
            BY <2>2, PointsTyped DEF HistorySound, HistoryKept
        <3>2. QED
            BY <2>1, <3>1
    <2>3. QED
        BY <2>1, <2>2 DEF HistorySound, HistoryKept, Apart
<1>2. ASSUME NEW p \in Prices, RecordPoint(p) PROVE HistorySound'
    <2>1. /\ points' = Recorded(points, p)
          /\ clock' = clock /\ historyFile' = historyFile
        BY <1>2 DEF RecordPoint
    <2>2. HistoryKept(Recorded(points, p)) /\ HistoryKept(historyFile)
        BY RecordedKept DEF HistorySound
    <2>3. QED
        BY <2>1, <2>2 DEF HistorySound, HistoryKept, Apart
<1>3. CASE PersistHistory
    BY <1>3 DEF PersistHistory, HistorySound, HistoryKept, Apart
<1>4. CASE RestartKeeper
    BY <1>4 DEF RestartKeeper, HistorySound, HistoryKept, Apart
<1>5. CASE UNCHANGED historyVars
    BY <1>5 DEF historyVars, HistorySound, HistoryKept, Apart
<1>6. QED
    BY <1>1, <1>2, <1>3, <1>4, <1>5 DEF HistoryNext

LEMMA HistoryAlways == HistorySpec => []HistorySound
BY HistoryStart, HistoryStep, PTL DEF HistorySpec

(* How many numbers an interval has.                                       *)
LEMMA IntervalSize ==
    ASSUME NEW a \in Nat, NEW n \in Nat
    PROVE  IsFiniteSet(a .. a + n) /\ Cardinality(a .. a + n) = n + 1
    BY FS_Interval, SMTT(30)

(* A market has no more rows since a time than the interval allows, also   *)
(* across restarts and whatever was lost of the history.                   *)
THEOREM RowsAreSpaced == HistorySpec => []RowsSpaced
<1>1. ASSUME HistorySound, NEW t \in 0 .. clock
      PROVE  Cardinality(PriceRows(t, clock, 0)) <= (clock - t) \div RecordInterval + 1
    <2>1. /\ clock \in Nat /\ t \in Nat /\ t <= clock /\ RecordInterval \in Nat \ {0}
          /\ Len(points) \in Nat /\ DOMAIN points = 1 .. Len(points)
          /\ \A i \in DOMAIN points : points[i].ts \in Nat
        <3>1. clock \in Nat /\ t \in Nat /\ t <= clock /\ RecordInterval \in Nat \ {0}
            BY <1>1, HistoryAssumption DEF HistorySound
        <3>2. points \in Seq(Points)
            BY <1>1 DEF HistorySound, HistoryKept
        <3>3. QED
            BY <3>1, <3>2, PointsTyped
    <2>. DEFINE rows == {n \in DOMAIN points : points[n].ts >= t /\ points[n].ts <= clock}
                q    == (clock - t) \div RecordInterval
    <2>2. PriceRows(t, clock, 0) = rows
        BY DEF PriceRows
    <2>3. q \in Nat /\ (clock - t) < RecordInterval * (q + 1)
        BY <2>1
    <2>4. CASE rows = {}
        <3>. HIDE DEF rows, q
        <3>1. Cardinality(rows) = 0
            BY <2>4, FS_EmptySet
        <3>2. Cardinality(rows) <= q + 1
            BY <2>3, <3>1
        <3>3. QED
            BY <2>2, <3>2 DEF q
    <2>5. CASE rows # {}
        <3>1. rows \subseteq Nat
            BY <2>1
        <3>2. PICK a \in rows : \A n \in rows : a <= n
            <4>. HIDE DEF rows
            <4>. QED
                BY <2>5, <3>1, SmallestNat
        <3>3. ASSUME NEW n \in rows PROVE n \in a .. a + q
            <4>1. n \in Nat /\ a \in Nat /\ a <= n /\ n \in DOMAIN points /\ a \in DOMAIN points
                BY <3>1, <3>2
            <4>2. CASE n > a + q
                <5>1. points[n].ts - points[a].ts >= RecordInterval * (n - a)
                    BY <1>1, <2>3, <4>1, <4>2 DEF HistorySound, HistoryKept, Apart
                <5>2. points[n].ts - points[a].ts <= clock - t
                    BY <2>1, <3>2, <4>1
                <5>3. RecordInterval * (n - a) >= RecordInterval * (q + 1)
                    <6>. PICK k : k = n - a - (q + 1)
                        OBVIOUS
                    <6>. HIDE DEF q
                    <6>1. k \in Nat /\ n - a = (q + 1) + k
                        BY <2>3, <4>1, <4>2
                    <6>2. RecordInterval * (n - a) = RecordInterval * (q + 1) + RecordInterval * k
                        BY <2>1, <2>3, <6>1
                    <6>3. RecordInterval * k \in Nat /\ RecordInterval * (q + 1) \in Nat
                        BY <2>1, <2>3, <6>1, NatProduct
                    <6>4. QED
                        BY <6>2, <6>3
                <5>4. RecordInterval * (n - a) \in Int /\ RecordInterval * (q + 1) \in Int
                    BY <2>1, <2>3, <4>1
                <5>5. FALSE
                    <6>. PICK x, y, z : x = RecordInterval * (n - a) /\ y = RecordInterval * (q + 1)
                                        /\ z = points[n].ts - points[a].ts
                        OBVIOUS
                    <6>1. x \in Int /\ y \in Int /\ z \in Int /\ clock - t \in Int
                        BY <2>1, <4>1, <5>4
                    <6>2. z >= x /\ z <= clock - t /\ x >= y /\ clock - t < y
                        BY <2>3, <5>1, <5>2, <5>3
                    <6>3. QED
                        BY <6>1, <6>2
                <5>6. QED
                    BY <5>5
            <4>3. QED
                BY <2>3, <4>1, <4>2
        <3>4. IsFiniteSet(a .. a + q) /\ Cardinality(a .. a + q) = q + 1
            <4>1. a \in Nat /\ q \in Nat
                BY <2>3, <3>1, <3>2
            <4>. HIDE DEF q
            <4>2. QED
                BY <4>1, IntervalSize, Zenon
        <3>5. rows \subseteq a .. a + q
            BY <3>3
        <3>6. Cardinality(rows) <= q + 1
            <4>. HIDE DEF rows, q
            <4>. QED
                BY <3>4, <3>5, FS_Subset
        <3>7. QED
            BY <2>2, <3>6
    <2>6. QED
        BY <2>4, <2>5
<1>2. HistorySound => RowsSpaced
    BY <1>1 DEF RowsSpaced
<1>3. QED
    BY <1>2, HistoryAlways, PTL

-----------------------------------------------------------------------------
(* The least and the greatest of a set, once they are known.               *)
LEMMA MinIs ==
    ASSUME NEW S, S \subseteq Int, NEW x \in S, \A y \in S : x <= y
    PROVE  Min(S) = x
<1>1. \A z \in S : (\A y \in S : z <= y) => z = x
    OBVIOUS
<1>2. Min(S) \in S /\ \A y \in S : Min(S) <= y
    BY Zenon DEF Min
<1>3. QED
    BY <1>1, <1>2

LEMMA MaxIs ==
    ASSUME NEW S, S \subseteq Int, NEW x \in S, \A y \in S : y <= x
    PROVE  Max(S) = x
<1>1. \A z \in S : (\A y \in S : z >= y) => z = x
    OBVIOUS
<1>2. \A y \in S : x >= y
    OBVIOUS
<1>3. Max(S) \in S /\ \A y \in S : Max(S) >= y
    BY <1>2, Zenon DEF Max
<1>4. QED
    BY <1>1, <1>3

(* The n-th of a set of times: as many are up to it.                       *)
IsNth(S, n, x) == x \in S /\ Cardinality({u \in S : u <= x}) = n

LEMMA NthExists ==
    ASSUME NEW b \in Nat, NEW S, S \subseteq 0 .. b, NEW n \in 1 .. Cardinality(S)
    PROVE  \E x : IsNth(S, n, x)
<1>0. \A u \in S : u \in Nat /\ u <= b
    OBVIOUS
<1>1. IsFiniteSet(S) /\ Cardinality(S) \in Nat
    <2>1. IsFiniteSet(0 .. b)
        BY FS_Interval
    <2>2. QED
        BY <2>1, FS_Subset, FS_CardinalityType
<1>. DEFINE UpTo(x) == {u \in S : u <= x}
            Enough  == {x \in Nat : Cardinality(UpTo(x)) >= n}
<1>2. ASSUME NEW x PROVE IsFiniteSet(UpTo(x)) /\ Cardinality(UpTo(x)) \in Nat
    BY <1>1, FS_Subset, FS_CardinalityType
<1>3. Enough # {}
    <2>1. UpTo(b) = S
        BY <1>0
    <2>2. Cardinality(UpTo(b)) = Cardinality(S)
        BY <2>1, Zenon
    <2>3. Cardinality(UpTo(b)) >= n
        BY <1>1, <2>2
    <2>4. b \in Enough
        BY <2>3, Zenon
    <2>5. QED
        BY <2>4, Zenon
<1>4. PICK x \in Enough : \A y \in Enough : x <= y
    BY <1>3, SmallestNat
<1>5. x \in Nat /\ Cardinality(UpTo(x)) >= n
    BY <1>4
<1>. DEFINE Below == {u \in S : u < x}
<1>6. IsFiniteSet(Below) /\ Cardinality(Below) \in Nat
    BY <1>1, FS_Subset, FS_CardinalityType
<1>7. Cardinality(Below) < n
    <2>1. CASE x = 0
        <3>0. \A u \in S : ~(u < x)
            BY <1>0, <2>1
        <3>1. Below = {}
            BY <3>0, Zenon
        <3>. HIDE DEF Below
        <3>2. Cardinality(Below) = 0
            BY <3>1, FS_EmptySet
        <3>3. QED
            BY <3>2
    <2>2. CASE x # 0
        <3>1. x - 1 \in Nat /\ ~(x <= x - 1)
            BY <1>5, <2>2
        <3>2. x - 1 \notin Enough
            BY <1>4, <3>1
        <3>3. ~(Cardinality(UpTo(x - 1)) >= n)
            BY <3>1, <3>2
        <3>4. \A u \in S : u < x <=> u <= x - 1
            BY <1>0, <1>5
        <3>5. Below = UpTo(x - 1)
            BY <3>4, Zenon
        <3>. HIDE DEF Below, UpTo
        <3>6. QED
            BY <1>6, <3>3, <3>5
    <2>3. QED
        BY <2>1, <2>2
<1>. DEFINE Or == {u \in S : u < x \/ u = x}
<1>a. \A u \in S : u <= x <=> (u < x \/ u = x)
    BY <1>0, <1>5
<1>b. UpTo(x) = Or /\ ~(x < x)
    <2>1. ~(x < x)
        BY <1>5
    <2>2. QED
        BY <1>a, <2>1, Zenon
<1>8. x \in S
    <2>1. Below # UpTo(x)
        <3>. HIDE DEF Below, UpTo
        <3>1. QED
            BY <1>5, <1>6, <1>7
    <2>2. QED
        BY <1>b, <2>1, Zenon
<1>9. UpTo(x) = Below \cup {x} /\ x \notin Below
    BY <1>b, <1>8, Zenon
<1>10. Cardinality(UpTo(x)) = Cardinality(Below) + 1
    <2>. HIDE DEF Below, UpTo
    <2>1. QED
        BY <1>6, <1>9, FS_AddElement
<1>11. Cardinality(UpTo(x)) = n
    <2>. HIDE DEF Below, UpTo
    <2>1. QED
        BY <1>5, <1>6, <1>7, <1>10
<1>12. QED
    BY <1>8, <1>11, Zenon DEF IsNth

LEMMA InTimeOrders ==
    ASSUME NEW b \in Nat, NEW S, S \subseteq 0 .. b
    PROVE  /\ InTime(S) \in [1 .. Cardinality(S) -> S]
           /\ \A i, j \in 1 .. Cardinality(S) : i < j => InTime(S)[i] < InTime(S)[j]
           /\ \A u \in S : \E i \in 1 .. Cardinality(S) : InTime(S)[i] = u
<1>0. \A u \in S : u \in Nat
    OBVIOUS
<1>1. IsFiniteSet(S) /\ Cardinality(S) \in Nat
    <2>1. IsFiniteSet(0 .. b)
        BY FS_Interval
    <2>2. QED
        BY <2>1, FS_Subset, FS_CardinalityType
<1>. PICK m \in Nat : m = Cardinality(S)
    BY <1>1
<1>. DEFINE UpTo(x) == {u \in S : u <= x}
            Sorts(s) == \A i, j \in DOMAIN s : i < j => s[i] < s[j]
            nth == [n \in 1 .. m |-> CHOOSE x : IsNth(S, n, x)]
<1>2. ASSUME NEW n \in 1 .. m PROVE nth[n] \in S /\ Cardinality(UpTo(nth[n])) = n
    <2>1. \E x : IsNth(S, n, x)
        BY NthExists
    <2>. DEFINE c == CHOOSE x : IsNth(S, n, x)
    <2>2. c \in S /\ Cardinality(UpTo(c)) = n
        BY <2>1, Zenon DEF IsNth
    <2>3. nth[n] = c
        OBVIOUS
    <2>4. QED
        BY <2>2, <2>3, Zenon
<1>3. nth \in [1 .. m -> S]
    BY <1>2
<1>4. ASSUME NEW i \in 1 .. m, NEW j \in 1 .. m, i < j
      PROVE  nth[i] < nth[j]
    <2>. PICK x, y : x = nth[i] /\ y = nth[j]
        OBVIOUS
    <2>1. /\ x \in S /\ Cardinality(UpTo(x)) = i
          /\ y \in S /\ Cardinality(UpTo(y)) = j
        BY <1>2
    <2>. HIDE DEF nth
    <2>2. SUFFICES ASSUME ~(x < y) PROVE FALSE
        OBVIOUS
    <2>3. UpTo(y) \subseteq UpTo(x)
        <3>1. x \in Nat /\ y \in Nat /\ y <= x
            BY <1>0, <2>1, <2>2
        <3>2. \A u \in S : u <= y => u <= x
            BY <1>0, <3>1
        <3>3. QED
            BY <3>2, Zenon
    <2>4. IsFiniteSet(UpTo(x))
        BY <1>1, FS_Subset
    <2>. HIDE DEF UpTo
    <2>5. Cardinality(UpTo(y)) <= Cardinality(UpTo(x))
        BY <2>3, <2>4, FS_Subset
    <2>6. QED
        BY <1>4, <2>1, <2>5
<1>5. DOMAIN nth = 1 .. m
    OBVIOUS
<1>. HIDE DEF nth
<1>6. \E s \in [1 .. Cardinality(S) -> S] : Sorts(s)
    BY <1>3, <1>4, <1>5
<1>. PICK t : t = InTime(S)
    OBVIOUS
<1>7. t \in [1 .. Cardinality(S) -> S] /\ Sorts(t)
    BY <1>6, Zenon DEF InTime
<1>8. DOMAIN t = 1 .. m
    BY <1>7
<1>9. \A i, j \in 1 .. m : i < j => t[i] < t[j]
    BY <1>7, <1>8
<1>10. \A i \in 1 .. m : t[i] \in S /\ t[i] \in Nat
    BY <1>0, <1>7
<1>11. t \in Injection(1 .. m, S)
    <2>1. ASSUME NEW i \in 1 .. m, NEW j \in 1 .. m, t[i] = t[j] PROVE i = j
        <3>1. ~(i < j) /\ ~(j < i)
            BY <1>9, <1>10, <2>1
        <3>2. QED
            BY <3>1
    <2>2. QED
        BY <1>7, <1>8, <2>1 DEF Injection, IsInjective
<1>12. IsFiniteSet(1 .. m) /\ Cardinality(1 .. m) = Cardinality(S)
    BY FS_Interval
<1>13. t \in Surjection(1 .. m, S)
    BY <1>1, <1>11, <1>12, FS_Injection
<1>14. \A u \in S : \E i \in 1 .. m : t[i] = u
    BY <1>13 DEF Surjection
<1>15. QED
    BY <1>7, <1>9, <1>14

-----------------------------------------------------------------------------
InBucket(pts, n, b) == {k \in 1 .. n : Bucket(pts[k].ts) = b}
PricesIn(pts, n, b) == {pts[k].price : k \in InBucket(pts, n, b)}

(* What a candle says of the first n points in a bucket: the prices of the *)
(* first and the last, the highest and the lowest.                         *)
Says(c, pts, n, b, i, j, h, l) ==
    /\ i \in InBucket(pts, n, b) /\ \A k \in InBucket(pts, n, b) : i <= k
    /\ j \in InBucket(pts, n, b) /\ \A k \in InBucket(pts, n, b) : k <= j
    /\ h \in PricesIn(pts, n, b) /\ \A p \in PricesIn(pts, n, b) : p <= h
    /\ l \in PricesIn(pts, n, b) /\ \A p \in PricesIn(pts, n, b) : l <= p
    /\ c = [timestamp |-> b, open |-> pts[i].price, high |-> h, low |-> l,
            close |-> pts[j].price]

IsCandle(c, pts, n, b) == \E i, j, h, l : Says(c, pts, n, b, i, j, h, l)

MadeOf(cs, pts, n) ==
    /\ DOMAIN cs = {Bucket(pts[k].ts) : k \in 1 .. n}
    /\ \A b \in DOMAIN cs : IsCandle(cs[b], pts, n, b)

(* One more point in a bucket that has a candle.                           *)
LEMMA ExtendedSays ==
    ASSUME NEW pts \in Seq(Points), NEW n \in Nat, n + 1 <= Len(pts),
           NEW c, NEW b, b = Bucket(pts[n + 1].ts), IsCandle(c, pts, n, b)
    PROVE  IsCandle(Extended(c, pts[n + 1].price), pts, n + 1, b)
<1>. PICK i, j, h, l : Says(c, pts, n, b, i, j, h, l)
    BY DEF IsCandle
<1>. PICK p : p = pts[n + 1].price
    OBVIOUS
<1>. PICK A : A = InBucket(pts, n, b)
    OBVIOUS
<1>. PICK P : P = PricesIn(pts, n, b)
    OBVIOUS
<1>1. /\ i \in A /\ (\A k \in A : i <= k) /\ j \in A /\ (\A k \in A : k <= j)
      /\ h \in P /\ (\A q \in P : q <= h) /\ l \in P /\ (\A q \in P : l <= q)
      /\ c = [timestamp |-> b, open |-> pts[i].price, high |-> h, low |-> l,
              close |-> pts[j].price]
    BY DEF Says
<1>2. /\ InBucket(pts, n + 1, b) = A \cup {n + 1}
      /\ A \subseteq 1 .. n
    BY DEF InBucket
<1>3. PricesIn(pts, n + 1, b) = P \cup {p}
    BY <1>2 DEF PricesIn
<1>4. P \subseteq Nat /\ p \in Nat
    <2>1. \A k \in 1 .. n + 1 : k \in DOMAIN pts
        OBVIOUS
    <2>2. \A k \in 1 .. n + 1 : pts[k].price \in Nat
        BY <2>1, PointsTyped
    <2>3. QED
        BY <1>2, <2>2 DEF PricesIn
<1>. DEFINE hi == IF p <= h THEN h ELSE p
            lo == IF l <= p THEN l ELSE p
<1>. PICK mx, mn : mx = Max({h, p}) /\ mn = Min({l, p})
    OBVIOUS
<1>5. mx = hi
    <2>1. {h, p} \subseteq Int /\ hi \in {h, p} /\ \A y \in {h, p} : y <= hi
        BY <1>1, <1>4
    <2>. HIDE DEF hi
    <2>2. QED
        BY <2>1, MaxIs
<1>6. mn = lo
    <2>1. {l, p} \subseteq Int /\ lo \in {l, p} /\ \A y \in {l, p} : lo <= y
        BY <1>1, <1>4
    <2>. HIDE DEF lo
    <2>2. Min({l, p}) = lo
        <3>. PICK P2, z : P2 = {l, p} /\ z = lo
            OBVIOUS
        <3>1. P2 \subseteq Int /\ z \in P2 /\ \A y \in P2 : z <= y
            BY <2>1
        <3>2. Min(P2) = z
            BY <3>1, MinIs
        <3>3. QED
            BY <3>2
    <2>3. QED
        BY <2>2
<1>7. /\ hi \in P \cup {p} /\ \A q \in P \cup {p} : q <= hi
      /\ lo \in P \cup {p} /\ \A q \in P \cup {p} : lo <= q
    BY <1>1, <1>4
<1>8. /\ i \in A \cup {n + 1} /\ \A k \in A \cup {n + 1} : i <= k
      /\ n + 1 \in A \cup {n + 1} /\ \A k \in A \cup {n + 1} : k <= n + 1
    BY <1>1, <1>2
<1>9. Extended(c, p) = [timestamp |-> b, open |-> pts[i].price, high |-> mx,
                        low |-> mn, close |-> p]
    <2>1. c.high = h /\ c.low = l
        BY <1>1
    <2>2. Extended(c, p) = [c EXCEPT !.high = mx, !.low = mn, !.close = p]
        BY <2>1 DEF Extended
    <2>3. QED
        BY <1>1, <2>2
<1>. HIDE DEF hi, lo
<1>10. Extended(c, p) = [timestamp |-> b, open |-> pts[i].price, high |-> hi,
                         low |-> lo, close |-> pts[n + 1].price]
    BY <1>5, <1>6, <1>9
<1>11. Says(Extended(c, p), pts, n + 1, b, i, n + 1, hi, lo)
    BY <1>2, <1>3, <1>7, <1>8, <1>10 DEF Says
<1>12. QED
    BY <1>11 DEF IsCandle

LEMMA OpenedSays ==
    ASSUME NEW pts \in Seq(Points), NEW n \in Nat, n + 1 <= Len(pts),
           NEW b, b = Bucket(pts[n + 1].ts),
           \A k \in 1 .. n : Bucket(pts[k].ts) # b
    PROVE  IsCandle(Opened(b, pts[n + 1].price), pts, n + 1, b)
<1>. PICK p : p = pts[n + 1].price
    OBVIOUS
<1>1. p \in Nat
    <2>1. n + 1 \in DOMAIN pts
        OBVIOUS
    <2>2. QED
        BY <2>1, PointsTyped
<1>2. InBucket(pts, n + 1, b) = {n + 1}
    BY DEF InBucket
<1>3. PricesIn(pts, n + 1, b) = {p}
    BY <1>2 DEF PricesIn
<1>4. Says(Opened(b, p), pts, n + 1, b, n + 1, n + 1, p, p)
    BY <1>1, <1>2, <1>3 DEF Says, Opened
<1>5. QED
    BY <1>4 DEF IsCandle

LEMMA PutKeepsCandles ==
    ASSUME NEW pts \in Seq(Points), NEW n \in Nat, n + 1 <= Len(pts),
           NEW cs, MadeOf(cs, pts, n)
    PROVE  MadeOf(PutPoint(cs, pts[n + 1]), pts, n + 1)
<1>. PICK b : b = Bucket(pts[n + 1].ts)
    OBVIOUS
<1>. PICK new : new = PutPoint(cs, pts[n + 1])
    OBVIOUS
<1>1. DOMAIN cs = {Bucket(pts[k].ts) : k \in 1 .. n}
    BY DEF MadeOf
<1>2. DOMAIN new = DOMAIN cs \cup {b}
    BY DEF PutPoint
<1>3. DOMAIN new = {Bucket(pts[k].ts) : k \in 1 .. n + 1}
    <2>1. 1 .. n + 1 = (1 .. n) \cup {n + 1}
        OBVIOUS
    <2>2. QED
        BY <1>1, <1>2, <2>1
<1>4. ASSUME NEW t \in DOMAIN new PROVE IsCandle(new[t], pts, n + 1, t)
    <2>1. CASE t # b
        <3>1. new[t] = cs[t] /\ t \in DOMAIN cs
            BY <1>2, <1>4, <2>1 DEF PutPoint
        <3>2. IsCandle(cs[t], pts, n, t)
            BY <3>1 DEF MadeOf
        <3>3. InBucket(pts, n + 1, t) = InBucket(pts, n, t)
            BY <2>1 DEF InBucket
        <3>4. PricesIn(pts, n + 1, t) = PricesIn(pts, n, t)
            BY <3>3 DEF PricesIn
        <3>5. QED
            BY <3>1, <3>2, <3>3, <3>4 DEF IsCandle, Says
    <2>2. CASE t = b /\ b \in DOMAIN cs
        <3>1. new[t] = Extended(cs[b], pts[n + 1].price)
            BY <2>2 DEF PutPoint
        <3>2. IsCandle(cs[b], pts, n, b)
            BY <2>2 DEF MadeOf
        <3>3. QED
            BY <2>2, <3>1, <3>2, ExtendedSays
    <2>3. CASE t = b /\ b \notin DOMAIN cs
        <3>1. new[t] = Opened(b, pts[n + 1].price)
            BY <2>3 DEF PutPoint
        <3>2. \A k \in 1 .. n : Bucket(pts[k].ts) # b
            BY <1>1, <2>3
        <3>3. QED
            BY <2>3, <3>1, <3>2, OpenedSays
    <2>4. QED
        BY <2>1, <2>2, <2>3
<1>5. QED
    BY <1>3, <1>4 DEF MadeOf

(* Points put one after another: a recursive function that exists.         *)
Puts(f, pts, n) ==
    f = [i \in 0 .. n |-> IF i = 0 THEN << >> ELSE PutPoint(f[i - 1], pts[i])]

LEMMA PutsExist ==
    ASSUME NEW pts, NEW n \in Nat
    PROVE  \E f : Puts(f, pts, n)
<1>. DEFINE Body(f, i) == IF i = 0 THEN << >> ELSE PutPoint(f[i - 1], pts[i])
            Has == {k \in Nat : \E f : f = [i \in 0 .. k |-> Body(f, i)]}
<1>1. 0 \in Has
    <2>1. [i \in 0 .. 0 |-> << >>] = [i \in 0 .. 0 |-> Body([j \in 0 .. 0 |-> << >>], i)]
        OBVIOUS
    <2>2. QED
        BY <2>1
<1>2. ASSUME NEW k \in Nat, k \in Has PROVE k + 1 \in Has
    <2>1. PICK f : f = [i \in 0 .. k |-> Body(f, i)]
        BY <1>2
    <2>. DEFINE g == [i \in 0 .. (k + 1) |->
                         IF i = k + 1 THEN PutPoint(f[k], pts[k + 1]) ELSE f[i]]
    <2>2. ASSUME NEW i \in 0 .. (k + 1) PROVE g[i] = Body(g, i)
        <3>1. CASE i = k + 1
            BY <3>1
        <3>2. CASE i \in 0 .. k /\ i # 0
            <4>1. f[i] = PutPoint(f[i - 1], pts[i])
                BY <2>1, <3>2
            <4>2. g[i] = f[i] /\ g[i - 1] = f[i - 1]
                BY <3>2
            <4>3. QED
                BY <4>1, <4>2, <3>2
        <3>3. CASE i = 0
            BY <3>3, <2>1
        <3>4. QED
            BY <3>1, <3>2, <3>3
    <2>3. g = [i \in 0 .. (k + 1) |-> Body(g, i)]
        BY <2>2
    <2>4. \E z : z = [i \in 0 .. (k + 1) |-> Body(z, i)]
        <3>. WITNESS g
        <3>. QED
            BY <2>3
    <2>5. QED
        BY <2>4
<1>3. Nat \subseteq Has
    <2>. HIDE DEF Has
    <2>1. QED
        BY <1>1, <1>2, SetInduction
<1>4. \E f : f = [i \in 0 .. n |-> Body(f, i)]
    BY <1>3
<1>5. QED
    BY <1>4 DEF Puts

LEMMA CandlesMade ==
    ASSUME NEW pts \in Seq(Points)
    PROVE  MadeOf(CandleOf(pts), pts, Len(pts))
<1>. PICK n \in Nat : n = Len(pts)
    OBVIOUS
<1>. DEFINE F == CHOOSE f : Puts(f, pts, n)
<1>1. Puts(F, pts, n)
    BY PutsExist, Zenon
<1>2. CandleOf(pts) = F[n]
    BY Zenon DEF CandleOf, Puts
<1>. HIDE DEF F
<1>. PICK after : after = F
    OBVIOUS
<1>3. after = [i \in 0 .. n |-> IF i = 0 THEN << >> ELSE PutPoint(after[i - 1], pts[i])]
    BY <1>1 DEF Puts
<1>. DEFINE Good == {i \in Nat : i <= n => MadeOf(after[i], pts, i)}
<1>4. 0 \in Good
    <2>1. after[0] = << >>
        BY <1>3
    <2>2. DOMAIN << >> = {} /\ 1 .. 0 = {}
        OBVIOUS
    <2>3. MadeOf(after[0], pts, 0)
        BY <2>1, <2>2 DEF MadeOf
    <2>4. QED
        BY <2>3
<1>5. ASSUME NEW i \in Nat, i \in Good PROVE i + 1 \in Good
    <2>. SUFFICES ASSUME i + 1 <= n PROVE MadeOf(after[i + 1], pts, i + 1)
        OBVIOUS
    <2>1. MadeOf(after[i], pts, i)
        BY <1>5
    <2>2. after[i + 1] = PutPoint(after[i], pts[i + 1])
        <3>. PICK j : j = i + 1
            OBVIOUS
        <3>1. j \in 0 .. n /\ j # 0 /\ j - 1 = i
            OBVIOUS
        <3>2. after[j] = PutPoint(after[i], pts[j])
            BY <1>3, <3>1
        <3>3. QED
            BY <3>2
    <2>3. QED
        BY <2>1, <2>2, PutKeepsCandles
<1>6. n \in Good
    <2>. HIDE DEF Good
    <2>1. QED
        BY <1>4, <1>5, SetInduction
<1>7. QED
    BY <1>2, <1>6

LEMMA BucketsBounded ==
    ASSUME NEW pts \in Seq(Points)
    PROVE  \E b \in Nat : {Bucket(pts[k].ts) : k \in 1 .. Len(pts)} \subseteq 0 .. b
<1>. DEFINE page == [k \in 1 .. Len(pts) |-> Bucket(pts[k].ts)]
<1>1. ASSUME NEW k \in 1 .. Len(pts) PROVE Bucket(pts[k].ts) \in Nat
    <2>1. pts[k].ts \in Nat /\ Resolution \in Nat \ {0}
        BY PointsTyped, HistoryAssumption
    <2>2. pts[k].ts \div Resolution \in Nat
        BY <2>1
    <2>3. QED
        BY <2>1, <2>2, NatProduct DEF Bucket
<1>2. page \in Seq(Nat) /\ DOMAIN page = 1 .. Len(pts)
    BY <1>1
<1>3. PICK b \in Nat : \A k \in DOMAIN page : page[k] <= b
    <2>. HIDE DEF page
    <2>1. QED
        BY <1>2, PageBounded
<1>4. \A k \in 1 .. Len(pts) : Bucket(pts[k].ts) \in 0 .. b
    BY <1>1, <1>2, <1>3
<1>5. QED
    BY <1>4

(* A candle is what its bucket says.                                       *)
Truthful(c) ==
    LET in == {k \in DOMAIN points : Bucket(points[k].ts) = c.timestamp}
        ps == {points[k].price : k \in in}
    IN  c = [timestamp |-> c.timestamp,
             open |-> points[Min(in)].price, close |-> points[Max(in)].price,
             high |-> Max(ps), low |-> Min(ps)]

(* Every candle says of its bucket what the points say, whatever points    *)
(* were capped, skipped or lost, and there is one for every bucket that    *)
(* has points, in order of time.                                           *)
THEOREM CandlesAreFaithful == HistorySpec => []CandlesFaithful
<1>1. ASSUME HistorySound PROVE CandlesFaithful
    <2>1. points \in Seq(Points)
        BY <1>1 DEF HistorySound, HistoryKept
    <2>. PICK len \in Nat : len = Len(points)
        BY <2>1
    <2>. PICK made : made = CandleOf(points)
        OBVIOUS
    <2>2. MadeOf(made, points, len)
        BY <2>1, CandlesMade
    <2>. PICK S : S = DOMAIN made
        OBVIOUS
    <2>3. S = {Bucket(points[k].ts) : k \in 1 .. len} /\ DOMAIN points = 1 .. len
        BY <2>1, <2>2 DEF MadeOf
    <2>4. PICK b \in Nat : S \subseteq 0 .. b
        BY <2>1, <2>3, BucketsBounded
    <2>. PICK times : times = InTime(S)
        OBVIOUS
    <2>5. PICK m : m = Cardinality(S)
        OBVIOUS
    <2>6. /\ times \in [1 .. m -> S]
          /\ \A i, j \in 1 .. m : i < j => times[i] < times[j]
          /\ \A u \in S : \E i \in 1 .. m : times[i] = u
        BY <2>4, <2>5, InTimeOrders
    <2>. PICK cs : cs = Candles(points)
        OBVIOUS
    <2>7. cs = [n \in DOMAIN times |-> made[times[n]]]
        BY Zenon DEF Candles
    <2>8. DOMAIN cs = 1 .. m /\ \A n \in 1 .. m : cs[n] = made[times[n]] /\ times[n] \in S
        BY <2>6, <2>7, ZenonT(60)
    <2>9. ASSUME NEW n \in DOMAIN cs
          PROVE  cs[n].timestamp = times[n] /\ Truthful(cs[n])
        <3>. PICK t : t = times[n]
            OBVIOUS
        <3>1. t \in S /\ cs[n] = made[t]
            BY <2>8, <2>9
        <3>2. IsCandle(made[t], points, len, t)
            BY <2>2, <3>1 DEF MadeOf
        <3>3. PICK i, j, h, l : Says(made[t], points, len, t, i, j, h, l)
            BY <3>2 DEF IsCandle
        <3>4. cs[n].timestamp = t
            BY <3>1, <3>3 DEF Says
        <3>. DEFINE in == {k \in DOMAIN points : Bucket(points[k].ts) = cs[n].timestamp}
                    ps == {points[k].price : k \in in}
        <3>5. in = InBucket(points, len, t)
            BY <2>3, <3>4 DEF InBucket
        <3>6. ps = PricesIn(points, len, t)
            BY <3>5 DEF PricesIn
        <3>7. in \subseteq Int
            BY <2>3
        <3>8. ps \subseteq Int
            BY <2>1, PointsTyped
        <3>. HIDE DEF in, ps
        <3>9. Min(in) = i /\ Max(in) = j
            BY <3>3, <3>5, <3>7, MinIs, MaxIs DEF Says
        <3>10. Max(ps) = h /\ Min(ps) = l
            BY <3>3, <3>6, <3>8, MinIs, MaxIs DEF Says
        <3>11. cs[n] = [timestamp |-> t, open |-> points[i].price, high |-> h, low |-> l,
                        close |-> points[j].price]
            BY <3>1, <3>3 DEF Says
        <3>12. cs[n] = [timestamp |-> cs[n].timestamp,
                        open |-> points[Min(in)].price, close |-> points[Max(in)].price,
                        high |-> Max(ps), low |-> Min(ps)]
            BY <3>4, <3>9, <3>10, <3>11
        <3>13. QED
            BY <3>4, <3>12, Zenon DEF in, ps, Truthful
    <2>a. \A n \in 1 .. m : cs[n].timestamp = times[n]
        BY <2>8, <2>9
    <2>10. \A i, j \in DOMAIN cs : i < j => cs[i].timestamp < cs[j].timestamp
        BY <2>6, <2>8, <2>a, SMTT(30)
    <2>11. {cs[n].timestamp : n \in DOMAIN cs} = {Bucket(points[n].ts) : n \in DOMAIN points}
        <3>1. DOMAIN cs = 1 .. m /\ \A n \in 1 .. m : cs[n].timestamp = times[n] /\ times[n] \in S
            BY <2>8, <2>a
        <3>2. \A u \in S : \E n \in DOMAIN cs : cs[n].timestamp = u
            <4>. SUFFICES ASSUME NEW u \in S PROVE \E n \in DOMAIN cs : cs[n].timestamp = u
                OBVIOUS
            <4>1. PICK i \in 1 .. m : times[i] = u
                BY <2>6
            <4>2. i \in DOMAIN cs /\ cs[i].timestamp = u
                BY <3>1, <4>1
            <4>3. QED
                BY <4>2
        <3>3. \A n \in DOMAIN cs : cs[n].timestamp \in S
            BY <3>1, Zenon
        <3>4. {cs[n].timestamp : n \in DOMAIN cs} = S
            BY <3>2, <3>3, ZenonT(60)
        <3>5. QED
            BY <2>3, <3>4
    <2>12. QED
        BY <2>9, <2>10, <2>11, Zenon DEF CandlesFaithful, Truthful
<1>2. HistorySound => CandlesFaithful
    BY <1>1
<1>3. QED
    BY <1>2, HistoryAlways, PTL

=============================================================================
