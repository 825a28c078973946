----------------------------- MODULE PagesProofs -----------------------------
(***************************************************************************)
(* Of what a trader sees and presses: that a hook which cancels shows only *)
(* what it was asked for last, that a visitor with a wallet is not sent    *)
(* away, that a form runs one handler at a time, and that the series a     *)
(* chart and a day's change are drawn from stay in order; for every number *)
(* of reads, versions, handlers, showings and prices.                      *)
(***************************************************************************)
EXTENDS Views, Forms, Visit, Chart, Tape, SequenceTheorems, WellFoundedInduction, TLAPS

(* What is left of a sequence without its i-th element.                    *)
LEMMA RemoveAtTyped ==
    ASSUME NEW S, NEW s \in Seq(S), NEW i \in 1 .. Len(s)
    PROVE  /\ RemoveAt(s, i) \in Seq(S)
           /\ Len(RemoveAt(s, i)) = Len(s) - 1
           /\ \A j \in 1 .. Len(s) - 1 :
                 RemoveAt(s, i)[j] = IF j < i THEN s[j] ELSE s[j + 1]
<1> DEFINE a == SubSeq(s, 1, i - 1)
           b == SubSeq(s, i + 1, Len(s))
<1>1. /\ a \in Seq(S) /\ Len(a) = i - 1
      /\ \A j \in 1 .. i - 1 : a[j] = s[j]
    BY SubSeqProperties
<1>2. b \in Seq(S) /\ Len(b) = Len(s) - i
    BY SubSeqProperties
<1>3. \A j \in 1 .. Len(s) - i : b[j] = s[j + i]
    BY SubSeqProperties
<1>4. RemoveAt(s, i) = a \o b
    BY DEF RemoveAt
<1>5. Len(s) \in Nat
    OBVIOUS
<1>. HIDE DEF a, b
<1>6. /\ a \o b \in Seq(S) /\ Len(a \o b) = Len(a) + Len(b)
      /\ \A j \in 1 .. Len(a) + Len(b) :
            (a \o b)[j] = IF j <= Len(a) THEN a[j] ELSE b[j - Len(a)]
    BY <1>1, <1>2, ConcatProperties
<1>7. RemoveAt(s, i) \in Seq(S) /\ Len(RemoveAt(s, i)) = Len(s) - 1
    BY <1>1, <1>2, <1>4, <1>5, <1>6
<1>8. ASSUME NEW j \in 1 .. Len(s) - 1
      PROVE  RemoveAt(s, i)[j] = IF j < i THEN s[j] ELSE s[j + 1]
    <2>1. CASE j < i
        <3>1. j \in 1 .. i - 1 /\ j \in 1 .. Len(a) + Len(b) /\ j <= Len(a)
            BY <1>1, <1>2, <1>5, <2>1
        <3>2. QED
            BY <1>1, <1>4, <1>6, <2>1, <3>1
    <2>2. CASE ~(j < i)
        <3>1. /\ j - Len(a) \in 1 .. Len(s) - i /\ j \in 1 .. Len(a) + Len(b)
              /\ ~(j <= Len(a)) /\ j - Len(a) + i = j + 1
            BY <1>1, <1>2, <1>5, <2>2
        <3>2. (a \o b)[j] = b[j - Len(a)]
            BY <1>6, <3>1
        <3>3. b[j - Len(a)] = s[j + 1]
            BY <1>3, <3>1
        <3>4. QED
            BY <1>4, <2>2, <3>2, <3>3
    <2>3. QED
        BY <2>1, <2>2
<1>9. QED
    BY <1>7, <1>8

-----------------------------------------------------------------------------
(* Hooks (Views).                                                          *)
\* A hook depends on the wallet, on the market or on neither.
DependsOnOne(h) == "of" \in DOMAIN h /\ h.of \in {Wallets, Markets, {Shared}}

LEMMA HooksDepend == \A h \in Hooks : DependsOnOne(h)
<1>1. DependsOnOne(UseMarginAccount)
    BY DEF DependsOnOne, UseMarginAccount
<1>2. /\ DependsOnOne(UseLpPosition)
      /\ DependsOnOne(UseWalletUsdc)
      /\ DependsOnOne(SolOfMenu)
      /\ DependsOnOne(UseWalletBalances)
      /\ DependsOnOne(UseProtocolState)
    BY <1>1 DEF DependsOnOne, UseLpPosition, UseWalletUsdc, SolOfMenu, UseWalletBalances, UseProtocolState
<1>3. /\ DependsOnOne(UseLiquidityPool)
      /\ DependsOnOne(VaultBalances)
      /\ DependsOnOne(BlendedApr)
      /\ DependsOnOne(UseMarketState)
      /\ DependsOnOne(UseProtocolStats)
    BY <1>2 DEF DependsOnOne, UseLiquidityPool, VaultBalances, BlendedApr, UseMarketState, UseProtocolStats
<1>4. /\ DependsOnOne(SyncPrices)
      /\ DependsOnOne(UseLeaderboard)
      /\ DependsOnOne(UsePrizeTable)
      /\ DependsOnOne(UseStats)
    BY <1>3 DEF DependsOnOne, SyncPrices, UseLeaderboard, UsePrizeTable, UseStats
<1>5. /\ DependsOnOne(UseHealthData)
      /\ DependsOnOne(UsePriceHistory)
      /\ DependsOnOne(CardInfo)
      /\ DependsOnOne(UseTradeHistory)
    BY <1>4 DEF DependsOnOne, UseHealthData, UsePriceHistory, CardInfo, UseTradeHistory
<1>6. /\ DependsOnOne(SpinEligibility)
      /\ DependsOnOne(FetchReferral)
    BY <1>5 DEF DependsOnOne, SpinEligibility, FetchReferral
<1>7. /\ DependsOnOne(SpinHistory)
      /\ DependsOnOne(SpinBanner)
    BY <1>6 DEF DependsOnOne, SpinHistory, SpinBanner
<1>8. DependsOnOne(SendBalances)
    BY <1>7 DEF DependsOnOne, SendBalances
<1>9. QED
    BY <1>1, <1>2, <1>3, <1>4, <1>5, <1>6, <1>7, <1>8, Zenon
       DEF Hooks

(* A read under way was made for the wallet or market that is selected.    *)
OwnRead == [piece: Nat, of: {subject} \cap Subjects, answer: [of: {subject, Nobody}, version: Nat]]

ViewsSound ==
    /\ hook \in Hooks
    /\ subject \in Subjects \cup {Nobody}
    /\ truth \in [Subjects -> Nat]
    /\ hook.cancels => reads \in Seq(OwnRead)

LEMMA SeenTyped ==
    ASSUME NEW s \in Subjects, truth \in [Subjects -> Nat]
    PROVE  Seen(s) \in [of: {s, Nobody}, version: Nat]
<1>1. truth[s] \in Nat
    OBVIOUS
<1>2. QED
    BY <1>1 DEF Seen, Nothing

LEMMA NewReadOwn ==
    ASSUME NEW s \in Subjects, truth \in [Subjects -> Nat]
    PROVE  NewRead(s) \in [piece: Nat, of: {s} \cap Subjects,
                           answer: [of: {s, Nobody}, version: Nat]]
BY SeenTyped DEF NewRead

LEMMA OfSubjects == \A h \in Hooks : h.of \subseteq Subjects
BY HooksDepend DEF DependsOnOne, Subjects

LEMMA ViewsStep == ViewsSound /\ [ViewsNext]_viewVars => ViewsSound'
<1>. SUFFICES ASSUME ViewsSound, [ViewsNext]_viewVars PROVE ViewsSound'
    OBVIOUS
<1>1. hook' = hook /\ hook' \in Hooks
    BY DEF ViewsSound, ViewsNext, viewVars, Select, Change, Poll, Refresh, Answer, Fail
<1>2. ASSUME NEW s \in Subjects \cup {Nobody}, Select(s) PROVE ViewsSound'
    <2>1. subject' = s /\ truth' = truth
        BY <1>2 DEF Select
    <2>2. ASSUME hook.cancels PROVE reads' \in Seq(OwnRead')
        <3>1. CASE s = Nobody
            BY <1>2, <2>2, <3>1 DEF Select, Pending
        <3>2. CASE s # Nobody
            <4>1. s \in Subjects
                BY <3>2
            <4>2. NewRead(s) \in OwnRead'
                BY <2>1, <4>1, NewReadOwn DEF ViewsSound, OwnRead
            <4>3. reads' = Append(<< >>, NewRead(s))
                BY <1>2, <2>2, <3>2 DEF Select, Pending
            <4>4. QED
                BY <4>2, <4>3
        <3>3. QED
            BY <3>1, <3>2
    <2>3. QED
        BY <1>1, <2>1, <2>2 DEF ViewsSound
<1>3. ASSUME NEW s \in hook.of, Change(s) PROVE ViewsSound'
    <2>1. s \in Subjects
        BY OfSubjects DEF ViewsSound
    <2>2. truth' \in [Subjects -> Nat]
        BY <1>3, <2>1 DEF Change, ViewsSound
    <2>3. QED
        BY <1>1, <1>3, <2>2 DEF Change, ViewsSound, OwnRead
<1>4. CASE Poll \/ Refresh
    <2>1. UNCHANGED <<subject, truth>> /\ subject # Nobody
        BY <1>4 DEF Poll, Refresh
    <2>2. ASSUME hook.cancels PROVE reads' \in Seq(OwnRead')
        <3>1. NewRead(subject) \in OwnRead /\ OwnRead' = OwnRead /\ reads \in Seq(OwnRead)
            BY <2>1, <2>2, NewReadOwn DEF ViewsSound, OwnRead
        <3>2. \/ reads' = Append(reads, NewRead(subject))
              \/ reads' = Append(<< >>, NewRead(subject))
            BY <1>4, <2>2 DEF Poll, Refresh, Pending
        <3>3. Append(reads, NewRead(subject)) \in Seq(OwnRead)
            BY <3>1
        <3>4. Append(<< >>, NewRead(subject)) \in Seq(OwnRead)
            BY <3>1
        <3>5. QED
            BY <3>1, <3>2, <3>3, <3>4
    <2>3. QED
        BY <1>1, <2>1, <2>2 DEF ViewsSound
<1>5. ASSUME NEW i \in 1 .. Len(reads), Answer(i) \/ Fail(i) PROVE ViewsSound'
    <2>1. UNCHANGED <<subject, truth>>
        BY <1>5 DEF Answer, Fail
    <2>2. ASSUME hook.cancels PROVE reads' \in Seq(OwnRead')
        <3>0. OwnRead' = OwnRead
            BY <2>1 DEF OwnRead
        <3>1. OwnRead' = OwnRead /\ reads \in Seq(OwnRead) /\ reads[i] \in OwnRead
            BY <2>2, <3>0 DEF ViewsSound
        <3>2. Without(i) \in Seq(OwnRead)
            BY <3>1, RemoveAtTyped DEF Without
        <3>3. CASE reads' = Without(i)
            BY <3>1, <3>2, <3>3
        <3>4. CASE /\ Answer(i)
                   /\ reads' = [reads EXCEPT ![i] =
                         [piece |-> reads[i].piece + 1, of |-> reads[i].of,
                          answer |-> Seen(reads[i].of)]]
            <4> DEFINE next == [piece |-> reads[i].piece + 1, of |-> reads[i].of,
                                answer |-> Seen(reads[i].of)]
            <4>1. reads[i].piece \in Nat /\ reads[i].of = subject /\ subject \in Subjects
                BY <3>1 DEF OwnRead
            <4>2. Seen(subject) \in [of: {subject, Nobody}, version: Nat]
                BY <4>1, SeenTyped DEF ViewsSound
            <4>3. next \in OwnRead
                BY <4>1, <4>2 DEF OwnRead
            <4>. HIDE DEF next
            <4>4. ASSUME NEW another \in OwnRead
                  PROVE  [reads EXCEPT ![i] = another] \in Seq(OwnRead)
                BY <3>1, ExceptSeq, Zenon
            <4>5. reads' = [reads EXCEPT ![i] = next]
                BY <3>4 DEF next
            <4>6. QED
                BY <3>0, <4>3, <4>4, <4>5, Zenon
        <3>5. QED
            BY <1>5, <3>3, <3>4 DEF Answer, Fail
    <2>3. QED
        BY <1>1, <2>1, <2>2 DEF ViewsSound
<1>6. CASE UNCHANGED viewVars
    BY <1>6 DEF viewVars, ViewsSound, OwnRead
<1>7. QED
    BY <1>2, <1>3, <1>4, <1>5, <1>6 DEF ViewsNext

LEMMA ViewsStart == ViewsInit => ViewsSound
<1>. SUFFICES ASSUME ViewsInit PROVE ViewsSound
    OBVIOUS
<1>1. hook \in Hooks /\ hook.of \in {Wallets, Markets, {Shared}}
    BY HooksDepend DEF ViewsInit, DependsOnOne
<1>2. subject \in Subjects \cup {Nobody} /\ (subject # Nobody => subject \in Subjects)
    BY <1>1, ViewsAssumption DEF ViewsInit, Subjects
<1>3. truth \in [Subjects -> Nat]
    BY ViewsAssumption DEF ViewsInit
<1>4. reads \in Seq(OwnRead)
    <2>1. CASE subject = Nobody
        BY <2>1 DEF ViewsInit
    <2>2. CASE subject # Nobody
        <3>1. NewRead(subject) \in OwnRead
            BY <1>2, <1>3, <2>2, NewReadOwn DEF OwnRead
        <3>2. reads = <<NewRead(subject)>>
            BY <2>2 DEF ViewsInit
        <3>3. QED
            BY <3>1, <3>2
    <2>3. QED
        BY <2>1, <2>2
<1>5. QED
    BY <1>1, <1>2, <1>3, <1>4 DEF ViewsSound

LEMMA ViewsAlways == ViewsSpec => []ViewsSound
BY ViewsStart, ViewsStep, PTL DEF ViewsSpec

OwnStep ==
    hook.cancels => \A p \in 1..hook.pieces :
        shown'[p].of \in {shown[p].of, subject', Nobody}

(* What replaces the data a hook shows is about what is selected now, or   *)
(* about nothing, for every hook that has the `cancelled` flag.            *)
THEOREM OwnAnswersOnly == ViewsSpec => OnlyOwnAnswers
<1>1. ViewsSound /\ [ViewsNext]_viewVars => [OwnStep]_viewVars
    <2>. SUFFICES ASSUME ViewsSound, ViewsNext, hook.cancels, NEW p \in 1 .. hook.pieces
                  PROVE  shown'[p].of \in {shown[p].of, subject', Nobody}
        BY DEF OwnStep
    <2>1. CASE shown' = shown
        BY <2>1
    <2>2. CASE shown' = Blank
        BY <2>2 DEF Blank, Nothing
    <2>3. ASSUME NEW i \in 1 .. Len(reads), Answer(i)
          PROVE  shown'[p].of \in {shown[p].of, subject', Nobody}
        <3>0. reads[i] \in OwnRead
            BY DEF ViewsSound
        <3>1. reads[i].answer.of \in {subject, Nobody}
            BY <3>0 DEF OwnRead
        <3>2. /\ shown' = [shown EXCEPT ![reads[i].piece] = reads[i].answer]
              /\ subject' = subject
            BY <2>3 DEF Answer
        <3>3. shown'[p] \in {shown[p], reads[i].answer}
            BY <3>2
        <3>4. QED
            BY <3>1, <3>2, <3>3
    <2>4. QED
        BY <2>1, <2>2, <2>3 DEF ViewsNext, Select, Change, Poll, Refresh, Fail
<1>2. QED
    BY <1>1, ViewsAlways, PTL DEF ViewsSpec, OnlyOwnAnswers, OwnStep

-----------------------------------------------------------------------------
(* The way in (Visit).  A check that knows nobody has seen no wallet, and  *)
(* the wallet that comes while it is under way starts another.             *)
Unknown == check = "nobody" => wallet = "none"

LEMMA UnknownStep == Unknown /\ [VisitNext]_visitVars => Unknown'
<1>. SUFFICES ASSUME Unknown, [VisitNext]_visitVars PROVE Unknown'
    OBVIOUS
<1>1. ASSUME NEW r, NEW keys, NEW ext, Loaded(r, keys, ext) PROVE Unknown'
    BY <1>1 DEF Loaded, Unknown
<1>2. ASSUME NEW r, Follows(r) PROVE Unknown'
    BY <1>2 DEF Follows, To, GuardOn, KnownLocally, Unknown
<1>3. CASE Connects
    BY <1>3 DEF Connects, CheckedAgain, KnownLocally, Unknown
<1>4. CASE Drops
    BY <1>4 DEF Drops, Unknown
<1>5. CASE GateAnswers
    BY <1>5 DEF GateAnswers, LetIn, SentAway, Unknown
<1>6. CASE UNCHANGED <<check, wallet>>
    BY <1>6 DEF Unknown
<1>7. QED
    BY <1>1, <1>2, <1>3, <1>4, <1>5, <1>6 DEF VisitNext, visitVars, guard, Visits,
       ConnectFails, HandleStartTrading, HandleSelectWallet, Enters, LogsIn, SavesAccount,
       Signs, HandleDisconnect, Brings, Dismisses

AwayStep == gate' = "out" /\ gate # "out" => wallet = "none"

(* Whoever is connected is not sent away, at whatever moment the server    *)
(* answers.                                                                *)
THEOREM NobodyTurnedAway == VisitSpec => NeverTurnedAway
<1>1. VisitInit => Unknown
    BY DEF VisitInit, Unknown
<1>2. Unknown /\ [VisitNext]_visitVars => [AwayStep]_visitVars
    <2>. SUFFICES ASSUME Unknown, VisitNext, gate' = "out", gate # "out"
                  PROVE  wallet = "none"
        BY DEF AwayStep
    <2>1. CASE GateAnswers
        BY <2>1 DEF GateAnswers, LetIn, SentAway, Unknown
    <2>2. QED
        BY <2>1 DEF VisitNext, guard, Visits, Follows, To, GuardOn, Loaded, Connects,
           ConnectFails, Drops, HandleStartTrading, HandleSelectWallet, Enters, LogsIn,
           SavesAccount, Signs, HandleDisconnect, Brings, Dismisses
<1>3. QED
    BY <1>1, <1>2, UnknownStep, PTL DEF VisitSpec, NeverTurnedAway, AwayStep

-----------------------------------------------------------------------------
(* Forms.  In a component every handler has a name of its own, and the     *)
(* button of a handler that takes a loading state heeds that state.        *)
Named(h, name, state) ==
    /\ DOMAIN h = {"name", "from", "field", "offer", "cut", "takes", "state", "heeds",
                   "closes", "stages"}
    /\ h.name = name
    /\ h.state = state
    /\ state = "none" \/ state \in h.heeds

LEMMA HandlersNamed ==
    /\ Named(OpenPosition, "open", "loading")
    /\ Named(DepositCollateral, "deposit", "loading")
    /\ Named(WithdrawCollateral, "withdraw", "loading")
    /\ Named(RowClose, "close", "loading")
    /\ Named(RowSetSlTp, "stops", "loading")
    /\ Named(RowMargin, "margin", "loading")
    /\ Named(CardClose, "close", "loading")
    /\ Named(CardSetSlTp, "stops", "loading")
    /\ Named(CardMargin, "margin", "loading")
    /\ Named(CardRemoveMargin, "remove", "loading")
    /\ Named(PoolDeposit, "deposit", "loading")
    /\ Named(PoolWithdraw, "withdraw", "loading")
    /\ Named(ClaimFees, "claim", "loading")
    /\ Named(Register, "register", "loading")
    /\ Named(ClaimReferral, "claim", "loading")
    /\ Named(Send, "send", "loading")
    /\ Named(Spin, "spin", "loading")
    /\ Named(PanelClose, "close", "loading")
    /\ Named(PanelSetSlTp, "stops", "loading")
    /\ Named(PanelAddMargin, "add", "loading")
    /\ Named(PanelRemoveMargin, "remove", "loading")
    /\ Named(MintTestUsdc, "mint", "minting")
    /\ Named(PanelDeposit, "deposit", "loading")
    /\ Named(PanelWithdraw, "withdraw", "loading")
    /\ Named(PanelOpen, "open", "loading")
    /\ Named(LandingLogin, "login", "loading")
    /\ Named(LandingSignup, "signup", "loading")
    /\ Named(Guest, "guest", "none")
    /\ Named(ModalLogin, "login", "loading")
    /\ Named(ModalSignup, "signup", "loading")
    /\ Named(RefLogin, "login", "loading")
    /\ Named(RefSignup, "signup", "loading")
    /\ Named(RefGuest, "guest", "none")
    /\ Named(RequestReset, "request", "loading")
    /\ Named(ResetWithToken, "reset", "loading")
<1>1. Named(OpenPosition, "open", "loading")
    BY DEF Named, OpenPosition
<1>2. /\ Named(DepositCollateral, "deposit", "loading")
      /\ Named(WithdrawCollateral, "withdraw", "loading")
      /\ Named(RowClose, "close", "loading")
      /\ Named(PoolWithdraw, "withdraw", "loading")
      /\ Named(PanelOpen, "open", "loading")
      /\ Named(LandingLogin, "login", "loading")
    BY <1>1 DEF Named, DepositCollateral, WithdrawCollateral, RowClose, PoolWithdraw,
       PanelOpen, LandingLogin, ReferrerLookedUp
<1>3. /\ Named(PoolDeposit, "deposit", "loading")
      /\ Named(PanelDeposit, "deposit", "loading")
    BY <1>2 DEF Named, PoolDeposit, PanelDeposit
<1>4. Named(PanelWithdraw, "withdraw", "loading")
    BY <1>2 DEF Named, PanelWithdraw
<1>5. /\ Named(RowSetSlTp, "stops", "loading")
      /\ Named(RowMargin, "margin", "loading")
      /\ Named(CardClose, "close", "loading")
      /\ Named(ClaimFees, "claim", "loading")
      /\ Named(Register, "register", "loading")
      /\ Named(PanelClose, "close", "loading")
    <2>0. Named(RowSetSlTp, "stops", "loading")
        BY <1>2 DEF Named, RowSetSlTp
    <2>1. Named(RowMargin, "margin", "loading")
        BY <1>1 DEF Named, RowMargin
    <2>2. Named(CardClose, "close", "loading") /\ Named(ClaimFees, "claim", "loading")
        BY <1>2 DEF Named, CardClose, ClaimFees
    <2>3. Named(Register, "register", "loading") /\ Named(PanelClose, "close", "loading")
        BY <1>2 DEF Named, Register, PanelClose, Confirmed
    <2>4. QED
        BY <2>0, <2>1, <2>2, <2>3, Zenon
<1>6. /\ Named(LandingSignup, "signup", "loading")
      /\ Named(ModalLogin, "login", "loading")
      /\ Named(RefLogin, "login", "loading")
      /\ Named(RequestReset, "request", "loading")
    BY <1>2 DEF Named, LandingSignup, ModalLogin, RefLogin, RequestReset
<1>7. Named(Send, "send", "loading")
    BY <1>3 DEF Named, Send
<1>8. /\ Named(CardSetSlTp, "stops", "loading")
      /\ Named(PanelSetSlTp, "stops", "loading")
      /\ Named(MintTestUsdc, "mint", "minting")
      /\ Named(Guest, "guest", "none")
    BY <1>5 DEF Named, CardSetSlTp, PanelSetSlTp, MintTestUsdc, Guest, StopInputs
<1>9. /\ Named(CardMargin, "margin", "loading")
      /\ Named(CardRemoveMargin, "remove", "loading")
      /\ Named(PanelAddMargin, "add", "loading")
    BY <1>5 DEF Named, CardMargin, CardRemoveMargin, PanelAddMargin, MarginInput
<1>10. Named(ClaimReferral, "claim", "loading")
    BY <1>5 DEF Named, ClaimReferral
<1>11. /\ Named(ModalSignup, "signup", "loading")
      /\ Named(RefSignup, "signup", "loading")
      /\ Named(ResetWithToken, "reset", "loading")
    BY <1>6 DEF Named, ModalSignup, RefSignup, ResetWithToken
<1>12. Named(RefGuest, "guest", "none")
    BY <1>8 DEF Named, RefGuest
<1>13. Named(PanelRemoveMargin, "remove", "loading")
    BY <1>9 DEF Named, PanelRemoveMargin, MarginInput
<1>14. Named(Spin, "spin", "loading")
    BY <1>10 DEF Named, Spin
<1>15. QED
    BY <1>1, <1>2, <1>3, <1>4, <1>5, <1>6, <1>7, <1>8, <1>9, <1>10, <1>11, <1>12,
       <1>13, <1>14, Zenon

HandlerSound(h) ==
    /\ h.name # "none"
    /\ h.state \in States \cup {"none"}
    /\ h.state = "none" \/ h.state \in h.heeds

ComponentSound(c) ==
    /\ \A h \in c.handlers : HandlerSound(h)
    /\ \A g, h \in c.handlers : g.name = h.name => g = h

LEMMA OfFew ==
    ASSUME NEW H, \A h \in H : HandlerSound(h),
           \A g, h \in H : g.name = h.name => g = h, NEW of, NEW named
    PROVE  /\ ComponentSound(Shows(of, H))
           /\ ComponentSound([Shows(of, H) EXCEPT !.named = named])
BY DEF Shows, ComponentSound

LEMMA ComponentsSound == \A c \in Components : ComponentSound(c)
<1>. USE DEF States
<1>1. ComponentSound(OrderEntry)
    <2>1. \A h \in {OpenPosition, DepositCollateral, WithdrawCollateral} : HandlerSound(h)
        BY HandlersNamed DEF Named, HandlerSound
    <2>2. \A g, h \in {OpenPosition, DepositCollateral, WithdrawCollateral} : g.name = h.name => g = h
        BY HandlersNamed DEF Named
    <2>3. QED
        BY <2>1, <2>2, OfFew, Zenon DEF OrderEntry
<1>2. ComponentSound(PositionRow)
    <2>1. \A h \in {RowClose, RowSetSlTp, RowMargin} : HandlerSound(h)
        BY HandlersNamed DEF Named, HandlerSound
    <2>2. \A g, h \in {RowClose, RowSetSlTp, RowMargin} : g.name = h.name => g = h
        BY HandlersNamed DEF Named
    <2>3. QED
        BY <2>1, <2>2, OfFew, Zenon DEF PositionRow
<1>3. ComponentSound(PositionCard)
    <2>1. \A h \in {CardClose, CardSetSlTp, CardMargin, CardRemoveMargin} : HandlerSound(h)
        BY HandlersNamed DEF Named, HandlerSound
    <2>2. \A g, h \in {CardClose, CardSetSlTp, CardMargin, CardRemoveMargin} : g.name = h.name => g = h
        BY HandlersNamed DEF Named
    <2>3. QED
        BY <2>1, <2>2, OfFew, Zenon DEF PositionCard
<1>4. ComponentSound(PoolContent)
    <2>1. \A h \in {PoolDeposit, PoolWithdraw, ClaimFees} : HandlerSound(h)
        BY HandlersNamed DEF Named, HandlerSound
    <2>2. \A g, h \in {PoolDeposit, PoolWithdraw, ClaimFees} : g.name = h.name => g = h
        BY HandlersNamed DEF Named
    <2>3. QED
        BY <2>1, <2>2, OfFew, Zenon DEF PoolContent
<1>5. ComponentSound(RegisterForm)
    <2>1. \A h \in {Register} : HandlerSound(h)
        BY HandlersNamed DEF Named, HandlerSound
    <2>2. \A g, h \in {Register} : g.name = h.name => g = h
        BY HandlersNamed DEF Named
    <2>3. QED
        BY <2>1, <2>2, OfFew, Zenon DEF RegisterForm
<1>6. ComponentSound(ClaimForm)
    <2>1. \A h \in {ClaimReferral} : HandlerSound(h)
        BY HandlersNamed DEF Named, HandlerSound
    <2>2. \A g, h \in {ClaimReferral} : g.name = h.name => g = h
        BY HandlersNamed DEF Named
    <2>3. QED
        BY <2>1, <2>2, OfFew, Zenon DEF ClaimForm
<1>7. ComponentSound(SendModal)
    <2>1. \A h \in {Send} : HandlerSound(h)
        BY HandlersNamed DEF Named, HandlerSound
    <2>2. \A g, h \in {Send} : g.name = h.name => g = h
        BY HandlersNamed DEF Named
    <2>3. QED
        BY <2>1, <2>2, OfFew, Zenon DEF SendModal
<1>8. ComponentSound(MysteryBox)
    <2>1. \A h \in {Spin} : HandlerSound(h)
        BY HandlersNamed DEF Named, HandlerSound
    <2>2. \A g, h \in {Spin} : g.name = h.name => g = h
        BY HandlersNamed DEF Named
    <2>3. QED
        BY <2>1, <2>2, OfFew, Zenon DEF MysteryBox
<1>9. ComponentSound(PositionPanel)
    <2>1. \A h \in {PanelClose, PanelSetSlTp, PanelAddMargin, PanelRemoveMargin} : HandlerSound(h)
        BY HandlersNamed DEF Named, HandlerSound
    <2>2. \A g, h \in {PanelClose, PanelSetSlTp, PanelAddMargin, PanelRemoveMargin} : g.name = h.name => g = h
        BY HandlersNamed DEF Named
    <2>3. QED
        BY <2>1, <2>2, OfFew, Zenon DEF PositionPanel
<1>10. ComponentSound(CollateralPanel)
    <2>1. \A h \in {MintTestUsdc, PanelDeposit, PanelWithdraw} : HandlerSound(h)
        BY HandlersNamed DEF Named, HandlerSound
    <2>2. \A g, h \in {MintTestUsdc, PanelDeposit, PanelWithdraw} : g.name = h.name => g = h
        BY HandlersNamed DEF Named
    <2>3. QED
        BY <2>1, <2>2, OfFew, Zenon DEF CollateralPanel
<1>11. ComponentSound(TradingPanel)
    <2>1. \A h \in {PanelOpen} : HandlerSound(h)
        BY HandlersNamed DEF Named, HandlerSound
    <2>2. \A g, h \in {PanelOpen} : g.name = h.name => g = h
        BY HandlersNamed DEF Named
    <2>3. QED
        BY <2>1, <2>2, OfFew, Zenon DEF TradingPanel
<1>12. ComponentSound(LandingAuth)
    <2>1. \A h \in {LandingLogin, LandingSignup, Guest} : HandlerSound(h)
        BY HandlersNamed DEF Named, HandlerSound
    <2>2. \A g, h \in {LandingLogin, LandingSignup, Guest} : g.name = h.name => g = h
        BY HandlersNamed DEF Named
    <2>3. QED
        BY <2>1, <2>2, OfFew, Zenon DEF LandingAuth
<1>13. ComponentSound(AuthModal)
    <2>1. \A h \in {ModalLogin, ModalSignup} : HandlerSound(h)
        BY HandlersNamed DEF Named, HandlerSound
    <2>2. \A g, h \in {ModalLogin, ModalSignup} : g.name = h.name => g = h
        BY HandlersNamed DEF Named
    <2>3. QED
        BY <2>1, <2>2, OfFew, Zenon DEF AuthModal
<1>14. ComponentSound(RefPage)
    <2>1. \A h \in {RefLogin, RefSignup, RefGuest} : HandlerSound(h)
        BY HandlersNamed DEF Named, HandlerSound
    <2>2. \A g, h \in {RefLogin, RefSignup, RefGuest} : g.name = h.name => g = h
        BY HandlersNamed DEF Named
    <2>3. QED
        BY <2>1, <2>2, OfFew, Zenon DEF RefPage
<1>15. ComponentSound(ForgotForm)
    <2>1. \A h \in {RequestReset} : HandlerSound(h)
        BY HandlersNamed DEF Named, HandlerSound
    <2>2. \A g, h \in {RequestReset} : g.name = h.name => g = h
        BY HandlersNamed DEF Named
    <2>3. QED
        BY <2>1, <2>2, OfFew, Zenon DEF ForgotForm
<1>16. ComponentSound(NewPassword)
    <2>1. \A h \in {ResetWithToken} : HandlerSound(h)
        BY HandlersNamed DEF Named, HandlerSound
    <2>2. \A g, h \in {ResetWithToken} : g.name = h.name => g = h
        BY HandlersNamed DEF Named
    <2>3. QED
        BY <2>1, <2>2, OfFew, Zenon DEF NewPassword
<1>17. QED
    BY <1>1, <1>2, <1>3, <1>4, <1>5, <1>6, <1>7, <1>8, <1>9, <1>10, <1>11, <1>12,
       <1>13, <1>14, <1>15, <1>16, Zenon
       DEF Components

(* A handler under way has the name of one of the component's handlers and *)
(* the number of a showing there has been.                                 *)
Run ==
    [name: {h.name : h \in component.handlers}, stage: Nat, amount: Nat, mount: Nat]

FormsTyped ==
    /\ component \in Components
    /\ mounts \in Nat /\ mount \in 0 .. mounts
    /\ DOMAIN lock = States
    /\ asked \in [Fields(component) -> Nat]
    /\ held \in [Purses(component) -> Nat]
    /\ displayed \in [Purses(component) -> Nat]
    /\ runs \in Seq(Run)
    /\ \A i \in DOMAIN runs : runs[i].mount <= mounts

(* A handler that takes a loading state still has it taken, by itself or   *)
(* by whoever pressed when it was free; then only one can have taken it.   *)
Busy(i) ==
    /\ mount # 0 /\ runs[i].mount = mount
    /\ Handler(runs[i]).state # "none"

StateIsTaken ==
    ~component.named =>
        \A i \in DOMAIN runs : Busy(i) => lock[Handler(runs[i]).state] # "none"

FormsSound == FormsTyped /\ StateIsTaken /\ OneAtATime

LEMMA HandlerIs ==
    ASSUME component \in Components, NEW r, NEW h \in component.handlers, r.name = h.name
    PROVE  Handler(r) = h
<1>1. \A g \in component.handlers : g.name = r.name => g = h
    BY ComponentsSound DEF ComponentSound
<1>2. QED
    BY <1>1 DEF Handler

LEMMA HandlerOf ==
    ASSUME FormsTyped, NEW i \in DOMAIN runs
    PROVE  /\ Handler(runs[i]) \in component.handlers
           /\ Handler(runs[i]).name = runs[i].name
           /\ HandlerSound(Handler(runs[i]))
<1>1. PICK h \in component.handlers : h.name = runs[i].name
    <2>1. runs[i] \in Run
        BY DEF FormsTyped
    <2>2. QED
        BY <2>1 DEF Run
<1>2. Handler(runs[i]) = h
    BY <1>1, HandlerIs DEF FormsTyped
<1>3. QED
    BY <1>1, <1>2, ComponentsSound DEF FormsTyped, ComponentSound

-----------------------------------------------------------------------------
(* One press.                                                              *)
LEMMA SameRuns == component' = component => Run' = Run
BY DEF Run

LEMMA PressSound ==
    ASSUME FormsSound, NEW h \in component.handlers, Press(h)
    PROVE  FormsSound'
<1> DEFINE new == [name |-> h.name, stage |-> 1, amount |-> Amount(h), mount |-> mount]
<1>0. PICK n \in Nat : n = Len(runs) + 1
    BY DEF FormsSound, FormsTyped
<1>1. /\ UNCHANGED <<component, mount, mounts, asked, held, displayed>>
      /\ mount # 0 /\ mount \in Nat /\ ~Disabled(h)
      /\ lock' = Locked(h, h.name) /\ runs' = Append(runs, new)
    <2>1. mount # 0 /\ mount \in Nat
        BY DEF Press, FormsSound, FormsTyped
    <2>2. QED
        BY <2>1, Zenon DEF Press, Offered
<1>2. HandlerSound(h)
    BY ComponentsSound DEF FormsSound, FormsTyped, ComponentSound
<1>3. new \in Run
    <2>1. h.field \in Fields(component) /\ h.from \in Purses(component)
        BY DEF Fields, Purses
    <2>2. asked[h.field] \in Nat /\ displayed[h.from] \in Nat
        BY <2>1 DEF FormsSound, FormsTyped
    <2>3. Amount(h) \in Nat
        BY <2>2 DEF Amount, Lesser
    <2>4. QED
        BY <1>1, <1>2, <2>3 DEF Run, HandlerSound
<1>4. new.name = h.name /\ new.mount = mount
    OBVIOUS
<1>. HIDE DEF new
<1>5. /\ runs' \in Seq(Run) /\ runs'[n] = new /\ DOMAIN runs' = 1 .. n
      /\ DOMAIN runs = 1 .. n - 1 /\ n \in Nat \ {0}
      /\ \A i \in DOMAIN runs : runs'[i] = runs[i]
    BY <1>0, <1>1, <1>3, AppendProperties DEF FormsSound, FormsTyped
<1>6. \A i \in DOMAIN runs' : i \in DOMAIN runs \/ i = n
    BY <1>5
<1>7. FormsTyped'
    <2>1. DOMAIN lock' = States
        BY <1>1 DEF FormsSound, FormsTyped, Locked
    <2>2. ASSUME NEW i \in DOMAIN runs'
          PROVE  runs'[i].mount <= mounts'
        <3>1. CASE i \in DOMAIN runs
            BY <1>1, <1>5, <3>1 DEF FormsSound, FormsTyped
        <3>2. CASE i = n
            BY <1>1, <1>4, <1>5, <3>2 DEF FormsSound, FormsTyped
        <3>3. QED
            BY <1>6, <3>1, <3>2
    <2>3. QED
        BY <1>1, <1>5, <2>1, <2>2, SameRuns DEF FormsSound, FormsTyped, Fields, Purses
<1>8. /\ \A i \in DOMAIN runs : Handler(runs[i])' = Handler(runs[i])
      /\ Handler(runs[n])' = h
    <2>1. Handler(new) = h
        BY <1>4, HandlerIs DEF FormsSound, FormsTyped
    <2>2. ASSUME NEW i \in DOMAIN runs PROVE Handler(runs[i])' = Handler(runs[i])
        <3>1. component' = component /\ runs'[i] = runs[i]
            BY <1>1, <1>5
        <3>2. QED
            BY <3>1, Zenon DEF Handler
    <2>3. Handler(runs[n])' = Handler(new)
        <3>1. component' = component /\ runs'[n] = new
            BY <1>1, <1>5
        <3>2. QED
            BY <3>1, Zenon DEF Handler
    <2>4. QED
        BY <2>1, <2>2, <2>3, Zenon
<1>9. ASSUME ~component.named
      PROVE  /\ h.state # "none" => lock[h.state] = "none"
             /\ \A s \in States : lock[s] # "none" => lock'[s] # "none"
             /\ h.state # "none" => lock'[h.state] # "none"
    <2>1. h.state # "none" => lock[h.state] = "none"
        BY <1>1, <1>2, <1>9 DEF Disabled, HandlerSound
    <2>2. \A s \in States : lock'[s] \in {lock[s], h.name}
        BY <1>1 DEF FormsSound, FormsTyped, Locked
    <2>3. h.state # "none" => lock'[h.state] = h.name
        BY <1>1, <1>2 DEF FormsSound, FormsTyped, Locked, HandlerSound
    <2>4. QED
        BY <1>2, <2>1, <2>2, <2>3 DEF HandlerSound
<1>10. StateIsTaken'
    <2>. SUFFICES ASSUME ~component.named, NEW i \in DOMAIN runs', Busy(i)'
                  PROVE  lock'[Handler(runs[i])'.state] # "none"
        BY <1>1 DEF StateIsTaken
    <2>1. CASE i \in DOMAIN runs
        <3>1. Busy(i) /\ Handler(runs[i])' = Handler(runs[i])
            BY <1>1, <1>5, <1>8, <2>1 DEF Busy
        <3>2. lock[Handler(runs[i]).state] # "none" /\ Handler(runs[i]).state \in States
            BY <2>1, <3>1, HandlerOf DEF FormsSound, StateIsTaken, HandlerSound, Busy
        <3>3. lock'[Handler(runs[i]).state] # "none"
            BY <1>9, <3>2
        <3>4. QED
            BY <3>1, <3>3, Zenon
    <2>2. CASE i = n
        <3>1. Handler(runs[i])' = h /\ Handler(runs[i])'.state # "none"
            BY <1>8, <2>2, Zenon DEF Busy
        <3>2. QED
            BY <1>9, <3>1, Zenon
    <2>3. QED
        BY <1>6, <2>1, <2>2
<1>11. ASSUME ~component.named, NEW i \in DOMAIN runs, Busy(i), h.state # "none"
       PROVE  Handler(runs[i]).state # h.state
    BY <1>9, <1>11 DEF FormsSound, StateIsTaken
<1>12. OneAtATime'
    <2>. SUFFICES ASSUME ~component.named, NEW i \in DOMAIN runs', NEW j \in DOMAIN runs',
                         i # j, mount # 0, runs'[i].mount = mount, runs'[j].mount = mount,
                         Handler(runs[i])'.state # "none"
                  PROVE  Handler(runs[i])'.state # Handler(runs[j])'.state
        BY <1>1 DEF OneAtATime
    <2>1. CASE i \in DOMAIN runs /\ j \in DOMAIN runs
        <3>1. runs[i].mount = mount /\ runs[j].mount = mount
            BY <1>5, <2>1
        <3>2. Handler(runs[i])' = Handler(runs[i]) /\ Handler(runs[j])' = Handler(runs[j])
            BY <1>8, <2>1, Zenon
        <3>3. Handler(runs[i]).state # "none"
            BY <3>2, Zenon
        <3>4. Handler(runs[i]).state # Handler(runs[j]).state
            BY <2>1, <3>1, <3>3 DEF FormsSound, OneAtATime
        <3>5. QED
            BY <3>2, <3>4, Zenon
    <2>2. CASE i = n
        <3>0. Handler(runs[i])' = h
            BY <1>8, <2>2, Zenon
        <3>1. j \in DOMAIN runs /\ h.state # "none"
            <4>1. j \in DOMAIN runs
                BY <1>6, <2>2
            <4>2. QED
                BY <3>0, <4>1, Zenon
        <3>2. runs[j].mount = mount
            BY <1>5, <3>1
        <3>3. Handler(runs[j]).state # h.state
            BY <1>1, <1>11, <3>1, <3>2 DEF Busy
        <3>4. Handler(runs[j])' = Handler(runs[j])
            BY <1>8, <3>1, Zenon
        <3>5. QED
            BY <3>0, <3>3, <3>4, Zenon
    <2>3. CASE j = n
        <3>1. i \in DOMAIN runs
            BY <1>6, <2>3
        <3>2. /\ runs[i].mount = mount /\ Handler(runs[i]).state # "none"
              /\ Handler(runs[i])' = Handler(runs[i]) /\ Handler(runs[j])' = h
            <4>1. runs[i].mount = mount
                BY <1>5, <3>1
            <4>2. Handler(runs[i])' = Handler(runs[i]) /\ Handler(runs[j])' = h
                BY <1>8, <2>3, <3>1, Zenon
            <4>3. QED
                BY <4>1, <4>2, Zenon
        <3>3. h.state # "none" => Handler(runs[i]).state # h.state
            BY <1>1, <1>11, <3>1, <3>2 DEF Busy
        <3>4. QED
            BY <3>2, <3>3, Zenon
    <2>4. QED
        BY <1>6, <2>1, <2>2, <2>3
<1>13. QED
    BY <1>7, <1>10, <1>12 DEF FormsSound

-----------------------------------------------------------------------------
(* One stage of a handler, or its end.                                     *)
Kept == UNCHANGED <<component, mounts>>

PursesTyped ==
    /\ held \in [Purses(component) -> Nat]
    /\ displayed \in [Purses(component) -> Nat]

(* Each handler that is left was there before, and no two are the same.    *)
LEMMA EndSound ==
    ASSUME FormsSound, NEW i \in DOMAIN runs, NEW success \in BOOLEAN, Ends(i, success),
           Kept, PursesTyped'
    PROVE  FormsSound'
<1> DEFINE h == Handler(runs[i])
           was(j) == IF j < i THEN j ELSE j + 1
<1>1. /\ runs \in Seq(Run) /\ Len(runs) \in Nat /\ DOMAIN runs = 1 .. Len(runs)
      /\ i \in 1 .. Len(runs)
    BY DEF FormsSound, FormsTyped
<1>2. /\ runs' \in Seq(Run) /\ DOMAIN runs' = 1 .. Len(runs) - 1
      /\ \A j \in 1 .. Len(runs) - 1 : runs'[j] = IF j < i THEN runs[j] ELSE runs[j + 1]
    <2>1. runs' = RemoveAt(runs, i)
        BY DEF Ends
    <2>2. runs' \in Seq(Run) /\ Len(runs') = Len(runs) - 1
        BY <1>1, <2>1, RemoveAtTyped
    <2>3. DOMAIN runs' = 1 .. Len(runs) - 1
        BY <2>2
    <2>4. QED
        BY <1>1, <2>1, <2>2, <2>3, RemoveAtTyped
<1>3. \A j \in DOMAIN runs' : was(j) \in DOMAIN runs \ {i} /\ runs'[j] = runs[was(j)]
    BY <1>1, <1>2
<1>4. \A j, k \in DOMAIN runs' : j # k => was(j) # was(k)
    BY <1>1, <1>2
<1>5. HandlerSound(h) /\ h \in component.handlers
    BY HandlerOf DEF FormsSound
<1>6. \A j \in DOMAIN runs' : Handler(runs[j])' = Handler(runs[was(j)])
    BY <1>3 DEF Handler, Kept
<1>7. h.field \in Fields(component)
    BY <1>5 DEF Fields
<1>. HIDE DEF h, was
<1>8. \/ /\ runs[i].mount # mount
         /\ UNCHANGED <<lock, asked, mount>>
      \/ /\ runs[i].mount = mount
         /\ lock' = IF success /\ h.closes THEN Idle ELSE Locked(h, "none")
         /\ asked' = IF success THEN [asked EXCEPT ![h.field] = 0] ELSE asked
         /\ mount' = IF success /\ h.closes THEN 0 ELSE mount
    BY DEF Ends, h, Released
<1>9. mount' \in {0, mount} /\ DOMAIN lock' = States
    BY <1>8 DEF FormsSound, FormsTyped, Locked, Idle
<1>10. asked' \in [Fields(component) -> Nat]
    BY <1>7, <1>8 DEF FormsSound, FormsTyped
<1>11. FormsTyped'
    <2>1. mounts' \in Nat /\ mount' \in 0 .. mounts'
        BY <1>9 DEF FormsSound, FormsTyped, Kept
    <2>2. ASSUME NEW j \in DOMAIN runs'
          PROVE  runs'[j].mount <= mounts
        <3>1. was(j) \in DOMAIN runs /\ runs'[j] = runs[was(j)]
            BY <1>3
        <3>2. QED
            BY <3>1 DEF FormsSound, FormsTyped
    <2>3. component' = component /\ mounts' = mounts
        BY DEF Kept
    <2>4. asked' \in [Fields(component') -> Nat]
        BY <1>10, <2>3
    <2>5. QED
        BY <1>2, <1>9, <2>1, <2>2, <2>3, <2>4, SameRuns
           DEF FormsSound, FormsTyped, PursesTyped
<1>12. OneAtATime'
    <2>. SUFFICES ASSUME ~component.named, NEW j \in DOMAIN runs', NEW k \in DOMAIN runs',
                         j # k, mount' # 0, runs'[j].mount = mount', runs'[k].mount = mount',
                         Handler(runs[j])'.state # "none"
                  PROVE  Handler(runs[j])'.state # Handler(runs[k])'.state
        BY DEF OneAtATime, Kept
    <2>1. mount' = mount
        BY <1>9
    <2>2. /\ was(j) \in DOMAIN runs /\ was(k) \in DOMAIN runs /\ was(j) # was(k)
          /\ runs'[j] = runs[was(j)] /\ runs'[k] = runs[was(k)]
        BY <1>3, <1>4
    <2>3. QED
        BY <1>6, <2>1, <2>2 DEF FormsSound, OneAtATime
<1>13. StateIsTaken'
    <2>. SUFFICES ASSUME ~component.named, NEW j \in DOMAIN runs', Busy(j)'
                  PROVE  lock'[Handler(runs[j])'.state] # "none"
        BY DEF StateIsTaken, Kept
    <2>1. /\ was(j) \in DOMAIN runs /\ was(j) # i /\ runs'[j] = runs[was(j)]
          /\ Handler(runs[j])' = Handler(runs[was(j)])
        BY <1>3, <1>6
    <2>2. mount' = mount /\ mount # 0 /\ runs[was(j)].mount = mount
          /\ Handler(runs[was(j)]).state # "none"
        BY <1>9, <2>1 DEF Busy
    <2>3. lock[Handler(runs[was(j)]).state] # "none"
        BY <2>1, <2>2 DEF FormsSound, StateIsTaken, Busy
    <2>4. CASE runs[i].mount # mount
        BY <1>8, <2>1, <2>3, <2>4
    <2>5. CASE runs[i].mount = mount
        <3>1. lock' = Locked(h, "none")
            BY <1>8, <2>2, <2>5
        <3>2. h.state # "none" => h.state # Handler(runs[was(j)]).state
            BY <2>1, <2>2, <2>5 DEF FormsSound, OneAtATime, h
        <3>3. Handler(runs[was(j)]).state \in States
            BY <2>1, <2>2, HandlerOf DEF FormsSound, HandlerSound
        <3>4. lock'[Handler(runs[was(j)]).state] = lock[Handler(runs[was(j)]).state]
            BY <3>1, <3>2, <3>3 DEF Locked, FormsSound, FormsTyped
        <3>5. QED
            BY <2>1, <2>3, <3>4
    <2>6. QED
        BY <2>4, <2>5
<1>14. QED
    BY <1>11, <1>12, <1>13 DEF FormsSound

LEMMA GoesOnSound ==
    ASSUME FormsSound, NEW i \in DOMAIN runs, NEW amount \in Nat, NEW by \in Nat,
           GoesOn(i, amount, by), Kept, PursesTyped'
    PROVE  FormsSound'
<1> DEFINE on  == [runs[i] EXCEPT !.stage = @ + by]
           new == [on EXCEPT !.amount = amount]
<1>1. runs \in Seq(Run) /\ runs[i] \in Run /\ DOMAIN runs = 1 .. Len(runs)
    BY DEF FormsSound, FormsTyped
<1>2. UNCHANGED <<component, mounts, mount, lock, asked>>
    BY DEF GoesOn, Kept
<1>3. new \in Run /\ new.name = runs[i].name /\ new.mount = runs[i].mount
    <2>1. on \in Run /\ on.name = runs[i].name /\ on.mount = runs[i].mount
        <3>1. runs[i].stage + by \in Nat
            BY <1>1 DEF Run
        <3>2. ASSUME NEW N, NEW r \in [name: N, stage: Nat, amount: Nat, mount: Nat],
                     NEW x \in Nat
              PROVE  /\ [r EXCEPT !.stage = x] \in [name: N, stage: Nat, amount: Nat, mount: Nat]
                     /\ [r EXCEPT !.stage = x].name = r.name
                     /\ [r EXCEPT !.stage = x].mount = r.mount
            OBVIOUS
        <3>3. QED
            BY <1>1, <3>1, <3>2, Zenon DEF Run
    <2>. HIDE DEF on
    <2>2. QED
        BY <2>1 DEF Run
<1>4. runs' = [runs EXCEPT ![i] = new]
    BY Zenon DEF GoesOn
<1>. HIDE DEF on, new
<1>5. ASSUME NEW r \in Run
      PROVE  [runs EXCEPT ![i] = r] \in Seq(Run)
    BY <1>1, ExceptSeq, Zenon
<1>6. runs' \in Seq(Run)
    BY <1>3, <1>4, <1>5, Zenon
<1>7. /\ DOMAIN runs' = DOMAIN runs
      /\ \A j \in DOMAIN runs : runs'[j].name = runs[j].name /\ runs'[j].mount = runs[j].mount
    BY <1>3, <1>4
<1>8. \A j \in DOMAIN runs : Handler(runs[j])' = Handler(runs[j])
    BY <1>2, <1>7 DEF Handler
<1>9. FormsTyped'
    <2>1. ASSUME NEW j \in DOMAIN runs'
          PROVE  runs'[j].mount <= mounts
        BY <1>7 DEF FormsSound, FormsTyped
    <2>2. QED
        BY <1>2, <1>6, <2>1, SameRuns DEF FormsSound, FormsTyped, PursesTyped
<1>10. StateIsTaken'
    BY <1>2, <1>7, <1>8 DEF FormsSound, StateIsTaken, Busy
<1>11. OneAtATime'
    BY <1>2, <1>7, <1>8 DEF FormsSound, OneAtATime
<1>12. QED
    BY <1>9, <1>10, <1>11 DEF FormsSound

LEMMA AdvanceSound ==
    ASSUME FormsSound, NEW i \in DOMAIN runs, Advance(i)
    PROVE  FormsSound'
<1> DEFINE r == runs[i]
           h == Handler(runs[i])
           k == h.stages[r.stage]
<1>1. Kept
    BY DEF Advance, Kept
<1>2. r \in Run /\ h \in component.handlers /\ h.from \in Purses(component)
    <2>1. r \in Run
        BY DEF FormsSound, FormsTyped
    <2>2. h \in component.handlers
        BY HandlerOf DEF FormsSound
    <2>3. QED
        BY <2>1, <2>2 DEF Purses
<1>3. r.amount \in Nat /\ held[h.from] \in Nat
    BY <1>2 DEF Run, FormsSound, FormsTyped
<1>4. ASSUME UNCHANGED <<held, displayed>> PROVE PursesTyped'
    BY <1>1, <1>4 DEF PursesTyped, Kept, FormsSound, FormsTyped
<1>5. ASSUME NEW amount \in Nat, PursesTyped', NextStage(i, amount) PROVE FormsSound'
    <2>1. Ends(i, TRUE) \/ GoesOn(i, amount, 1)
        BY <1>5 DEF NextStage
    <2>2. QED
        BY <1>1, <1>5, <2>1, EndSound, GoesOnSound
<1>6. ASSUME Waits(i, k) PROVE FormsSound'
    BY <1>3, <1>4, <1>5, <1>6 DEF Waits
<1>7. ASSUME Format(i, k) PROVE FormsSound'
    <2>1. PursesTyped' /\ (GoesOn(i, r.amount, 1) \/ GoesOn(i, r.amount, 3))
        BY <1>4, <1>7 DEF Format
    <2>2. QED
        BY <1>1, <1>3, <2>1, GoesOnSound
<1>8. ASSUME Reset(i, k) PROVE FormsSound'
    BY <1>1, <1>3, <1>4, <1>8, GoesOnSound DEF Reset
<1>9. ASSUME Balance(i, k) PROVE FormsSound'
    <2> DEFINE amount == Lesser(r.amount, held[h.from])
    <2>1. amount \in Nat
        BY <1>3 DEF Lesser
    <2>2. PursesTyped' /\ (Ends(i, FALSE) \/ GoesOn(i, amount, 1))
        BY <1>4, <1>9 DEF Balance
    <2>. HIDE DEF amount
    <2>3. QED
        BY <1>1, <2>1, <2>2, EndSound, GoesOnSound
<1>10. ASSUME Land(i, k) PROVE FormsSound'
    <2>1. held' \in [Purses(component) -> Nat]
        <3> DEFINE left == IF h.takes = "amount" THEN held[h.from] - r.amount
                           ELSE IF h.takes = "all" THEN 0 ELSE held[h.from]
        <3>1. h.takes = "amount" => r.amount \in 1 .. held[h.from]
            BY <1>10 DEF Land
        <3>2. left \in Nat
            BY <1>3, <3>1
        <3>3. held' = [held EXCEPT ![h.from] = left]
            BY <1>10 DEF Land
        <3>. HIDE DEF left
        <3>4. QED
            BY <3>2, <3>3 DEF FormsSound, FormsTyped
    <2>2. PursesTyped'
        BY <1>1, <1>10, <2>1 DEF Land, PursesTyped, Kept, FormsSound, FormsTyped
    <2>3. NextStage(i, r.amount) \/ Ends(i, FALSE)
        BY <1>10 DEF Land
    <2>4. QED
        BY <1>1, <1>3, <1>5, <2>2, <2>3, EndSound
<1>11. ASSUME Shake(i, k) PROVE FormsSound'
    <2>1. displayed' \in [Purses(component) -> Nat]
        BY <1>2, <1>11 DEF Shake, FormsSound, FormsTyped
    <2>2. PursesTyped'
        BY <1>1, <1>11, <2>1 DEF Shake, PursesTyped, Kept, FormsSound, FormsTyped
    <2>3. QED
        BY <1>1, <1>3, <1>11, <2>2, GoesOnSound DEF Shake
<1>12. ASSUME Throws(i, k) PROVE FormsSound'
    BY <1>1, <1>4, <1>12, EndSound DEF Throws
<1>13. \/ Waits(i, k) \/ Format(i, k) \/ Reset(i, k) \/ Balance(i, k)
       \/ Land(i, k) \/ Shake(i, k) \/ Throws(i, k)
    BY DEF Advance
<1>14. QED
    BY <1>6, <1>7, <1>8, <1>9, <1>10, <1>11, <1>12, <1>13, Zenon

-----------------------------------------------------------------------------
LEMMA ShowingSound ==
    ASSUME FormsSound, Shown \/ Hidden
    PROVE  FormsSound'
<1>1. UNCHANGED <<component, held, displayed, runs>> /\ component \in Components
    BY DEF Shown, Hidden, FormsSound, FormsTyped
<1>2. mounts \in Nat /\ mount \in 0 .. mounts
    BY DEF FormsSound, FormsTyped
<1>3. mounts' \in Nat /\ mount' \in 0 .. mounts' /\ mounts <= mounts'
    BY <1>2 DEF Shown, Hidden
<1>4. DOMAIN lock' = States /\ asked' \in [Fields(component) -> Nat]
    BY DEF Shown, Hidden, Idle, FormsSound, FormsTyped
<1>5. ASSUME NEW i \in DOMAIN runs
      PROVE  runs[i].mount <= mounts' /\ (mount' # 0 => runs[i].mount # mount')
    <2>1. runs[i].mount \in Nat /\ runs[i].mount <= mounts
        <3>1. runs[i] \in Run /\ runs[i].mount <= mounts
            BY DEF FormsSound, FormsTyped
        <3>2. QED
            BY <3>1 DEF Run
    <2>2. mount' = 0 \/ (mount' = mounts + 1 /\ mounts' = mounts + 1)
        BY DEF Shown, Hidden
    <2>3. QED
        BY <1>2, <1>3, <2>1, <2>2
<1>6. FormsTyped'
    BY <1>1, <1>3, <1>4, <1>5, SameRuns DEF FormsSound, FormsTyped, Fields, Purses
<1>7. StateIsTaken' /\ OneAtATime'
    BY <1>1, <1>5 DEF StateIsTaken, OneAtATime, Busy
<1>8. QED
    BY <1>6, <1>7 DEF FormsSound

LEMMA AroundSound ==
    ASSUME FormsSound, UNCHANGED <<component, mount, mounts, lock, runs>>,
           asked' \in [Fields(component) -> Nat], held' \in [Purses(component) -> Nat],
           displayed' \in [Purses(component) -> Nat]
    PROVE  FormsSound'
<1>1. FormsTyped'
    BY SameRuns DEF FormsSound, FormsTyped, Fields, Purses
<1>2. StateIsTaken' /\ OneAtATime'
    BY DEF FormsSound, StateIsTaken, OneAtATime, Busy, Handler
<1>3. QED
    BY <1>1, <1>2 DEF FormsSound

LEMMA FormsStep == FormsSound /\ [FormsNext]_formVars => FormsSound'
<1>. SUFFICES ASSUME FormsSound, [FormsNext]_formVars PROVE FormsSound'
    OBVIOUS
<1>. USE DEF FormsSound, FormsTyped
<1>1. ASSUME NEW f \in Fields(component), NEW amount \in 0 .. MaxAmount, Type(f, amount)
      PROVE  FormsSound'
    <2>1. asked' \in [Fields(component) -> Nat]
        BY <1>1, FormsAssumption DEF Type
    <2>2. QED
        BY <1>1, <2>1, AroundSound DEF Type
<1>2. ASSUME NEW p \in Purses(component), Refreshed(p) PROVE FormsSound'
    <2>1. displayed' \in [Purses(component) -> Nat]
        BY <1>2 DEF Refreshed
    <2>2. QED
        BY <1>2, <2>1, AroundSound DEF Refreshed
<1>3. ASSUME NEW p \in Purses(component), Moved(p) PROVE FormsSound'
    <2>1. held' \in [Purses(component) -> Nat]
        BY <1>3, FormsAssumption DEF Moved
    <2>2. QED
        BY <1>3, <2>1, AroundSound DEF Moved
<1>4. CASE UNCHANGED formVars
    BY <1>4, AroundSound DEF formVars
<1>5. QED
    BY <1>1, <1>2, <1>3, <1>4, ShowingSound, PressSound, AdvanceSound, Zenon
       DEF FormsNext

LEMMA FormsStart == FormsInit => FormsSound
<1>. SUFFICES ASSUME FormsInit PROVE FormsSound
    OBVIOUS
<1>1. runs = << >> /\ runs \in Seq(Run) /\ DOMAIN runs = {}
    BY DEF FormsInit
<1>2. StateIsTaken /\ OneAtATime
    BY <1>1 DEF StateIsTaken, OneAtATime
<1>3. FormsTyped
    BY <1>1 DEF FormsInit, FormsTyped, Idle
<1>4. QED
    BY <1>2, <1>3 DEF FormsSound

(* As long as a component stays on the page, a second handler that takes   *)
(* the same loading state is not started before the first has ended: for   *)
(* every number of showings, handlers under way and changes of a purse.    *)
THEOREM HandlersTakeTurns == FormsSpec => []OneAtATime
<1>1. FormsSound => OneAtATime
    BY DEF FormsSound
<1>2. QED
    BY <1>1, FormsStart, FormsStep, PTL DEF FormsSpec

-----------------------------------------------------------------------------
(* The price chart                                                         *)

OneBar == [at: Nat, open: Nat, high: Nat, low: Nat, close: Nat]

InRange(b) == b.low <= b.open /\ b.low <= b.close /\ b.high >= b.open /\ b.high >= b.close

InOrder(points) ==
    \A i, j \in 1 .. Len(points) : i < j => points[i].at < points[j].at

BarsSound(points) ==
    /\ points \in Seq(OneBar) /\ InOrder(points)
    /\ \A i \in 1 .. Len(points) : InRange(points[i])

SeriesSound(s) ==
    \E points, mine : /\ s = Snapshot(points, mine) /\ BarsSound(points)
                      /\ s = NoChart \/ Len(points) >= 2

LEMMA LargerOfTwo ==
    ASSUME NEW a \in Nat, NEW b \in Nat
    PROVE  Max({a, b}) \in Nat /\ Max({a, b}) >= a /\ Max({a, b}) >= b
<1>. DEFINE m == IF a >= b THEN a ELSE b
<1>1. m \in {a, b} /\ \A y \in {a, b} : m >= y
    OBVIOUS
<1>2. ASSUME NEW x \in {a, b}, \A y \in {a, b} : x >= y
      PROVE  x = m
    BY <1>2
<1>. HIDE DEF m
<1>3. Max({a, b}) = m
    BY <1>1, <1>2, Zenon DEF Max
<1>4. QED
    BY <1>1, <1>3

LEMMA SmallerOfTwo ==
    ASSUME NEW a \in Nat, NEW b \in Nat
    PROVE  Min({a, b}) \in Nat /\ Min({a, b}) <= a /\ Min({a, b}) <= b
<1>. DEFINE m == IF a <= b THEN a ELSE b
<1>1. m \in {a, b} /\ \A y \in {a, b} : m <= y
    OBVIOUS
<1>2. ASSUME NEW x \in {a, b}, \A y \in {a, b} : x <= y
      PROVE  x = m
    BY <1>2
<1>. HIDE DEF m
<1>3. Min({a, b}) = m
    BY <1>1, <1>2, Zenon DEF Min
<1>4. QED
    BY <1>1, <1>3

LEMMA BarInRange ==
    ASSUME NEW t \in Nat, NEW o \in Nat, NEW p \in Nat
    PROVE  Bar(t, o, p) \in OneBar /\ InRange(Bar(t, o, p)) /\ Bar(t, o, p).at = t
<1>. PICK high \in Nat : high = Max({o, p}) /\ high >= o /\ high >= p
    BY LargerOfTwo
<1>. PICK low \in Nat : low = Min({o, p}) /\ low <= o /\ low <= p
    BY SmallerOfTwo
<1>1. Bar(t, o, p) = [at |-> t, open |-> o, high |-> high, low |-> low, close |-> p]
    BY DEF Bar
<1>2. QED
    BY <1>1 DEF OneBar, InRange

LEMMA BucketNat ==
    ASSUME NEW tf, NEW t \in Nat
    PROVE  Bucket(tf, t) \in Nat
BY DEF Bucket

(* The last bar put in the place of the last one, or after it.             *)
LEMMA BarChanged ==
    ASSUME NEW points, BarsSound(points), Len(points) > 0, NEW bar \in OneBar, InRange(bar),
           bar.at = points[Len(points)].at
    PROVE  BarsSound([points EXCEPT ![Len(points)] = bar])
<1>. PICK new : new = [points EXCEPT ![Len(points)] = bar]
    OBVIOUS
<1>1. points \in Seq(OneBar) /\ Len(points) \in Nat /\ InOrder(points)
    BY DEF BarsSound
<1>2. /\ new \in Seq(OneBar) /\ Len(new) = Len(points)
      /\ \A i \in 1 .. Len(points) : new[i] = IF i = Len(points) THEN bar ELSE points[i]
    BY <1>1
<1>3. \A i \in 1 .. Len(points) : new[i].at = points[i].at
    BY <1>2
<1>4. InOrder(new)
    BY <1>1, <1>2, <1>3 DEF InOrder
<1>5. QED
    BY <1>2, <1>4 DEF BarsSound

LEMMA BarAdded ==
    ASSUME NEW points, BarsSound(points), NEW bar \in OneBar, InRange(bar),
           Len(points) > 0 => points[Len(points)].at < bar.at
    PROVE  BarsSound(Append(points, bar))
<1>. PICK new : new = Append(points, bar)
    OBVIOUS
<1>1. points \in Seq(OneBar) /\ Len(points) \in Nat /\ InOrder(points)
    BY DEF BarsSound
<1>2. /\ new \in Seq(OneBar) /\ Len(new) = Len(points) + 1
      /\ \A i \in 1 .. Len(points) : new[i] = points[i] /\ points[i] \in OneBar
      /\ new[Len(points) + 1] = bar
    BY <1>1
<1>3. ASSUME NEW i \in 1 .. Len(points) PROVE points[i].at < bar.at
    <2>1. Len(points) \in 1 .. Len(points) /\ Len(points) > 0
        BY <1>1
    <2>2. i = Len(points) \/ points[i].at < points[Len(points)].at
        BY <1>1, <2>1 DEF InOrder
    <2>3. points[i].at \in Nat /\ points[Len(points)].at \in Nat /\ bar.at \in Nat
        BY <1>2, <2>1 DEF OneBar
    <2>4. QED
        BY <2>1, <2>2, <2>3
<1>4. ASSUME NEW i \in 1 .. Len(new), NEW j \in 1 .. Len(new), i < j
      PROVE  new[i].at < new[j].at
    <2>1. i \in 1 .. Len(points)
        BY <1>1, <1>2, <1>4
    <2>2. j = Len(points) + 1 \/ j \in 1 .. Len(points)
        BY <1>1, <1>2
    <2>3. QED
        BY <1>1, <1>2, <1>3, <1>4, <2>1, <2>2 DEF InOrder
<1>5. \A i \in 1 .. Len(new) : InRange(new[i])
    <2>1. \A i \in 1 .. Len(new) : i = Len(points) + 1 \/ i \in 1 .. Len(points)
        BY <1>1, <1>2
    <2>2. QED
        BY <1>2, <2>1 DEF BarsSound
<1>6. QED
    BY <1>2, <1>4, <1>5 DEF BarsSound, InOrder

LEMMA AppliedSound ==
    ASSUME NEW points, BarsSound(points), NEW p \in Nat, NEW tf, NEW t \in Nat
    PROVE  BarsSound(ApplyLivePrice(points, p, tf, t))
<1>. PICK bucket \in Nat : bucket = Bucket(tf, t)
    BY BucketNat
<1>0. points \in Seq(OneBar) /\ Len(points) \in Nat /\ Last(points) = points[Len(points)]
    BY DEF BarsSound, Last
<1>1. CASE p <= 0
    BY <1>1 DEF ApplyLivePrice
<1>2. CASE p > 0 /\ points = << >>
    <2>. PICK bar : bar = Bar(bucket, p, p)
        OBVIOUS
    <2>1. bar \in OneBar /\ InRange(bar)
        BY BarInRange
    <2>2. ApplyLivePrice(points, p, tf, t) = Append(points, bar)
        BY <1>2 DEF ApplyLivePrice
    <2>3. ~(Len(points) > 0)
        BY <1>2
    <2>4. BarsSound(Append(points, bar))
        BY <2>1, <2>3, BarAdded, Zenon
    <2>5. QED
        BY <2>2, <2>4
<1>3. CASE p > 0 /\ points # << >>
    <2>1. Len(points) > 0 /\ Len(points) \in 1 .. Len(points)
        BY <1>0, <1>3
    <2>. PICK last \in OneBar : last = points[Len(points)]
        BY <1>0, <2>1
    <2>2. InRange(last) /\ last.close \in Nat /\ last.at \in Nat
        BY <2>1 DEF BarsSound, OneBar
    <2>3. CASE last.at = bucket
        <3>. PICK high \in Nat : high = Max({last.high, p}) /\ high >= last.high /\ high >= p
            BY LargerOfTwo DEF OneBar
        <3>. PICK low \in Nat : low = Min({last.low, p}) /\ low <= last.low /\ low <= p
            BY SmallerOfTwo DEF OneBar
        <3>. PICK bar : bar = [last EXCEPT !.high = high, !.low = low, !.close = p]
            OBVIOUS
        <3>1. /\ bar \in OneBar /\ bar.at = last.at /\ bar.open = last.open
              /\ bar.high = high /\ bar.low = low /\ bar.close = p
            BY DEF OneBar
        <3>0. bar = WithPrice(last, p)
            BY DEF WithPrice
        <3>2. InRange(bar)
            <4>1. last.open \in Nat /\ last.low \in Nat /\ last.high \in Nat
                BY DEF OneBar
            <4>2. QED
                BY <2>2, <3>1, <4>1, SMTT(30) DEF InRange
        <3>3. ApplyLivePrice(points, p, tf, t) = [points EXCEPT ![Len(points)] = bar]
            <4>1. ~(p <= 0) /\ last = Last(points)
                BY <1>0, <1>3
            <4>2. QED
                BY <1>3, <2>3, <3>0, <4>1, Zenon DEF ApplyLivePrice
        <3>4. BarsSound([points EXCEPT ![Len(points)] = bar])
            BY <2>1, <3>1, <3>2, BarChanged
        <3>5. QED
            BY <3>3, <3>4
    <2>4. CASE bucket > last.at
        <3>. PICK bar : bar = Bar(bucket, last.close, p)
            OBVIOUS
        <3>1. bar \in OneBar /\ InRange(bar) /\ bar.at = bucket
            BY <2>2, BarInRange
        <3>2. ApplyLivePrice(points, p, tf, t) = Append(points, bar)
            BY <1>0, <1>3, <2>2, <2>4 DEF ApplyLivePrice
        <3>3. QED
            BY <2>4, <3>1, <3>2, BarAdded
    <2>5. CASE bucket < last.at
        BY <1>0, <1>3, <2>2, <2>5 DEF ApplyLivePrice
    <2>6. QED
        BY <2>2, <2>3, <2>4, <2>5
<1>4. QED
    BY <1>1, <1>2, <1>3

(* Putting readings into bars one after another is a recursive function    *)
(* that exists.                                                            *)
RowPut(points, tf, times, prices, t) ==
    IF t \in times THEN ApplyLivePrice(points, prices[t], tf, t) ELSE points

PutUpTo(f, tf, times, prices, n) ==
    f = [t \in 0 .. n |-> IF t = 0 THEN << >>
                          ELSE IF t \in times THEN ApplyLivePrice(f[t - 1], prices[t], tf, t)
                          ELSE f[t - 1]]

LEMMA SetInduction ==
    ASSUME NEW S, 0 \in S, \A n \in Nat : n \in S => n + 1 \in S
    PROVE  Nat \subseteq S
<1>. DEFINE Less == {p \in Nat \X Nat : p[1] < p[2]}
<1>0. IsWellFoundedOn(Less, Nat)
    BY NatLessThanWellFounded, Zenon DEF OpToRel
<1>. HIDE DEF Less
<1>1. SUFFICES ASSUME Nat \ S # {} PROVE FALSE
    OBVIOUS
<1>2. PICK x \in Nat \ S : \A y \in Nat \ S : <<y, x>> \notin Less
    BY <1>0, <1>1, WFMin, Zenon
<1>3. \A y \in Nat \ S : ~(y < x)
    BY <1>2 DEF Less
<1>4. x # 0 /\ x - 1 \in Nat /\ x - 1 < x
    OBVIOUS
<1>5. x - 1 \in S
    BY <1>3, <1>4
<1>6. (x - 1) + 1 \in S
    BY <1>4, <1>5
<1>7. QED
    BY <1>6

LEMMA PutExists ==
    ASSUME NEW tf, NEW times, NEW prices, NEW n \in Nat
    PROVE  \E f : PutUpTo(f, tf, times, prices, n)
<1>. DEFINE Body(f, t) == IF t = 0 THEN << >> ELSE RowPut(f[t - 1], tf, times, prices, t)
            Has == {k \in Nat : \E f : f = [t \in 0 .. k |-> Body(f, t)]}
<1>1. 0 \in Has
    <2>1. [t \in 0 .. 0 |-> << >>] = [t \in 0 .. 0 |-> Body([s \in 0 .. 0 |-> << >>], t)]
        OBVIOUS
    <2>2. QED
        BY <2>1
<1>2. ASSUME NEW k \in Nat, k \in Has PROVE k + 1 \in Has
    <2>1. PICK f : f = [t \in 0 .. k |-> Body(f, t)]
        BY <1>2
    <2>. DEFINE g == [t \in 0 .. (k + 1) |->
                         IF t = k + 1 THEN RowPut(f[k], tf, times, prices, k + 1) ELSE f[t]]
    <2>2. ASSUME NEW t \in 0 .. (k + 1) PROVE g[t] = Body(g, t)
        <3>1. CASE t = k + 1
            BY <3>1
        <3>2. CASE t \in 0 .. k /\ t # 0
            <4>1. f[t] = RowPut(f[t - 1], tf, times, prices, t)
                BY <2>1, <3>2
            <4>2. g[t] = f[t] /\ g[t - 1] = f[t - 1]
                BY <3>2
            <4>3. QED
                BY <4>1, <4>2, <3>2
        <3>3. CASE t = 0
            BY <3>3, <2>1
        <3>4. QED
            BY <3>1, <3>2, <3>3
    <2>3. g = [t \in 0 .. (k + 1) |-> Body(g, t)]
        BY <2>2
    <2>4. \E z : z = [t \in 0 .. (k + 1) |-> Body(z, t)]
        <3>. WITNESS g
        <3>. QED
            BY <2>3
    <2>5. QED
        BY <2>4
<1>3. Nat \subseteq Has
    <2>. HIDE DEF Has
    <2>1. QED
        BY <1>1, <1>2, SetInduction
<1>4. PICK f : f = [t \in 0 .. n |-> Body(f, t)]
    BY <1>3
<1>5. PutUpTo(f, tf, times, prices, n)
    BY <1>4 DEF PutUpTo, RowPut
<1>6. QED
    BY <1>5

LEMMA FromRowsSound ==
    ASSUME moment \in Nat, NEW times \in SUBSET (1 .. moment), NEW tf,
           NEW prices \in [times -> ChartPrices]
    PROVE  BarsSound(FromRows(tf, times, prices))
<1>. PICK n \in Nat : n = moment
    OBVIOUS
<1>. DEFINE F == CHOOSE f : PutUpTo(f, tf, times, prices, n)
<1>1. PutUpTo(F, tf, times, prices, n)
    <2>1. \E f : PutUpTo(f, tf, times, prices, n)
        BY PutExists
    <2>2. QED
        BY <2>1, Zenon
<1>2. FromRows(tf, times, prices) = F[n]
    BY Zenon DEF FromRows, PutUpTo
<1>. HIDE DEF F
<1>. PICK f : f = F
    OBVIOUS
<1>3. f = [t \in 0 .. n |-> IF t = 0 THEN << >> ELSE RowPut(f[t - 1], tf, times, prices, t)]
    BY <1>1 DEF PutUpTo, RowPut
<1>. DEFINE Done == {t \in Nat : t <= n => BarsSound(f[t])}
<1>4. 0 \in Done
    <2>1. f[0] = << >>
        BY <1>3
    <2>2. BarsSound(<< >>)
        BY DEF BarsSound, InOrder
    <2>3. QED
        BY <2>1, <2>2
<1>5. ASSUME NEW t \in Nat, t \in Done PROVE t + 1 \in Done
    <2>. SUFFICES ASSUME t + 1 <= n PROVE BarsSound(f[t + 1])
        OBVIOUS
    <2>. PICK u \in Nat : u = t + 1
        OBVIOUS
    <2>1. f[u] = RowPut(f[u - 1], tf, times, prices, u) /\ u - 1 = t
        <3>1. u \in 0 .. n /\ u # 0 /\ u - 1 = t
            OBVIOUS
        <3>2. QED
            BY <1>3, <3>1
    <2>2. BarsSound(f[t])
        BY <1>5
    <2>3. CASE u \in times
        <3>1. prices[u] \in Nat
            BY <2>3, ChartAssumption
        <3>2. BarsSound(ApplyLivePrice(f[t], prices[u], tf, u))
            BY <2>2, <3>1, AppliedSound
        <3>3. QED
            BY <2>1, <2>3, <3>2 DEF RowPut
    <2>4. CASE u \notin times
        BY <2>1, <2>2, <2>4 DEF RowPut
    <2>5. QED
        BY <2>3, <2>4
<1>6. Nat \subseteq Done
    <2>. HIDE DEF Done
    <2>1. QED
        BY <1>4, <1>5, SetInduction
<1>7. BarsSound(f[n])
    BY <1>6
<1>8. QED
    BY <1>2, <1>7

-----------------------------------------------------------------------------
(* What is drawn                                                           *)

LEMMA NoChartSound == SeriesSound(NoChart)
<1>1. BarsSound(<< >>)
    BY DEF BarsSound, InOrder
<1>2. QED
    BY <1>1 DEF SeriesSound, NoChart

LEMMA SnapshotSound ==
    ASSUME NEW points, BarsSound(points), NEW mine
    PROVE  SeriesSound(IF Enough(points) THEN Snapshot(points, mine) ELSE NoChart)
<1>1. CASE Enough(points)
    <2>1. Len(points) >= 2
        BY <1>1 DEF Enough
    <2>2. SeriesSound(Snapshot(points, mine))
        BY <2>1 DEF SeriesSound
    <2>3. QED
        BY <1>1, <2>2
<1>2. QED
    BY <1>1, NoChartSound

LEMMA FedSound ==
    ASSUME NEW series, SeriesSound(series), NEW bar \in OneBar, InRange(bar)
    PROVE  SeriesSound(Fed(series, bar))
<1>1. PICK points, mine : /\ series = Snapshot(points, mine) /\ BarsSound(points)
                          /\ series = NoChart \/ Len(points) >= 2
    BY DEF SeriesSound
<1>2. series.points = points
    BY <1>1 DEF Snapshot
<1>3. CASE series = NoChart \/ Last(points).at > bar.at
    BY <1>2, <1>3 DEF Fed
<1>4. CASE ~(series = NoChart \/ Last(points).at > bar.at)
    <2>1. points \in Seq(OneBar) /\ Len(points) \in Nat /\ Len(points) >= 2
          /\ Last(points) = points[Len(points)]
        BY <1>1, <1>4 DEF BarsSound, Last
    <2>2. Last(points).at \in Nat /\ bar.at \in Nat
        <3>1. Last(points) \in OneBar
            BY <2>1
        <3>2. QED
            BY <3>1 DEF OneBar
    <2>3. CASE Last(points).at = bar.at
        <3>. PICK new : new = [points EXCEPT ![Len(points)] = bar]
            OBVIOUS
        <3>0. BarsSound([points EXCEPT ![Len(points)] = bar])
            <4>1. Len(points) > 0 /\ bar.at = points[Len(points)].at
                BY <2>1, <2>3
            <4>2. QED
                BY <1>1, <4>1, BarChanged
        <3>1. BarsSound(new) /\ Len(new) >= 2
            BY <2>1, <3>0
        <3>2. Fed(series, bar) = Snapshot(new, mine)
            BY <1>1, <1>2, <1>4, <2>3 DEF Fed, Snapshot
        <3>3. QED
            BY <3>1, <3>2 DEF SeriesSound
    <2>4. CASE Last(points).at # bar.at
        <3>. PICK new : new = Append(points, bar)
            OBVIOUS
        <3>0. Last(points).at < bar.at
            BY <1>4, <2>2, <2>4
        <3>1. BarsSound(new) /\ Len(new) >= 2
            BY <1>1, <2>1, <3>0, BarAdded
        <3>2. Fed(series, bar) = Snapshot(new, mine)
            BY <1>1, <1>2, <1>4, <2>4 DEF Fed, Snapshot
        <3>3. QED
            BY <3>1, <3>2 DEF SeriesSound
    <2>5. QED
        BY <2>3, <2>4
<1>5. QED
    BY <1>3, <1>4

LEMMA RedrawSound ==
    ASSUME SeriesSound(drawn), SeriesSound(building), NEW points, BarsSound(points), NEW mine,
           Redraw(points, mine)
    PROVE  SeriesSound(drawn') /\ SeriesSound(building')
<1>1. CASE Rebuild(points, mine)
    BY <1>1, NoChartSound, SnapshotSound DEF Rebuild
<1>2. CASE drawn' = drawn /\ building' = building
    BY <1>2
<1>3. CASE points # << >> /\ drawn' = Fed(drawn, Last(points)) /\ building' = building
    <2>1. points \in Seq(OneBar) /\ Len(points) \in Nat /\ Len(points) > 0
          /\ Last(points) = points[Len(points)]
        BY <1>3 DEF BarsSound, Last
    <2>2. Last(points) \in OneBar /\ InRange(Last(points))
        BY <2>1 DEF BarsSound
    <2>3. SeriesSound(Fed(drawn, Last(points)))
        BY <2>2, FedSound
    <2>4. QED
        BY <1>3, <2>3
<1>4. QED
    BY <1>1, <1>2, <1>3, Zenon DEF Redraw

LEMMA ExtendedSound ==
    ASSUME NEW points, BarsSound(points), NEW p \in Nat, NEW t \in Nat, NEW tf, moment \in Nat
    PROVE  BarsSound(Extended(points, p, t, tf))
<1>1. BarsSound(ApplyLivePrice(points, p, tf, t)) /\ BarsSound(ApplyLivePrice(points, p, tf, moment))
    BY AppliedSound
<1>2. QED
    BY <1>1 DEF Extended

(* The bars are sound, and so is every series made of them: what is drawn  *)
(* has two bars at least, so that it has a last one to be fed after.       *)
ChartKept ==
    /\ moment \in Nat /\ seed \in Nat /\ live.price \in Nat /\ live.at \in Nat
    /\ BarsSound(bars) /\ SeriesSound(drawn) /\ SeriesSound(building)

LEMMA ReloadSound ==
    ASSUME ChartKept, NEW now, now.price \in Nat, now.at \in Nat, NEW tf, Reload(now, tf),
           live' = now
    PROVE  ChartKept'
<1>1. /\ Rebuild(bars, FALSE) /\ bars' = Extended(bars, now.price, now.at, tf)
      /\ seed' = now.price /\ moment' = moment
    BY DEF Reload
<1>2. SeriesSound(drawn') /\ SeriesSound(building')
    BY <1>1, NoChartSound, SnapshotSound DEF Rebuild, ChartKept
<1>3. BarsSound(bars')
    BY <1>1, ExtendedSound DEF ChartKept
<1>4. QED
    BY <1>1, <1>2, <1>3 DEF ChartKept

LEMMA LoadedSound ==
    ASSUME ChartKept, LoadArrives
    PROVE  ChartKept'
<1>0. PICK times \in SUBSET (1 .. moment) :
          \E prices \in [times -> ChartPrices] :
              bars' = ApplyLivePrice(FromRows(timeframe, times, prices), seed, timeframe, moment)
    BY DEF LoadArrives
<1>1. PICK prices \in [times -> ChartPrices] :
          bars' = ApplyLivePrice(FromRows(timeframe, times, prices), seed, timeframe, moment)
    BY <1>0
<1>2. BarsSound(bars')
    BY <1>1, FromRowsSound, AppliedSound DEF ChartKept
<1>. PICK points : points = bars'
    OBVIOUS
<1>3. Redraw(points, TRUE) /\ UNCHANGED <<moment, live, seed>>
    BY DEF LoadArrives
<1>4. SeriesSound(drawn') /\ SeriesSound(building')
    BY <1>2, <1>3, RedrawSound DEF ChartKept
<1>5. QED
    BY <1>2, <1>3, <1>4 DEF ChartKept

LEMMA ChartStep ==
    ASSUME ChartKept, [ChartNext]_chartVars
    PROVE  ChartKept'
<1>0. BarsSound(bars) /\ SeriesSound(drawn) /\ SeriesSound(building) /\ moment \in Nat
      /\ live.price \in Nat /\ live.at \in Nat /\ seed \in Nat
    BY DEF ChartKept
<1>1. CASE UNCHANGED <<bars, drawn, building, live, seed>> /\ moment' \in {moment, moment + 1}
    BY <1>0, <1>1 DEF ChartKept
<1>2. ASSUME NEW p \in ChartPrices, LivePrice(p) PROVE ChartKept'
    <2>1. p \in Nat
        BY ChartAssumption
    <2>. PICK points : points = bars'
        OBVIOUS
    <2>2. BarsSound(points)
        BY <1>0, <1>2, <2>1, ExtendedSound DEF LivePrice
    <2>3. Redraw(points, own) /\ live' = [price |-> p, at |-> moment] /\ UNCHANGED <<moment, seed>>
        BY <1>2 DEF LivePrice
    <2>4. SeriesSound(drawn') /\ SeriesSound(building')
        BY <1>0, <2>2, <2>3, RedrawSound
    <2>5. QED
        BY <1>0, <2>1, <2>2, <2>3, <2>4 DEF ChartKept
<1>3. CASE SelectMarket
    <2>1. PICK p \in ChartPrices \cup {0}, t \in 1 .. moment : live' = [price |-> p, at |-> t]
        BY <1>3 DEF SelectMarket
    <2>2. live'.price \in Nat /\ live'.at \in Nat /\ Reload(live', timeframe)
        BY <1>0, <1>3, <2>1, ChartAssumption DEF SelectMarket
    <2>. PICK now : now = live'
        OBVIOUS
    <2>3. now.price \in Nat /\ now.at \in Nat /\ Reload(now, timeframe) /\ live' = now
        BY <2>2
    <2>4. QED
        BY <2>3, ReloadSound
<1>4. ASSUME NEW tf \in Timeframes, SelectTimeframe(tf) PROVE ChartKept'
    BY <1>0, <1>4, ReloadSound DEF SelectTimeframe
<1>5. CASE LoadFails
    <2>1. BarsSound(<< >>)
        BY DEF BarsSound, InOrder
    <2>. PICK points : points = bars'
        OBVIOUS
    <2>2. BarsSound(points) /\ Redraw(points, TRUE) /\ UNCHANGED <<moment, live, seed>>
        BY <1>5, <2>1 DEF LoadFails
    <2>3. SeriesSound(drawn') /\ SeriesSound(building')
        BY <1>0, <2>2, RedrawSound
    <2>4. QED
        BY <1>0, <2>2, <2>3 DEF ChartKept
<1>6. CASE Build
    BY <1>0, <1>6, NoChartSound DEF Build, ChartKept
<1>7. CASE PositionsPolled \/ \E d \in {"line", "candle"} : SelectMode(d)
    <2>1. Rebuild(bars, own) /\ UNCHANGED <<bars, moment, live, seed>>
        BY <1>7 DEF PositionsPolled, SelectMode
    <2>2. SeriesSound(drawn') /\ SeriesSound(building')
        BY <1>0, <2>1, NoChartSound, SnapshotSound DEF Rebuild
    <2>3. QED
        BY <1>0, <2>1, <2>2 DEF ChartKept
<1>8. QED
    BY <1>1, <1>2, <1>3, <1>4, <1>5, <1>6, <1>7, LoadedSound
       DEF ChartNext, MomentPasses, LoadAgain, chartVars

LEMMA ChartStart == ChartInit => ChartKept
<1>1. BarsSound(<< >>)
    BY DEF BarsSound, InOrder
<1>2. QED
    BY <1>1, NoChartSound DEF ChartInit, ChartKept

(* Whatever order loads, live prices, changes of market, timeframe and     *)
(* chart mode come in, for any prices and however long it goes on, the     *)
(* bars and the series drawn from them stay in strict order of time and    *)
(* every bar's range holds its open and its close.                         *)
THEOREM ChartStaysSound == ChartSpec => []ChartSound
<1>1. ASSUME NEW points, BarsSound(points) PROVE SoundBars(points)
    <2>1. DOMAIN points = 1 .. Len(points)
        BY <1>1 DEF BarsSound
    <2>2. QED
        BY <1>1, <2>1 DEF BarsSound, SoundBars, InOrder, InRange
<1>2. ASSUME NEW s, SeriesSound(s) PROVE SoundBars(s.points)
    BY <1>1, <1>2 DEF SeriesSound, Snapshot
<1>3. ChartKept => ChartSound
    BY <1>1, <1>2 DEF ChartKept, ChartSound
<1>4. ChartKept /\ [ChartNext]_chartVars => ChartKept'
    BY ChartStep
<1>5. QED
    BY <1>3, <1>4, ChartStart, PTL DEF ChartSpec

-----------------------------------------------------------------------------
(* The price cache (Tape).                                                 *)

Reading == [price: Nat, at: Nat]

\* What the keeper tells is of a moment up to the present one.
Told == [price: Nat, at: 0 .. LastTick + 1]

Ordered(h) ==
    h \in Seq(Reading) /\ InOrder(h) /\ \A i \in 1 .. Len(h) : h[i].at >= 1

TapeKept ==
    /\ clock \in 1 .. LastTick + 1
    /\ feed \in Told /\ cache \in Told
    /\ record \in Seq(Told) /\ bulk \in Seq(Told) /\ answers \in Seq(Seq(Told))
    /\ Ordered(readings)
    /\ polling \in BOOLEAN /\ (polling <=> watching # {})

LEMMA SmallestExists ==
    ASSUME NEW S \in SUBSET Nat, S # {}
    PROVE  \E x \in S : \A y \in S : x <= y
<1>. DEFINE Less == {p \in Nat \X Nat : p[1] < p[2]}
<1>0. IsWellFoundedOn(Less, Nat)
    BY NatLessThanWellFounded, Zenon DEF OpToRel
<1>. HIDE DEF Less
<1>1. PICK x \in S : \A y \in S : <<y, x>> \notin Less
    BY <1>0, WFMin, Zenon
<1>2. \A y \in S : ~(y < x)
    BY <1>1 DEF Less
<1>3. \A y \in S : x <= y
    BY <1>2
<1>4. QED
    BY <1>3

\* A bounded set of numbers has a largest one, which is the Max of it.
LEMMA LargestOf ==
    ASSUME NEW b \in Nat, NEW S \in SUBSET (0 .. b), S # {}
    PROVE  Max(S) \in S /\ \A x \in S : x <= Max(S)
<1>. DEFINE Below == {n \in Nat : b - n \in S}
<1>1. PICK x : x \in S
    OBVIOUS
<1>2. b - x \in Below
    <2>1. x \in Nat /\ b - x \in Nat /\ b - (b - x) = x
        BY <1>1
    <2>2. QED
        BY <1>1, <2>1
<1>3. PICK n \in Below : \A m \in Below : n <= m
    BY <1>2, SmallestExists
<1>4. b - n \in S
    OBVIOUS
<1>5. ASSUME NEW y \in S PROVE y <= b - n
    <2>1. y \in Nat /\ b - y \in Nat /\ b - (b - y) = y
        BY <1>5
    <2>2. b - y \in Below
        BY <1>5, <2>1
    <2>3. n <= b - y
        BY <1>3, <2>2
    <2>4. QED
        BY <2>1, <2>3
<1>. DEFINE Largest(z) == z \in S /\ \A y \in S : z >= y
<1>6. \E z : Largest(z)
    BY <1>4, <1>5
<1>7. Max(S) = CHOOSE z \in S : \A y \in S : z >= y
    BY DEF Max
<1>8. Max(S) \in S /\ \A y \in S : Max(S) >= y
    BY <1>6, <1>7, Zenon
<1>9. QED
    BY <1>8

LEMMA OrderedGrows ==
    ASSUME NEW h, Ordered(h), NEW r \in Reading, r.at >= 1,
           Len(h) > 0 => h[Len(h)].at < r.at
    PROVE  Ordered(Append(h, r))
<1>1. h \in Seq(Reading) /\ Len(h) \in Nat
    BY DEF Ordered
<1>. PICK n \in Nat : n = Len(h)
    BY <1>1
<1>. PICK g : g = Append(h, r)
    OBVIOUS
<1>2. /\ g \in Seq(Reading) /\ Len(g) = n + 1 /\ g[n + 1] = r
      /\ \A i \in 1 .. n : g[i] = h[i]
    BY <1>1, AppendProperties
<1>3. ASSUME NEW i \in 1 .. n + 1 PROVE g[i].at >= 1
    BY <1>2, <1>3 DEF Ordered
<1>4. ASSUME NEW i \in 1 .. n + 1, NEW j \in 1 .. n + 1, i < j
      PROVE  g[i].at < g[j].at
    <2>1. i \in 1 .. n /\ g[i] = h[i]
        BY <1>2, <1>4
    <2>2. CASE j \in 1 .. n
        BY <1>2, <1>4, <2>1, <2>2 DEF Ordered, InOrder
    <2>3. CASE j = n + 1
        <3>1. h[n].at < r.at /\ n \in 1 .. n
            BY <2>1
        <3>0. h[i] \in Reading /\ h[n] \in Reading
            BY <1>1, <2>1, <3>1
        <3>2. h[i].at \in Nat /\ h[n].at \in Nat /\ r.at \in Nat
            BY <3>0 DEF Reading
        <3>3. i = n \/ h[i].at < h[n].at
            BY <2>1, <3>1 DEF Ordered, InOrder
        <3>4. QED
            BY <1>2, <2>1, <2>3, <3>1, <3>2, <3>3
    <2>4. QED
        BY <1>4, <2>2, <2>3
<1>5. QED
    BY <1>2, <1>3, <1>4 DEF Ordered, InOrder

LEMMA WithinKeepsOrder ==
    ASSUME NEW h, Ordered(h)
    PROVE  Ordered(Within(h))
<1>1. h \in Seq(Reading) /\ Len(h) \in Nat /\ MaxPoints \in Nat
    BY TapeAssumption DEF Ordered
<1>2. CASE Len(h) > MaxPoints
    <2>. PICK m \in Nat : m = Len(h) - MaxPoints
        BY <1>1, <1>2
    <2>. PICK n \in Nat : n = Len(h)
        BY <1>1
    <2>. DEFINE g == SubSeq(h, m + 1, n)
    <2>1. Within(h) = g
        BY <1>1, <1>2 DEF Within, Capped
    <2>2. g \in Seq(Reading) /\ Len(g) = n - m
        BY <1>1, <1>2, SubSeqProperties
    <2>3. \A i \in 1 .. n - m : g[i] = h[i + m]
        BY <1>1, <1>2, SubSeqProperties
    <2>. HIDE DEF g
    <2>4. ASSUME NEW i \in 1 .. Len(g) PROVE g[i] = h[m + i] /\ m + i \in 1 .. n
        <3>1. i \in 1 .. n - m /\ m + i = i + m /\ m + i \in 1 .. n
            BY <1>1, <1>2, <2>2
        <3>2. QED
            BY <2>3, <3>1
    <2>5. ASSUME NEW i \in 1 .. Len(g), NEW j \in 1 .. Len(g), i < j
          PROVE  g[i].at < g[j].at
        <3>1. m + i < m + j
            BY <2>5
        <3>2. QED
            BY <2>4, <3>1 DEF Ordered, InOrder
    <2>6. QED
        BY <2>1, <2>2, <2>4, <2>5 DEF Ordered, InOrder
<1>3. CASE ~(Len(h) > MaxPoints)
    BY <1>3 DEF Within
<1>4. QED
    BY <1>2, <1>3

LEMMA TickKeepsOrder ==
    ASSUME NEW h, Ordered(h), NEW p \in Nat, NEW t \in Nat
    PROVE  Ordered(AppendLiveTick(h, p, t))
<1>1. h \in Seq(Reading) /\ Len(h) \in Nat
    BY DEF Ordered
<1>2. CASE p <= 0 \/ t <= 0
    BY <1>2 DEF AppendLiveTick
<1>. SUFFICES ASSUME p > 0, t > 0 PROVE Ordered(AppendLiveTick(h, p, t))
    BY <1>2
<1>. PICK r : r = [price |-> p, at |-> t]
    OBVIOUS
<1>3. r \in Reading /\ r.at = t
    BY DEF Reading
<1>4. CASE h = << >>
    <2>1. Ordered(<< r >>)
        BY <1>3 DEF Ordered, InOrder
    <2>2. QED
        BY <1>4, <2>1 DEF AppendLiveTick
<1>5. CASE h # << >>
    <2>1. Len(h) > 0 /\ Len(h) \in 1 .. Len(h)
        BY <1>1, <1>5
    <2>. PICK last : last = h[Len(h)]
        OBVIOUS
    <2>0. Last(h) = last /\ last \in Reading
        BY <1>1, <2>1 DEF Last
    <2>2. Last(h) = last /\ last \in Reading /\ last.at \in Nat
        BY <2>0 DEF Reading
    <2>3. CASE last.at < t
        <3>1. Ordered(Append(h, r))
            BY <1>3, <2>3, OrderedGrows
        <3>2. QED
            BY <1>5, <2>2, <2>3, <3>1, WithinKeepsOrder DEF AppendLiveTick
    <2>4. CASE last.at = t
        <3>. PICK g : g = [h EXCEPT ![Len(h)] = r]
            OBVIOUS
        <3>1. g \in Seq(Reading) /\ Len(g) = Len(h)
              /\ \A i \in 1 .. Len(h) : g[i].at = h[i].at
            BY <1>1, <1>3, <2>1, <2>4, ExceptSeq
        <3>2. Ordered(g)
            BY <1>1, <3>1 DEF Ordered, InOrder
        <3>3. QED
            BY <1>5, <2>2, <2>4, <3>2 DEF AppendLiveTick
    <2>5. CASE last.at > t /\ p # last.price
        <3>. PICK q : q = [price |-> p, at |-> last.at + 1]
            OBVIOUS
        <3>1. q \in Reading /\ q.at = last.at + 1
            BY <2>2 DEF Reading
        <3>2. Ordered(Append(h, q))
            BY <2>2, <3>1, OrderedGrows
        <3>3. QED
            BY <1>5, <2>2, <2>5, <3>2, WithinKeepsOrder DEF AppendLiveTick
    <2>6. CASE last.at > t /\ p = last.price
        BY <1>5, <2>2, <2>6 DEF AppendLiveTick
    <2>7. QED
        BY <2>2, <2>3, <2>4, <2>5, <2>6
<1>6. QED
    BY <1>4, <1>5


(* Sorting a map's entries by their moments is a recursive function that   *)
(* exists, and keeps them in order.                                        *)
EntriesUpTo(f, prices, n) ==
    f = [t \in 0 .. n |->
            IF t = 0 THEN << >>
            ELSE IF t \in DOMAIN prices THEN Append(f[t - 1], [price |-> prices[t], at |-> t])
            ELSE f[t - 1]]

EntryPut(h, prices, t) ==
    IF t \in DOMAIN prices THEN Append(h, [price |-> prices[t], at |-> t]) ELSE h

LEMMA EntriesExist ==
    ASSUME NEW prices, NEW n \in Nat
    PROVE  \E f : EntriesUpTo(f, prices, n)
<1>. DEFINE Body(f, t) == IF t = 0 THEN << >> ELSE EntryPut(f[t - 1], prices, t)
            Has == {k \in Nat : \E f : f = [t \in 0 .. k |-> Body(f, t)]}
<1>1. 0 \in Has
    <2>1. [t \in 0 .. 0 |-> << >>] = [t \in 0 .. 0 |-> Body([s \in 0 .. 0 |-> << >>], t)]
        OBVIOUS
    <2>2. QED
        BY <2>1
<1>2. ASSUME NEW k \in Nat, k \in Has PROVE k + 1 \in Has
    <2>1. PICK f : f = [t \in 0 .. k |-> Body(f, t)]
        BY <1>2
    <2>. DEFINE g == [t \in 0 .. (k + 1) |->
                         IF t = k + 1 THEN EntryPut(f[k], prices, k + 1) ELSE f[t]]
    <2>2. ASSUME NEW t \in 0 .. (k + 1) PROVE g[t] = Body(g, t)
        <3>1. CASE t = k + 1
            BY <3>1
        <3>2. CASE t \in 0 .. k /\ t # 0
            <4>1. f[t] = EntryPut(f[t - 1], prices, t)
                BY <2>1, <3>2
            <4>2. g[t] = f[t] /\ g[t - 1] = f[t - 1]
                BY <3>2
            <4>3. QED
                BY <4>1, <4>2, <3>2
        <3>3. CASE t = 0
            BY <3>3, <2>1
        <3>4. QED
            BY <3>1, <3>2, <3>3
    <2>3. g = [t \in 0 .. (k + 1) |-> Body(g, t)]
        BY <2>2
    <2>4. \E z : z = [t \in 0 .. (k + 1) |-> Body(z, t)]
        <3>. WITNESS g
        <3>. QED
            BY <2>3
    <2>5. QED
        BY <2>4
<1>3. Nat \subseteq Has
    <2>. HIDE DEF Has
    <2>1. QED
        BY <1>1, <1>2, SetInduction
<1>4. PICK f : f = [t \in 0 .. n |-> Body(f, t)]
    BY <1>3
<1>5. EntriesUpTo(f, prices, n)
    BY <1>4 DEF EntriesUpTo, EntryPut
<1>6. QED
    BY <1>5

LEMMA EntriesOrdered ==
    ASSUME NEW b \in Nat, NEW times \in SUBSET (1 .. b), NEW prices \in [times -> Nat]
    PROVE  Ordered(Entries(prices))
<1>1. Max(DOMAIN prices \cup {0}) \in Nat
    <2>. PICK S : S = DOMAIN prices \cup {0}
        OBVIOUS
    <2>0. S \in SUBSET (0 .. b) /\ S # {}
        OBVIOUS
    <2>1. Max(S) \in S
        BY <2>0, LargestOf
    <2>2. S \subseteq Nat
        BY <2>0
    <2>3. QED
        BY <2>1, <2>2
<1>. PICK n \in Nat : n = Max(DOMAIN prices \cup {0})
    BY <1>1
<1>. DEFINE F == CHOOSE f : EntriesUpTo(f, prices, n)
<1>2. EntriesUpTo(F, prices, n)
    <2>1. \E f : EntriesUpTo(f, prices, n)
        BY EntriesExist
    <2>2. QED
        BY <2>1, Zenon
<1>3. Entries(prices) = F[n]
    BY Zenon DEF Entries, EntriesUpTo
<1>. HIDE DEF F
<1>. PICK f : f = F
    OBVIOUS
<1>4. f = [t \in 0 .. n |-> IF t = 0 THEN << >> ELSE EntryPut(f[t - 1], prices, t)]
    BY <1>2 DEF EntriesUpTo, EntryPut
<1>. DEFINE Before(h, t) == Ordered(h) /\ (Len(h) > 0 => h[Len(h)].at <= t)
            Done == {t \in Nat : t <= n => Before(f[t], t)}
<1>5. 0 \in Done
    <2>1. f[0] = << >>
        BY <1>4
    <2>2. Ordered(<< >>)
        BY DEF Ordered, InOrder
    <2>3. QED
        BY <2>1, <2>2
<1>6. ASSUME NEW t \in Nat, t \in Done PROVE t + 1 \in Done
    <2>. SUFFICES ASSUME t + 1 <= n PROVE Before(f[t + 1], t + 1)
        OBVIOUS
    <2>. PICK u \in Nat : u = t + 1
        OBVIOUS
    <2>1. f[u] = EntryPut(f[u - 1], prices, u) /\ u - 1 = t
        <3>1. u \in 0 .. n /\ u # 0 /\ u - 1 = t
            OBVIOUS
        <3>2. QED
            BY <1>4, <3>1
    <2>. PICK h : h = f[t]
        OBVIOUS
    <2>2. Before(h, t)
        BY <1>6
    <2>3. h \in Seq(Reading) /\ Len(h) \in Nat
        BY <2>2 DEF Ordered
    <2>4. Len(h) > 0 => h[Len(h)].at \in Nat
        <3>1. Len(h) > 0 => h[Len(h)] \in Reading
            BY <2>3
        <3>2. QED
            BY <3>1 DEF Reading
    <2>5. CASE u \in times
        <3>. PICK p \in Nat : p = prices[u]
            BY <2>5
        <3>. PICK r : r = [price |-> p, at |-> u]
            OBVIOUS
        <3>1. r \in Reading /\ r.at = u
            BY DEF Reading
        <3>2. Len(h) > 0 => h[Len(h)].at < r.at
            BY <2>2, <2>4, <3>1
        <3>3. Ordered(Append(h, r))
            BY <2>2, <3>1, <3>2, OrderedGrows
        <3>4. Append(h, r)[Len(Append(h, r))] = r
            BY <2>3, <3>1, AppendProperties
        <3>5. f[u] = Append(h, r)
            BY <2>1, <2>5 DEF EntryPut
        <3>6. QED
            BY <3>1, <3>3, <3>4, <3>5
    <2>6. CASE u \notin times
        <3>1. f[u] = h
            BY <2>1, <2>6 DEF EntryPut
        <3>2. QED
            BY <2>2, <2>4, <3>1
    <2>7. QED
        BY <2>5, <2>6
<1>7. Nat \subseteq Done
    <2>. HIDE DEF Done
    <2>1. QED
        BY <1>5, <1>6, SetInduction
<1>8. n \in Done
    BY <1>7
<1>9. Ordered(f[n])
    BY <1>8
<1>10. QED
    BY <1>3, <1>9


LEMMA MergeKeepsOrder ==
    ASSUME NEW h, Ordered(h), NEW rows \in Seq(Told)
    PROVE  Ordered(MergeHistory(h, rows))
<1>1. h \in Seq(Reading) /\ Len(h) \in Nat /\ Len(rows) \in Nat /\ LastTick + 1 \in Nat
    BY TapeAssumption DEF Ordered
<1>. DEFINE good == {i \in DOMAIN rows : rows[i].price > 0 /\ rows[i].at > 0}
            At(t) == {i \in good : rows[i].at = t}
            times == {rows[i].at : i \in good} \cup {h[i].at : i \in DOMAIN h}
            Of(t) == IF At(t) # {} THEN rows[Max(At(t))].price
                     ELSE (CHOOSE r \in ToSet(h) : r.at = t).price
<1>2. ASSUME NEW i \in 1 .. Len(h)
      PROVE  h[i].at \in Nat /\ h[i].at >= 1 /\ h[i].price \in Nat
    <2>1. h[i] \in Reading
        BY <1>1, <1>2
    <2>2. QED
        BY <1>2, <2>1 DEF Reading, Ordered
<1>3. ASSUME NEW i \in 1 .. Len(rows)
      PROVE  rows[i].at \in Nat /\ rows[i].at <= LastTick + 1 /\ rows[i].price \in Nat
    <2>1. rows[i] \in Told
        BY <1>3
    <2>2. QED
        BY <1>1, <2>1 DEF Told
<1>4. \E b \in Nat : times \in SUBSET (1 .. b)
    <2>1. \E b \in Nat : \A i \in 1 .. Len(h) : h[i].at <= b
        <3>1. CASE Len(h) = 0
            BY <3>1
        <3>2. CASE Len(h) # 0
            <4>1. Len(h) \in 1 .. Len(h)
                BY <1>1, <3>2
            <4>2. h[Len(h)].at \in Nat
                BY <1>2, <4>1
            <4>3. ASSUME NEW i \in 1 .. Len(h) PROVE h[i].at <= h[Len(h)].at
                <5>1. i = Len(h) \/ i < Len(h)
                    BY <1>1
                <5>2. i < Len(h) => h[i].at < h[Len(h)].at
                    BY <4>1 DEF Ordered, InOrder
                <5>3. QED
                    BY <1>2, <4>2, <5>1, <5>2
            <4>4. QED
                BY <4>2, <4>3
        <3>3. QED
            BY <3>1, <3>2
    <2>2. PICK b \in Nat : \A i \in 1 .. Len(h) : h[i].at <= b
        BY <2>1
    <2>. PICK c \in Nat : c = b + (LastTick + 1)
        BY <1>1
    <2>3. b <= c /\ LastTick + 1 <= c
        BY <1>1
    <2>4. ASSUME NEW i \in good PROVE rows[i].at \in 1 .. c
        <3>1. i \in 1 .. Len(rows) /\ rows[i].at > 0
            BY <1>1
        <3>2. rows[i].at \in Nat /\ rows[i].at <= LastTick + 1
            BY <1>3, <3>1
        <3>3. QED
            BY <1>1, <2>3, <3>1, <3>2
    <2>5. ASSUME NEW i \in DOMAIN h PROVE h[i].at \in 1 .. c
        <3>1. i \in 1 .. Len(h)
            BY <1>1
        <3>2. h[i].at \in Nat /\ h[i].at >= 1 /\ h[i].at <= b
            BY <1>2, <2>2, <3>1
        <3>3. QED
            BY <2>3, <3>2
    <2>6. times \in SUBSET (1 .. c)
        BY <2>4, <2>5
    <2>7. QED
        BY <2>6
<1>5. ASSUME NEW t \in times PROVE Of(t) \in Nat
    <2>1. CASE At(t) # {}
        <3>. PICK S : S = At(t)
            OBVIOUS
        <3>0. S \subseteq 1 .. Len(rows) /\ S # {}
            BY <1>1, <2>1
        <3>. HIDE DEF At
        <3>1. S \in SUBSET (0 .. Len(rows))
            BY <1>1, <3>0
        <3>2. Max(S) \in S
            BY <1>1, <3>0, <3>1, LargestOf
        <3>3. Max(At(t)) \in 1 .. Len(rows)
            BY <3>0, <3>2
        <3>4. QED
            BY <1>3, <2>1, <3>3
    <2>2. CASE At(t) = {}
        <3>1. \E i \in DOMAIN h : t = h[i].at
            <4>1. \A i \in good : rows[i].at = t => i \in At(t)
                OBVIOUS
            <4>2. QED
                BY <1>5, <2>2, <4>1
        <3>2. \E r \in ToSet(h) : r.at = t
            BY <3>1 DEF ToSet
        <3>. DEFINE r == CHOOSE r \in ToSet(h) : r.at = t
        <3>3. r \in ToSet(h)
            BY <3>2, Zenon
        <3>4. r \in Reading
            <4>. HIDE DEF r
            <4>1. PICK i \in DOMAIN h : r = h[i]
                BY <3>3 DEF ToSet
            <4>2. QED
                BY <1>1, <4>1
        <3>5. r.price \in Nat
            BY <3>4 DEF Reading
        <3>6. Of(t) = r.price
            BY <2>2
        <3>. QED
            BY <3>5, <3>6
    <2>3. QED
        BY <2>1, <2>2
<1>. DEFINE prices == [t \in times |-> Of(t)]
<1>6. MergeHistory(h, rows) = Within(Entries(prices))
    BY Zenon DEF MergeHistory
<1>. HIDE DEF Of, times
<1>7. prices \in [times -> Nat]
    BY <1>5
<1>. HIDE DEF prices
<1>8. Ordered(Entries(prices))
    BY <1>4, <1>7, EntriesOrdered
<1>9. QED
    BY <1>6, <1>8, WithinKeepsOrder

\* The reading at or before midnight is the last one of them, and the
\* nearest one after midnight is the first of all.
LEMMA OpeningIs ==
    ASSUME NEW h, Ordered(h), h # << >>, NEW midnight \in Nat
    PROVE  Opening(h, midnight) =
              IF Head(h).at > midnight THEN Head(h).price
              ELSE (CHOOSE r \in ToSet(h) :
                       /\ r.at <= midnight
                       /\ \A q \in ToSet(h) : q.at <= midnight => q.at <= r.at).price
<1>1. h \in Seq(Reading) /\ Len(h) \in Nat /\ 1 \in 1 .. Len(h) /\ Head(h) = h[1]
    BY DEF Ordered
<1>. PICK n \in Nat : n = Len(h) /\ 1 \in 1 .. n /\ DOMAIN h = 1 .. n
    BY <1>1
<1>2. ASSUME NEW i \in 1 .. n PROVE h[i].at \in Nat
    <2>1. h[i] \in Reading
        BY <1>1, <1>2
    <2>2. QED
        BY <2>1 DEF Reading
<1>3. ASSUME NEW i \in 1 .. n, NEW j \in 1 .. n, i < j PROVE h[i].at < h[j].at
    BY <1>3 DEF Ordered, InOrder
<1>. DEFINE before == {i \in DOMAIN h : h[i].at <= midnight}
            Away(i) == IF h[i].at > midnight THEN h[i].at - midnight ELSE midnight - h[i].at
            nearest == {i \in DOMAIN h : \A j \in DOMAIN h : Away(i) <= Away(j)}
<1>4. Opening(h, midnight) = IF before # {} THEN h[Max(before)].price ELSE h[Min(nearest)].price
    BY Zenon DEF Opening
<1>5. CASE h[1].at > midnight
    <2>1. ASSUME NEW i \in 1 .. n PROVE h[i].at > midnight /\ (i # 1 => h[1].at < h[i].at)
        <3>1. i = 1 \/ 1 < i
            OBVIOUS
        <3>2. QED
            BY <1>2, <1>3, <1>5, <3>1
    <2>2. before = {}
        BY <1>2, <2>1
    <2>3. \A i \in 1 .. n : i \in nearest <=> i = 1
        <3>1. \A i \in 1 .. n : Away(i) = h[i].at - midnight
            BY <2>1
        <3>2. \A j \in 1 .. n : Away(1) <= Away(j)
            BY <1>2, <2>1, <3>1
        <3>3. \A i \in 1 .. n : i # 1 => ~(Away(i) <= Away(1))
            BY <1>2, <2>1, <3>1
        <3>. HIDE DEF Away
        <3>4. QED
            BY <3>2, <3>3
    <2>4. nearest = {1}
        <3>1. nearest \subseteq 1 .. n
            OBVIOUS
        <3>. HIDE DEF nearest
        <3>2. QED
            BY <2>3, <3>1
    <2>5. Min({1}) = 1
        <3>1. \A x \in {1} : (\A y \in {1} : x <= y) => x = 1
            OBVIOUS
        <3>2. 1 \in {1} /\ \A y \in {1} : 1 <= y
            OBVIOUS
        <3>3. QED
            BY <3>1, <3>2, Zenon DEF Min
    <2>. HIDE DEF before, nearest
    <2>6. QED
        BY <1>1, <1>4, <1>5, <2>2, <2>4, <2>5
<1>6. CASE ~(h[1].at > midnight)
    <2>. DEFINE Best(r) == /\ r.at <= midnight
                           /\ \A q \in ToSet(h) : q.at <= midnight => q.at <= r.at
    <2>. PICK S : S = before
        OBVIOUS
    <2>0. S \in SUBSET (0 .. n)
        OBVIOUS
    <2>1. 1 \in S
        BY <1>2, <1>6
    <2>2. Max(S) \in S /\ \A i \in S : i <= Max(S)
        BY <2>0, <2>1, LargestOf
    <2>. PICK m \in 1 .. n : m = Max(S)
        BY <2>2
    <2>3. h[m].at <= midnight /\ \A i \in 1 .. n : h[i].at <= midnight => i <= m
        BY <2>2
    <2>4. ASSUME NEW i \in 1 .. n, h[i].at <= midnight PROVE h[i].at <= h[m].at
        <3>1. i <= m
            BY <2>3, <2>4
        <3>2. i = m \/ i < m
            BY <3>1
        <3>3. QED
            BY <1>2, <1>3, <3>2
    <2>5. h[m] \in ToSet(h) /\ Best(h[m])
        BY <2>3, <2>4 DEF ToSet
    <2>6. ASSUME NEW r \in ToSet(h), Best(r) PROVE r = h[m]
        <3>1. PICK i \in 1 .. n : r = h[i]
            BY DEF ToSet
        <3>2. h[i].at <= midnight /\ h[m].at <= h[i].at
            BY <2>3, <2>5, <2>6, <3>1
        <3>3. i <= m
            BY <2>3, <3>2
        <3>4. ~(i < m)
            BY <1>2, <1>3, <3>2
        <3>5. i = m
            BY <3>3, <3>4
        <3>6. QED
            BY <3>1, <3>5
    <2>. HIDE DEF Best
    <2>7. (CHOOSE r \in ToSet(h) : Best(r)) = h[m]
        BY <2>5, <2>6, Zenon
    <2>. PICK chosen : chosen = CHOOSE r \in ToSet(h) : Best(r)
        OBVIOUS
    <2>8. chosen = CHOOSE r \in ToSet(h) :
                      /\ r.at <= midnight
                      /\ \A q \in ToSet(h) : q.at <= midnight => q.at <= r.at
        BY Zenon DEF Best
    <2>9. before # {} /\ Max(before) = m
        BY <2>1
    <2>. HIDE DEF before, nearest
    <2>10. Opening(h, midnight) = chosen.price
        BY <1>4, <2>7, <2>9
    <2>11. QED
        BY <1>1, <1>6, <2>8, <2>10, Zenon
<1>7. QED
    BY <1>5, <1>6

LEMMA TapeStart == TapeInit => TapeKept
<1>. SUFFICES ASSUME TapeInit PROVE TapeKept
    OBVIOUS
<1>1. LastTick + 1 \in Nat /\ 1 \in 1 .. LastTick + 1 /\ 0 \in 0 .. LastTick + 1
    BY TapeAssumption
<1>2. NoPrice \in Told
    BY <1>1 DEF NoPrice, Told
<1>3. Ordered(<< >>)
    BY DEF Ordered, InOrder
<1>4. << >> \in Seq(Told) /\ << >> \in Seq(Seq(Told))
    OBVIOUS
<1>5. QED
    BY <1>1, <1>2, <1>3, <1>4 DEF TapeInit, TapeKept

LEMMA TapeStep == TapeKept /\ [TapeNext]_tapeVars => TapeKept'
<1>. SUFFICES ASSUME TapeKept, [TapeNext]_tapeVars PROVE TapeKept'
    OBVIOUS
<1>0. /\ clock \in 1 .. LastTick + 1 /\ feed \in Told /\ cache \in Told
      /\ record \in Seq(Told) /\ bulk \in Seq(Told) /\ answers \in Seq(Seq(Told))
      /\ Ordered(readings)
    BY DEF TapeKept
<1>1. CASE ClockTicks
    <2>1. clock' \in 1 .. LastTick + 1
        BY <1>0, <1>1, TapeAssumption DEF ClockTicks
    <2>2. QED
        BY <1>1, <2>1 DEF ClockTicks, TapeKept, Told
<1>2. ASSUME NEW p \in Prices, Report(p) PROVE TapeKept'
    <2>1. p \in Nat /\ clock \in 0 .. LastTick + 1
        BY <1>0, TapeAssumption
    <2>2. feed' \in Told
        BY <1>2, <2>1 DEF Report, Told
    <2>3. record' \in Seq(Told)
        <3>. PICK f \in Told : f = feed'
            BY <2>2
        <3>1. Append(record, f) \in Seq(Told)
            BY <1>0
        <3>2. CASE record # << >>
            <4>1. Len(record) \in 1 .. Len(record)
                BY <1>0, <3>2
            <4>2. [record EXCEPT ![Len(record)] = f] \in Seq(Told)
                BY <1>0, <4>1, ExceptSeq
            <4>3. QED
                BY <1>2, <3>1, <4>2 DEF Report
        <3>3. CASE record = << >>
            BY <1>2, <3>1, <3>3 DEF Report
        <3>4. QED
            BY <3>2, <3>3
    <2>4. QED
        BY <1>2, <2>2, <2>3 DEF Report, TapeKept
<1>3. CASE FetchAllPrices
    <2>1. bulk' \in Seq(Told)
        BY <1>0, <1>3 DEF FetchAllPrices
    <2>2. QED
        BY <1>3, <2>1 DEF FetchAllPrices, TapeKept
<1>4. ASSUME NEW i \in DOMAIN bulk, AllPricesArrive(i) PROVE TapeKept'
    <2>0. i \in 1 .. Len(bulk) /\ bulk[i] \in Told
        BY <1>0, <1>4
    <2>1. bulk' \in Seq(Told)
        BY <1>0, <1>4, <2>0, RemoveAtTyped DEF AllPricesArrive
    <2>2. bulk[i].price \in Nat /\ bulk[i].at \in Nat
        BY <2>0, TapeAssumption DEF Told
    <2>3. Ordered(AppendLiveTick(readings, bulk[i].price, bulk[i].at))
        BY <1>0, <2>2, TickKeepsOrder
    <2>4. CASE cache' = bulk[i] /\ readings' = AppendLiveTick(readings, bulk[i].price, bulk[i].at)
        BY <1>4, <2>0, <2>1, <2>3, <2>4 DEF AllPricesArrive, TapeKept
    <2>5. CASE UNCHANGED <<cache, readings>>
        BY <1>4, <2>1, <2>5 DEF AllPricesArrive, TapeKept
    <2>6. QED
        BY <1>4, <2>4, <2>5 DEF AllPricesArrive
<1>5. CASE FetchHistory
    <2>1. answers' \in Seq(Seq(Told))
        BY <1>0, <1>5 DEF FetchHistory
    <2>2. QED
        BY <1>5, <2>1 DEF FetchHistory, TapeKept
<1>6. ASSUME NEW i \in DOMAIN answers, HistoryArrives(i) PROVE TapeKept'
    <2>0. i \in 1 .. Len(answers) /\ answers[i] \in Seq(Told)
        BY <1>0, <1>6
    <2>1. answers' \in Seq(Seq(Told))
        BY <1>0, <1>6, <2>0, RemoveAtTyped DEF HistoryArrives
    <2>2. Ordered(MergeHistory(readings, answers[i]))
        BY <1>0, <2>0, MergeKeepsOrder
    <2>3. readings' = readings \/ readings' = MergeHistory(readings, answers[i])
        BY <1>6 DEF HistoryArrives
    <2>4. Ordered(readings')
        BY <1>0, <2>2, <2>3
    <2>5. QED
        BY <1>6, <2>1, <2>4 DEF HistoryArrives, TapeKept
<1>7. ASSUME NEW w \in Watchers, Watch(w) PROVE TapeKept'
    <2>1. answers' \in Seq(Seq(Told))
        BY <1>0, <1>7 DEF Watch
    <2>2. polling' = TRUE /\ watching' # {}
        BY <1>7 DEF Watch
    <2>3. QED
        BY <1>7, <2>1, <2>2 DEF Watch, TapeKept
<1>8. ASSUME NEW w \in Watchers, Unwatch(w) PROVE TapeKept'
    <2>1. polling' \in BOOLEAN /\ (polling' <=> watching' # {})
        BY <1>8, Zenon DEF Unwatch
    <2>2. QED
        BY <1>8, <2>1 DEF Unwatch, TapeKept
<1>9. CASE UNCHANGED tapeVars
    BY <1>9 DEF tapeVars, TapeKept
<1>10. QED
    BY <1>1, <1>2, <1>3, <1>4, <1>5, <1>6, <1>7, <1>8, <1>9, Zenon DEF TapeNext

(* Whatever order the answers of the two endpoints arrive in, for any      *)
(* prices, capacity and number of components, the history stays in strict  *)
(* order of time, the change shown is from the day's opening, and the      *)
(* market is polled exactly while a component watches it.                  *)
THEOREM TapeStaysSound == TapeSpec => []TapeSound
<1>1. TapeKept => TapeSound
    <2>. SUFFICES ASSUME TapeKept PROVE TapeSound
        OBVIOUS
    <2>1. Ordered(readings) /\ DOMAIN readings = 1 .. Len(readings)
        BY DEF TapeKept, Ordered
    <2>2. ASSUME NEW midnight \in 0 .. LastTick, readings # << >>, PriceShown # 0
          PROVE  ChangeShown(midnight) = PriceShown - Opening(readings, midnight) /\ midnight \in Nat
        BY <2>2, TapeAssumption DEF ChangeShown
    <2>3. ASSUME NEW midnight \in 0 .. LastTick, readings # << >>, PriceShown # 0
          PROVE  ChangeShown(midnight) = PriceShown -
                    IF Head(readings).at > midnight THEN Head(readings).price
                    ELSE (CHOOSE r \in ToSet(readings) :
                             /\ r.at <= midnight
                             /\ \A q \in ToSet(readings) : q.at <= midnight => q.at <= r.at).price
        <3>1. Opening(readings, midnight) =
                 IF Head(readings).at > midnight THEN Head(readings).price
                 ELSE (CHOOSE r \in ToSet(readings) :
                          /\ r.at <= midnight
                          /\ \A q \in ToSet(readings) : q.at <= midnight => q.at <= r.at).price
            BY <2>1, <2>2, <2>3, OpeningIs
        <3>2. QED
            BY <2>2, <2>3, <3>1, Zenon
    <2>4. \A i, j \in DOMAIN readings : i < j => readings[i].at < readings[j].at
        BY <2>1 DEF Ordered, InOrder
    <2>5. polling <=> watching # {}
        BY DEF TapeKept
    <2>6. QED
        BY <2>3, <2>4, <2>5, Zenon DEF TapeSound
<1>2. TapeKept /\ [TapeNext]_tapeVars => TapeKept'
    BY TapeStep
<1>3. QED
    BY <1>1, <1>2, TapeStart, PTL DEF TapeSpec
=============================================================================
