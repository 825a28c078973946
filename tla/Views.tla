------------------------------- MODULE Views -------------------------------
(***************************************************************************)
(* What the pages of the web application show of state that lives          *)
(* elsewhere: accounts on chain, the keeper's HTTP API, the spin service.  *)
(* Every hook is an effect of the same shape: it reads once when it        *)
(* starts, again at every tick of a timer, and stores whatever answer      *)
(* arrives, in whatever order answers arrive.  The hooks differ in what    *)
(* restarts them, whether answers of an earlier start are still taken,     *)
(* what a failed read leaves behind, and what is shown without a wallet.   *)
(* A behaviour is that of one hook; hooks share nothing they write.        *)
(*                                                                         *)
(* A value is a version number; a wallet's account does not exist at the   *)
(* versions in Closed, before it is opened and after it is closed.  Left   *)
(* out: loading flags and error texts, and the subscription that some      *)
(* hooks add to the timer, which is one more read at any moment.           *)
(***************************************************************************)
EXTENDS Naturals, Sequences, SequencesExt

CONSTANTS
    Wallets,      \* keys that may be connected
    Markets,      \* markets that may be selected
    Shared,       \* the one subject of a hook that depends on neither
    Nobody,       \* no wallet connected
    MaxVersion,   \* bound on the changes of what is read
    Closed,       \* versions at which a wallet's account does not exist
    MaxReads,     \* bound on reads under way at once
    MaxSwitches,  \* bound on restarts of the effect
    MaxFaults     \* bound on failed reads

ASSUME ViewsAssumption == Markets # {} /\ MaxVersion \in Nat

VARIABLES hook, subject, truth, shown, reads, switches, faults

viewVars == <<hook, subject, truth, shown, reads, switches, faults>>

Subjects == Wallets \cup Markets \cup {Shared}

-----------------------------------------------------------------------------
(* The hooks.  "of" is what the effect depends on; "cancels": its clean-up *)
(* drops the answers still on their way; "repeats": it has a timer;        *)
(* "error": a failed read keeps or forgets what is shown; "alone": so does *)
(* the loss of the wallet; "pieces": reads made one after the other, each  *)
(* shown at once.                                                          *)

UseMarginAccount ==
    [name |-> "useMarginAccount", of |-> Wallets, cancels |-> TRUE, repeats |-> TRUE,
     error |-> "keep", alone |-> "forget", pieces |-> 1]
UseLpPosition == [UseMarginAccount EXCEPT !.name = "useLpPosition", !.error = "forget"]
UseWalletUsdc == [UseMarginAccount EXCEPT !.name = "useWalletUsdc", !.error = "forget"]
SolOfMenu     == [UseMarginAccount EXCEPT !.name = "MobileMenu"]
\* The SOL balance is shown before the token account's balance is asked for.
UseWalletBalances == [UseMarginAccount EXCEPT !.name = "useWalletBalances", !.pieces = 2]

UseProtocolState == [UseMarginAccount EXCEPT !.name = "useProtocolState", !.of = {Shared}]
UseLiquidityPool == [UseProtocolState EXCEPT !.name = "useLiquidityPool"]
VaultBalances    == [UseProtocolState EXCEPT !.name = "fetchVaultBalances"]
\* The trading fees of a week over the pool as it was when they were asked for.
BlendedApr       == [UseProtocolState EXCEPT !.name = "fetchApr", !.of = Markets,
                                             !.repeats = FALSE, !.error = "forget"]
UseMarketState   == [UseProtocolState EXCEPT !.name = "useMarketState", !.of = Markets]

\* Reads of the keeper's API: no clean-up drops a late answer.
UseProtocolStats == [UseProtocolState EXCEPT !.name = "useProtocolStats", !.cancels = FALSE]
\* The prices of the static site, read from the oracle accounts.
SyncPrices       == [UseProtocolStats EXCEPT !.name = "syncPrices"]
UseLeaderboard   == [UseProtocolStats EXCEPT !.name = "useLeaderboard"]
UsePrizeTable    == [UseProtocolStats EXCEPT !.name = "prize-pool"]
UseStats         == [UseProtocolStats EXCEPT !.name = "useStats", !.of = Markets]
UseHealthData    == [UseStats EXCEPT !.name = "useHealthData"]
UsePriceHistory  == [UseStats EXCEPT !.name = "usePriceHistory"]
CardInfo         == [UseStats EXCEPT !.name = "card-info", !.repeats = FALSE, !.error = "forget"]
UseTradeHistory  == [UseStats EXCEPT !.name = "useTradeHistory", !.of = Wallets]
SpinEligibility  == [UseTradeHistory EXCEPT !.name = "spin-eligible", !.alone = "keep"]
SpinHistory      == [SpinEligibility EXCEPT !.name = "spins", !.repeats = FALSE]
\* The streak in the banner; that a spin is free is never taken back.
SpinBanner       == [SpinEligibility EXCEPT !.name = "SpinEligibilityBanner"]
FetchReferral    == [UseTradeHistory EXCEPT !.name = "fetchReferral", !.repeats = FALSE,
                                            !.error = "forget"]
SendBalances     == [SpinHistory EXCEPT !.name = "SendModal", !.error = "forget"]

Hooks ==
    {UseMarginAccount, UseLpPosition, UseWalletUsdc, SolOfMenu, UseWalletBalances,
     UseProtocolState, UseLiquidityPool, VaultBalances, UseMarketState, UseProtocolStats,
     UseLeaderboard, UsePrizeTable, UseStats, UseHealthData, UsePriceHistory, CardInfo,
     UseTradeHistory, SpinEligibility, SpinHistory, FetchReferral, BlendedApr, SyncPrices,
     SpinBanner, SendBalances}

-----------------------------------------------------------------------------
Nothing == [of |-> Nobody, version |-> 0]
Blank == [p \in 1..hook.pieces |-> Nothing]

\* What a read made now will answer; an account that does not exist answers
\* with nothing.
Seen(s) ==
    IF s \in Wallets /\ truth[s] \in Closed THEN Nothing
    ELSE [of |-> s, version |-> truth[s]]

NewRead(s) == [piece |-> 1, of |-> s, answer |-> Seen(s)]

\* A clean-up that forgets to drop the reads under way.
AlwaysPending == reads

Pending == IF hook.cancels THEN <<>> ELSE reads

\* The change of wallet or market runs the clean-up and starts the effect
\* again: without a wallet it only resets what is shown, otherwise it reads.
Select(s) ==
    /\ switches < MaxSwitches
    /\ s # subject
    /\ s \in hook.of \/ (s = Nobody /\ hook.of = Wallets)
    /\ hook.of = Wallets => Nobody \in {s, subject}
    /\ subject' = s
    /\ switches' = switches + 1
    /\ reads' = IF s = Nobody THEN Pending ELSE Append(Pending, NewRead(s))
    /\ shown' = IF s = Nobody /\ hook.alone = "forget" THEN Blank ELSE shown
    /\ UNCHANGED <<hook, truth, faults>>

\* A timer that reads only as long as nothing is shown.
PollUntilShown ==
    /\ hook.repeats /\ subject # Nobody /\ shown[1].version = 0
    /\ Len(reads) < MaxReads
    /\ reads' = Append(reads, NewRead(subject))
    /\ UNCHANGED <<hook, subject, truth, shown, switches, faults>>

Poll ==
    /\ hook.repeats
    /\ subject # Nobody
    /\ Len(reads) < MaxReads
    /\ reads' = Append(reads, NewRead(subject))
    /\ UNCHANGED <<hook, subject, truth, shown, switches, faults>>

\* The form asks for fresh data: the effect starts again (refreshTrigger).
Refresh ==
    /\ hook \in {UseMarginAccount, UseWalletBalances}
    /\ subject # Nobody
    /\ switches < MaxSwitches
    /\ switches' = switches + 1
    /\ reads' = Append(Pending, NewRead(subject))
    /\ UNCHANGED <<hook, subject, truth, shown, faults>>

Without(i) == RemoveAt(reads, i)

\* An answer arrives, of any read under way.
Answer(i) ==
    LET r == reads[i] IN
    /\ shown' = [shown EXCEPT ![r.piece] = r.answer]
    /\ reads' = IF r.piece = hook.pieces THEN Without(i)
                ELSE [reads EXCEPT ![i] = [piece |-> r.piece + 1, of |-> r.of,
                                           answer |-> Seen(r.of)]]
    /\ UNCHANGED <<hook, subject, truth, switches, faults>>

Fail(i) ==
    /\ faults < MaxFaults
    /\ faults' = faults + 1
    /\ reads' = Without(i)
    /\ shown' = IF hook.error = "forget" THEN Blank ELSE shown
    /\ UNCHANGED <<hook, subject, truth, switches>>

\* What is read changes.
Change(s) ==
    /\ truth[s] < MaxVersion
    /\ truth' = [truth EXCEPT ![s] = @ + 1]
    /\ UNCHANGED <<hook, subject, shown, reads, switches, faults>>

-----------------------------------------------------------------------------
ViewsInit ==
    /\ hook \in Hooks
    /\ subject = IF hook.of = Wallets THEN Nobody ELSE CHOOSE s \in hook.of : TRUE
    /\ truth = [s \in Subjects |-> IF s \in hook.of THEN 0 ELSE MaxVersion]
    /\ shown = Blank
    /\ reads = IF subject = Nobody THEN <<>> ELSE <<NewRead(subject)>>
    /\ switches = 0
    /\ faults = 0

ViewsNext ==
    \/ \E s \in Subjects \cup {Nobody} : Select(s)
    \/ \E s \in hook.of : Change(s)
    \/ Poll
    \/ Refresh
    \/ \E i \in 1..Len(reads) : Answer(i) \/ Fail(i)

\* Timers fire and every read is answered sooner or later.
ViewsFairness ==
    /\ WF_viewVars(Poll)
    /\ WF_viewVars(reads # <<>> /\ Answer(1))

ViewsSpec == ViewsInit /\ [][ViewsNext]_viewVars /\ ViewsFairness
-----------------------------------------------------------------------------
(* A hook that cancels never replaces what it shows by the data of a       *)
(* wallet or market that is not selected any more, however late an answer  *)
(* to an earlier selection arrives: the `cancelled` flag of useMarginAccount.ts *)
(* and of the hooks written after it.                                      *)
OnlyOwnAnswers ==
    [][hook.cancels => \A p \in 1..hook.pieces :
            shown'[p].of \in {shown[p].of, subject', Nobody}]_viewVars

(* Once changes and faults have ceased, a hook with a timer shows what     *)
(* there is, whatever answers were lost, late or out of order before:      *)
(* answers carry no sequence number, so an old one may cover a newer one,  *)
(* but not for ever.                                                       *)
Current ==
    hook.repeats /\ subject # Nobody =>
        \A p \in 1..hook.pieces : shown[p] = Seen(subject)

ShownCatchesUp == <>[]Current
=============================================================================
