------------------------------ MODULE Handlers ------------------------------
(***************************************************************************)
(* The table of the forms of the web application: which handlers each      *)
(* component has, what offers them and what they wait for.  Module Forms   *)
(* says how any of them runs.                                              *)
(*                                                                         *)
(* A handler: "from" is the purse it draws on, "field" the input it reads; *)
(* "offer": the amount typed must be positive, or at most what is shown,   *)
(* or something must be shown, or nothing is asked; "cut": the amount is   *)
(* first cut down to what is shown; "takes": the amount, all or nothing of *)
(* the purse; "state": the loading state it takes, if any; "heeds": those  *)
(* that take its button away; "closes": there is nothing left to press     *)
(* once it has succeeded; "stages": what it waits for, in order.           *)
(***************************************************************************)
EXTENDS Naturals

OpenPosition ==
    [name |-> "open", from |-> "free", field |-> "collateral", offer |-> "shown",
     cut |-> FALSE, takes |-> "amount", state |-> "loading", heeds |-> {"loading"},
     closes |-> FALSE, stages |-> <<"land">>]
\* An account of the old format is closed first, after which two seconds pass;
\* then the amount is cut down to the wallet's balance on chain.
DepositCollateral ==
    [OpenPosition EXCEPT !.name = "deposit", !.from = "wallet", !.field = "amount",
        !.offer = "positive", !.stages = <<"format", "reset", "pause", "balance", "land">>]
WithdrawCollateral ==
    [OpenPosition EXCEPT !.name = "withdraw", !.field = "amount", !.offer = "positive",
        !.cut = TRUE, !.stages = <<"account", "land">>]

RowClose ==
    [OpenPosition EXCEPT !.name = "close", !.from = "position", !.field = "none",
        !.offer = "always", !.takes = "all", !.stages = <<"account", "land">>]
RowSetSlTp ==
    [RowClose EXCEPT !.name = "stops", !.takes = "nothing", !.stages = <<"land">>]
RowMargin ==
    [OpenPosition EXCEPT !.name = "margin", !.field = "margin", !.offer = "positive"]

\* The card of the positions page does not take out what would leave too thin a
\* margin.
CardClose        == RowClose
CardSetSlTp      == RowSetSlTp
CardMargin       == RowMargin
CardRemoveMargin == [RowMargin EXCEPT !.name = "remove", !.from = "excess", !.offer = "shown"]

\* The account is looked up twice: for whether it exists, and for its balance.
PoolDeposit ==
    [DepositCollateral EXCEPT !.stages = <<"account", "balance", "land">>]
PoolWithdraw ==
    [OpenPosition EXCEPT !.name = "withdraw", !.from = "shares", !.field = "shares",
        !.stages = <<"account", "land">>]
ClaimFees ==
    [RowClose EXCEPT !.name = "claim", !.from = "fees", !.offer = "owed"]

Register      == [RowClose EXCEPT !.name = "register", !.from = "name", !.stages = <<"land">>]
ClaimReferral == [ClaimFees EXCEPT !.stages = <<"land">>]

Send ==
    [PoolDeposit EXCEPT !.name = "send", !.offer = "shown", !.stages = <<"account", "land">>]

\* The spin is drawn by the service, shown after 1.8 s, and the box can be
\* pressed again 4 s later.
Spin ==
    [ClaimReferral EXCEPT !.name = "spin", !.from = "spin",
        !.stages = <<"land", "shake", "settle">>]

-----------------------------------------------------------------------------
(* The panels of the older trading page, which no page shows any more.     *)

\* A second button, which the first one brings up, must be pressed.
Confirmed(h)  == [h EXCEPT !.field = "confirm", !.offer = "positive"]
StopInputs(h) == [h EXCEPT !.field = "stops", !.offer = "positive"]
\* One field serves to add and to remove.
MarginInput(h) == [h EXCEPT !.field = "margin"]

PanelClose        == Confirmed(RowClose)
PanelSetSlTp      == StopInputs(RowSetSlTp)
PanelAddMargin    == MarginInput([RowMargin EXCEPT !.name = "add"])
PanelRemoveMargin == MarginInput(CardRemoveMargin)

\* Minting has a loading state of its own, and heeds that of the other two.
MintTestUsdc ==
    [RowSetSlTp EXCEPT !.name = "mint", !.from = "faucet", !.state = "minting",
        !.heeds = {"loading", "minting"}, !.stages = <<"account", "land", "account">>]
PanelDeposit ==
    [DepositCollateral EXCEPT !.offer = "shown", !.stages = <<"balance", "land">>]
PanelWithdraw == [WithdrawCollateral EXCEPT !.offer = "shown", !.cut = FALSE]

\* The token account is looked up, then the referrer, whose failure is ignored.
ReferrerLookedUp(h) == [h EXCEPT !.stages = <<"account", "account", "land">>]
PanelOpen           == ReferrerLookedUp(OpenPosition)

-----------------------------------------------------------------------------
(* The forms to come in by.  The field is what is typed, valid or not; an  *)
(* account, a name and a token are purses of the service; what is stored   *)
(* in the browser may be refused, after the service has answered.          *)

LandingLogin ==
    [OpenPosition EXCEPT !.name = "login", !.from = "account", !.field = "credentials",
        !.offer = "positive", !.takes = "nothing", !.closes = TRUE,
        !.stages = <<"land", "stored", "stored">>]
\* The gift of SOL is asked for last, and its failure ignored.
LandingSignup ==
    [LandingLogin EXCEPT !.name = "signup", !.from = "address", !.field = "newCredentials",
        !.takes = "all", !.stages = <<"land", "stored", "account">>]
\* No loading state is taken or heeded.
Guest ==
    [RowSetSlTp EXCEPT !.name = "guest", !.from = "browser", !.state = "none", !.heeds = {},
        !.closes = TRUE, !.stages = <<"stored">>]

ModalLogin  == LandingLogin
\* The key of the browser is read before, and nothing has to be stored after.
ModalSignup == [LandingSignup EXCEPT !.stages = <<"stored", "land">>]

\* The page of a referrer leaves when the wallet has connected, not before.
RefLogin  == [LandingLogin  EXCEPT !.closes = FALSE]
RefSignup == [LandingSignup EXCEPT !.closes = FALSE]
RefGuest  == [Guest EXCEPT !.closes = FALSE]

\* Success is reported whatever the answer.
RequestReset ==
    [LandingLogin EXCEPT !.name = "request", !.field = "email", !.stages = <<"account">>]
ResetWithToken ==
    [LandingSignup EXCEPT !.name = "reset", !.from = "token", !.stages = <<"land">>]

-----------------------------------------------------------------------------
(* The components.  In all but one a handler under way takes the buttons   *)
(* of those that heed its state; the pool page keeps in `loading` the name *)
(* of the handler that pressed last, and looks for its own.                *)

Shows(of, handlers) == [of |-> of, handlers |-> handlers, named |-> FALSE]

OrderEntry   == Shows("order", {OpenPosition, DepositCollateral, WithdrawCollateral})
PositionRow  == Shows("row", {RowClose, RowSetSlTp, RowMargin})
PositionCard == Shows("card", {CardClose, CardSetSlTp, CardMargin, CardRemoveMargin})
PoolContent  ==
    [Shows("pool", {PoolDeposit, PoolWithdraw, ClaimFees}) EXCEPT !.named = TRUE]
RegisterForm == Shows("register", {Register})
ClaimForm    == Shows("claim", {ClaimReferral})
SendModal    == Shows("send", {Send})
MysteryBox   == Shows("box", {Spin})

PositionPanel == Shows("panel", {PanelClose, PanelSetSlTp, PanelAddMargin, PanelRemoveMargin})
CollateralPanel == Shows("collateral", {MintTestUsdc, PanelDeposit, PanelWithdraw})
TradingPanel    == Shows("trading", {PanelOpen})

LandingAuth  == Shows("landing", {LandingLogin, LandingSignup, Guest})
AuthModal    == Shows("modal", {ModalLogin, ModalSignup})
RefPage      == Shows("ref", {RefLogin, RefSignup, RefGuest})
ForgotForm   == Shows("forgot", {RequestReset})
NewPassword  == Shows("password", {ResetWithToken})

Components ==
    {OrderEntry, PositionRow, PositionCard, PoolContent, RegisterForm, ClaimForm, SendModal,
     MysteryBox, PositionPanel, CollateralPanel, TradingPanel, LandingAuth, AuthModal, RefPage,
     ForgotForm, NewPassword}
=============================================================================
