------------------------------- MODULE Visit -------------------------------
(***************************************************************************)
(* A visit to the web application: how a visitor gets past the landing     *)
(* page, how the header follows, and who is let into the pages behind      *)
(* AuthGuard.  Three flags in three components say that the landing page   *)
(* has been passed, kept in step by an event and by the route; the guard   *)
(* asks the server once and goes by the browser when the server does not   *)
(* know the visitor, while the wallet is still connecting.                 *)
(*                                                                         *)
(* The ways in are taken at the moment they succeed (module Forms has      *)
(* their handlers, module Wallet their keys).  Left out: the e-mail shown  *)
(* beside the address, the ticker, music, copying of addresses.            *)
(***************************************************************************)
EXTENDS Naturals, FiniteSets

VARIABLES
    route,        \* the page
    wallet,       \* "none", "session" or "external": the wallet connected
    coming,       \* the wallet that is connecting
    kept,         \* the session key: in localStorage, in IndexedDB
    lastExternal, \* localStorage kronos_last_wallet names an extension
    cookie,       \* the server knows the browser
    saved,        \* localStorage has the e-mail of an account
    passed,       \* _passedLanding of the trade page
    headerPassed, \* landingPassedRef of the header
    hideNav,
    gate,         \* AuthGuard: "off", "loading", "in", or "out" after sending away
    check,        \* its check under way: "none", or what the browser knew
    overlay       \* the menu, modal or sheet on top

browser  == <<kept, lastExternal, cookie, saved>>
nav      == <<passed, headerPassed, hideNav>>
guard    == <<gate, check>>
visitVars == <<route, wallet, coming, browser, nav, guard, overlay>>

Routes == {"/", "guarded", "open", "/ref", "/reset-password"}

-----------------------------------------------------------------------------
\* useAuth starts: what it falls back on is read now.
KnownLocally(w) == IF w # "none" \/ "legacy" \in kept THEN "known" ELSE "nobody"

\* Only the mount of the guard checks, not the change of the wallet.
NotAgain(w) == check

\* The effect of useAuth runs again when the wallet connects or goes, and drops
\* the check before.
CheckedAgain(w) == IF route = "guarded" THEN KnownLocally(w) ELSE "none"

\* The header on a change of route, and on the event the trade page sends when
\* it is mounted after the landing page has been passed.
HeaderOn(r, isPassed) ==
    /\ headerPassed' = (headerPassed \/ isPassed \/ r \notin {"/", "/reset-password"})
    /\ hideNav' = CASE r = "/" -> ~(headerPassed \/ isPassed)
                    [] r = "/reset-password" -> TRUE
                    [] OTHER -> FALSE

GuardOn(r) ==
    /\ gate' = IF r = "guarded" THEN "loading" ELSE "off"
    /\ check' = IF r = "guarded" THEN KnownLocally(wallet) ELSE "none"

\* An in-app change of route.
To(r) ==
    /\ route' = r
    /\ overlay' = "none"
    /\ HeaderOn(r, passed)
    /\ GuardOn(r)
    /\ UNCHANGED passed

\* A page load: what lived in memory is gone; the wallet used last connects.
Loaded(r, keys, ext) ==
    /\ route' = r /\ overlay' = "none" /\ wallet' = "none"
    /\ passed' = FALSE
    /\ headerPassed' = (r \notin {"/", "/reset-password"})
    /\ hideNav' = ~headerPassed'
    /\ gate' = IF r = "guarded" THEN "loading" ELSE "off"
    /\ check' = IF r # "guarded" THEN "none" ELSE IF "legacy" \in keys THEN "known" ELSE "nobody"
    /\ coming' = IF ext THEN "external" ELSE IF "stored" \in keys THEN "session" ELSE "none"
    /\ kept' = keys /\ lastExternal' = ext

\* handlePassLanding that only changes the page.
PassedQuietly ==
    /\ passed' = TRUE /\ overlay' = "none"
    /\ UNCHANGED <<headerPassed, hideNav>>

\* handlePassLanding: the page, and by the event the header.
HandlePassLanding ==
    /\ passed' = TRUE /\ headerPassed' = TRUE /\ hideNav' = FALSE
    /\ overlay' = "none"

OnLanding == route = "/" /\ ~passed
-----------------------------------------------------------------------------
Visits(r) ==
    /\ Loaded(r, kept, lastExternal)
    /\ UNCHANGED <<cookie, saved>>

\* A link: in the header, in the tabs of a phone, on the landing page.
Follows(r) ==
    /\ \/ ~hideNav /\ r \in {"/", "guarded", "open"}
       \/ OnLanding /\ r \in {"open", "/reset-password"}
       \/ route = "/reset-password" /\ r = "/"
    /\ To(r)
    /\ UNCHANGED <<wallet, coming, browser>>

\* connect has ended.  LandingAuth goes on to the trade page, the page of a
\* referrer back to it; a session key of localStorage has been copied.
Connects ==
    /\ coming # "none"
    /\ wallet' = coming /\ coming' = "none"
    /\ kept' = IF coming = "session" THEN kept \cup {"stored"} ELSE kept
    /\ lastExternal' = (coming = "external")
    /\ check' = CheckedAgain(coming)
    /\ IF OnLanding THEN HandlePassLanding /\ UNCHANGED <<route, gate>>
       ELSE IF route = "/ref"
            THEN route' = "/" /\ overlay' = "none" /\ HeaderOn("/", passed)
                 /\ UNCHANGED <<passed, gate>>
       ELSE UNCHANGED <<route, overlay, nav, gate>>
    /\ UNCHANGED <<cookie, saved>>

ConnectFails ==
    /\ coming # "none" /\ coming' = "none"
    /\ UNCHANGED <<route, wallet, browser, nav, guard, overlay>>

\* The extension drops the connection.
Drops ==
    /\ wallet = "external" /\ wallet' = "none"
    /\ check' = CheckedAgain("none")
    /\ UNCHANGED <<route, coming, browser, nav, gate, overlay>>

-----------------------------------------------------------------------------
\* An extension used last is tried, then a key in localStorage; without either
\* the visitor is asked who he is.
HandleStartTrading ==
    /\ OnLanding /\ overlay = "none"
    /\ \/ /\ lastExternal /\ coming' = "external"
          /\ UNCHANGED <<nav, overlay>>
       \/ /\ "legacy" \in kept /\ HandlePassLanding
          /\ coming' = IF wallet = "none" THEN "session" ELSE coming
       \/ /\ "legacy" \notin kept /\ overlay' = "auth"
          /\ UNCHANGED <<coming, nav>>
    /\ UNCHANGED <<route, wallet, browser, guard>>

HandleSelectWallet ==
    /\ overlay = "picker" /\ overlay' = "none"
    /\ coming' = "external"
    /\ UNCHANGED <<route, wallet, browser, nav, guard>>

\* A log-in, a sign-up or a guest's key, on the landing page or a referrer's.
Enters(known) ==
    /\ (OnLanding /\ overlay = "auth") \/ (route = "/ref" /\ wallet = "none")
    /\ kept' = kept \cup {"stored"} /\ coming' = "session"
    /\ cookie' = (cookie \/ known) /\ saved' = (saved \/ known)
    /\ IF route = "/" THEN HandlePassLanding ELSE UNCHANGED <<nav, overlay>>
    /\ UNCHANGED <<route, wallet, lastExternal, guard>>

\* The modal: a log-in loads the page again, a sign-up saves the key there is.
LogsIn ==
    /\ overlay = "auth" /\ ~OnLanding
    /\ Loaded(route, kept \cup {"stored"}, lastExternal)
    /\ cookie' = TRUE /\ saved' = TRUE

SavesAccount ==
    /\ overlay = "auth" /\ wallet = "session"
    /\ cookie' = TRUE /\ saved' = TRUE /\ overlay' = "none"
    /\ UNCHANGED <<route, wallet, coming, kept, lastExternal, nav, guard>>

\* The first signature by the copied key removes the one in localStorage.
Signs ==
    /\ wallet = "session" /\ kept' = {"stored"} /\ kept # kept'
    /\ UNCHANGED <<route, wallet, coming, lastExternal, cookie, saved, nav, guard, overlay>>

\* The request to log out may be lost.
HandleDisconnect ==
    /\ wallet # "none" /\ overlay = "menu"
    /\ IF wallet = "external"
       THEN Loaded("/", kept, FALSE) /\ UNCHANGED <<cookie, saved>>
       ELSE Loaded("/", {}, FALSE) /\ cookie' \in {FALSE, cookie} /\ saved' = FALSE

-----------------------------------------------------------------------------
\* What the menu of a connected wallet offers; a key to export and an account
\* to save only to the owner of a session key.
MenuItems ==
    {"swap", "send"} \cup (IF wallet = "session" THEN {"export"} ELSE {})
                     \cup (IF wallet = "session" /\ ~saved THEN {"auth"} ELSE {})

\* What stands in the header in place of the menu.
EntryButtons == IF wallet = "none" THEN {"auth", "picker"} ELSE {"menu"}

\* The sheet that proposes to save the wallet comes up by itself after a trade.
OffersOverlay(o) ==
    \/ overlay = "none" /\ ~hideNav /\ o \in EntryButtons
    \/ overlay = "menu" /\ wallet # "none" /\ o \in MenuItems
    \/ OnLanding /\ overlay \in {"none", "auth"} /\ o = "picker"
    \/ OnLanding /\ overlay = "picker" /\ o = "auth"
    \/ overlay = "none" /\ wallet = "session" /\ ~saved /\ o = "sheet"
    \/ overlay = "sheet" /\ o = "auth"

Brings(o) ==
    /\ OffersOverlay(o) /\ overlay' = o
    /\ UNCHANGED <<route, wallet, coming, browser, nav, guard>>

Dismisses ==
    /\ overlay # "none" /\ overlay' = "none"
    /\ UNCHANGED <<route, wallet, coming, browser, nav, guard>>

-----------------------------------------------------------------------------
\* /api/me has answered, or failed.  Who is not known is sent to the landing
\* page.
LetIn(heard) ==
    /\ heard \/ check = "known"
    /\ gate' = "in" /\ check' = "none"
    /\ UNCHANGED <<route, nav, overlay>>

SentAway(heard) ==
    /\ ~heard /\ check = "nobody"
    /\ gate' = "out" /\ check' = "none"
    /\ route' = "/" /\ overlay' = "none" /\ HeaderOn("/", passed)
    /\ UNCHANGED passed

GateAnswers ==
    /\ check # "none"
    /\ \E heard \in {FALSE, cookie} : LetIn(heard) \/ SentAway(heard)
    /\ UNCHANGED <<wallet, coming, browser>>

-----------------------------------------------------------------------------
VisitInit ==
    /\ kept \in {{}, {"legacy"}, {"stored"}}
    /\ lastExternal \in BOOLEAN /\ cookie \in BOOLEAN
    /\ saved = cookie
    /\ wallet = "none" /\ overlay = "none" /\ passed = FALSE
    /\ coming = IF lastExternal THEN "external" ELSE IF "stored" \in kept THEN "session" ELSE "none"
    /\ route = "/" /\ headerPassed = FALSE /\ hideNav = TRUE
    /\ gate = "off" /\ check = "none"

VisitNext ==
    \/ \E r \in Routes : Visits(r) \/ Follows(r)
    \/ Connects \/ ConnectFails \/ Drops
    \/ HandleStartTrading \/ HandleSelectWallet
    \/ \E known \in BOOLEAN : Enters(known)
    \/ LogsIn \/ SavesAccount \/ Signs \/ HandleDisconnect
    \/ \E o \in {"menu", "auth", "picker", "swap", "send", "export", "sheet"} : Brings(o)
    \/ Dismisses
    \/ GateAnswers

VisitSpec == VisitInit /\ [][VisitNext]_visitVars
-----------------------------------------------------------------------------
(* A visitor whose wallet is connected is never sent away from a page      *)
(* behind AuthGuard, however late the server answers: connecting runs the  *)
(* check again, and what the check before had read of the browser is       *)
(* dropped with it.                                                        *)
NeverTurnedAway == [][gate' = "out" /\ gate # "out" => wallet = "none"]_visitVars

(* Whoever has got to the trade page or behind the guard has the           *)
(* navigation, by whatever route: the flags of the trade page and of the   *)
(* header never fall apart.                                                *)
NavigationShown ==
    (route = "/" /\ passed) \/ gate = "in" => ~hideNav
=============================================================================
