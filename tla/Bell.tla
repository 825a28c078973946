-------------------------------- MODULE Bell --------------------------------
(***************************************************************************)
(* The notifications of the web application (NotificationProvider.tsx and  *)
(* the bell in the header): warnings of thin margins, moves of the price,  *)
(* and positions that have disappeared, found by comparing what            *)
(* useMarginAccount shows now with what it showed before.                  *)
(*                                                                         *)
(* A position is a number, never used twice, and how thin its margin is;   *)
(* number 0 is an empty slot.  localStorage always holds the list shown,   *)
(* so that a reload of the page keeps it.  Texts, levels and the guess at  *)
(* why a position went are left out.                                       *)
(***************************************************************************)
EXTENDS Naturals, Sequences, SequencesExt, FiniteSets

CONSTANTS
    BellSlots,    \* slots of the margin account
    MaxNumber,    \* bound on the positions opened
    MaxNotices,   \* capacity of the list (50)
    MaxToasts,    \* toasts counted apart
    MaxSessions,  \* bound on connections and reloads
    MaxMoves      \* bound on changes of the price or of a margin

VARIABLES
    slots,        \* on chain
    number,       \* positions opened so far
    connected,    \* the wallet is connected
    isLoading,    \* margin.isLoading
    positions,    \* margin.positions
    prevPositions,
    active,       \* the visitor has passed the landing page
    watched,      \* the positions the 30-second check has captured
    warned,       \* slots warned about in the last five minutes
    moves,
    notifications,  \* read flags of the list, newest first
    toasts,
    bellOpen,
    reported,     \* history: positions said to be closed
    sessions

bellVars == <<slots, number, connected, isLoading, positions, prevPositions, active, watched,
              warned, moves, notifications, toasts, bellOpen, reported, sessions>>

Free == [number |-> 0, margin |-> "ample"]
NoPositions == [s \in BellSlots |-> Free]
Held(account) == {s \in BellSlots : account[s].number > 0}
Thin(account) == {s \in Held(account) : account[s].margin = "thin"}

-----------------------------------------------------------------------------
\* addNotification, n times.
Notified(n) ==
    /\ notifications' = LET longer == [i \in 1..n |-> FALSE] \o notifications
                        IN SubSeq(longer, 1, IF Len(longer) > MaxNotices THEN MaxNotices
                                             ELSE Len(longer))
    /\ toasts' = IF toasts + n > MaxToasts THEN MaxToasts ELSE toasts + n

\* Comparing only while there are positions.
OnlyWithPositions(on, key, busy, now) == on /\ key /\ ~busy /\ Held(now) # {}
Comparable(on, key, busy, now) == on /\ key /\ ~busy

Vanished(now) == Held(prevPositions) \ Held(now)

\* The checks that follow a change of the wallet, the account or the price:
\* the margin check runs when the wallet, the existence of positions or the
\* price changes, and captures the positions its timer will look at.
Checks(on, key, busy, now, marginCheck, priceNotices) ==
    LET compares == Comparable(on, key, busy, now)
        vanished == IF compares THEN Vanished(now) ELSE {}
        checked  == on /\ key /\ Held(now) # {} /\ marginCheck
        warnings == IF checked THEN Thin(now) \ warned ELSE {}
    IN /\ prevPositions' = IF compares THEN now ELSE prevPositions
       /\ reported' = reported \cup {prevPositions[s].number : s \in vanished}
       /\ warned' = warned \cup warnings
       /\ watched' = IF ~(on /\ key /\ Held(now) # {}) THEN NoPositions
                     ELSE IF marginCheck THEN now ELSE watched
       /\ Notified(Cardinality(vanished) + Cardinality(warnings) + priceNotices)

Quiet == UNCHANGED <<prevPositions, watched, warned, notifications, toasts, reported>>

-----------------------------------------------------------------------------
(* The chain.                                                              *)

Opens(s) ==
    /\ slots[s] = Free
    /\ number < MaxNumber
    /\ number' = number + 1
    /\ slots' = [slots EXCEPT ![s] = [number |-> number', margin |-> "ample"]]
    /\ UNCHANGED <<connected, isLoading, positions, active, moves, bellOpen, sessions>> /\ Quiet

Closes(s) ==
    /\ slots[s] # Free
    /\ slots' = [slots EXCEPT ![s] = Free]
    /\ UNCHANGED <<number, connected, isLoading, positions, active, moves, bellOpen, sessions>>
    /\ Quiet

MarginMoves(s) ==
    /\ slots[s] # Free
    /\ moves < MaxMoves
    /\ moves' = moves + 1
    /\ slots' = [slots EXCEPT ![s].margin = IF @ = "thin" THEN "ample" ELSE "thin"]
    /\ UNCHANGED <<number, connected, isLoading, positions, active, bellOpen, sessions>> /\ Quiet

-----------------------------------------------------------------------------
(* The page.                                                               *)

PassLanding ==
    /\ ~active
    /\ active' = TRUE
    /\ Checks(TRUE, connected, isLoading, positions, TRUE, 0)
    /\ UNCHANGED <<slots, number, connected, isLoading, positions, moves, bellOpen, sessions>>

\* The hook has had nothing to show and was not loading: it goes on so until
\* its first answer.
Connect ==
    /\ ~connected
    /\ sessions < MaxSessions
    /\ sessions' = sessions + 1
    /\ connected' = TRUE
    /\ Checks(active, TRUE, isLoading, positions, TRUE, 0)
    /\ UNCHANGED <<slots, number, isLoading, positions, active, moves, bellOpen>>

\* The hook shows an account without positions; the checks rest.
Disconnect ==
    /\ connected
    /\ connected' = FALSE
    /\ positions' = NoPositions
    /\ isLoading' = FALSE
    /\ watched' = NoPositions
    /\ UNCHANGED <<slots, number, active, moves, prevPositions, warned, notifications, toasts,
                   bellOpen, reported, sessions>>

\* An answer of useMarginAccount.
Answered ==
    /\ connected
    /\ positions # slots \/ isLoading
    /\ positions' = slots
    /\ isLoading' = FALSE
    /\ Checks(active, TRUE, FALSE, slots, (Held(slots) = {}) # (Held(positions) = {}), 0)
    /\ UNCHANGED <<slots, number, connected, active, moves, bellOpen, sessions>>

\* The price changes; a move of one percent since the last notice is notified.
PriceMoves(far) ==
    /\ moves < MaxMoves
    /\ moves' = moves + 1
    /\ Checks(active, connected, isLoading, positions, TRUE, IF far /\ active THEN 1 ELSE 0)
    /\ UNCHANGED <<slots, number, connected, isLoading, positions, active, bellOpen, sessions>>

\* The timer looks at the positions captured when the price last changed.
CheckLiquidation ==
    /\ Thin(watched) \ warned # {}
    /\ warned' = warned \cup Thin(watched)
    /\ Notified(Cardinality(Thin(watched) \ warned))
    /\ UNCHANGED <<slots, number, connected, isLoading, positions, prevPositions, active,
                   watched, moves, bellOpen, reported, sessions>>

\* Five minutes after a warning the slot may be warned about again.
Cooled(s) ==
    /\ s \in warned
    /\ warned' = warned \ {s}
    /\ UNCHANGED <<slots, number, connected, isLoading, positions, prevPositions, active,
                   watched, moves, notifications, toasts, bellOpen, reported, sessions>>

\* It is over by itself after eight seconds, or by a press.
DismissToast ==
    /\ toasts > 0
    /\ toasts' = toasts - 1
    /\ UNCHANGED <<slots, number, connected, isLoading, positions, prevPositions, active,
                   watched, warned, moves, notifications, bellOpen, reported, sessions>>

Unread == {i \in DOMAIN notifications : ~notifications[i]}

\* Opening the bell marks everything as read.
PressBell ==
    /\ bellOpen' = ~bellOpen
    /\ notifications' = IF ~bellOpen /\ Unread # {} THEN [i \in DOMAIN notifications |-> TRUE]
                        ELSE notifications
    /\ UNCHANGED <<slots, number, connected, isLoading, positions, prevPositions, active,
                   watched, warned, moves, toasts, reported, sessions>>

ClearAll ==
    /\ bellOpen /\ notifications # <<>>
    /\ notifications' = <<>>
    /\ UNCHANGED <<slots, number, connected, isLoading, positions, prevPositions, active,
                   watched, warned, moves, toasts, bellOpen, reported, sessions>>

\* The list comes back from localStorage; everything else starts anew.
ReloadPage ==
    /\ sessions < MaxSessions
    /\ sessions' = sessions + 1
    /\ connected' = FALSE
    /\ isLoading' = FALSE
    /\ positions' = NoPositions /\ prevPositions' = NoPositions /\ watched' = NoPositions
    /\ active' = FALSE
    /\ warned' = {} /\ toasts' = 0 /\ bellOpen' = FALSE
    /\ UNCHANGED <<slots, number, moves, notifications, reported>>

-----------------------------------------------------------------------------
BellInit ==
    /\ slots = NoPositions
    /\ number = 0
    /\ connected = FALSE
    /\ isLoading = FALSE
    /\ positions = NoPositions /\ prevPositions = NoPositions /\ watched = NoPositions
    /\ active = FALSE
    /\ warned = {}
    /\ moves = 0
    /\ notifications = <<>>
    /\ toasts = 0
    /\ bellOpen = FALSE
    /\ reported = {}
    /\ sessions = 0

BellNext ==
    \/ \E s \in BellSlots : Opens(s) \/ Closes(s) \/ MarginMoves(s) \/ Cooled(s)
    \/ PassLanding \/ Connect \/ Disconnect \/ Answered
    \/ \E far \in BOOLEAN : PriceMoves(far)
    \/ CheckLiquidation \/ DismissToast \/ PressBell \/ ClearAll \/ ReloadPage

\* The margin account is polled.
BellFairness == WF_bellVars(Answered)

BellSpec == BellInit /\ [][BellNext]_bellVars /\ BellFairness
-----------------------------------------------------------------------------
(* A position that was on the page and is closed, by whomever, is reported *)
(* sooner or later, unless the wallet is disconnected, the page reloaded,  *)
(* or the slot taken by another position before the page looks again:      *)
(* slots are all that is compared.                                         *)
ClosuresNoticed ==
    \A s \in BellSlots, n \in 1..MaxNumber :
        []<>(active /\ connected /\ prevPositions[s].number = n /\ slots[s] = Free
                => n \in reported)

(* NotificationProvider.tsx:272 looks "for positions that disappeared      *)
(* (closed by SL/TP/liquidation)": only positions that are closed are      *)
(* reported.  Violated: when a wallet comes back the account shown has no  *)
(* positions yet, and every position known before is reported.             *)
NoticesAreTrue == \A s \in BellSlots : slots[s].number \notin reported
=============================================================================
