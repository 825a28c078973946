-------------------------------- MODULE Desk --------------------------------
(***************************************************************************)
(* A trader's open positions as the trade page and the positions page      *)
(* handle them: which row is opened out, which one asks for confirmation,  *)
(* and the wait for a position that has just been opened to be seen.       *)
(* Rows stand for the slots of the margin account and keep their state as  *)
(* long as the slot is shown occupied; the pages see the account as it was *)
(* at the last answer of useMarginAccount.  What a handler does between    *)
(* the press of its button and its end is the matter of Forms.             *)
(*                                                                         *)
(* A position is the number it was opened as (its openTimestamp orders     *)
(* positions in the same way) and whether it has stops; 0 is an empty slot.*)
(***************************************************************************)
EXTENDS Naturals, FiniteSets, FiniteSetsExt

CONSTANTS
    DeskSlots,    \* slots of the margin account (5 of them)
    MaxOpened,    \* bound on the positions opened
    MaxVisits     \* bound on the times the trader changes the page

VARIABLES
    account,     \* on chain: position in each slot
    view,        \* margin.positions
    newest,      \* number of the last position opened
    page,        \* "grid", "sheet" (a market of the trade page), "positions"
    visits,
    pending,     \* pendingOpen
    expanded,    \* expandedIdx of the sheet; cards of the positions page open out
    confirming,  \* slots whose row or card asks for confirmation
    inputs,      \* slots whose row or card has its stop fields filled
    focus,       \* focusPositionIdx, until the table takes it over; 0 for none
    opening,     \* an open is under way: "none", "here", or "elsewhere" when the
                 \* trade page that sent it is gone
    closing      \* slots with a close under way

deskVars == <<account, view, newest, page, visits, pending, expanded, confirming, inputs,
              focus, opening, closing>>

None0 == [id |-> 0, stops |-> FALSE]
Occupied(positions) == {s \in DeskSlots : positions[s].id > 0}
Newest(positions) ==
    CHOOSE s \in Occupied(positions) :
        \A t \in Occupied(positions) : positions[t].id <= positions[s].id

-----------------------------------------------------------------------------
\* The trade page stops waiting for a new position as soon as it has any, and
\* marks the newest; the effect runs when either changes.
NeverFocused(waits, positions) == FALSE
Focused(waits, positions) == waits /\ Occupied(positions) # {}

\* The table of the sheet, once it is there, opens out the row marked.
TakesFocus(sheet, mark, positions, open) ==
    IF sheet /\ mark > 0 /\ Occupied(positions) # {}
    THEN expanded' = {mark} /\ focus' = 0
    ELSE expanded' = open /\ focus' = mark

Settle(waits, positions, open) ==
    IF page # "positions" /\ Focused(waits, positions)
    THEN pending' = FALSE /\ TakesFocus(page = "sheet", Newest(positions), positions, open)
    ELSE pending' = waits /\ TakesFocus(page = "sheet", focus, positions, open)

-----------------------------------------------------------------------------
(* Pages.                                                                  *)

\* Rows and cards go with their page.
Goes(to) ==
    /\ visits < MaxVisits
    /\ visits' = visits + 1
    /\ page' = to
    /\ confirming' = {}
    /\ inputs' = IF to = "positions" THEN {s \in DeskSlots : view[s].stops} ELSE {}
    /\ UNCHANGED <<account, view, newest, closing>>

HandleOpenTrade ==
    /\ page = "grid"
    /\ Goes("sheet")
    /\ TakesFocus(TRUE, focus, view, {})
    /\ UNCHANGED <<pending, opening>>

HandleCloseSheet ==
    /\ page = "sheet"
    /\ Goes("grid")
    /\ expanded' = {}
    /\ UNCHANGED <<pending, focus, opening>>

\* The trade page keeps what it waits for while its sheet is closed, and loses
\* it when the trader goes elsewhere.
ToPositions ==
    /\ page # "positions"
    /\ Goes("positions")
    /\ expanded' = {}
    /\ pending' = FALSE /\ focus' = 0
    /\ opening' = IF opening = "here" THEN "elsewhere" ELSE opening

ToTrade ==
    /\ page = "positions"
    /\ Goes("grid")
    /\ expanded' = {}
    /\ UNCHANGED <<pending, focus, opening>>

\* The table is on the sheet as soon as there is a position or one is awaited.
TableShown == page = "sheet" /\ (Occupied(view) # {} \/ pending)
RowShown(s) == (TableShown \/ page = "positions") /\ s \in Occupied(view)

-----------------------------------------------------------------------------
(* Opening.                                                                *)

HandleOpenPosition ==
    /\ page = "sheet"
    /\ opening = "none"
    /\ Cardinality(Occupied(view)) < Cardinality(DeskSlots)
    /\ newest < MaxOpened
    /\ opening' = "here"
    /\ UNCHANGED <<account, view, newest, page, visits, pending, expanded, confirming,
                   inputs, focus, closing>>

\* The position takes the first empty slot; onPositionOpened reaches the page
\* that sent it if the trader has not left it.
Opened(stops) ==
    /\ opening # "none"
    /\ Occupied(account) # DeskSlots
    /\ newest' = newest + 1
    /\ account' = [account EXCEPT ![Min(DeskSlots \ Occupied(account))] =
                        [id |-> newest', stops |-> stops]]
    /\ opening' = "none"
    /\ IF opening = "here" THEN Settle(TRUE, view, expanded)
       ELSE UNCHANGED <<pending, expanded, focus>>
    /\ UNCHANGED <<view, page, visits, confirming, inputs, closing>>

OpenFails ==
    /\ opening # "none"
    /\ opening' = "none"
    /\ UNCHANGED <<account, view, newest, page, visits, pending, expanded, confirming,
                   inputs, focus, closing>>

\* An answer with the account as it is now.  Rows of slots that are empty now
\* go; cards of slots that were empty before come with the stops they have.
Polled ==
    /\ view # account
    /\ view' = account
    /\ confirming' = confirming \cap Occupied(account)
    /\ inputs' = (inputs \cap Occupied(account))
                 \cup IF page = "positions"
                      THEN {s \in DeskSlots : account[s].stops /\ view[s].id = 0} ELSE {}
    /\ Settle(pending, account, IF page = "positions" THEN expanded \cap Occupied(account)
                                ELSE expanded)
    /\ UNCHANGED <<account, newest, page, visits, opening, closing>>

\* A stop, a liquidation or the admin closes a position.
ClosedByOthers(s) ==
    /\ s \in Occupied(account)
    /\ account' = [account EXCEPT ![s] = None0]
    /\ UNCHANGED <<view, newest, page, visits, pending, expanded, confirming, inputs,
                   focus, opening, closing>>

-----------------------------------------------------------------------------
(* Rows and cards.                                                         *)

\* A row of the table opens out alone, with the stops of its position in the
\* fields; a card of the positions page opens out beside others.
ToggleExpand(s) ==
    /\ RowShown(s)
    /\ \/ /\ s \in expanded
          /\ expanded' = expanded \ {s}
          /\ UNCHANGED inputs
       \/ /\ s \notin expanded
          /\ expanded' = IF page = "sheet" THEN {s} ELSE expanded \cup {s}
          /\ inputs' = IF page = "positions" THEN inputs
                       ELSE IF view[s].stops THEN inputs \cup {s} ELSE inputs \ {s}
    /\ UNCHANGED <<account, view, newest, page, visits, pending, confirming, focus, opening,
                   closing>>

\* Close, Exit position, Cancel and x.
AskClose(s) ==
    /\ RowShown(s)
    /\ s \notin closing
    /\ confirming' = IF s \in confirming THEN confirming \ {s} ELSE confirming \cup {s}
    /\ UNCHANGED <<account, view, newest, page, visits, pending, expanded, inputs,
                   focus, opening, closing>>

HandleClose(s) ==
    /\ RowShown(s)
    /\ s \in confirming /\ s \notin closing
    /\ closing' = closing \cup {s}
    /\ UNCHANGED <<account, view, newest, page, visits, pending, expanded, confirming,
                   inputs, focus, opening>>

\* close_position names the slot: whatever is in it now is closed, and an
\* empty one makes it fail.
CloseEnds(s) ==
    /\ s \in closing
    /\ closing' = closing \ {s}
    /\ \/ /\ s \in Occupied(account)
          /\ account' = [account EXCEPT ![s] = None0]
          /\ confirming' = confirming \ {s}
       \/ UNCHANGED <<account, confirming>>
    /\ UNCHANGED <<view, newest, page, visits, pending, expanded, inputs, focus, opening>>

\* The fields replace both stops on chain; the table then folds the row.  A
\* card offers the button only when a field is filled.
HandleSetSlTp(s) ==
    /\ RowShown(s) /\ s \in expanded /\ s \notin closing
    /\ page = "positions" => s \in inputs
    /\ s \in Occupied(account)
    /\ account' = [account EXCEPT ![s].stops = s \in inputs]
    /\ expanded' = IF page = "sheet" THEN {} ELSE expanded
    /\ UNCHANGED <<view, newest, page, visits, pending, confirming, inputs, focus,
                   opening, closing>>

\* The trader types stops into the fields, or empties them.
TypeStops(s) ==
    /\ RowShown(s) /\ s \in expanded
    /\ inputs' = IF s \in inputs THEN inputs \ {s} ELSE inputs \cup {s}
    /\ UNCHANGED <<account, view, newest, page, visits, pending, expanded, confirming,
                   focus, opening, closing>>

-----------------------------------------------------------------------------
DeskInit ==
    /\ account = [s \in DeskSlots |-> None0]
    /\ view = account
    /\ newest = 0
    /\ page = "grid"
    /\ visits = 0
    /\ pending = FALSE
    /\ expanded = {}
    /\ confirming = {}
    /\ inputs = {}
    /\ focus = 0
    /\ opening = "none"
    /\ closing = {}

DeskNext ==
    \/ HandleOpenTrade \/ HandleCloseSheet \/ ToPositions \/ ToTrade
    \/ HandleOpenPosition
    \/ \E stops \in BOOLEAN : Opened(stops)
    \/ OpenFails
    \/ Polled
    \/ \E s \in DeskSlots :
          \/ ClosedByOthers(s) \/ ToggleExpand(s) \/ AskClose(s) \/ HandleClose(s)
          \/ CloseEnds(s) \/ HandleSetSlTp(s) \/ TypeStops(s)

\* The margin account is polled for as long as a page shows it.
DeskFairness == WF_deskVars(Polled)

DeskSpec == DeskInit /\ [][DeskNext]_deskVars /\ DeskFairness
-----------------------------------------------------------------------------
(* The sheet does not say "Loading position from chain" for ever after a   *)
(* position has been opened: it is seen sooner or later, unless no         *)
(* position is left to be seen or the trader leaves the sheet.             *)
PendingSettles ==
    []<>(pending => Occupied(account) = {} \/ page # "sheet")

(* page.tsx:159: "After a successful open, wait for positions to appear    *)
(* then expand the newest one".  Violated: with another position open the  *)
(* page does not wait, and opens that one out.                             *)
ExpandsNewest ==
    [][\A s \in DeskSlots :
          newest' > newest /\ s \in expanded' \ expanded
              => account'[s].id = newest']_deskVars
=============================================================================
