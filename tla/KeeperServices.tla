--------------------------- MODULE KeeperServices ---------------------------
(***************************************************************************)
(* What runs in the keeper's process: the loop that pushes prices, the     *)
(* trade indexer, the price feeds, the price history and the alerts.  They *)
(* meet only in the targets of the feeds, the prices pushed and what fails *)
(* of it, for which each takes any value, so that what one of them does is *)
(* not changed by the steps of the others and a behaviour may be looked at *)
(* from each in turn: service says from which, and the others rest.        *)
(***************************************************************************)
EXTENDS PricePusher, TradeIndexer, PriceFeeds, PriceHistory, Alerts

VARIABLE service

serviceVars == <<service, pusherVars, indexerVars, feedVars, historyVars, alertVars>>

Init ==
    /\ service \in {"pusher", "indexer", "feeds", "history", "alerts"}
    /\ PusherInit /\ IndexerInit /\ FeedInit /\ HistoryInit /\ AlertsInit
    /\ service # "alerts" => ~creds

Alone(s) ==
    /\ service = s /\ UNCHANGED service
    /\ IF s = "pusher"  THEN TRUE ELSE UNCHANGED pusherVars
    /\ IF s = "indexer" THEN TRUE ELSE UNCHANGED indexerVars
    /\ IF s = "feeds"   THEN TRUE ELSE UNCHANGED feedVars
    /\ IF s = "history" THEN TRUE ELSE UNCHANGED historyVars
    /\ IF s = "alerts"  THEN TRUE ELSE UNCHANGED alertVars

Next ==
    \/ Alone("pusher")  /\ PusherNext
    \/ Alone("indexer") /\ IndexerNext
    \/ Alone("feeds")   /\ FeedNext
    \/ Alone("history") /\ HistoryNext
    \/ Alone("alerts")  /\ AlertsNext

(* The timer of the push loop fires and its calls return; time passes.     *)
Fairness ==
    /\ \A k \in Ticks : WF_serviceVars(Alone("pusher") /\ Turn(k))
    /\ WF_serviceVars(Alone("pusher") /\ Land(1))
    /\ WF_serviceVars(Alone("alerts") /\ Passes)

Spec == Init /\ [][Next]_serviceVars /\ Fairness
=============================================================================
