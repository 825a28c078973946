-------------------------- MODULE MCKeeperServices --------------------------
(***************************************************************************)
(* A small instance of KeeperServices.                                     *)
(***************************************************************************)
EXTENDS KeeperServices, TLC

(* From 20 to 26 takes two clamped steps, 23 and 26, and 26 cannot be      *)
(* pushed on 20; the feed of one market goes up and down, that of the      *)
(* other up by one step.                                                   *)
MCTwoFeeds == <<{20, 26}, {23}>>

Ev(a, p, n) == [action |-> a, user |-> "u", pnl |-> p, notional |-> n]

(* A loss and a new position in one transaction; two closes that the       *)
(* indexer cannot tell apart.                                              *)
MCContents == {<<Ev("liquidate", -2, 0), Ev("open", 0, 2)>>,
               <<Ev("close", 1, 0), Ev("close", -1, 0)>>}

MCFallback == ("gold" :> 0) @@ ("sub" :> 4) @@ ("box" :> 6)
MCWeight   == ("sub" :> 2) @@ ("box" :> 1)

(* Nothing, one listing far from 4 twice, two around it, and two outliers  *)
(* with one that is close.                                                 *)
MCListings == {<< >>, <<2, 2>>, <<5, 3>>, <<20, 18, 3, 0>>}

(* The minute of telegram.js, in two steps of the clock.                   *)
MCRateLimit == [l \in Levels |-> 2]
=============================================================================
