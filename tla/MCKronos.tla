------------------------------ MODULE MCKronos ------------------------------
(***************************************************************************)
(* Small instances of Kronos for TLC.  An hour is two clock units, so one  *)
(* unit is half an hour, an oracle is fresh for one unit and stale after   *)
(* two; wallets hold a few thousand units of USDC, so the percentages of   *)
(* the program round.  The .cfg files choose who acts and with what.       *)
(***************************************************************************)
EXTENDS Screens

MCParams ==
    [fee_bps |-> 200, base_funding_rate_per_hour |-> 30,
     skew_factor |-> 21000, profit_cap_bps |-> 7000,
     insurance_fund_bps |-> 2500, lp_fee_bps |-> 7000,
     min_position_size |-> 500,
     max_exposure |-> [d \in Direction |-> 18000],
     auto_pause_threshold |-> 2]

(* The same with the highest fee, no profit cap to speak of and fees that  *)
(* go to the providers and the insurance fund alone.                       *)
MCHighFees ==
    [MCParams EXCEPT !.fee_bps = 500, !.profit_cap_bps = 100000,
                     !.insurance_fund_bps = 3000]

(* The same with shares for the providers and the insurance fund that are  *)
(* more than the whole fee together, which update_params allows: the admin *)
(* has set them before anybody comes.                                      *)
MCOversharedFees == [MCParams EXCEPT !.lp_fee_bps = 8000, !.insurance_fund_bps = 5000]

MCSameParams  == {MCParams}
MCRaisedFees  == {MCHighFees}
MCOversharing == {MCOversharedFees}

(* What the wallets hold: two traders, a trader and two providers, one     *)
(* trader alone, or one and a referrer.                                    *)
MCTradersWallet == <<1000, 1000>>
MCProvidersWallet == <<1000, 1000, 1000>>
MCSlotsWallet == <<2000>>
MCReferredWallet == <<1000, 0>>

=============================================================================
