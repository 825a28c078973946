------------------------------- MODULE Control -------------------------------
(***************************************************************************)
(* The clock, the price oracles, the pause switch and the parameters.      *)
(***************************************************************************)
EXTENDS KronosState

money == <<wallet, vaults, accounts, interest, shares, liquidity, lpFees,
           referrals, deficit>>

(* Time passes by itself.                                                  *)
Tick == now' = now + 1 /\ UNCHANGED <<oracle, is_paused, manual_pause, params, money>>

(* The checks update_oracle and update_market_oracle share: not too soon   *)
(* after the last update and, but for a first price, at most a fifth away  *)
(* from it.                                                                *)
AcceptablePrice(o, price) ==
    LET old  == oracle[o].price
        diff == IF price > old THEN price - old ELSE old - price
    IN  /\ price > 0
        /\ oracle[o].last_updated > 0 =>
               now - oracle[o].last_updated >= MinOracleInterval
        /\ old > 0 => diff <= Bps(old, MAX_ORACLE_DEVIATION_BPS)

SetPrice(o, price) ==
    oracle' = [oracle EXCEPT ![o] = [price |-> price, last_updated |-> now]]

(* Mutant: any update of the default oracle ends any pause.                *)
UnpausingOracle(price) ==
    /\ AcceptablePrice(DefaultOracle, price)
    /\ SetPrice(DefaultOracle, price)
    /\ is_paused' = FALSE
    /\ UNCHANGED <<now, manual_pause, params, money>>

(* update_oracle writes the default oracle and ends a pause that the admin *)
(* did not ask for.                                                        *)
UpdateOracle(price) ==
    /\ AcceptablePrice(DefaultOracle, price)
    /\ SetPrice(DefaultOracle, price)
    /\ is_paused' = (is_paused /\ manual_pause)
    /\ UNCHANGED <<now, manual_pause, params, money>>

(* update_market_oracle never touches the pause.                           *)
UpdateMarketOracle(m, price) ==
    /\ AcceptablePrice(m, price)
    /\ SetPrice(m, price)
    /\ UNCHANGED <<now, is_paused, manual_pause, params, money>>

(* check_and_pause: anyone may pause the protocol over one stale market.   *)
CheckAndPause(m) ==
    /\ \/ oracle[m].last_updated = 0
       \/ SatSub(now, oracle[m].last_updated) >= params.auto_pause_threshold
    /\ is_paused' = TRUE
    /\ UNCHANGED <<now, oracle, manual_pause, params, money>>

(* update_params: the admin sets any of the parameters at once, within     *)
(* their bounds, and may set or lift the pause with them.                  *)
UpdateParams(new, pause) ==
    /\ new \in AdmissibleParams
    /\ params' = new
    /\ is_paused' = IF pause = "keep" THEN is_paused ELSE pause = "on"
    /\ manual_pause' = IF pause = "keep" THEN manual_pause ELSE pause = "on"
    /\ UNCHANGED <<now, oracle, money>>

=============================================================================
