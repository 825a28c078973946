------------------------------- MODULE Margin -------------------------------
(***************************************************************************)
(* A trader's own account: moving USDC in and out of the free collateral,  *)
(* between the free collateral and a position, setting the triggers of a   *)
(* position, closing the account.                                          *)
(***************************************************************************)
EXTENDS KronosState

(* deposit_collateral creates the account when there is none.              *)
DepositCollateral(u, amount) ==
    /\ ~is_paused
    /\ amount > 0
    /\ wallet[u] >= amount
    /\ wallet' = [wallet EXCEPT ![u] = @ - amount]
    /\ fee_vault' = fee_vault + amount
    /\ has_margin' = [has_margin EXCEPT ![u] = TRUE]
    /\ margin' = [margin EXCEPT ![u] = @ + amount]
    /\ total_user_collateral' = total_user_collateral + amount
    /\ UNCHANGED <<control, positions, insurance_fund, interest, shares,
                   liquidity, lpFees, referrals, deficit>>

(* withdraw_collateral works while paused; it leaves unclaimed LP fees in  *)
(* the vault.                                                              *)
WithdrawCollateral(u, amount) ==
    /\ amount > 0
    /\ amount <= margin[u]
    /\ SatSub(fee_vault, LpReserved) >= amount
    /\ wallet' = [wallet EXCEPT ![u] = @ + amount]
    /\ fee_vault' = fee_vault - amount
    /\ margin' = [margin EXCEPT ![u] = @ - amount]
    /\ total_user_collateral' = SatSub(total_user_collateral, amount)
    /\ UNCHANGED <<control, has_margin, positions, insurance_fund, interest,
                   shares, liquidity, lpFees, referrals, deficit>>

AddMargin(u, s, amount) ==
    /\ amount > 0
    /\ margin[u] >= amount
    /\ IsOpen(u, s)
    /\ margin' = [margin EXCEPT ![u] = @ - amount]
    /\ positions' = [positions EXCEPT ![u][s] =
                        WithCollateral(@, positions[u][s].collateral + amount)]
    /\ UNCHANGED <<control, wallet, vaults, has_margin, total_user_collateral,
                   interest, shares, liquidity, lpFees, referrals, deficit>>

(* The equity of a position with another collateral, at its market's       *)
(* price.                                                                  *)
EquityWith(p, collateral) ==
    collateral + Pnl(p.direction, oracle[p.market].price, p.entry_price, p.notional)

(* Mutant: any positive equity will do.                                    *)
KeepsSomeEquity(p, collateral) == EquityWith(p, collateral) > 0

(* remove_margin keeps the equity strictly above five percent of the       *)
(* notional, rounded down.                                                 *)
KeepsMaintenance(p, collateral) ==
    EquityWith(p, collateral) > Bps(p.notional, LIQUIDATION_THRESHOLD_BPS)

RemoveMargin(u, s, amount) ==
    LET p         == positions[u][s]
        remaining == p.collateral - amount
    IN  /\ amount > 0
        /\ IsOpen(u, s)
        /\ Fresh(p.market)
        /\ p.collateral > amount
        /\ KeepsMaintenance(p, remaining)
        /\ positions' = [positions EXCEPT ![u][s] = WithCollateral(p, remaining)]
        /\ margin' = [margin EXCEPT ![u] = @ + amount]
        /\ UNCHANGED <<control, wallet, vaults, has_margin,
                       total_user_collateral, interest, shares, liquidity,
                       lpFees, referrals, deficit>>

(* A stop-loss lies on the losing side of a price, a take-profit on the    *)
(* winning side; zero is none.                                             *)
ValidTriggers(dir, price, sl, tp) ==
    /\ sl > 0 => IF dir = "long" THEN sl < price ELSE sl > price
    /\ tp > 0 => IF dir = "long" THEN tp > price ELSE tp < price

(* set_sl_tp takes whatever oracle account the caller passes: it checks    *)
(* neither its age nor that it is the position's own.                      *)
SetSlTp(u, s, o, sl, tp) ==
    /\ IsOpen(u, s)
    /\ ValidTriggers(positions[u][s].direction, oracle[o].price, sl, tp)
    /\ positions' = [positions EXCEPT ![u][s] = WithTriggers(@, sl, tp)]
    /\ UNCHANGED <<control, wallet, vaults, has_margin, margin,
                   total_user_collateral, interest, shares, liquidity,
                   lpFees, referrals, deficit>>

(* close_margin_account deletes the account and whatever it holds.         *)
CloseMarginAccount(u) ==
    /\ has_margin[u]
    /\ margin[u] = 0
    /\ \A s \in Slots : ~IsOpen(u, s)
    /\ has_margin' = [has_margin EXCEPT ![u] = FALSE]
    /\ margin' = [margin EXCEPT ![u] = 0]
    /\ positions' = [positions EXCEPT ![u] = [s \in Slots |-> EmptySlot]]
    /\ UNCHANGED <<control, wallet, vaults, total_user_collateral, interest,
                   shares, liquidity, lpFees, referrals, deficit>>

=============================================================================
