------------------------------ MODULE Trading ------------------------------
(***************************************************************************)
(* The life of a position: opening, the three ways of settling it (by its  *)
(* owner, by a trigger, by the admin), liquidation, and periodic funding.  *)
(***************************************************************************)
EXTENDS Margin

-----------------------------------------------------------------------------
(* Opening                                                                 *)

(* The referral account counts when it exists and is not the trader's own; *)
(* r = 0 stands for a call without one.                                    *)
Refers(r, u) == r # 0 /\ r # u /\ referral[r].registered

(* The referrer's share of the fee: the admin's rate, else the upgraded    *)
(* rate, else the default.  The counters are those before this trade.      *)
EffectiveBps(r) ==
    IF referral[r].fee_share_bps > 0 THEN referral[r].fee_share_bps
    ELSE IF /\ referral[r].unique_referrals >= UpgradeUniqueRefs
            /\ referral[r].total_fees_generated >= UpgradeFees
         THEN AUTO_UPGRADE_FEE_SHARE_BPS
         ELSE REFERRAL_FEE_BPS

ReferralPortion(r, u, fee) ==
    IF Refers(r, u) THEN Bps(fee, EffectiveBps(r)) ELSE 0

(* Mutant: every trade counts as a new trader.                             *)
CreditedEachTrade(account, fee, portion, count) ==
    [account EXCEPT !.pending_fees = @ + portion,
                    !.total_fees_generated = @ + fee,
                    !.unique_referrals = @ + 1]

Credited(account, fee, portion, count) ==
    [account EXCEPT !.pending_fees = @ + portion,
                    !.total_fees_generated = @ + fee,
                    !.unique_referrals = @ + count]

(* Credit a referrer and, when the call carries the tracker account,       *)
(* count a trader the first time the referrer brings them.                 *)
CreditReferrer(r, u, fee, portion, withTracker) ==
    LET new == withTracker /\ <<r, u>> \notin tracked
    IN  IF Refers(r, u)
        THEN /\ referral' = [referral EXCEPT ![r] =
                                Credited(@, fee, portion, IF new THEN 1 ELSE 0)]
             /\ tracked' = IF new THEN tracked \cup {<<r, u>>} ELSE tracked
             /\ total_referral_pending' = total_referral_pending + portion
        ELSE UNCHANGED referrals

(* Room left under the market's cap and the protocol's.                    *)
HasRoom(m, dir, notional) ==
    /\ oi[m][dir] + notional <= MaxMarketOI
    /\ exposure[dir] + notional <= params.max_exposure[dir]

FirstOpenSlot(u, s) ==
    /\ ~IsOpen(u, s)
    /\ \A t \in Slots : t < s => IsOpen(u, t)

(* open_position: the fee is split between LPs, referrer and insurance;    *)
(* the referrer is paid out of the insurance part first.                   *)
OpenPosition(u, s, m, dir, collateral, leverage, sl, tp, r, withTracker) ==
    LET entry     == oracle[m].price
        fee       == Bps(collateral, params.fee_bps)
        net       == collateral - fee
        notional  == net * leverage
        lpFee     == Bps(fee, params.lp_fee_bps)
        portion   == ReferralPortion(r, u, fee)
        insurance == SatSub(Bps(fee, params.insurance_fund_bps), portion)
    IN  /\ ~is_paused
        /\ leverage >= 1 /\ leverage <= MAX_LEVERAGE
        /\ collateral >= params.min_position_size
        /\ margin[u] >= collateral
        /\ FirstOpenSlot(u, s)
        /\ Fresh(m)
        /\ ValidTriggers(dir, entry, sl, tp)
        /\ HasRoom(m, dir, notional)
        /\ fee_vault >= insurance
        /\ fee_vault' = fee_vault - insurance
        /\ insurance_fund' = insurance_fund + insurance
        /\ AccrueLpFee(lpFee)
        /\ margin' = [margin EXCEPT ![u] = @ - collateral]
        /\ positions' = [positions EXCEPT ![u][s] =
                [direction |-> dir, market |-> m, collateral |-> net,
                 notional |-> notional, entry_price |-> entry,
                 last_funding_timestamp |-> now,
                 sl_price |-> sl, tp_price |-> tp]]
        /\ total_user_collateral' = SatSub(total_user_collateral, fee)
        /\ CreditReferrer(r, u, fee, portion, withTracker)
        /\ oi' = [oi EXCEPT ![m][dir] = @ + notional]
        /\ exposure' = [exposure EXCEPT ![dir] = @ + notional]
        /\ deficit' = deficit + SatSub(insurance + portion + lpFee, fee)
        /\ UNCHANGED <<control, wallet, has_margin, shares, liquidity>>

-----------------------------------------------------------------------------
(* Settling                                                                *)

(* Funding owed since the position was opened or last charged; the         *)
(* minority side owes nothing.                                             *)
FundingOwed(p) ==
    IF OnMajoritySide(p.direction, oi[p.market])
    THEN Funding(p.notional,
                 HourlyRate(oi[p.market], params.base_funding_rate_per_hour,
                            params.skew_factor),
                 SatSub(now, p.last_funding_timestamp))
    ELSE 0

(* Profit is capped at a multiple of the position's collateral, a loss is  *)
(* not capped at all.                                                      *)
CappedPnl(p) ==
    Lesser(Pnl(p.direction, oracle[p.market].price, p.entry_price, p.notional),
           Bps(p.collateral, params.profit_cap_bps))

CloseFee(p) == Bps(p.collateral, params.fee_bps)

LpPortion(p) ==
    Bps(CloseFee(p), params.lp_fee_bps) + Bps(FundingOwed(p), FUNDING_LP_BPS)

InsurancePortion(p) ==
    Bps(CloseFee(p), params.insurance_fund_bps)
        + Bps(FundingOwed(p), FUNDING_INSURANCE_BPS)

(* What the position is worth to its owner, before it is floored at zero.  *)
Due(p, reward) ==
    p.collateral + CappedPnl(p) - FundingOwed(p) - CloseFee(p) - reward

Profit(p) == IF CappedPnl(p) > 0 THEN CappedPnl(p) ELSE 0
Loss(p)   == IF CappedPnl(p) < 0 THEN -CappedPnl(p) ELSE 0

(* Mutant: the LP vault pays the profit whether it can or not.             *)
UnboundedProfit(p) == Profit(p)

(* The LP vault pays the profit as far as it reaches.                      *)
ProfitPaid(p) == Lesser(Profit(p), lp_vault)
Shortfall(p)  == Profit(p) - ProfitPaid(p)

(* Mutant: the owner is credited with profit nobody paid.                  *)
WithShortfall(p, reward) == IF Due(p, reward) <= 0 THEN 0 ELSE Due(p, reward)

Settlement(p, reward) ==
    SatSub(IF Due(p, reward) <= 0 THEN 0 ELSE Due(p, reward), Shortfall(p))

(* Mutant: the total forgets what is credited back to the owner.           *)
TotalWithout(p, credited) == SatSub(total_user_collateral, p.collateral)

(* total_user_collateral once the position's collateral is replaced by     *)
(* what is credited.                                                       *)
TotalAfter(p, credited) ==
    IF credited >= p.collateral
    THEN total_user_collateral + (credited - p.collateral)
    ELSE SatSub(total_user_collateral, p.collateral - credited)

(* History: what the fee vault comes to miss by it, because the position   *)
(* does not cover the shortfall, or more is shared out than it was charged.*)
Missed(p, reward) ==
    SatSub(Shortfall(p), Due(p, reward))
        + SatSub(InsurancePortion(p) + LpPortion(p), CloseFee(p) + FundingOwed(p))

(* The common part of close_position, execute_sl_tp and                    *)
(* admin_close_position: fees are routed, the profit comes from the LP     *)
(* vault or the whole loss goes to it, and the rest is credited to the     *)
(* owner's free collateral.  The transfers fail when fee_vault runs dry.   *)
SettlePosition(u, s, reward) ==
    LET p == positions[u][s]
    IN  /\ fee_vault >= InsurancePortion(p) + reward + Loss(p)
        /\ fee_vault' = fee_vault - InsurancePortion(p) - reward - Loss(p)
                            + ProfitPaid(p)
        /\ insurance_fund' = insurance_fund + InsurancePortion(p)
        /\ lp_vault' = lp_vault - ProfitPaid(p) + Loss(p)
        /\ total_usdc' = SatSub(total_usdc, ProfitPaid(p)) + Loss(p)
        /\ AccrueLpFee(LpPortion(p))
        /\ margin' = [margin EXCEPT ![u] = @ + Settlement(p, reward)]
        /\ total_user_collateral' = TotalAfter(p, Settlement(p, reward))
        /\ DropInterest(p)
        /\ positions' = [positions EXCEPT ![u][s] = EmptySlot]
        /\ deficit' = deficit + Missed(p, reward)
        /\ UNCHANGED <<control, wallet, has_margin, shares, referrals>>

ClosePosition(u, s) ==
    /\ ~is_paused
    /\ IsOpen(u, s)
    /\ Fresh(positions[u][s].market)
    /\ SettlePosition(u, s, 0)

(* determine_trigger: the stop-loss is looked at first, but either closes. *)
Triggered(p) ==
    LET price == oracle[p.market].price
    IN  \/ /\ p.sl_price > 0
           /\ IF p.direction = "long" THEN price <= p.sl_price
                                      ELSE price >= p.sl_price
        \/ /\ p.tp_price > 0
           /\ IF p.direction = "long" THEN price >= p.tp_price
                                      ELSE price <= p.tp_price

(* execute_sl_tp: anyone may call it and is paid by the position's owner.  *)
ExecuteSlTp(u, s) ==
    /\ ~is_paused
    /\ IsOpen(u, s)
    /\ Fresh(positions[u][s].market)
    /\ Triggered(positions[u][s])
    /\ SettlePosition(u, s, Bps(positions[u][s].collateral, KEEPER_REWARD_BPS))

(* admin_close_position looks neither at the pause nor at the oracle's age.*)
AdminClosePosition(u, s) ==
    /\ IsOpen(u, s)
    /\ SettlePosition(u, s, 0)

-----------------------------------------------------------------------------
(* Liquidation                                                             *)

PositionLiquidatable(p) ==
    Liquidatable(p.collateral,
                 Pnl(p.direction, oracle[p.market].price, p.entry_price, p.notional),
                 p.notional)

(* liquidate: the whole collateral is shared out, and neither the loss nor *)
(* the funding accrued is settled with the LP vault.                       *)
Liquidate(u, s) ==
    LET p         == positions[u][s]
        reward    == Bps(p.collateral, LIQUIDATOR_REWARD_BPS)
        insurance == Bps(p.collateral, LIQUIDATION_INSURANCE_BPS)
    IN  /\ ~is_paused
        /\ IsOpen(u, s)
        /\ Fresh(p.market)
        /\ PositionLiquidatable(p)
        /\ fee_vault >= reward + insurance
        /\ fee_vault' = fee_vault - reward - insurance
        /\ insurance_fund' = insurance_fund + insurance
        /\ AccrueLpFee(Bps(p.collateral, LIQUIDATION_LP_BPS))
        /\ total_user_collateral' = SatSub(total_user_collateral, p.collateral)
        /\ DropInterest(p)
        /\ positions' = [positions EXCEPT ![u][s] = EmptySlot]
        /\ UNCHANGED <<control, wallet, has_margin, margin, shares, liquidity,
                       referrals, deficit>>

=============================================================================
