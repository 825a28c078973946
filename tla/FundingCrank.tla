---------------------------- MODULE FundingCrank ----------------------------
(***************************************************************************)
(* settle_funding: the permissionless call that charges one account the    *)
(* funding its positions of one market have accrued.  The handler computes *)
(* what to do with every slot from the open interest it starts with, then  *)
(* applies all of it; the sums below are over the slots of the account.    *)
(***************************************************************************)
EXTENDS Trading

(* A slot is charged when its position belongs to the market, is on the    *)
(* majority side and the minimum interval has passed.  A slot that is not  *)
(* charged keeps its old timestamp.                                        *)
Chargeable(p, m) ==
    /\ p.direction # "none" /\ p.market = m
    /\ SatSub(now, p.last_funding_timestamp) >= MinFundingInterval

Charge(p, m) == IF Chargeable(p, m) THEN FundingOwed(p) ELSE 0

(* Funding that reaches the collateral liquidates the position.            *)
Drained(p, m) == Charge(p, m) > 0 /\ Charge(p, m) >= p.collateral

(* Mutant: a drained position is charged more than it has.                 *)
TakenInFull(p, m) == Charge(p, m)

Taken(p, m) == IF Drained(p, m) THEN p.collateral ELSE Charge(p, m)

(* Mutant: the providers are credited with the insurance's share too.      *)
WholeCut(p, m) == Taken(p, m)

LpCut(p, m) ==
    Bps(Taken(p, m), IF Drained(p, m) THEN LIQUIDATION_LP_BPS ELSE FUNDING_LP_BPS)

InsuranceCut(p, m) ==
    Bps(Taken(p, m), IF Drained(p, m) THEN LIQUIDATION_INSURANCE_BPS
                                      ELSE FUNDING_INSURANCE_BPS)

DrainedNotional(p, m, d) ==
    IF Drained(p, m) /\ p.direction = d THEN p.notional ELSE 0

AfterFunding(p, m) ==
    IF Charge(p, m) = 0 THEN p
    ELSE IF Drained(p, m) THEN EmptySlot
    ELSE [WithCollateral(p, p.collateral - Charge(p, m))
            EXCEPT !.last_funding_timestamp = now]

(* Sums over the slots of u of what each position contributes.             *)
TakenSum(u, m) ==
    Sum([s \in Slots |-> Taken(positions[u][s], m)], MaxPositions)
LpCutSum(u, m) ==
    Sum([s \in Slots |-> LpCut(positions[u][s], m)], MaxPositions)
PerShareSum(u, m) ==
    Sum([s \in Slots |-> PerShare(LpCut(positions[u][s], m))], MaxPositions)
InsuranceCutSum(u, m) ==
    Sum([s \in Slots |-> InsuranceCut(positions[u][s], m)], MaxPositions)
DrainedSum(u, m, d) ==
    Sum([s \in Slots |-> DrainedNotional(positions[u][s], m, d)], MaxPositions)

SettleFunding(u, m) ==
    /\ ~is_paused
    /\ has_margin[u]
    /\ Fresh(m)
    /\ fee_vault >= InsuranceCutSum(u, m)
    /\ fee_vault' = fee_vault - InsuranceCutSum(u, m)
    /\ insurance_fund' = insurance_fund + InsuranceCutSum(u, m)
    /\ accumulated_fees' = accumulated_fees + LpCutSum(u, m)
    /\ acc_fee_per_share' = acc_fee_per_share + PerShareSum(u, m)
    /\ total_user_collateral' = SatSub(total_user_collateral, TakenSum(u, m))
    /\ positions' = [positions EXCEPT ![u] =
                        [s \in Slots |-> AfterFunding(positions[u][s], m)]]
    /\ oi' = [oi EXCEPT ![m] =
                [d \in Direction |-> SatSub(oi[m][d], DrainedSum(u, m, d))]]
    /\ exposure' = [d \in Direction |-> SatSub(exposure[d], DrainedSum(u, m, d))]
    /\ UNCHANGED <<control, wallet, has_margin, margin, shares, liquidity,
                   total_fees_claimed, referrals, deficit>>

=============================================================================
