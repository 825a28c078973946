-------------------------------- MODULE Pool --------------------------------
(***************************************************************************)
(* The liquidity pool: shares of the LP vault, and the trading fees shared *)
(* out among the providers by an accumulator of fees per share.            *)
(***************************************************************************)
EXTENDS KronosState

(* What n shares have earned since the accumulator was zero.               *)
Entitled(n) == (n * acc_fee_per_share) \div Precision

(* Fees a provider can claim.  While the accumulator is still zero it is   *)
(* a share of everything unclaimed (the path for accounts that existed     *)
(* before the accumulator).                                                *)
Claimable(u) ==
    IF acc_fee_per_share > 0
    THEN SatSub(Entitled(lp[u].shares), lp[u].reward_debt)
    ELSE IF total_shares = 0 THEN 0
    ELSE (lp[u].shares * LpReserved) \div total_shares

(* Shares for a deposit, at the pool's current value per share.            *)
SharesFor(amount) ==
    IF total_shares = 0 THEN amount
    ELSE (amount * total_shares) \div total_usdc

(* Mutant: the debt of the old shares stays.                               *)
StaleDebt(u, owned) == lp[u].reward_debt

(* The debt of a provider who comes to own more shares: the new ones earn  *)
(* nothing from the past and what was already earned is kept.              *)
DebtFor(u, owned) ==
    LET pending == IF lp[u].shares > 0 /\ acc_fee_per_share > 0
                   THEN SatSub(Entitled(lp[u].shares), lp[u].reward_debt) ELSE 0
    IN  SatSub(Entitled(owned), pending)

(* lp_deposit fails on a division by zero when the pool is empty but       *)
(* shares are outstanding.                                                 *)
LpDeposit(u, amount) ==
    LET owned == lp[u].shares + SharesFor(amount)
    IN  /\ amount > 0
        /\ total_shares = 0 => amount >= MinFirstDeposit
        /\ total_shares > 0 => total_usdc > 0
        /\ SharesFor(amount) > 0
        /\ wallet[u] >= amount
        /\ wallet' = [wallet EXCEPT ![u] = @ - amount]
        /\ lp_vault' = lp_vault + amount
        /\ total_usdc' = total_usdc + amount
        /\ total_shares' = total_shares + SharesFor(amount)
        /\ lp' = [lp EXCEPT ![u] =
                    [shares |-> owned, reward_debt |-> DebtFor(u, owned)]]
        /\ UNCHANGED <<control, vaults, accounts, interest, lpFees, referrals,
                       deficit>>

(* Mutant: the withdrawal is rounded up.                                   *)
UsdcForRoundedUp(n) == (n * total_usdc + total_shares - 1) \div total_shares

UsdcFor(n) == (n * total_usdc) \div total_shares

(* Mutant: the pool keeps counting the burnt shares.                       *)
BurnOwn(u, n) ==
    /\ total_shares' = total_shares
    /\ lp' = [lp EXCEPT ![u] = [shares |-> lp[u].shares - n,
                                reward_debt |-> Entitled(lp[u].shares - n)]]

(* Burning starts the provider's debt afresh: the fees have been paid.     *)
BurnShares(u, n) ==
    LET remaining == lp[u].shares - n
    IN  /\ total_shares' = total_shares - n
        /\ lp' = [lp EXCEPT ![u] =
                    [shares |-> remaining,
                     reward_debt |-> IF remaining = 0 THEN 0 ELSE Entitled(remaining)]]

(* lp_withdraw first pays the provider's fees, as far as fee_vault         *)
(* reaches, then burns the shares.  The pool must keep at least as much as *)
(* all user collateral.                                                    *)
LpWithdraw(u, n) ==
    LET fees == Lesser(Claimable(u), fee_vault)
    IN  /\ n > 0 /\ lp[u].shares >= n
        /\ total_shares > 0
        /\ lp_vault >= UsdcFor(n)
        /\ SatSub(total_usdc, UsdcFor(n)) >= total_user_collateral
        /\ total_shares >= n
        /\ fee_vault' = fee_vault - fees
        /\ total_fees_claimed' = total_fees_claimed + fees
        /\ lp_vault' = lp_vault - UsdcFor(n)
        /\ total_usdc' = SatSub(total_usdc, UsdcFor(n))
        /\ BurnShares(u, n)
        /\ wallet' = [wallet EXCEPT ![u] = @ + fees + UsdcFor(n)]
        /\ UNCHANGED <<control, insurance_fund, accounts, interest,
                       accumulated_fees, acc_fee_per_share, referrals, deficit>>

(* claim_fees pays what fee_vault can and forgets the rest; on the path    *)
(* with a zero accumulator nothing records that the provider was paid.     *)
ClaimFees(u) ==
    LET fees == Lesser(Claimable(u), fee_vault)
    IN  /\ total_shares > 0 /\ lp[u].shares > 0
        /\ Claimable(u) > 0
        /\ fee_vault' = fee_vault - fees
        /\ wallet' = [wallet EXCEPT ![u] = @ + fees]
        /\ total_fees_claimed' = total_fees_claimed + fees
        /\ lp' = IF acc_fee_per_share > 0
                 THEN [lp EXCEPT ![u] = [shares |-> lp[u].shares,
                                         reward_debt |-> Entitled(lp[u].shares)]]
                 ELSE lp
        /\ UNCHANGED <<control, insurance_fund, accounts, interest, total_shares,
                       liquidity, accumulated_fees, acc_fee_per_share,
                       referrals, deficit>>

=============================================================================
