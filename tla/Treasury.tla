------------------------------ MODULE Treasury ------------------------------
(***************************************************************************)
(* The admin's withdrawals from the two treasury accounts, and the         *)
(* referrers' accounts.                                                    *)
(***************************************************************************)
EXTENDS KronosState

(* withdraw_fees leaves LP fees, user collateral and referral fees alone;  *)
(* it never reads the timelock.                                            *)
WithdrawFees(amount) ==
    /\ SatSub(fee_vault, LpReserved + total_user_collateral
                            + total_referral_pending) >= amount
    /\ fee_vault' = fee_vault - amount
    /\ UNCHANGED <<control, wallet, insurance_fund, accounts, interest, shares,
                   liquidity, lpFees, referrals, deficit>>

(* withdraw_insurance leaves a tenth of all open interest in the fund.     *)
WithdrawInsurance(amount) ==
    /\ insurance_fund >= amount
    /\ insurance_fund - amount >= (exposure["long"] + exposure["short"]) \div 10
    /\ insurance_fund' = insurance_fund - amount
    /\ UNCHANGED <<control, wallet, fee_vault, accounts, interest, shares,
                   liquidity, lpFees, referrals, deficit>>

RegisterReferral(u) ==
    /\ ~referral[u].registered
    /\ referral' = [referral EXCEPT ![u].registered = TRUE]
    /\ UNCHANGED <<control, wallet, vaults, accounts, interest, shares,
                   liquidity, lpFees, tracked, total_referral_pending, deficit>>

SetFeeShare(u, rate) ==
    /\ referral[u].registered
    /\ rate <= MAX_FEE_SHARE_BPS
    /\ referral' = [referral EXCEPT ![u].fee_share_bps = rate]
    /\ UNCHANGED <<control, wallet, vaults, accounts, interest, shares,
                   liquidity, lpFees, tracked, total_referral_pending, deficit>>

(* claim_referral pays everything pending or fails.                        *)
ClaimReferral(u) ==
    LET amount == referral[u].pending_fees
    IN  /\ referral[u].registered
        /\ amount > 0
        /\ fee_vault >= amount
        /\ fee_vault' = fee_vault - amount
        /\ wallet' = [wallet EXCEPT ![u] = @ + amount]
        /\ referral' = [referral EXCEPT ![u].pending_fees = 0]
        /\ total_referral_pending' = SatSub(total_referral_pending, amount)
        /\ UNCHANGED <<control, insurance_fund, accounts, interest, shares,
                       liquidity, lpFees, tracked, deficit>>

=============================================================================
