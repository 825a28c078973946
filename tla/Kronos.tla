------------------------------- MODULE Kronos -------------------------------
(***************************************************************************)
(* The Kronos program: every instruction that moves money or changes what  *)
(* a position is worth, interleaved in any order by any number of callers. *)
(***************************************************************************)
EXTENDS FundingCrank, Pool, Treasury, Control

CONSTANTS
    Traders, Providers, Referrers,  \* who plays which part
    Prices, DefaultPrices,          \* reported for a market, by default
    DepositAmounts,                 \* into the free collateral
    MarginAmounts,                  \* out of it, or to and from a position
    OpenSizes, Leverages,
    Stops,                          \* stop-loss and take-profit prices
    LpAmounts, BurnAmounts,         \* LP deposits, shares burnt
    TreasuryAmounts,                \* withdrawn by the admin
    FeeShares,                      \* referral rates the admin may set
    ParamSets, Pauses,              \* parameters the admin may set
    MaxTime                         \* bound on the clock

ASSUME InputAssumption ==
    /\ Traders \subseteq Users /\ Providers \subseteq Users
    /\ Referrers \subseteq Users
    /\ Prices \subseteq Nat /\ DefaultPrices \subseteq Nat
    /\ DepositAmounts \subseteq Nat /\ MarginAmounts \subseteq Nat
    /\ OpenSizes \subseteq Nat
    /\ Leverages \subseteq Nat /\ Stops \subseteq Nat
    /\ LpAmounts \subseteq Nat /\ BurnAmounts \subseteq Nat
    /\ TreasuryAmounts \subseteq Nat /\ FeeShares \subseteq Nat
    /\ ParamSets \subseteq AdmissibleParams
    /\ Pauses \subseteq {"keep", "on", "off"}
    /\ MaxTime \in Nat

MarginNext ==
    \E u \in Traders :
        \/ \E amount \in DepositAmounts : DepositCollateral(u, amount)
        \/ \E amount \in MarginAmounts \cup {margin[u]} :
               WithdrawCollateral(u, amount)
        \/ \E s \in Slots, amount \in MarginAmounts : AddMargin(u, s, amount)
        \/ \E s \in Slots, amount \in MarginAmounts : RemoveMargin(u, s, amount)
        \/ \E s \in Slots, o \in Oracles, sl, tp \in Stops \cup {0} :
               SetSlTp(u, s, o, sl, tp)
        \/ CloseMarginAccount(u)

TradingNext ==
    \E u \in Traders :
        \/ \E s \in Slots, m \in Markets, d \in Direction, c \in OpenSizes,
              l \in Leverages, sl, tp \in Stops \cup {0},
              r \in Referrers \cup {0}, withTracker \in BOOLEAN :
               OpenPosition(u, s, m, d, c, l, sl, tp, r, withTracker)
        \/ \E s \in Slots : ClosePosition(u, s)
        \/ \E s \in Slots : ExecuteSlTp(u, s)
        \/ \E s \in Slots : AdminClosePosition(u, s)
        \/ \E s \in Slots : Liquidate(u, s)
        \/ \E m \in Markets : SettleFunding(u, m)

PoolNext ==
    \E u \in Providers :
        \/ \E amount \in LpAmounts : LpDeposit(u, amount)
        \/ \E n \in BurnAmounts \cup {lp[u].shares} : LpWithdraw(u, n)
        \/ ClaimFees(u)

TreasuryNext ==
    \/ \E amount \in TreasuryAmounts : WithdrawFees(amount)
    \/ \E amount \in TreasuryAmounts : WithdrawInsurance(amount)
    \/ \E u \in Referrers : RegisterReferral(u)
    \/ \E u \in Referrers, rate \in FeeShares : SetFeeShare(u, rate)
    \/ \E u \in Referrers : ClaimReferral(u)

ControlNext ==
    \/ now < MaxTime /\ Tick
    \/ \E price \in DefaultPrices : UpdateOracle(price)
    \/ \E m \in Markets, price \in Prices : UpdateMarketOracle(m, price)
    \/ \E m \in Markets : CheckAndPause(m)
    \/ \E new \in ParamSets, pause \in Pauses : UpdateParams(new, pause)

Next == MarginNext \/ TradingNext \/ PoolNext \/ TreasuryNext \/ ControlNext

Spec == Init /\ [][Next]_vars

-----------------------------------------------------------------------------
(* Bookkeeping invariants: each running total the program keeps so that it *)
(* need not look at every account agrees with the accounts.                *)

(* USDC a user has in the program: free collateral and collateral of       *)
(* positions.                                                              *)
Held(u) ==
    margin[u] + Sum([s \in Slots |-> positions[u][s].collateral], MaxPositions)

(* total_user_collateral is what the margin accounts hold together.  Every *)
(* handler updates it by its own formula, several of them with a           *)
(* saturating subtraction that would hide a mistake.                       *)
CollateralLedger ==
    total_user_collateral = Sum([u \in Users |-> Held(u)], NumUsers)

NotionalOf(u, m, d) ==
    Sum([s \in Slots |-> IF positions[u][s].market = m /\ positions[u][s].direction = d
                         THEN positions[u][s].notional ELSE 0], MaxPositions)

NotionalIn(m, d) == Sum([u \in Users |-> NotionalOf(u, m, d)], NumUsers)

(* The open interest that sets the funding rate, and the exposure that     *)
(* sets the insurance reserve, are those of the open positions: nothing is *)
(* left behind by a position settled, liquidated or drained by funding.    *)
InterestLedger ==
    /\ \A m \in Markets, d \in Direction : oi[m][d] = NotionalIn(m, d)
    /\ \A d \in Direction :
          exposure[d] = Sum([u \in Users |->
              Sum([s \in Slots |-> IF positions[u][s].direction = d
                                   THEN positions[u][s].notional ELSE 0],
                  MaxPositions)], NumUsers)

(* The pool's accounting of its USDC is the balance of its vault.          *)
PoolBacked == total_usdc = lp_vault

(* Every share is somebody's.                                              *)
SharesLedger == total_shares = Sum([u \in Users |-> lp[u].shares], NumUsers)

(* What the fee vault reserves for referrers is what they may claim, and   *)
(* a referrer counts each tracked trader once.                             *)
ReferralLedger ==
    /\ total_referral_pending =
           Sum([u \in Users |-> referral[u].pending_fees], NumUsers)
    /\ \A r \in Users :
          referral[r].unique_referrals =
              Sum([t \in Users |-> IF <<r, t>> \in tracked THEN 1 ELSE 0], NumUsers)

-----------------------------------------------------------------------------
(* Solvency.                                                               *)

(* What the fee vault owes: users, providers and referrers.                *)
Owed == total_user_collateral + (accumulated_fees - total_fees_claimed)
            + total_referral_pending

(* Whatever the handlers do, the fee vault misses at most what settled     *)
(* positions failed to cover and what fees were split into beyond what was *)
(* charged, which the bounds of update_params allow: no rounding, partial  *)
(* payout or order of withdrawals takes more out of it.  (What providers   *)
(* claim beyond the accumulated fees is the matter of ClaimsEarned.)       *)
FeeVaultCovered == fee_vault + deficit >= Owed

(* As the program's state declares it: the fee vault holds all user funds. *)
FeeVaultSolvent == fee_vault >= total_user_collateral

-----------------------------------------------------------------------------
(* Action properties.                                                      *)

LiquidatableAt(p) == p.direction # "none" /\ PositionLiquidatable(p)

(* Only a price or a funding charge makes a position liquidatable: neither *)
(* opening one nor taking margin out of it does.                           *)
HealthKept ==
    [][oracle' = oracle =>
         \A u \in Users, s \in Slots :
            LET p == positions[u][s]  q == positions'[u][s] IN
            LiquidatableAt(q) =>
                \/ LiquidatableAt(p)
                \/ /\ IsOpen(u, s)
                   /\ p.last_funding_timestamp < q.last_funding_timestamp]_vars

(* Deposits and withdrawals of one provider never take value from the      *)
(* shares of the others: rounding is always in the pool's favour.          *)
ShareValueKept ==
    [][(total_shares' # total_shares /\ total_shares > 0) =>
         total_usdc' * total_shares >= total_usdc * total_shares']_vars

(* What the providers have been paid and what they can still claim.        *)
LpClaims ==
    total_fees_claimed + Sum([u \in Users |-> Claimable(u)], NumUsers)

(* Once the accumulator is in use, the providers together gain nothing but *)
(* the fees of the step, whatever shares are bought, burnt or paid out in  *)
(* it; rounding gives each of them at most one unit more.                  *)
ClaimsEarned ==
    [][acc_fee_per_share > 0 =>
         LpClaims' - LpClaims
            <= accumulated_fees' - accumulated_fees + NumUsers]_vars

(* A stop-loss set on a position lies on the losing side of its market's   *)
(* price (set_sl_tp.rs: "SL must be below current price for long").        *)
StopsBehindPrice ==
    [][\A u \in Users, s \in Slots :
          LET p == positions[u][s]  q == positions'[u][s] IN
          q.sl_price > 0 /\ q.sl_price # p.sl_price =>
              ValidTriggers(q.direction, oracle[q.market].price, q.sl_price, 0)]_vars

(* A pause the admin asked for is lifted by nobody else.                   *)
ManualPauseHeld ==
    [][(is_paused /\ manual_pause /\ ~is_paused') => ~manual_pause']_vars

=============================================================================
