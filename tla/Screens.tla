------------------------------- MODULE Screens -------------------------------
(***************************************************************************)
(* What the pages of the web application tell a user before a call to the  *)
(* program, computed from the accounts of Kronos by formulas of their own, *)
(* next to what the call then does.  How stale the accounts they are       *)
(* computed from may be is the matter of Views; here they are up to date.  *)
(***************************************************************************)
EXTENDS Kronos

(* The pool page.                                                          *)
PreviewShares(paid) ==
    IF total_shares > 0 /\ total_usdc > 0
    THEN (paid * total_shares) \div total_usdc ELSE paid

WithdrawUsdcValue(n) ==
    IF total_shares > 0 THEN (n * total_usdc) \div total_shares ELSE 0

(* Mutant: the debt is left out.                                           *)
EverEarned(u) == (lp[u].shares * acc_fee_per_share) \div Precision

ShownClaimable(u) ==
    IF acc_fee_per_share > 0
    THEN SatSub((lp[u].shares * acc_fee_per_share) \div Precision, lp[u].reward_debt)
    ELSE IF total_shares > 0
    THEN (lp[u].shares * SatSub(accumulated_fees, total_fees_claimed)) \div total_shares
    ELSE 0

(* The order form: the fee of a new position.                              *)
OpenFeeShown(collateral) == (collateral * params.fee_bps) \div 10000

(* A position on its row: its profit at the price shown, which calcPnl     *)
(* neither caps nor rounds, and the fee of closing it.                     *)
PnlShown(p) ==
    LET move == IF p.direction = "long" THEN oracle[p.market].price - p.entry_price
                ELSE p.entry_price - oracle[p.market].price
    IN  move * p.notional

RowFigures(p) ==
    [pnl       |-> PnlShown(p),
     close_fee |-> (p.collateral * params.fee_bps) \div 10000]

(* calcLiqPriceLong and calcLiqPriceShort: the price is at or past         *)
(* entry * (1 - 1/leverage + 0.02), on either side.                        *)
PastLiqPrice(dir, price, entry, leverage) ==
    LET part == 100 * leverage IN
    IF dir = "long" THEN price * part <= entry * (part - 100 + 2 * leverage)
                    ELSE price * part >= entry * (part + 100 - 2 * leverage)

-----------------------------------------------------------------------------
Received(u) == wallet'[u] - wallet[u]
ToMargin(u) == margin'[u] - margin[u]
Minted(u)   == lp'[u].shares - lp[u].shares
PaidFees(u) == Lesser(ShownClaimable(u), fee_vault)

(* Closed by its owner or an admin, and worth something at the price.      *)
ClosedEarly(u, s) ==
    LET p == positions[u][s] IN
    /\ p # EmptySlot /\ positions'[u][s] = EmptySlot
    /\ ~PositionLiquidatable(p) /\ ~Triggered(p)
    /\ FundingOwed(p) = 0 /\ Due(p, 0) >= 0
    /\ PnlShown(p) <= Bps(p.collateral, params.profit_cap_bps) * p.entry_price
    /\ Shortfall(p) = 0

(* The shares bought are those previewed.                                  *)
SharesAsShown(u) ==
    Minted(u) > 0 => Minted(u) = PreviewShares(-Received(u))

(* A withdrawal brings the USDC previewed and the fees shown, as far as    *)
(* the fee vault reaches.                                                  *)
WithdrawalAsShown(u) ==
    Minted(u) < 0 => Received(u) = WithdrawUsdcValue(-Minted(u)) + PaidFees(u)

ClaimAsShown(u) ==
    Minted(u) = 0 /\ total_fees_claimed' > total_fees_claimed /\ Received(u) > 0
        => Received(u) = PaidFees(u)

OpeningAsShown(u, s) ==
    positions[u][s] = EmptySlot /\ positions'[u][s] # EmptySlot
        => total_user_collateral - total_user_collateral' =
               OpenFeeShown(margin[u] - margin'[u])

(* The gain is the profit shown, to the unit.                              *)
ClosingAsShown(u, s) ==
    ClosedEarly(u, s) =>
        LET p    == positions[u][s]
            gain == ToMargin(u) - p.collateral + RowFigures(p).close_fee
        IN  (gain - 1) * p.entry_price < RowFigures(p).pnl
                /\ RowFigures(p).pnl < (gain + 1) * p.entry_price

(* The pool page and the order form promise what the program does: a       *)
(* deposit brings the shares previewed, a withdrawal the USDC previewed    *)
(* and the fees shown, a claim the fees shown, both as far as the fee      *)
(* vault reaches, and an open costs the fee shown; a close within the      *)
(* first hour brings the collateral and the profit shown less the fee      *)
(* shown, to the unit, unless the profit is capped or the pool runs dry.   *)
(* This is so whatever fees, losses and other providers have done to the   *)
(* pool since the accounts were made.                                      *)
PreviewsAgree ==
    [][\A u \in Users :
        /\ SharesAsShown(u) /\ WithdrawalAsShown(u) /\ ClaimAsShown(u)
        /\ \A s \in Slots : OpeningAsShown(u, s) /\ ClosingAsShown(u, s)]_vars

(* docs.html:183 gives the liquidation price of a long position as         *)
(* "entry_price * (1 - (collateral - notional * 0.05) / notional)" and     *)
(* utils.ts:82 takes its own "from spec": a position as it was opened is   *)
(* not liquidated before the price the page shows for it.  Violated: the   *)
(* page reckons with two percent of margin where the program wants five.   *)
LiqPriceShown ==
    \A u \in Users, s \in Slots, leverage \in Leverages :
        LET p == positions[u][s] IN
        IsOpen(u, s) /\ p.notional = leverage * p.collateral /\ PositionLiquidatable(p)
            => PastLiqPrice(p.direction, oracle[p.market].price, p.entry_price, leverage)
=============================================================================
