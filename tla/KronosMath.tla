----------------------------- MODULE KronosMath -----------------------------
(***************************************************************************)
(* The integer arithmetic of the Kronos program: basis-point shares,       *)
(* saturating subtraction, profit and loss, funding and the liquidation    *)
(* test.  Every operator here is pure; the handlers of the other modules   *)
(* are written with them.                                                  *)
(***************************************************************************)
EXTENDS Integers

CONSTANTS
    SecondsPerHour,     \* clock units in an hour (3600 in the program)
    FundingScale        \* FUNDING_RATE_SCALE (100_000 in the program)

ASSUME ScaleAssumption ==
    /\ SecondsPerHour \in Nat \ {0}
    /\ FundingScale \in Nat \ {0}

Direction == {"long", "short"}
Opposite(d) == IF d = "long" THEN "short" ELSE "long"

-----------------------------------------------------------------------------
(* Constants of the program that are the same in every instance.           *)

MAX_LEVERAGE == 10
LIQUIDATION_THRESHOLD_BPS == 500
LIQUIDATOR_REWARD_BPS == 200
LIQUIDATION_LP_BPS == 4400
LIQUIDATION_INSURANCE_BPS == 4400
FUNDING_LP_BPS == 7000
FUNDING_INSURANCE_BPS == 2000
KEEPER_REWARD_BPS == 10
MAX_ORACLE_DEVIATION_BPS == 2000
REFERRAL_FEE_BPS == 1000
AUTO_UPGRADE_FEE_SHARE_BPS == 2000
MAX_FEE_SHARE_BPS == 3000

-----------------------------------------------------------------------------
(* x.checked_mul(rate).checked_div(10_000)                                 *)
Bps(x, rate) == (x * rate) \div 10000

(* u64::saturating_sub                                                     *)
SatSub(a, b) == IF b <= a THEN a - b ELSE 0

Lesser(a, b) == IF a <= b THEN a ELSE b

(* i128 division truncates towards zero; \div rounds down.                 *)
TruncDiv(a, b) == IF a >= 0 THEN a \div b ELSE -((-a) \div b)

(* compute_pnl: signed profit of a position at a price.                    *)
Pnl(dir, price, entry, notional) ==
    LET delta == IF dir = "long" THEN price - entry ELSE entry - price
    IN  IF entry = 0 THEN 0 ELSE TruncDiv(delta * notional, entry)

(* The larger side pays; with equal open interest both sides pay.          *)
OnMajoritySide(dir, interest) == interest[dir] >= interest[Opposite(dir)]

(* Rate per hour: the base rate plus the skew of the market's two sides.   *)
HourlyRate(interest, base, skewFactor) ==
    LET long  == interest["long"]
        short == interest["short"]
        diff  == IF long > short THEN long - short ELSE short - long
    IN  base + (IF long + short > 0
                THEN (diff * skewFactor) \div (long + short) ELSE 0)

(* Funding accrued on a notional over an elapsed time.                     *)
Funding(notional, rate, elapsed) ==
    (notional * rate * elapsed) \div (SecondsPerHour * FundingScale)

(* liquidate: equity below five percent of the notional.                   *)
Liquidatable(collateral, pnl, notional) ==
    LET equity == collateral + pnl
    IN  \/ equity <= 0
        \/ equity * 10000 < notional * LIQUIDATION_THRESHOLD_BPS

-----------------------------------------------------------------------------
(* f[1] + ... + f[n], as a recursive function.                             *)
Sum(f, n) ==
    LET s[i \in 0..n] == IF i = 0 THEN 0 ELSE s[i-1] + f[i] IN s[n]

=============================================================================
