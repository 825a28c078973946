---------------------------- MODULE KronosState ----------------------------
(***************************************************************************)
(* The accounts of the Kronos program: what the on-chain state is, how it  *)
(* starts, and the few updates several instructions share.  A transaction  *)
(* on Solana is atomic, so the other modules describe one instruction by   *)
(* one action over these variables.                                        *)
(*                                                                         *)
(* A fresh deployment is assumed: initialize, initialize_pool, the market  *)
(* accounts and their seed prices are in place and no user has acted.      *)
(***************************************************************************)
EXTENDS KronosMath

CONSTANTS
    NumUsers,           \* wallets are numbered 1 to NumUsers
    Markets,            \* market ids, each with its own oracle
    DefaultOracle,      \* protocol_state.oracle, which no market uses
    MaxPositions,       \* MAX_POSITIONS (5)
    MaxMarketOI,        \* max_long_oi and max_short_oi of every market
    Precision,          \* FEE_PER_SHARE_PRECISION (10^12)
    MinFirstDeposit,    \* first LP deposit (10_000_000)
    Staleness,          \* staleness_threshold of every oracle (1_800)
    MinOracleInterval,  \* MIN_ORACLE_UPDATE_INTERVAL (5)
    MinFundingInterval, \* shortest time settle_funding charges for (60)
    UpgradeUniqueRefs,  \* AUTO_UPGRADE_UNIQUE_REFS (10)
    UpgradeFees,        \* AUTO_UPGRADE_FEES_THRESHOLD (100_000_000)
    InitParams,         \* protocol parameters after initialisation
    SeedPrice,          \* seed price of the market oracles
    InitWallet          \* USDC each wallet owns at the start

Users   == 1..NumUsers
Slots   == 1..MaxPositions
Oracles == Markets \cup {DefaultOracle}

(* The tunable parameters, and those update_params and propose_params let  *)
(* the admin set.                                                          *)
Parameters ==
    [fee_bps: Nat, base_funding_rate_per_hour: Nat, skew_factor: Nat,
     profit_cap_bps: Nat, insurance_fund_bps: Nat, lp_fee_bps: Nat,
     min_position_size: Nat, max_exposure: [Direction -> Nat],
     auto_pause_threshold: Nat]

AdmissibleParams ==
    {p \in Parameters :
        /\ p.fee_bps <= 500
        /\ p.base_funding_rate_per_hour <= 10000
        /\ p.skew_factor <= 100000
        /\ p.profit_cap_bps >= 5000 /\ p.profit_cap_bps <= 100000
        /\ p.insurance_fund_bps <= 5000
        /\ p.lp_fee_bps <= 8000}

ASSUME StateAssumption ==
    /\ NumUsers \in Nat /\ MaxPositions \in Nat
    /\ DefaultOracle \notin Markets
    /\ Precision \in Nat \ {0} /\ MinFirstDeposit \in Nat \ {0}
    /\ MaxMarketOI \in Nat /\ Staleness \in Nat
    /\ MinOracleInterval \in Nat /\ MinFundingInterval \in Nat
    /\ UpgradeUniqueRefs \in Nat /\ UpgradeFees \in Nat
    /\ InitParams \in AdmissibleParams
    /\ SeedPrice \in Nat \ {0}
    /\ InitWallet \in [Users -> Nat]

VARIABLES
    now,                    \* the clock sysvar
    oracle,                 \* price and last_updated of each oracle
    is_paused, manual_pause,
    params,                 \* the tunable fields of ProtocolState and the pool
    wallet,                 \* each user's own USDC
    fee_vault, lp_vault, insurance_fund,    \* the program's token accounts
    has_margin,             \* users whose MarginAccount exists
    margin,                 \* MarginAccount.collateral
    positions,              \* MarginAccount.positions
    total_user_collateral,
    oi,                     \* long and short open interest of each market
    exposure,               \* total_long_exposure, total_short_exposure
    total_usdc, total_shares,
    lp,                     \* LpPosition of each user
    accumulated_fees, total_fees_claimed, acc_fee_per_share,
    referral,               \* ReferralAccount of each user
    tracked,                \* <<referrer, trader>> with a ReferralTracker
    total_referral_pending,
    deficit                 \* history: what closed positions failed to cover and
                            \* fees were split into beyond what was charged

control   == <<now, oracle, is_paused, manual_pause, params>>
accounts  == <<has_margin, margin, positions, total_user_collateral>>
interest  == <<oi, exposure>>
shares    == <<total_shares, lp>>
liquidity == <<lp_vault, total_usdc>>
lpFees    == <<accumulated_fees, total_fees_claimed, acc_fee_per_share>>
referrals == <<referral, tracked, total_referral_pending>>
vaults    == <<fee_vault, insurance_fund>>
vars == <<control, wallet, vaults, accounts, interest, shares, liquidity,
          lpFees, referrals, deficit>>

-----------------------------------------------------------------------------
(* An open position; a price of zero stands for an absent stop-loss or     *)
(* take-profit.                                                            *)
Position ==
    [direction: Direction, market: Markets,
     collateral: Nat, notional: Nat, entry_price: Nat,
     last_funding_timestamp: Nat, sl_price: Nat, tp_price: Nat]

(* What a slot without a position holds (Option::None).                    *)
EmptySlot ==
    [direction |-> "none", market |-> DefaultOracle,
     collateral |-> 0, notional |-> 0, entry_price |-> 0,
     last_funding_timestamp |-> 0, sl_price |-> 0, tp_price |-> 0]

Slot == Position \cup {EmptySlot}

IsOpen(u, s) == positions[u][s].direction # "none"

(* Mutant: the changed copy of the position is never written back.         *)
NotWritten(p, amount) == p

(* The writes to one field or two of a position.                           *)
WithCollateral(p, amount) == [p EXCEPT !.collateral = amount]
WithTriggers(p, sl, tp) == [p EXCEPT !.sl_price = sl, !.tp_price = tp]

LpPosition == [shares: Nat, reward_debt: Nat]

ReferralAccount ==
    [registered: BOOLEAN, pending_fees: Nat, fee_share_bps: Nat,
     unique_referrals: Nat, total_fees_generated: Nat]

TypeOK ==
    /\ now \in Nat \ {0}
    /\ oracle \in [Oracles -> [price: Nat, last_updated: Nat]]
    /\ is_paused \in BOOLEAN /\ manual_pause \in BOOLEAN
    /\ params \in AdmissibleParams
    /\ wallet \in [Users -> Nat]
    /\ fee_vault \in Nat /\ lp_vault \in Nat /\ insurance_fund \in Nat
    /\ has_margin \in [Users -> BOOLEAN]
    /\ margin \in [Users -> Nat]
    /\ positions \in [Users -> [Slots -> Slot]]
    /\ total_user_collateral \in Nat
    /\ oi \in [Markets -> [Direction -> Nat]]
    /\ exposure \in [Direction -> Nat]
    /\ total_usdc \in Nat /\ total_shares \in Nat
    /\ lp \in [Users -> LpPosition]
    /\ accumulated_fees \in Nat /\ total_fees_claimed \in Nat
    /\ acc_fee_per_share \in Nat
    /\ referral \in [Users -> ReferralAccount]
    /\ tracked \subseteq Users \X Users
    /\ total_referral_pending \in Nat
    /\ deficit \in Nat

Init ==
    /\ now = 1
    /\ oracle = [o \in Oracles |->
                    IF o = DefaultOracle THEN [price |-> 0, last_updated |-> 0]
                    ELSE [price |-> SeedPrice, last_updated |-> 1]]
    /\ is_paused = FALSE /\ manual_pause = FALSE
    /\ params = InitParams
    /\ wallet = InitWallet
    /\ fee_vault = 0 /\ lp_vault = 0 /\ insurance_fund = 0
    /\ has_margin = [u \in Users |-> FALSE]
    /\ margin = [u \in Users |-> 0]
    /\ positions = [u \in Users |-> [s \in Slots |-> EmptySlot]]
    /\ total_user_collateral = 0
    /\ oi = [m \in Markets |-> [d \in Direction |-> 0]]
    /\ exposure = [d \in Direction |-> 0]
    /\ total_usdc = 0 /\ total_shares = 0
    /\ lp = [u \in Users |-> [shares |-> 0, reward_debt |-> 0]]
    /\ accumulated_fees = 0 /\ total_fees_claimed = 0
    /\ acc_fee_per_share = 0
    /\ referral = [u \in Users |->
                    [registered |-> FALSE, pending_fees |-> 0,
                     fee_share_bps |-> 0, unique_referrals |-> 0,
                     total_fees_generated |-> 0]]
    /\ tracked = {}
    /\ total_referral_pending = 0
    /\ deficit = 0

-----------------------------------------------------------------------------
(* The check every price-dependent instruction starts with.                *)
Fresh(o) ==
    /\ oracle[o].last_updated > 0
    /\ SatSub(now, oracle[o].last_updated) <= Staleness

(* One more fee for the liquidity providers: it stays in fee_vault, and    *)
(* the accumulator moves only when somebody holds shares.                  *)
PerShare(fee) ==
    IF total_shares > 0 THEN (fee * Precision) \div total_shares ELSE 0

AccrueLpFee(fee) ==
    /\ accumulated_fees' = accumulated_fees + fee
    /\ acc_fee_per_share' = acc_fee_per_share + PerShare(fee)
    /\ UNCHANGED total_fees_claimed

(* Mutant: the withdrawals leave nothing alone.                            *)
NoReserve == 0

(* Unclaimed LP fees, the part of fee_vault the withdrawals leave alone.   *)
LpReserved == SatSub(accumulated_fees, total_fees_claimed)

(* Mutant: the protocol's exposure keeps counting the position.            *)
DropMarketInterest(p) ==
    /\ oi' = [oi EXCEPT ![p.market][p.direction] = SatSub(@, p.notional)]
    /\ UNCHANGED exposure

(* A position leaves both open-interest counters.                          *)
DropInterest(p) ==
    /\ oi' = [oi EXCEPT ![p.market][p.direction] = SatSub(@, p.notional)]
    /\ exposure' = [exposure EXCEPT ![p.direction] = SatSub(@, p.notional)]

=============================================================================
