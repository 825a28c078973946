--------------------------- MODULE SolvencyProofs ---------------------------
(***************************************************************************)
(* That the fee vault covers what it owes to users, providers and          *)
(* referrers, but for what settled positions failed to cover, for any      *)
(* number of users, slots and markets and any amounts.  Every handler is   *)
(* an inequality between what it takes out of the vault and what it takes  *)
(* off the debts; rounding down makes the shares of a fee fit into it.     *)
(*                                                                         *)
(* The debts to referrers come first: what they may claim is what the      *)
(* program has counted for them.  Then, on the same lemmas: nothing a      *)
(* trader or the crank calls makes a position liquidatable, and nobody but *)
(* the admin lifts the admin's pause.  At the end, that the figures of the *)
(* pages are those of the program.                                         *)
(***************************************************************************)
EXTENDS LedgerProofs, Screens

-----------------------------------------------------------------------------
(* The referrers' accounts                                                 *)

Pending(f) == Sum([u \in Users |-> f[u].pending_fees], NumUsers)

(* The traders the referrer r has brought, by the trackers T.              *)
Brought(T, r) == Sum([t \in Users |-> IF <<r, t>> \in T THEN 1 ELSE 0], NumUsers)

LEMMA ReferralFields ==
    ASSUME NEW f \in [Users -> ReferralAccount], NEW u \in Users
    PROVE  /\ f[u].pending_fees \in Nat /\ f[u].unique_referrals \in Nat
           /\ f[u].fee_share_bps \in Nat /\ f[u].total_fees_generated \in Nat
BY DEF ReferralAccount

LEMMA PendingNat ==
    ASSUME NEW f \in [Users -> ReferralAccount]
    PROVE  /\ Pending(f) \in Nat
           /\ \A u \in Users : f[u].pending_fees <= Pending(f)
<1>. DEFINE x == [u \in Users |-> f[u].pending_fees]
<1>1. NumUsers \in Nat /\ \A u \in 1..NumUsers : x[u] \in Nat
    BY StateAssumption, ReferralFields DEF Users
<1>2. \A u \in Users : x[u] = f[u].pending_fees
    OBVIOUS
<1>. HIDE DEF x
<1>3. /\ Sum(x, NumUsers) \in Nat
      /\ \A u \in 1..NumUsers : x[u] <= Sum(x, NumUsers)
    BY <1>1, SumNat
<1>4. Pending(f) = Sum(x, NumUsers)
    BY DEF Pending, x
<1>5. QED
    BY <1>2, <1>3, <1>4 DEF Users

LEMMA PendingUpdate ==
    ASSUME NEW f \in [Users -> ReferralAccount], NEW g \in [Users -> ReferralAccount],
           NEW u \in Users, \A v \in Users : v # u => g[v] = f[v]
    PROVE  Pending(g) = Pending(f) - f[u].pending_fees + g[u].pending_fees
<1>. DEFINE x == [v \in Users |-> f[v].pending_fees]
            y == [v \in Users |-> g[v].pending_fees]
<1>1. /\ NumUsers \in Nat /\ u \in 1..NumUsers
      /\ \A v \in 1..NumUsers : x[v] \in Nat /\ y[v] \in Nat
    BY StateAssumption, ReferralFields DEF Users
<1>2. \A v \in 1..NumUsers : v # u => y[v] = x[v]
    BY DEF Users
<1>3. x[u] = f[u].pending_fees /\ y[u] = g[u].pending_fees
    OBVIOUS
<1>. HIDE DEF x, y
<1>4. Sum(y, NumUsers) = Sum(x, NumUsers) - x[u] + y[u]
    BY <1>1, <1>2, SumUpdate
<1>5. Pending(f) = Sum(x, NumUsers) /\ Pending(g) = Sum(y, NumUsers)
    BY DEF Pending, x, y
<1>6. QED
    BY <1>3, <1>4, <1>5

(* A new tracker counts once, for its own referrer.                        *)
LEMMA BroughtUpdate ==
    ASSUME NEW T, NEW r \in Users, NEW t \in Users, <<r, t>> \notin T, NEW q \in Users
    PROVE  /\ Brought(T, q) \in Nat
           /\ Brought(T \cup {<<r, t>>}, q) =
                  IF q = r THEN Brought(T, q) + 1 ELSE Brought(T, q)
<1>. DEFINE S == T \cup {<<r, t>>}
            x == [v \in Users |-> IF <<q, v>> \in T THEN 1 ELSE 0]
            y == [v \in Users |-> IF <<q, v>> \in S THEN 1 ELSE 0]
<1>1. /\ NumUsers \in Nat /\ t \in 1..NumUsers
      /\ \A v \in 1..NumUsers : x[v] \in Nat /\ y[v] \in Nat
    BY StateAssumption DEF Users
<1>2. \A v \in 1..NumUsers : v # t => y[v] = x[v]
    BY DEF Users
<1>3. y[t] = IF q = r THEN x[t] + 1 ELSE x[t]
    OBVIOUS
<1>4. Brought(T, q) = Sum(x, NumUsers) /\ Brought(S, q) = Sum(y, NumUsers)
    BY DEF Brought
<1>. HIDE DEF x, y, S
<1>5. Sum(y, NumUsers) = Sum(x, NumUsers) - x[t] + y[t]
    BY <1>1, <1>2, SumUpdate
<1>6. Sum(x, NumUsers) \in Nat /\ x[t] \in Nat
    BY <1>1, SumNat
<1>7. QED
    BY <1>3, <1>4, <1>5, <1>6 DEF S

(* The ledger in these terms.                                              *)
Tallied ==
    /\ total_referral_pending = Pending(referral)
    /\ \A r \in Users : referral[r].unique_referrals = Brought(tracked, r)

(* One account changes what it may claim, and no tracker is made.          *)
LEMMA ClaimMoves ==
    ASSUME TypeOK, TypeOK', Tallied, NEW u \in Users,
           \A v \in Users : v # u => referral'[v] = referral[v],
           referral'[u].unique_referrals = referral[u].unique_referrals,
           tracked' = tracked,
           total_referral_pending' = total_referral_pending
               - referral[u].pending_fees + referral'[u].pending_fees
    PROVE  Tallied'
<1>1. /\ referral \in [Users -> ReferralAccount]
      /\ referral' \in [Users -> ReferralAccount]
    BY DEF TypeOK
<1>2. Pending(referral') = Pending(referral)
          - referral[u].pending_fees + referral'[u].pending_fees
    BY <1>1, PendingUpdate
<1>3. total_referral_pending' = Pending(referral')
    BY <1>2 DEF Tallied
<1>4. \A r \in Users : referral'[r].unique_referrals = Brought(tracked', r)
    BY DEF Tallied
<1>5. QED
    BY <1>3, <1>4 DEF Tallied

LEMMA CreditTallied ==
    ASSUME TypeOK, TypeOK', Tallied, NEW r \in Users \cup {0}, NEW u \in Users,
           NEW fee \in Nat, NEW portion \in Nat, NEW withTracker \in BOOLEAN,
           CreditReferrer(r, u, fee, portion, withTracker)
    PROVE  Tallied'
<1>1. CASE ~Refers(r, u)
    BY <1>1 DEF CreditReferrer, Tallied, referrals
<1>2. CASE Refers(r, u)
    <2>. DEFINE new   == withTracker /\ <<r, u>> \notin tracked
                count == IF new THEN 1 ELSE 0
                card  == referral[r]
    <2>1. /\ r \in Users /\ card \in ReferralAccount /\ count \in Nat
          /\ referral \in [Users -> ReferralAccount]
          /\ referral' \in [Users -> ReferralAccount]
        BY <1>2 DEF Refers, TypeOK
    <2>2. /\ referral' = [referral EXCEPT ![r] = Credited(card, fee, portion, count)]
          /\ tracked' = IF new THEN tracked \cup {<<r, u>>} ELSE tracked
          /\ total_referral_pending' = total_referral_pending + portion
        BY <1>2 DEF CreditReferrer
    <2>. HIDE DEF count, card
    <2>3. /\ Credited(card, fee, portion, count).pending_fees =
                 card.pending_fees + portion
          /\ Credited(card, fee, portion, count).unique_referrals =
                 card.unique_referrals + count
        BY <2>1 DEF Credited, ReferralAccount
    <2>4. /\ referral'[r].pending_fees = referral[r].pending_fees + portion
          /\ referral'[r].unique_referrals = referral[r].unique_referrals + count
          /\ \A v \in Users : v # r => referral'[v] = referral[v]
        BY <2>1, <2>2, <2>3 DEF card
    <2>5. total_referral_pending' = Pending(referral')
        <3>1. Pending(referral') = Pending(referral)
                  - referral[r].pending_fees + referral'[r].pending_fees
            BY <2>1, <2>4, PendingUpdate
        <3>2. Pending(referral) \in Nat /\ referral[r].pending_fees \in Nat
            BY <2>1, PendingNat, ReferralFields
        <3>3. QED
            BY <2>2, <2>4, <3>1, <3>2 DEF Tallied
    <2>6. ASSUME NEW q \in Users
          PROVE  referral'[q].unique_referrals = Brought(tracked', q)
        <3>1. referral[q].unique_referrals = Brought(tracked, q)
            BY DEF Tallied
        <3>2. referral[q].unique_referrals \in Nat
            BY <2>1, ReferralFields
        <3>3. CASE new
            <4>1. Brought(tracked', q) =
                      IF q = r THEN Brought(tracked, q) + 1 ELSE Brought(tracked, q)
                BY <2>1, <2>2, <3>3, BroughtUpdate
            <4>2. count = 1
                BY <3>3 DEF count
            <4>3. QED
                BY <2>4, <3>1, <3>2, <4>1, <4>2
        <3>4. CASE ~new
            <4>1. tracked' = tracked /\ count = 0
                BY <2>2, <3>4 DEF count
            <4>2. QED
                BY <2>4, <3>1, <3>2, <4>1
        <3>5. QED
            BY <3>3, <3>4
    <2>7. QED
        BY <2>5, <2>6 DEF Tallied
<1>3. QED
    BY <1>1, <1>2

LEMMA ReferrerTallied ==
    ASSUME TypeOK, TypeOK', Tallied, NEW u \in Users, NEW rate \in Nat,
           RegisterReferral(u) \/ SetFeeShare(u, rate) \/ ClaimReferral(u)
    PROVE  Tallied'
<1>1. /\ referral \in [Users -> ReferralAccount]
      /\ referral[u].pending_fees \in Nat /\ total_referral_pending \in Nat
      /\ referral[u].pending_fees <= total_referral_pending
    BY ReferralFields, PendingNat DEF TypeOK, Tallied
<1>2. /\ tracked' = tracked
      /\ \A v \in Users : v # u => referral'[v] = referral[v]
      /\ referral'[u].unique_referrals = referral[u].unique_referrals
    BY <1>1 DEF RegisterReferral, SetFeeShare, ClaimReferral, ReferralAccount
<1>3. total_referral_pending' = total_referral_pending
               - referral[u].pending_fees + referral'[u].pending_fees
    <2>1. CASE RegisterReferral(u) \/ SetFeeShare(u, rate)
        <3>1. /\ total_referral_pending' = total_referral_pending
              /\ referral'[u].pending_fees = referral[u].pending_fees
            BY <1>1, <2>1 DEF RegisterReferral, SetFeeShare, ReferralAccount
        <3>2. QED
            BY <1>1, <3>1
    <2>2. CASE ClaimReferral(u)
        <3>1. /\ referral'[u].pending_fees = 0
              /\ total_referral_pending' =
                     SatSub(total_referral_pending, referral[u].pending_fees)
            BY <1>1, <2>2 DEF ClaimReferral, ReferralAccount
        <3>2. QED
            BY <1>1, <3>1 DEF SatSub
    <2>3. QED
        BY <2>1, <2>2
<1>4. QED
    BY <1>2, <1>3, ClaimMoves

LEMMA TalliedStep ==
    TypeOK /\ TypeOK' /\ Tallied /\ [Next]_vars => Tallied'
<1>. SUFFICES ASSUME TypeOK, TypeOK', Tallied, [Next]_vars
              PROVE  Tallied'
    OBVIOUS
<1>1. CASE \E u \in Users, s \in Slots, m \in Markets, d \in Direction,
              c \in Nat, l \in Nat, sl, tp \in Nat, r \in Users \cup {0},
              withTracker \in BOOLEAN :
              OpenPosition(u, s, m, d, c, l, sl, tp, r, withTracker)
    <2>1. PICK u \in Users, s \in Slots, m \in Markets, d \in Direction,
               c \in Nat, l \in Nat, sl \in Nat, tp \in Nat,
               r \in Users \cup {0}, withTracker \in BOOLEAN :
               OpenPosition(u, s, m, d, c, l, sl, tp, r, withTracker)
        BY <1>1
    <2>. DEFINE fee     == Bps(c, params.fee_bps)
                portion == ReferralPortion(r, u, fee)
    <2>2. CreditReferrer(r, u, fee, portion, withTracker)
        BY <2>1 DEF OpenPosition
    <2>3. fee \in Nat
        BY ShareType
    <2>4. portion \in Nat
        BY <2>3, ReferralPortionNat
    <2>. HIDE DEF fee, portion
    <2>5. QED
        BY <2>2, <2>3, <2>4, CreditTallied
<1>2. CASE \/ \E u \in Users : RegisterReferral(u)
           \/ \E u \in Users, rate \in Nat : SetFeeShare(u, rate)
           \/ \E u \in Users : ClaimReferral(u)
    <2>1. PICK u \in Users, rate \in Nat :
               RegisterReferral(u) \/ SetFeeShare(u, rate) \/ ClaimReferral(u)
        BY <1>2, 0 \in Nat, Zenon
    <2>2. QED
        BY <2>1, ReferrerTallied
<1>3. CASE \/ \E u \in Users, amount \in Nat : DepositCollateral(u, amount)
           \/ \E u \in Users, amount \in Nat : WithdrawCollateral(u, amount)
           \/ \E u \in Users, s \in Slots, amount \in Nat : AddMargin(u, s, amount)
           \/ \E u \in Users, s \in Slots, amount \in Nat : RemoveMargin(u, s, amount)
           \/ \E u \in Users, s \in Slots, o \in Oracles, sl, tp \in Nat :
                 SetSlTp(u, s, o, sl, tp)
           \/ \E u \in Users : CloseMarginAccount(u)
           \/ \E u \in Users, s \in Slots : ClosePosition(u, s)
           \/ \E u \in Users, s \in Slots : ExecuteSlTp(u, s)
           \/ \E u \in Users, s \in Slots : AdminClosePosition(u, s)
           \/ \E u \in Users, s \in Slots : Liquidate(u, s)
           \/ \E u \in Users, m \in Markets : SettleFunding(u, m)
           \/ \E u \in Users, amount \in Nat : LpDeposit(u, amount)
           \/ \E u \in Users, n \in Nat : LpWithdraw(u, n)
           \/ \E u \in Users : ClaimFees(u)
           \/ \E amount \in Nat : WithdrawFees(amount)
           \/ \E amount \in Nat : WithdrawInsurance(amount)
           \/ Tick
           \/ \E price \in Nat : UpdateOracle(price)
           \/ \E m \in Markets, price \in Nat : UpdateMarketOracle(m, price)
           \/ \E m \in Markets : CheckAndPause(m)
           \/ \E new \in ParamSets, pause \in Pauses : UpdateParams(new, pause)
           \/ UNCHANGED vars
    <2>1. UNCHANGED referrals
        BY <1>3, ZenonT(60) DEF DepositCollateral, WithdrawCollateral, AddMargin, RemoveMargin,
                    SetSlTp, CloseMarginAccount, ClosePosition, ExecuteSlTp,
                    AdminClosePosition, SettlePosition, Liquidate, SettleFunding,
                    LpDeposit, LpWithdraw, ClaimFees, WithdrawFees,
                    WithdrawInsurance, Tick, UpdateOracle, UpdateMarketOracle,
                    CheckAndPause, UpdateParams, money, vars
    <2>2. QED
        BY <2>1 DEF Tallied, referrals
<1>4. QED
    <2>1. TypedStep \/ UNCHANGED vars
        BY StepsAreTyped
    <2>2. QED
        BY <2>1, <1>1, <1>2, <1>3, Zenon DEF TypedStep

LEMMA TalliedIsLedger == Tallied => ReferralLedger
BY DEF Tallied, ReferralLedger, Pending, Brought

LEMMA InitTallied == Init => Tallied
<1>. SUFFICES ASSUME Init PROVE Tallied
    OBVIOUS
<1>0. NumUsers \in Nat
    BY StateAssumption
<1>1. Pending(referral) = 0
    <2>. DEFINE x == [u \in Users |-> referral[u].pending_fees]
    <2>1. \A u \in 1..NumUsers : x[u] = 0
        BY DEF Init, Users
    <2>. HIDE DEF x
    <2>2. QED
        BY <1>0, <2>1, SumOfZeros DEF Pending, x
<1>2. ASSUME NEW r \in Users PROVE Brought(tracked, r) = 0
    <2>. DEFINE x == [t \in Users |-> IF <<r, t>> \in tracked THEN 1 ELSE 0]
    <2>1. \A t \in 1..NumUsers : x[t] = 0
        BY DEF Init, Users
    <2>. HIDE DEF x
    <2>2. QED
        BY <1>0, <2>1, SumOfZeros DEF Brought, x
<1>3. QED
    BY <1>1, <1>2 DEF Tallied, Init

(* What the program sets aside for referrers is what they may claim, and a *)
(* trader is counted once for each referrer, whatever sequence of trades   *)
(* and claims there was.                                                   *)
THEOREM ReferralsAreCounted == Spec => []ReferralLedger
<1>1. Spec => []Tallied
    BY InitTallied, TalliedStep, TypeCorrect, PTL DEF Spec
<1>2. QED
    BY <1>1, TalliedIsLedger, PTL

-----------------------------------------------------------------------------
(* The fee vault                                                           *)

(* The parameters are the initial ones or some the admin has set.          *)
Rates == params \in ParamSets \cup {InitParams}

LEMMA RatesStep == TypeOK /\ Rates /\ [Next]_vars => Rates'
<1>. SUFFICES ASSUME TypeOK, Rates, [Next]_vars PROVE Rates'
    OBVIOUS
<1>1. CASE \E new \in ParamSets, pause \in Pauses : UpdateParams(new, pause)
    BY <1>1 DEF UpdateParams, Rates
<1>2. CASE \/ \E u \in Users, s \in Slots, m \in Markets, d \in Direction,
                 c \in Nat, l \in Nat, sl, tp \in Nat, r \in Users \cup {0},
                 withTracker \in BOOLEAN :
                 OpenPosition(u, s, m, d, c, l, sl, tp, r, withTracker)
           \/ \E u \in Users : RegisterReferral(u)
           \/ \E u \in Users, rate \in Nat : SetFeeShare(u, rate)
           \/ \E u \in Users : ClaimReferral(u)
    <2>1. params' = params
        BY <1>2 DEF OpenPosition, RegisterReferral, SetFeeShare, ClaimReferral, control
    <2>2. QED
        BY <2>1 DEF Rates
<1>3. CASE \/ \E u \in Users, amount \in Nat : DepositCollateral(u, amount)
           \/ \E u \in Users, amount \in Nat : WithdrawCollateral(u, amount)
           \/ \E u \in Users, s \in Slots, amount \in Nat : AddMargin(u, s, amount)
           \/ \E u \in Users, s \in Slots, amount \in Nat : RemoveMargin(u, s, amount)
           \/ \E u \in Users, s \in Slots, o \in Oracles, sl, tp \in Nat :
                 SetSlTp(u, s, o, sl, tp)
           \/ \E u \in Users : CloseMarginAccount(u)
           \/ \E u \in Users, s \in Slots : ClosePosition(u, s)
           \/ \E u \in Users, s \in Slots : ExecuteSlTp(u, s)
           \/ \E u \in Users, s \in Slots : AdminClosePosition(u, s)
           \/ \E u \in Users, s \in Slots : Liquidate(u, s)
           \/ \E u \in Users, m \in Markets : SettleFunding(u, m)
           \/ \E u \in Users, amount \in Nat : LpDeposit(u, amount)
           \/ \E u \in Users, n \in Nat : LpWithdraw(u, n)
           \/ \E u \in Users : ClaimFees(u)
           \/ \E amount \in Nat : WithdrawFees(amount)
           \/ \E amount \in Nat : WithdrawInsurance(amount)
           \/ Tick
           \/ \E price \in Nat : UpdateOracle(price)
           \/ \E m \in Markets, price \in Nat : UpdateMarketOracle(m, price)
           \/ \E m \in Markets : CheckAndPause(m)
           \/ UNCHANGED vars
    <2>1. params' = params
        BY <1>3, ZenonT(60) DEF DepositCollateral, WithdrawCollateral, AddMargin, RemoveMargin,
                    SetSlTp, CloseMarginAccount, ClosePosition, ExecuteSlTp,
                    AdminClosePosition, SettlePosition, Liquidate, SettleFunding,
                    LpDeposit, LpWithdraw, ClaimFees, WithdrawFees,
                    WithdrawInsurance, Tick, UpdateOracle, UpdateMarketOracle,
                    CheckAndPause, vars, control
    <2>2. QED
        BY <2>1 DEF Rates
<1>4. QED
    <2>1. TypedStep \/ UNCHANGED vars
        BY StepsAreTyped
    <2>2. QED
        BY <2>1, <1>1, <1>2, <1>3, Zenon DEF TypedStep

(* The numbers the vault is about.                                         *)
LEMMA VaultTypes ==
    ASSUME TypeOK
    PROVE  /\ fee_vault \in Nat /\ deficit \in Nat /\ total_user_collateral \in Nat
           /\ accumulated_fees \in Nat /\ total_fees_claimed \in Nat
           /\ total_referral_pending \in Nat
BY DEF TypeOK

(* What the vault was ever owed, and what it has, has paid and missed.     *)
Debit  == total_user_collateral + accumulated_fees + total_referral_pending
Credit == fee_vault + deficit + total_fees_claimed

Covered == Debit <= Credit

LEMMA BalanceNat == TypeOK => Debit \in Nat /\ Credit \in Nat
BY VaultTypes DEF Debit, Credit

LEMMA CoveredIs == TypeOK => (FeeVaultCovered <=> Debit <= Credit)
BY VaultTypes DEF FeeVaultCovered, Owed, Debit, Credit

LEMMA AddThree ==
    ASSUME NEW x \in Nat, NEW y \in Nat, NEW z \in Nat
    PROVE  x + y + z \in Nat
OBVIOUS

LEMMA Balance ==
    ASSUME NEW d \in Nat, NEW c \in Nat, NEW d2 \in Nat, NEW c2 \in Nat,
           d <= c, d2 + c <= d + c2
    PROVE  d2 <= c2
OBVIOUS

(* A step that takes no more out of the vault than off the debts.          *)
LEMMA VaultKept ==
    ASSUME TypeOK, TypeOK', Debit <= Credit, Debit' + Credit <= Debit + Credit'
    PROVE  Debit' <= Credit'
<1>0. /\ fee_vault' \in Nat /\ deficit' \in Nat /\ total_user_collateral' \in Nat
      /\ accumulated_fees' \in Nat /\ total_fees_claimed' \in Nat
      /\ total_referral_pending' \in Nat
    BY DEF TypeOK
<1>1. Debit' \in Nat /\ Credit' \in Nat
    BY <1>0, AddThree, Zenon DEF Debit, Credit
<1>2. Debit \in Nat /\ Credit \in Nat
    BY BalanceNat
<1>3. QED
    BY <1>1, <1>2, Balance, Zenon

-----------------------------------------------------------------------------
(* The handlers                                                            *)

LEMMA CollateralCovered ==
    ASSUME TypeOK, TypeOK', CollateralLedger, Debit <= Credit,
           NEW u \in Users, NEW amount \in Nat,
           DepositCollateral(u, amount) \/ WithdrawCollateral(u, amount)
    PROVE  Debit' <= Credit'
<1>0. /\ fee_vault \in Nat /\ deficit \in Nat /\ total_user_collateral \in Nat
      /\ accumulated_fees \in Nat /\ total_fees_claimed \in Nat
      /\ total_referral_pending \in Nat
    BY VaultTypes
<1>1. /\ UNCHANGED <<accumulated_fees, total_fees_claimed>>
      /\ UNCHANGED <<total_referral_pending, deficit>>
    BY DEF DepositCollateral, WithdrawCollateral, lpFees, referrals
<1>2. CASE DepositCollateral(u, amount)
    <2>1. /\ fee_vault' = fee_vault + amount
          /\ total_user_collateral' = total_user_collateral + amount
        BY <1>2 DEF DepositCollateral
    <2>2. QED
        BY <1>0, <1>1, <2>1, VaultKept DEF Debit, Credit
<1>3. CASE WithdrawCollateral(u, amount)
    <2>1. margin[u] \in Nat /\ InSlots(positions[u]) \in Nat
        BY HeldNat
    <2>2. margin[u] + InSlots(positions[u]) <= total_user_collateral
        BY TotalCovers
    <2>3. amount <= margin[u] /\ fee_vault' = fee_vault - amount
          /\ total_user_collateral' = SatSub(total_user_collateral, amount)
        BY <1>3 DEF WithdrawCollateral
    <2>4. total_user_collateral' = total_user_collateral - amount
        BY <1>0, <2>1, <2>2, <2>3 DEF SatSub
    <2>5. QED
        BY <1>0, <1>1, <2>3, <2>4, VaultKept DEF Debit, Credit
<1>4. QED
    BY <1>2, <1>3

(* The providers are paid out of what was accumulated for them.            *)
LEMMA ProvidersCovered ==
    ASSUME TypeOK, TypeOK', Debit <= Credit, NEW u \in Users, NEW n \in Nat,
           LpWithdraw(u, n) \/ ClaimFees(u)
    PROVE  Debit' <= Credit'
<1>. DEFINE fees == Lesser(Claimable(u), fee_vault)
<1>0. /\ fee_vault \in Nat /\ deficit \in Nat /\ total_user_collateral \in Nat
      /\ accumulated_fees \in Nat /\ total_fees_claimed \in Nat
      /\ total_referral_pending \in Nat
    BY VaultTypes
<1>1. fees \in Nat
    BY <1>0, ClaimableNat DEF Lesser
<1>2. /\ fee_vault' = fee_vault - fees
      /\ total_fees_claimed' = total_fees_claimed + fees
      /\ UNCHANGED <<accumulated_fees, total_user_collateral>>
      /\ UNCHANGED <<total_referral_pending, deficit>>
    BY DEF LpWithdraw, ClaimFees, accounts, referrals
<1>. HIDE DEF fees
<1>3. QED
    BY <1>0, <1>1, <1>2, VaultKept DEF Debit, Credit

(* withdraw_fees leaves every debt in the vault.                           *)
LEMMA TreasuryCovered ==
    ASSUME TypeOK, TypeOK', Debit <= Credit, NEW amount \in Nat, WithdrawFees(amount)
    PROVE  Debit' <= Credit'
<1>0. /\ fee_vault \in Nat /\ deficit \in Nat /\ total_user_collateral \in Nat
      /\ accumulated_fees \in Nat /\ total_fees_claimed \in Nat
      /\ total_referral_pending \in Nat
    BY VaultTypes
<1>1. /\ fee_vault' = fee_vault - amount
      /\ SatSub(fee_vault, LpReserved + total_user_collateral
                               + total_referral_pending) >= amount
      /\ UNCHANGED <<accumulated_fees, total_fees_claimed, total_user_collateral>>
      /\ UNCHANGED <<total_referral_pending, deficit>>
    BY DEF WithdrawFees, accounts, lpFees, referrals
<1>2. CASE amount = 0
    BY <1>0, <1>1, <1>2, VaultKept DEF Debit, Credit
<1>3. CASE amount # 0
    <2>1. LpReserved \in Nat /\ accumulated_fees - total_fees_claimed <= LpReserved
        BY <1>0 DEF LpReserved, SatSub
    <2>2. fee_vault - (LpReserved + total_user_collateral
                           + total_referral_pending) >= amount
        BY <1>0, <1>1, <1>3, <2>1 DEF SatSub
    <2>3. Debit <= Credit - amount
        BY <1>0, <1>3, <2>1, <2>2 DEF Debit, Credit
    <2>4. Debit' = Debit /\ Credit' = Credit - amount
        BY <1>0, <1>1 DEF Debit, Credit
    <2>5. QED
        BY <2>3, <2>4
<1>4. QED
    BY <1>2, <1>3

LEMMA ReferrerCovered ==
    ASSUME TypeOK, TypeOK', Tallied, Debit <= Credit, NEW u \in Users,
           ClaimReferral(u)
    PROVE  Debit' <= Credit'
<1>. DEFINE amount == referral[u].pending_fees
<1>0. /\ fee_vault \in Nat /\ deficit \in Nat /\ total_user_collateral \in Nat
      /\ accumulated_fees \in Nat /\ total_fees_claimed \in Nat
      /\ total_referral_pending \in Nat
    BY VaultTypes
<1>1. amount \in Nat /\ amount <= total_referral_pending
    BY ReferralFields, PendingNat DEF TypeOK, Tallied
<1>2. /\ fee_vault' = fee_vault - amount
      /\ total_referral_pending' = SatSub(total_referral_pending, amount)
      /\ UNCHANGED <<accumulated_fees, total_fees_claimed, total_user_collateral>>
      /\ UNCHANGED deficit
    BY DEF ClaimReferral, accounts, lpFees
<1>. HIDE DEF amount
<1>3. total_referral_pending' = total_referral_pending - amount
    BY <1>0, <1>1, <1>2 DEF SatSub
<1>4. QED
    BY <1>0, <1>1, <1>2, <1>3, VaultKept DEF Debit, Credit

-----------------------------------------------------------------------------
(* Opening: what is promised beyond the fee goes into the deficit          *)

(* A part more than the whole is what is beyond it.                        *)
LEMMA BeyondIs ==
    ASSUME NEW parts \in Nat, NEW whole \in Nat
    PROVE  SatSub(parts, whole) \in Nat /\ parts <= whole + SatSub(parts, whole)
BY DEF SatSub

LEMMA OpenPositionCovered ==
    ASSUME TypeOK, TypeOK', CollateralLedger, Debit <= Credit,
           NEW u \in Users, NEW s \in Slots, NEW m \in Markets, NEW dir \in Direction,
           NEW c \in Nat, NEW l \in Nat, NEW sl \in Nat, NEW tp \in Nat,
           NEW r \in Users \cup {0}, NEW withTracker \in BOOLEAN,
           OpenPosition(u, s, m, dir, c, l, sl, tp, r, withTracker)
    PROVE  Debit' <= Credit'
<1>. DEFINE fee       == Bps(c, params.fee_bps)
            portion   == ReferralPortion(r, u, fee)
            insurance == SatSub(Bps(fee, params.insurance_fund_bps), portion)
            lpb       == Bps(fee, params.lp_fee_bps)
            beyond    == SatSub(insurance + portion + lpb, fee)
<1>0. /\ fee_vault \in Nat /\ deficit \in Nat /\ total_user_collateral \in Nat
      /\ accumulated_fees \in Nat /\ total_fees_claimed \in Nat
      /\ total_referral_pending \in Nat
    BY VaultTypes
<1>1. /\ margin[u] >= c
      /\ fee_vault' = fee_vault - insurance
      /\ AccrueLpFee(lpb)
      /\ total_user_collateral' = SatSub(total_user_collateral, fee)
      /\ CreditReferrer(r, u, fee, portion, withTracker)
      /\ deficit' = deficit + beyond
    BY DEF OpenPosition
<1>2. fee \in Nat /\ fee <= c
    BY ShareType
<1>3. margin[u] \in Nat /\ margin[u] <= total_user_collateral
    BY TotalCoversParts
<1>4. portion \in Nat
    BY <1>2, ReferralPortionNat
<1>5. insurance \in Nat /\ lpb \in Nat
    <2>1. Bps(fee, params.insurance_fund_bps) \in Nat /\ lpb \in Nat
        BY <1>2, ShareType
    <2>. HIDE DEF portion, lpb
    <2>2. QED
        BY <2>1, <1>4, SatSubNat
<1>6. total_referral_pending' = total_referral_pending + portion
    <2>1. CASE Refers(r, u)
        BY <1>1, <2>1 DEF CreditReferrer
    <2>2. CASE ~Refers(r, u)
        <3>1. portion = 0
            BY <2>2 DEF ReferralPortion
        <3>2. total_referral_pending' = total_referral_pending
            BY <1>1, <2>2 DEF CreditReferrer, referrals
        <3>. HIDE DEF portion
        <3>3. QED
            BY <1>0, <3>1, <3>2
    <2>3. QED
        BY <2>1, <2>2
<1>7. /\ accumulated_fees' = accumulated_fees + lpb
      /\ total_fees_claimed' = total_fees_claimed
    BY <1>1 DEF AccrueLpFee
<1>. HIDE DEF fee, portion, insurance, lpb
<1>8. insurance + portion + lpb \in Nat
    BY <1>4, <1>5
<1>9. beyond \in Nat /\ insurance + portion + lpb <= fee + beyond
    BY <1>2, <1>8, BeyondIs
<1>. HIDE DEF beyond
<1>10. total_user_collateral' = total_user_collateral - fee
    BY <1>0, <1>1, <1>2, <1>3 DEF SatSub
<1>11. QED
    BY <1>0, <1>1, <1>2, <1>4, <1>5, <1>6, <1>7, <1>9, <1>10, VaultKept DEF Debit, Credit

-----------------------------------------------------------------------------
(* Settling: what is not covered goes into the deficit                     *)

(* Credit and deficit together are what the position was worth: the        *)
(* owner is credited with no more than the vault keeps or is found to miss.*)
LEMMA SettlementBalances ==
    ASSUME TypeOK, NEW p \in Position, NEW reward \in Nat
    PROVE  /\ SatSub(Shortfall(p), Due(p, reward)) \in Nat
           /\ Settlement(p, reward) - SatSub(Shortfall(p), Due(p, reward)) =
                  p.collateral - FundingOwed(p) - CloseFee(p) - reward
                      + ProfitPaid(p) - Loss(p)
<1>. DEFINE due == Due(p, reward)
            x   == CappedPnl(p)
            y   == p.collateral - FundingOwed(p) - CloseFee(p) - reward
<1>1. /\ p.collateral \in Nat /\ FundingOwed(p) \in Nat /\ CloseFee(p) \in Nat
      /\ x \in Int
    BY PositionFields, FundingOwedNat, SettlementTypes, CappedPnlInt
<1>2. /\ Profit(p) \in Nat /\ Loss(p) \in Nat /\ ProfitPaid(p) \in Nat
      /\ Shortfall(p) \in Nat /\ due \in Int
    BY SettlementTypes
<1>3. y \in Int /\ due = y + x
    BY <1>1 DEF Due
<1>4. x = Profit(p) - Loss(p)
    BY <1>1 DEF Profit, Loss
<1>5. Shortfall(p) = Profit(p) - ProfitPaid(p)
    BY DEF Shortfall
<1>6. Settlement(p, reward) = SatSub(IF due <= 0 THEN 0 ELSE due, Shortfall(p))
    BY DEF Settlement
<1>. HIDE DEF due, x, y
<1>7. /\ SatSub(Shortfall(p), due) \in Nat
      /\ Settlement(p, reward) - SatSub(Shortfall(p), due) = due - Shortfall(p)
    BY <1>2, <1>6 DEF SatSub
<1>8. due - Shortfall(p) = y + ProfitPaid(p) - Loss(p)
    BY <1>2, <1>3, <1>4, <1>5
<1>9. QED
    BY <1>7, <1>8 DEF due, y

LEMMA SettlementCovered ==
    ASSUME TypeOK, TypeOK', CollateralLedger, Debit <= Credit,
           NEW u \in Users, NEW s \in Slots, NEW reward \in Nat, IsOpen(u, s),
           SettlePosition(u, s, reward)
    PROVE  Debit' <= Credit'
<1>. DEFINE p      == positions[u][s]
            ins    == InsurancePortion(p)
            lpb    == LpPortion(p)
            short  == SatSub(Shortfall(p), Due(p, reward))
            beyond == SatSub(InsurancePortion(p) + LpPortion(p),
                             CloseFee(p) + FundingOwed(p))
<1>0. /\ fee_vault \in Nat /\ deficit \in Nat /\ total_user_collateral \in Nat
      /\ accumulated_fees \in Nat /\ total_fees_claimed \in Nat
      /\ total_referral_pending \in Nat
    BY VaultTypes
<1>1. p \in Position /\ p.collateral \in Nat
    BY OpenSlotType, PositionFields
<1>2. p.collateral <= total_user_collateral
    BY TotalCoversParts
<1>3. /\ fee_vault' = fee_vault - ins - reward - Loss(p) + ProfitPaid(p)
      /\ AccrueLpFee(lpb)
      /\ total_user_collateral' = TotalAfter(p, Settlement(p, reward))
      /\ deficit' = deficit + (short + beyond)
      /\ total_referral_pending' = total_referral_pending
    BY DEF SettlePosition, Missed, referrals
<1>. HIDE DEF p
<1>4. /\ ins \in Nat /\ lpb \in Nat /\ Loss(p) \in Nat /\ ProfitPaid(p) \in Nat
      /\ Settlement(p, reward) \in Nat /\ CloseFee(p) \in Nat
      /\ FundingOwed(p) \in Nat
    BY <1>1, SettlementTypes, FundingOwedNat
<1>5. beyond \in Nat /\ ins + lpb <= CloseFee(p) + FundingOwed(p) + beyond
    <2>1. ins + lpb \in Nat /\ CloseFee(p) + FundingOwed(p) \in Nat
        BY <1>4
    <2>2. QED
        BY <2>1, BeyondIs
<1>6. /\ short \in Nat
      /\ Settlement(p, reward) - short =
             p.collateral - FundingOwed(p) - CloseFee(p) - reward
                 + ProfitPaid(p) - Loss(p)
    BY <1>1, SettlementBalances
<1>7. /\ accumulated_fees' = accumulated_fees + lpb
      /\ total_fees_claimed' = total_fees_claimed
    BY <1>3 DEF AccrueLpFee
<1>8. total_user_collateral' =
          total_user_collateral - p.collateral + Settlement(p, reward)
    BY <1>1, <1>2, <1>3, <1>4, TotalAfterIs
<1>. HIDE DEF ins, lpb, short, beyond
<1>9. Debit' = Debit - p.collateral + Settlement(p, reward) + lpb
    BY <1>0, <1>1, <1>3, <1>4, <1>7, <1>8 DEF Debit
<1>10. Credit' = Credit - ins - reward - Loss(p) + ProfitPaid(p) + short + beyond
    BY <1>0, <1>3, <1>4, <1>5, <1>6, <1>7 DEF Credit
<1>11. Debit \in Nat /\ Credit \in Nat
    BY BalanceNat
<1>12. QED
    BY <1>1, <1>4, <1>5, <1>6, <1>9, <1>10, <1>11

LEMMA LiquidationFits ==
    ASSUME NEW c \in Nat
    PROVE  /\ Bps(c, LIQUIDATOR_REWARD_BPS) \in Nat
           /\ Bps(c, LIQUIDATION_INSURANCE_BPS) \in Nat
           /\ Bps(c, LIQUIDATION_LP_BPS) \in Nat
           /\ Bps(c, LIQUIDATOR_REWARD_BPS) + Bps(c, LIQUIDATION_INSURANCE_BPS)
                 + Bps(c, LIQUIDATION_LP_BPS) <= c
<1>0. LIQUIDATOR_REWARD_BPS + LIQUIDATION_INSURANCE_BPS \in Nat
    BY DEF LIQUIDATOR_REWARD_BPS, LIQUIDATION_INSURANCE_BPS
<1>1. /\ LIQUIDATOR_REWARD_BPS \in Nat
      /\ LIQUIDATION_INSURANCE_BPS \in Nat
      /\ LIQUIDATION_LP_BPS \in Nat
    BY DEF LIQUIDATOR_REWARD_BPS, LIQUIDATION_INSURANCE_BPS, LIQUIDATION_LP_BPS
<1>. DEFINE rew  == Bps(c, LIQUIDATOR_REWARD_BPS)
            ins  == Bps(c, LIQUIDATION_INSURANCE_BPS)
            lpb  == Bps(c, LIQUIDATION_LP_BPS)
            both == Bps(c, LIQUIDATOR_REWARD_BPS + LIQUIDATION_INSURANCE_BPS)
<1>2. rew \in Nat /\ ins \in Nat /\ lpb \in Nat /\ both \in Nat
    BY <1>0, <1>1, BpsNat
<1>3. rew + ins <= both
    BY <1>1, BpsSum
<1>4. both + lpb <= c
    <2>1. (LIQUIDATOR_REWARD_BPS + LIQUIDATION_INSURANCE_BPS)
              + LIQUIDATION_LP_BPS <= 10000
        BY DEF LIQUIDATOR_REWARD_BPS, LIQUIDATION_INSURANCE_BPS,
               LIQUIDATION_LP_BPS
    <2>2. QED
        BY <1>0, <1>1, <2>1, BpsSplit
<1>. HIDE DEF rew, ins, lpb, both
<1>5. rew + ins + lpb <= c
    BY <1>2, <1>3, <1>4
<1>6. QED
    BY <1>2, <1>5 DEF rew, ins, lpb

LEMMA LiquidateCovered ==
    ASSUME TypeOK, TypeOK', CollateralLedger, Debit <= Credit,
           NEW u \in Users, NEW s \in Slots, Liquidate(u, s)
    PROVE  Debit' <= Credit'
<1>. DEFINE c   == positions[u][s].collateral
            rew == Bps(c, LIQUIDATOR_REWARD_BPS)
            ins == Bps(c, LIQUIDATION_INSURANCE_BPS)
            lpb == Bps(c, LIQUIDATION_LP_BPS)
<1>0. /\ fee_vault \in Nat /\ deficit \in Nat /\ total_user_collateral \in Nat
      /\ accumulated_fees \in Nat /\ total_fees_claimed \in Nat
      /\ total_referral_pending \in Nat
    BY VaultTypes
<1>1. c \in Nat /\ c <= total_user_collateral
    BY TotalCoversParts
<1>2. /\ fee_vault' = fee_vault - rew - ins
      /\ AccrueLpFee(lpb)
      /\ total_user_collateral' = SatSub(total_user_collateral, c)
      /\ deficit' = deficit /\ total_referral_pending' = total_referral_pending
    BY DEF Liquidate, referrals
<1>3. /\ accumulated_fees' = accumulated_fees + lpb
      /\ total_fees_claimed' = total_fees_claimed
    BY <1>2 DEF AccrueLpFee
<1>. HIDE DEF c
<1>4. rew \in Nat /\ ins \in Nat /\ lpb \in Nat /\ rew + ins + lpb <= c
    BY <1>1, LiquidationFits
<1>. HIDE DEF rew, ins, lpb
<1>5. total_user_collateral' = total_user_collateral - c
    BY <1>0, <1>1, <1>2 DEF SatSub
<1>6. QED
    BY <1>0, <1>1, <1>2, <1>3, <1>4, <1>5, VaultKept DEF Debit, Credit

-----------------------------------------------------------------------------
(* Funding: the cuts of every slot come out of what is taken from it       *)

LEMMA CutsFit ==
    ASSUME TypeOK, NEW p \in Slot, NEW m \in Markets
    PROVE  InsuranceCut(p, m) + LpCut(p, m) <= Taken(p, m)
<1>1. Taken(p, m) \in Nat
    BY TakenNat
<1>2. /\ FUNDING_LP_BPS \in Nat /\ LIQUIDATION_LP_BPS \in Nat
      /\ FUNDING_INSURANCE_BPS \in Nat /\ LIQUIDATION_INSURANCE_BPS \in Nat
      /\ FUNDING_INSURANCE_BPS + FUNDING_LP_BPS <= 10000
      /\ LIQUIDATION_INSURANCE_BPS + LIQUIDATION_LP_BPS <= 10000
    BY DEF FUNDING_LP_BPS, LIQUIDATION_LP_BPS, FUNDING_INSURANCE_BPS,
           LIQUIDATION_INSURANCE_BPS
<1>3. CASE Drained(p, m)
    <2>1. Bps(Taken(p, m), LIQUIDATION_INSURANCE_BPS)
              + Bps(Taken(p, m), LIQUIDATION_LP_BPS) <= Taken(p, m)
        BY <1>1, <1>2, BpsSplit
    <2>2. QED
        BY <1>3, <2>1 DEF InsuranceCut, LpCut
<1>4. CASE ~Drained(p, m)
    <2>1. Bps(Taken(p, m), FUNDING_INSURANCE_BPS)
              + Bps(Taken(p, m), FUNDING_LP_BPS) <= Taken(p, m)
        BY <1>1, <1>2, BpsSplit
    <2>2. QED
        BY <1>4, <2>1 DEF InsuranceCut, LpCut
<1>5. QED
    BY <1>3, <1>4

LEMMA FundingSums ==
    ASSUME TypeOK, CollateralLedger, NEW u \in Users, NEW m \in Markets
    PROVE  /\ TakenSum(u, m) \in Nat /\ TakenSum(u, m) <= total_user_collateral
           /\ InsuranceCutSum(u, m) \in Nat /\ LpCutSum(u, m) \in Nat
           /\ InsuranceCutSum(u, m) + LpCutSum(u, m) <= TakenSum(u, m)
<1>. DEFINE q == positions[u]
            c == [s \in Slots |-> q[s].collateral]
            x == [s \in Slots |-> Taken(q[s], m)]
            g == [s \in Slots |-> InsuranceCut(q[s], m)]
            h == [s \in Slots |-> LpCut(q[s], m)]
            z == [s \in Slots |-> 0]
<1>1. MaxPositions \in Nat /\ Slots = 1..MaxPositions
    BY StateAssumption DEF Slots
<1>2. /\ TakenSum(u, m) = Sum(x, MaxPositions)
      /\ InsuranceCutSum(u, m) = Sum(g, MaxPositions)
      /\ LpCutSum(u, m) = Sum(h, MaxPositions)
      /\ InSlots(q) = Sum(c, MaxPositions)
    BY DEF TakenSum, InsuranceCutSum, LpCutSum, InSlots
<1>3. ASSUME NEW s \in Slots
      PROVE  /\ c[s] \in Nat /\ x[s] \in Nat /\ g[s] \in Nat /\ h[s] \in Nat
             /\ z[s] = 0 /\ x[s] + z[s] <= c[s] /\ g[s] + h[s] <= x[s]
    <2>1. q[s] \in Slot
        BY SlotType
    <2>2. /\ q[s].collateral \in Nat /\ Taken(q[s], m) \in Nat
          /\ Taken(q[s], m) <= q[s].collateral
        BY <2>1, TakenNat
    <2>3. InsuranceCut(q[s], m) \in Nat /\ LpCut(q[s], m) \in Nat
        BY <2>1, CutsNat
    <2>4. InsuranceCut(q[s], m) + LpCut(q[s], m) <= Taken(q[s], m)
        BY <2>1, CutsFit
    <2>5. QED
        BY <2>2, <2>3, <2>4
<1>4. /\ margin[u] \in Nat /\ total_user_collateral \in Nat
      /\ margin[u] + InSlots(q) <= total_user_collateral
    BY HeldNat, TotalCovers DEF TypeOK
<1>. HIDE DEF c, x, g, h, z, q
<1>5. /\ \A s \in 1..MaxPositions : x[s] \in Nat /\ g[s] \in Nat /\ h[s] \in Nat
      /\ \A s \in 1..MaxPositions : c[s] \in Nat /\ z[s] \in Nat /\ z[s] = 0
      /\ \A s \in 1..MaxPositions : x[s] + z[s] <= c[s] /\ g[s] + h[s] <= x[s]
    BY <1>1, <1>3
<1>6. Sum(g, MaxPositions) + Sum(h, MaxPositions) <= Sum(x, MaxPositions)
    BY <1>1, <1>5, SumSplit
<1>7. Sum(x, MaxPositions) + Sum(z, MaxPositions) <= Sum(c, MaxPositions)
    BY <1>1, <1>5, SumSplit
<1>8. Sum(z, MaxPositions) = 0
    BY <1>1, <1>5, SumOfZeros
<1>9. /\ Sum(x, MaxPositions) \in Nat /\ Sum(g, MaxPositions) \in Nat
      /\ Sum(h, MaxPositions) \in Nat /\ Sum(c, MaxPositions) \in Nat
    BY <1>1, <1>5, SumNat
<1>10. QED
    BY <1>2, <1>4, <1>6, <1>7, <1>8, <1>9

LEMMA SettleFundingCovered ==
    ASSUME TypeOK, TypeOK', CollateralLedger, Debit <= Credit,
           NEW u \in Users, NEW m \in Markets, SettleFunding(u, m)
    PROVE  Debit' <= Credit'
<1>0. /\ fee_vault \in Nat /\ deficit \in Nat /\ total_user_collateral \in Nat
      /\ accumulated_fees \in Nat /\ total_fees_claimed \in Nat
      /\ total_referral_pending \in Nat
    BY VaultTypes
<1>1. /\ TakenSum(u, m) \in Nat /\ TakenSum(u, m) <= total_user_collateral
      /\ InsuranceCutSum(u, m) \in Nat /\ LpCutSum(u, m) \in Nat
      /\ InsuranceCutSum(u, m) + LpCutSum(u, m) <= TakenSum(u, m)
    BY FundingSums
<1>2. /\ fee_vault' = fee_vault - InsuranceCutSum(u, m)
      /\ accumulated_fees' = accumulated_fees + LpCutSum(u, m)
      /\ total_user_collateral' = SatSub(total_user_collateral, TakenSum(u, m))
      /\ deficit' = deficit /\ total_referral_pending' = total_referral_pending
      /\ total_fees_claimed' = total_fees_claimed
    BY DEF SettleFunding, referrals
<1>3. total_user_collateral' = total_user_collateral - TakenSum(u, m)
    BY <1>0, <1>1, <1>2 DEF SatSub
<1>4. QED
    BY <1>0, <1>1, <1>2, <1>3, VaultKept DEF Debit, Credit

-----------------------------------------------------------------------------
(* The invariant                                                           *)

LEMMA ClosingCovered ==
    ASSUME TypeOK, TypeOK', CollateralLedger, Debit <= Credit,
           NEW u \in Users, NEW s \in Slots,
           ClosePosition(u, s) \/ ExecuteSlTp(u, s) \/ AdminClosePosition(u, s)
    PROVE  Debit' <= Credit'
<1>1. CASE ClosePosition(u, s) \/ AdminClosePosition(u, s)
    <2>1. IsOpen(u, s) /\ SettlePosition(u, s, 0)
        BY <1>1 DEF ClosePosition, AdminClosePosition
    <2>2. QED
        BY <2>1, 0 \in Nat, SettlementCovered
<1>2. CASE ExecuteSlTp(u, s)
    <2>. DEFINE reward == Bps(positions[u][s].collateral, KEEPER_REWARD_BPS)
    <2>1. IsOpen(u, s) /\ SettlePosition(u, s, reward)
        BY <1>2 DEF ExecuteSlTp
    <2>2. positions[u][s].collateral \in Nat /\ KEEPER_REWARD_BPS \in Nat
        BY TotalCoversParts DEF KEEPER_REWARD_BPS
    <2>3. reward \in Nat
        BY <2>2, BpsNat
    <2>. HIDE DEF reward
    <2>4. QED
        BY <2>1, <2>3, SettlementCovered
<1>3. QED
    BY <1>1, <1>2

LEMMA CoveredStep ==
    /\ TypeOK /\ TypeOK' /\ CollateralLedger /\ Tallied
    /\ Debit <= Credit
    /\ [Next]_vars
    => Debit' <= Credit'
<1>. SUFFICES ASSUME TypeOK, TypeOK', CollateralLedger, Tallied,
                     Debit <= Credit, [Next]_vars
              PROVE  Debit' <= Credit'
    OBVIOUS
<1>1. CASE \/ \E u \in Users, amount \in Nat : DepositCollateral(u, amount)
           \/ \E u \in Users, amount \in Nat : WithdrawCollateral(u, amount)
    BY <1>1, CollateralCovered, Zenon
<1>2. CASE \E u \in Users, s \in Slots, m \in Markets, d \in Direction,
              c \in Nat, l \in Nat, sl, tp \in Nat, r \in Users \cup {0},
              withTracker \in BOOLEAN :
              OpenPosition(u, s, m, d, c, l, sl, tp, r, withTracker)
    BY <1>2, OpenPositionCovered
<1>3. CASE \/ \E u \in Users, s \in Slots : ClosePosition(u, s)
           \/ \E u \in Users, s \in Slots : ExecuteSlTp(u, s)
           \/ \E u \in Users, s \in Slots : AdminClosePosition(u, s)
    BY <1>3, ClosingCovered, Zenon
<1>4. CASE \E u \in Users, s \in Slots : Liquidate(u, s)
    BY <1>4, LiquidateCovered
<1>5. CASE \E u \in Users, m \in Markets : SettleFunding(u, m)
    BY <1>5, SettleFundingCovered
<1>6. CASE \/ \E u \in Users, n \in Nat : LpWithdraw(u, n)
           \/ \E u \in Users : ClaimFees(u)
    BY <1>6, 0 \in Nat, ProvidersCovered, Zenon
<1>7. CASE \E amount \in Nat : WithdrawFees(amount)
    BY <1>7, TreasuryCovered
<1>8. CASE \E u \in Users : ClaimReferral(u)
    BY <1>8, ReferrerCovered
<1>9. CASE \/ \E u \in Users, s \in Slots, amount \in Nat : AddMargin(u, s, amount)
           \/ \E u \in Users, s \in Slots, amount \in Nat : RemoveMargin(u, s, amount)
           \/ \E u \in Users, s \in Slots, o \in Oracles, sl, tp \in Nat :
                 SetSlTp(u, s, o, sl, tp)
           \/ \E u \in Users : CloseMarginAccount(u)
           \/ \E u \in Users, amount \in Nat : LpDeposit(u, amount)
           \/ \E amount \in Nat : WithdrawInsurance(amount)
           \/ \E u \in Users : RegisterReferral(u)
           \/ \E u \in Users, rate \in Nat : SetFeeShare(u, rate)
           \/ Tick
           \/ \E price \in Nat : UpdateOracle(price)
           \/ \E m \in Markets, price \in Nat : UpdateMarketOracle(m, price)
           \/ \E m \in Markets : CheckAndPause(m)
           \/ \E new \in ParamSets, pause \in Pauses : UpdateParams(new, pause)
           \/ UNCHANGED vars
    <2>1. /\ fee_vault' = fee_vault /\ deficit' = deficit
          /\ total_user_collateral' = total_user_collateral
          /\ accumulated_fees' = accumulated_fees
          /\ total_fees_claimed' = total_fees_claimed
          /\ total_referral_pending' = total_referral_pending
        BY <1>9 DEF AddMargin, RemoveMargin, SetSlTp, CloseMarginAccount, LpDeposit,
                    WithdrawInsurance, RegisterReferral, SetFeeShare, Tick,
                    UpdateOracle, UpdateMarketOracle, CheckAndPause, UpdateParams,
                    money, vars, vaults, accounts, lpFees, referrals
    <2>2. QED
        BY <2>1 DEF Debit, Credit
<1>10. QED
    <2>1. TypedStep \/ UNCHANGED vars
        BY StepsAreTyped
    <2>2. QED
        BY <2>1, <1>1, <1>2, <1>3, <1>4, <1>5, <1>6, <1>7, <1>8, <1>9,
           Zenon DEF TypedStep

LEMMA InitCovered == Init => Rates /\ Debit <= Credit
BY DEF Init, Rates, Debit, Credit

(* The fee vault holds all it owes to users, providers and referrers but   *)
(* for what settled positions failed to cover and fees were split into     *)
(* beyond what was charged: no rounding, partial payout, claim or order of *)
(* withdrawals takes more out of it, whatever the sizes and whatever       *)
(* parameters update_params admits.                                        *)
THEOREM VaultIsCovered == Spec => []FeeVaultCovered
<1>1. Spec => []Tallied
    BY InitTallied, TalliedStep, TypeCorrect, PTL DEF Spec
<1>2. Init => Covered
    BY InitCovered DEF Covered
<1>3. /\ TypeOK /\ TypeOK' /\ CollateralLedger /\ Tallied
      /\ Covered
      /\ [Next]_vars
      => Covered'
    BY CoveredStep DEF Covered
<1>4. Spec => []Covered
    BY <1>1, <1>2, <1>3, TypeCorrect, CollateralIsCounted, PTL DEF Spec
<1>5. QED
    <2>1. TypeOK /\ Covered => FeeVaultCovered
        BY CoveredIs DEF Covered
    <2>2. QED
        BY <1>4, <2>1, TypeCorrect, PTL

-----------------------------------------------------------------------------
(* The health of a position                                                *)

(* Parameters under which no position is opened with nothing in it.  The   *)
(* program lets the admin set the minimum to zero; an empty position is    *)
(* liquidatable as soon as it is there.                                    *)
MinimumPositive == \A p \in ParamSets \cup {InitParams} : p.min_position_size > 0

(* What HealthKept says of one position that becomes another.              *)
Weakened(p, q) ==
    LiquidatableAt(q) =>
        \/ LiquidatableAt(p)
        \/ p.direction # "none" /\ p.last_funding_timestamp < q.last_funding_timestamp

HealthStep ==
    oracle' = oracle =>
        \A u \in Users, s \in Slots : Weakened(positions[u][s], positions'[u][s])

HealthBody ==
    oracle' = oracle =>
        \A u \in Users, s \in Slots :
            LET p == positions[u][s]  q == positions'[u][s] IN
            LiquidatableAt(q) =>
                \/ LiquidatableAt(p)
                \/ /\ IsOpen(u, s)
                   /\ p.last_funding_timestamp < q.last_funding_timestamp

(* At the price it is opened at a position has no profit, and with at most *)
(* ten times its collateral it has twice the margin it needs.              *)
LEMMA PnlAtEntry ==
    ASSUME NEW dir, NEW price \in Nat, NEW notional \in Nat
    PROVE  Pnl(dir, price, price, notional) = 0
<1>1. price - price = 0 /\ 0 * notional = 0
    OBVIOUS
<1>2. price # 0 => TruncDiv(0, price) = 0
    BY DEF TruncDiv
<1>3. QED
    BY <1>1, <1>2 DEF Pnl

LEMMA LeverageLeavesMargin ==
    ASSUME NEW net \in Nat \ {0}, NEW leverage \in Nat, leverage <= MAX_LEVERAGE
    PROVE  ~Liquidatable(net, 0, net * leverage)
<1> DEFINE notional == net * leverage
<1>1. notional \in Nat /\ notional <= net * 10
    BY DEF MAX_LEVERAGE
<1>. HIDE DEF notional
<1>2. ~(net + 0 <= 0) /\ ~((net + 0) * 10000 < notional * 500)
    BY <1>1
<1>3. QED
    BY <1>2 DEF Liquidatable, LIQUIDATION_THRESHOLD_BPS, notional

(* remove_margin rounds the maintenance margin down and compares strictly, *)
(* liquidate compares without rounding: what the first leaves, the second  *)
(* does not take.                                                          *)
LEMMA MaintenanceSuffices ==
    ASSUME NEW collateral \in Nat, NEW pnl \in Int, NEW notional \in Nat,
           collateral + pnl > Bps(notional, LIQUIDATION_THRESHOLD_BPS)
    PROVE  ~Liquidatable(collateral, pnl, notional)
<1> DEFINE equity == collateral + pnl
           needed == notional * 500
<1>1. equity \in Int /\ needed \in Nat /\ equity > needed \div 10000
    BY DEF Bps, LIQUIDATION_THRESHOLD_BPS
<1>. HIDE DEF equity, needed
<1>2. ~(equity <= 0) /\ ~(equity * 10000 < needed)
    BY <1>1
<1>3. QED
    BY <1>2 DEF Liquidatable, LIQUIDATION_THRESHOLD_BPS, equity, needed

LEMMA CollateralHelps ==
    ASSUME NEW collateral \in Nat, NEW more \in Nat, NEW pnl \in Int, NEW notional \in Nat,
           Liquidatable(collateral + more, pnl, notional)
    PROVE  Liquidatable(collateral, pnl, notional)
<1> DEFINE needed == notional * LIQUIDATION_THRESHOLD_BPS
<1>1. \/ collateral + more + pnl <= 0
      \/ (collateral + more + pnl) * 10000 < needed
    BY DEF Liquidatable
<1>2. needed \in Nat
    BY DEF LIQUIDATION_THRESHOLD_BPS
<1>. HIDE DEF needed
<1>3. \/ collateral + pnl <= 0
      \/ (collateral + pnl) * 10000 < needed
    BY <1>1, <1>2
<1>4. QED
    BY <1>3 DEF Liquidatable, needed

LEMMA PnlOf ==
    ASSUME TypeOK, NEW p \in Position
    PROVE  /\ oracle[p.market].price \in Nat
           /\ Pnl(p.direction, oracle[p.market].price, p.entry_price, p.notional) \in Int
<1>1. p.market \in Oracles /\ p.direction \in Direction /\ p.entry_price \in Nat
      /\ p.notional \in Nat
    BY PositionFields DEF Oracles
<1>2. oracle[p.market].price \in Nat
    BY <1>1 DEF TypeOK
<1>3. QED
    BY <1>1, <1>2, PnlInt

LEMMA NoneIsHealthy == ~LiquidatableAt(EmptySlot)
BY DEF LiquidatableAt, EmptySlot

LEMMA OpenedHealthy ==
    ASSUME TypeOK, params.min_position_size > 0,
           NEW u \in Users, NEW s \in Slots, NEW m \in Markets, NEW d \in Direction,
           NEW c \in Nat, NEW l \in Nat, NEW sl \in Nat, NEW tp \in Nat,
           NEW r \in Users \cup {0}, NEW withTracker \in BOOLEAN,
           OpenPosition(u, s, m, d, c, l, sl, tp, r, withTracker),
           oracle' = oracle
    PROVE  HealthStep
<1> DEFINE fee == Bps(c, params.fee_bps)
           net == c - fee
           new == [direction |-> d, market |-> m, collateral |-> net,
                   notional |-> net * l, entry_price |-> oracle[m].price,
                   last_funding_timestamp |-> now, sl_price |-> sl, tp_price |-> tp]
<1>1. /\ l <= MAX_LEVERAGE /\ c >= params.min_position_size
      /\ positions' = [positions EXCEPT ![u][s] = new]
    BY DEF OpenPosition
<1>2. params.fee_bps \in Nat /\ params.fee_bps <= 500 /\ params.min_position_size \in Nat
    BY DEF TypeOK, AdmissibleParams, Parameters
<1>3. net \in Nat \ {0}
    <2>1. c \in Nat \ {0}
        BY <1>1, <1>2
    <2>2. c * params.fee_bps \in Nat /\ c * params.fee_bps <= c * 500
        BY <1>2
    <2>3. fee \in Nat /\ fee < c
        BY <2>1, <2>2 DEF Bps
    <2>. HIDE DEF fee
    <2>4. QED
        BY <2>3
<1>4. oracle[m].price \in Nat
    BY DEF TypeOK, Oracles
<1>5. /\ new.direction = d /\ new.market = m /\ new.collateral = net
      /\ new.notional = net * l /\ new.entry_price = oracle[m].price
    OBVIOUS
<1>. HIDE DEF new, net
<1>6. ~LiquidatableAt(new)
    <2>1. net * l \in Nat
        BY <1>3
    <2>2. Pnl(d, oracle[m].price, oracle[m].price, net * l) = 0
        BY <1>4, <2>1, PnlAtEntry
    <2>3. ~Liquidatable(net, 0, net * l)
        BY <1>1, <1>3, LeverageLeavesMargin
    <2>4. QED
        BY <1>5, <2>2, <2>3 DEF LiquidatableAt, PositionLiquidatable
<1>7. ASSUME NEW v \in Users, NEW t \in Slots
      PROVE  Weakened(positions[v][t], positions'[v][t])
    <2>1. positions'[v][t] \in {positions[v][t], new}
        BY <1>1 DEF TypeOK
    <2>2. QED
        BY <1>6, <2>1 DEF Weakened
<1>8. QED
    BY <1>7 DEF HealthStep

(* Margin put into a position or taken out of it.                          *)
LEMMA MovedHealthy ==
    ASSUME TypeOK, NEW u \in Users, NEW s \in Slots, NEW amount \in Nat,
           AddMargin(u, s, amount) \/ RemoveMargin(u, s, amount)
    PROVE  HealthStep
<1> DEFINE p == positions[u][s]
           pnl == Pnl(p.direction, oracle[p.market].price, p.entry_price, p.notional)
<1>1. p \in Position
    BY OpenSlotType DEF AddMargin, RemoveMargin
<1>2. p.collateral \in Nat /\ p.notional \in Nat /\ pnl \in Int
    BY <1>1, PositionFields, PnlOf
<1>3. PICK c \in Nat :
          /\ positions' = [positions EXCEPT ![u][s] = WithCollateral(p, c)]
          /\ Liquidatable(c, pnl, p.notional) => Liquidatable(p.collateral, pnl, p.notional)
    <2>1. CASE AddMargin(u, s, amount)
        <3>1. positions' = [positions EXCEPT ![u][s] = WithCollateral(p, p.collateral + amount)]
            BY <2>1 DEF AddMargin
        <3>2. p.collateral + amount \in Nat
            BY <1>2
        <3>3. Liquidatable(p.collateral + amount, pnl, p.notional)
                 => Liquidatable(p.collateral, pnl, p.notional)
            BY <1>2, CollateralHelps
        <3>4. QED
            BY <3>1, <3>2, <3>3
    <2>2. CASE RemoveMargin(u, s, amount)
        <3> DEFINE remaining == p.collateral - amount
        <3>1. /\ positions' = [positions EXCEPT ![u][s] = WithCollateral(p, remaining)]
              /\ p.collateral > amount
              /\ remaining + pnl > Bps(p.notional, LIQUIDATION_THRESHOLD_BPS)
            BY <2>2 DEF RemoveMargin, KeepsMaintenance, EquityWith
        <3>2. remaining \in Nat
            BY <1>2, <3>1
        <3>. HIDE DEF remaining, pnl
        <3>3. ~Liquidatable(remaining, pnl, p.notional)
            BY <1>2, <3>1, <3>2, MaintenanceSuffices
        <3>4. QED
            BY <3>1, <3>2, <3>3
    <2>3. QED
        BY <2>1, <2>2
<1>4. /\ WithCollateral(p, c).collateral = c
      /\ WithCollateral(p, c).direction = p.direction
      /\ WithCollateral(p, c).market = p.market
      /\ WithCollateral(p, c).entry_price = p.entry_price
      /\ WithCollateral(p, c).notional = p.notional
    BY <1>1 DEF WithCollateral, Position
<1>5. LiquidatableAt(WithCollateral(p, c)) => LiquidatableAt(p)
    BY <1>3, <1>4 DEF LiquidatableAt, PositionLiquidatable
<1>6. ASSUME NEW v \in Users, NEW t \in Slots
      PROVE  Weakened(positions[v][t], positions'[v][t])
    <2>1. \/ positions'[v][t] = positions[v][t]
          \/ v = u /\ t = s /\ positions'[v][t] = WithCollateral(p, c)
        BY <1>3 DEF TypeOK
    <2>2. QED
        BY <1>5, <2>1 DEF Weakened
<1>7. QED
    BY <1>6 DEF HealthStep

LEMMA StopsHealthy ==
    ASSUME TypeOK, NEW u \in Users, NEW s \in Slots, NEW o \in Oracles,
           NEW sl \in Nat, NEW tp \in Nat, SetSlTp(u, s, o, sl, tp)
    PROVE  HealthStep
<1> DEFINE p == positions[u][s]
           q == WithTriggers(p, sl, tp)
<1>1. p \in Position /\ positions' = [positions EXCEPT ![u][s] = q]
    BY OpenSlotType DEF SetSlTp
<1>2. /\ q.collateral = p.collateral /\ q.direction = p.direction /\ q.market = p.market
      /\ q.entry_price = p.entry_price /\ q.notional = p.notional
    BY <1>1 DEF WithTriggers, Position
<1>. HIDE DEF q
<1>3. LiquidatableAt(q) => LiquidatableAt(p)
    BY <1>2 DEF LiquidatableAt, PositionLiquidatable
<1>4. ASSUME NEW v \in Users, NEW t \in Slots
      PROVE  Weakened(positions[v][t], positions'[v][t])
    <2>1. \/ positions'[v][t] = positions[v][t]
          \/ v = u /\ t = s /\ positions'[v][t] = q
        BY <1>1 DEF TypeOK
    <2>2. QED
        BY <1>3, <2>1 DEF Weakened
<1>5. QED
    BY <1>4 DEF HealthStep

(* Whoever is charged is charged for time that has passed.                 *)
LEMMA ChargedHealthy ==
    ASSUME TypeOK, NEW p \in Slot, NEW m \in Markets
    PROVE  Weakened(p, AfterFunding(p, m))
<1>1. CASE Charge(p, m) = 0
    BY <1>1 DEF AfterFunding, Weakened
<1>2. CASE Charge(p, m) # 0 /\ Drained(p, m)
    BY <1>2, NoneIsHealthy DEF AfterFunding, Weakened
<1>3. CASE Charge(p, m) # 0 /\ ~Drained(p, m)
    <2>1. Chargeable(p, m) /\ FundingOwed(p) # 0
        BY <1>3 DEF Charge
    <2>2. p \in Position
        BY <2>1 DEF Chargeable, Slot, EmptySlot
    <2>3. now \in Nat /\ p.last_funding_timestamp \in Nat /\ p.notional \in Nat
        BY <2>2, PositionFields DEF TypeOK
    <2>4. p.last_funding_timestamp < now
        <3> DEFINE rate == HourlyRate(oi[p.market], params.base_funding_rate_per_hour,
                                      params.skew_factor)
        <3>1. FundingOwed(p) = Funding(p.notional, rate, SatSub(now, p.last_funding_timestamp))
            BY <2>1 DEF FundingOwed
        <3>2. rate \in Nat
            <4>1. oi[p.market] \in [Direction -> Nat]
                BY <2>2, PositionFields DEF TypeOK
            <4>2. params.base_funding_rate_per_hour \in Nat /\ params.skew_factor \in Nat
                BY DEF TypeOK, AdmissibleParams, Parameters
            <4>3. QED
                BY <4>1, <4>2, HourlyRateNat
        <3>. HIDE DEF rate
        <3>3. Funding(p.notional, rate, 0) = 0
            <4>1. p.notional * rate * 0 = 0
                BY <2>3, <3>2
            <4>2. SecondsPerHour * FundingScale \in Nat \ {0}
                BY ScaleAssumption
            <4>3. QED
                BY <4>1, <4>2 DEF Funding
        <3>4. SatSub(now, p.last_funding_timestamp) # 0
            BY <2>1, <3>1, <3>3
        <3>5. QED
            BY <2>3, <3>4 DEF SatSub
    <2>5. AfterFunding(p, m).last_funding_timestamp = now
        <3> DEFINE left == WithCollateral(p, p.collateral - Charge(p, m))
        <3>1. p.collateral - Charge(p, m) \in Nat
            BY <1>3, <2>2, ChargeNat, PositionFields DEF Drained
        <3>2. left \in Position
            BY <2>2, <3>1, WithCollateralType
        <3>3. AfterFunding(p, m) = [left EXCEPT !.last_funding_timestamp = now]
            BY <1>3, Zenon DEF AfterFunding
        <3>. HIDE DEF left
        <3>4. ASSUME NEW q \in Position, NEW t \in Nat
              PROVE  [q EXCEPT !.last_funding_timestamp = t].last_funding_timestamp = t
            BY DEF Position
        <3>5. QED
            BY <2>3, <3>2, <3>3, <3>4
    <2>6. QED
        BY <2>1, <2>4, <2>5 DEF Weakened, Chargeable
<1>4. QED
    BY <1>1, <1>2, <1>3

LEMMA HealthyStep ==
    ASSUME MinimumPositive
    PROVE  TypeOK /\ Rates /\ [Next]_vars => HealthStep
<1>. SUFFICES ASSUME TypeOK, Rates, [Next]_vars, oracle' = oracle PROVE HealthStep
    BY DEF HealthStep
<1>0. params.min_position_size > 0
    BY DEF Rates, MinimumPositive
<1>1. CASE \/ \E u \in Users, s \in Slots : ClosePosition(u, s)
           \/ \E u \in Users, s \in Slots : ExecuteSlTp(u, s)
           \/ \E u \in Users, s \in Slots : AdminClosePosition(u, s)
           \/ \E u \in Users, s \in Slots : Liquidate(u, s)
    <2>1. PICK u \in Users, s \in Slots :
              positions' = [positions EXCEPT ![u][s] = EmptySlot]
        <3>1. ASSUME NEW u \in Users, NEW s \in Slots, ClosePosition(u, s)
              PROVE  positions' = [positions EXCEPT ![u][s] = EmptySlot]
            BY <3>1, Zenon DEF ClosePosition, SettlePosition
        <3>2. ASSUME NEW u \in Users, NEW s \in Slots, ExecuteSlTp(u, s)
              PROVE  positions' = [positions EXCEPT ![u][s] = EmptySlot]
            BY <3>2, Zenon DEF ExecuteSlTp, SettlePosition
        <3>3. ASSUME NEW u \in Users, NEW s \in Slots, AdminClosePosition(u, s)
              PROVE  positions' = [positions EXCEPT ![u][s] = EmptySlot]
            BY <3>3, Zenon DEF AdminClosePosition, SettlePosition
        <3>4. ASSUME NEW u \in Users, NEW s \in Slots, Liquidate(u, s)
              PROVE  positions' = [positions EXCEPT ![u][s] = EmptySlot]
            BY <3>4, Zenon DEF Liquidate
        <3>5. QED
            BY <1>1, <3>1, <3>2, <3>3, <3>4
    <2>2. ASSUME NEW v \in Users, NEW t \in Slots
          PROVE  Weakened(positions[v][t], positions'[v][t])
        <3>1. positions'[v][t] \in {positions[v][t], EmptySlot}
            BY <2>1 DEF TypeOK
        <3>2. QED
            BY <3>1, NoneIsHealthy DEF Weakened
    <2>3. QED
        BY <2>2 DEF HealthStep
<1>2. CASE \E u \in Users : CloseMarginAccount(u)
    <2>1. PICK u \in Users : CloseMarginAccount(u)
        BY <1>2
    <2>2. positions' = [positions EXCEPT ![u] = [s \in Slots |-> EmptySlot]]
        BY <2>1 DEF CloseMarginAccount
    <2>3. ASSUME NEW v \in Users, NEW t \in Slots
          PROVE  Weakened(positions[v][t], positions'[v][t])
        <3>1. positions'[v][t] \in {positions[v][t], EmptySlot}
            BY <2>2 DEF TypeOK
        <3>2. QED
            BY <3>1, NoneIsHealthy DEF Weakened
    <2>4. QED
        BY <2>3 DEF HealthStep
<1>3. CASE \E u \in Users, m \in Markets : SettleFunding(u, m)
    <2>1. PICK u \in Users, m \in Markets : SettleFunding(u, m)
        BY <1>3
    <2>2. positions' = [positions EXCEPT ![u] =
                           [s \in Slots |-> AfterFunding(positions[u][s], m)]]
        BY <2>1 DEF SettleFunding
    <2>3. ASSUME NEW v \in Users, NEW t \in Slots
          PROVE  Weakened(positions[v][t], positions'[v][t])
        <3>1. \/ positions'[v][t] = positions[v][t]
              \/ positions'[v][t] = AfterFunding(positions[v][t], m)
            BY <2>2 DEF TypeOK
        <3>2. QED
            BY <3>1, SlotType, ChargedHealthy DEF Weakened
    <2>4. QED
        BY <2>3 DEF HealthStep
<1>4. CASE \E u \in Users, s \in Slots, m \in Markets, d \in Direction,
              c \in Nat, l \in Nat, sl, tp \in Nat, r \in Users \cup {0},
              withTracker \in BOOLEAN :
              OpenPosition(u, s, m, d, c, l, sl, tp, r, withTracker)
    BY <1>0, <1>4, OpenedHealthy
<1>5. CASE \/ \E u \in Users, s \in Slots, amount \in Nat : AddMargin(u, s, amount)
           \/ \E u \in Users, s \in Slots, amount \in Nat : RemoveMargin(u, s, amount)
    BY <1>5, MovedHealthy
<1>6. CASE \E u \in Users, s \in Slots, o \in Oracles, sl, tp \in Nat :
              SetSlTp(u, s, o, sl, tp)
    BY <1>6, StopsHealthy
<1>7. CASE \/ \E u \in Users, amount \in Nat : DepositCollateral(u, amount)
           \/ \E u \in Users, amount \in Nat : WithdrawCollateral(u, amount)
           \/ \E u \in Users, amount \in Nat : LpDeposit(u, amount)
           \/ \E u \in Users, n \in Nat : LpWithdraw(u, n)
           \/ \E u \in Users : ClaimFees(u)
           \/ \E amount \in Nat : WithdrawFees(amount)
           \/ \E amount \in Nat : WithdrawInsurance(amount)
           \/ \E u \in Users : RegisterReferral(u)
           \/ \E u \in Users, rate \in Nat : SetFeeShare(u, rate)
           \/ \E u \in Users : ClaimReferral(u)
           \/ Tick
           \/ \E price \in Nat : UpdateOracle(price)
           \/ \E m \in Markets, price \in Nat : UpdateMarketOracle(m, price)
           \/ \E m \in Markets : CheckAndPause(m)
           \/ \E new \in ParamSets, pause \in Pauses : UpdateParams(new, pause)
           \/ UNCHANGED vars
    <2>1. positions' = positions
        BY <1>7 DEF DepositCollateral, WithdrawCollateral, LpDeposit, LpWithdraw,
                    ClaimFees, WithdrawFees, WithdrawInsurance, RegisterReferral,
                    SetFeeShare, ClaimReferral, Tick, UpdateOracle, UpdateMarketOracle,
                    CheckAndPause, UpdateParams, money, vars, accounts
    <2>2. QED
        BY <2>1 DEF HealthStep, Weakened
<1>8. QED
    <2>1. TypedStep \/ UNCHANGED vars
        BY StepsAreTyped
    <2>2. QED
        BY <2>1, <1>1, <1>2, <1>3, <1>4, <1>5, <1>6, <1>7, Zenon DEF TypedStep

(* When the least position size is positive, only a price or a charge of   *)
(* funding for time that has passed makes a position liquidatable:         *)
(* opening one, moving margin, setting triggers, or whatever others do to  *)
(* the pool and the parameters never does, at any size and leverage.       *)
THEOREM HealthIsKept ==
    ASSUME MinimumPositive
    PROVE  Spec => HealthKept
<1>1. Spec => []Rates
    BY InitCovered, RatesStep, TypeCorrect, PTL DEF Spec
<1>2. TypeOK /\ Rates /\ [Next]_vars => [HealthBody]_vars
    BY HealthyStep DEF HealthStep, Weakened, HealthBody, IsOpen
<1>3. QED
    BY <1>1, <1>2, TypeCorrect, PTL DEF Spec, HealthKept, HealthBody

-----------------------------------------------------------------------------
PauseStep == (is_paused /\ manual_pause /\ ~is_paused') => ~manual_pause'

(* A pause the admin asked for is lifted by nobody else.                   *)
THEOREM ManualPauseIsHeld == Spec => ManualPauseHeld
<1>1. [Next]_vars => [PauseStep]_vars
    <2>1. ASSUME MarginNext \/ TradingNext \/ PoolNext \/ TreasuryNext
          PROVE  is_paused' = is_paused
        <3>1. CASE MarginNext
            BY <3>1 DEF MarginNext, control, DepositCollateral, WithdrawCollateral,
               AddMargin, RemoveMargin, SetSlTp, CloseMarginAccount
        <3>2. CASE TradingNext
            <4>1. ASSUME NEW u, NEW s, NEW reward, SettlePosition(u, s, reward)
                  PROVE  is_paused' = is_paused
                BY <4>1, Zenon DEF SettlePosition, control
            <4>2. ASSUME NEW u, NEW s, Liquidate(u, s) PROVE is_paused' = is_paused
                BY <4>2, Zenon DEF Liquidate, control
            <4>3. ASSUME NEW u, NEW m, SettleFunding(u, m) PROVE is_paused' = is_paused
                BY <4>3, Zenon DEF SettleFunding, control
            <4>4. ASSUME NEW u, NEW s, NEW m, NEW d, NEW c, NEW l, NEW sl, NEW tp, NEW r,
                         NEW withTracker, OpenPosition(u, s, m, d, c, l, sl, tp, r, withTracker)
                  PROVE  is_paused' = is_paused
                BY <4>4, Zenon DEF OpenPosition, control
            <4>5. QED
                BY <3>2, <4>1, <4>2, <4>3, <4>4, Zenon DEF TradingNext, ClosePosition,
                   ExecuteSlTp, AdminClosePosition
        <3>3. CASE PoolNext
            BY <3>3 DEF PoolNext, control, LpDeposit, LpWithdraw, ClaimFees
        <3>4. CASE TreasuryNext
            BY <3>4 DEF TreasuryNext, control, WithdrawFees, WithdrawInsurance,
               RegisterReferral, SetFeeShare, ClaimReferral
        <3>5. QED
            BY <2>1, <3>1, <3>2, <3>3, <3>4
    <2>2. ASSUME ControlNext PROVE PauseStep
        <3>1. CASE Tick
            BY <3>1, Zenon DEF Tick, PauseStep
        <3>2. ASSUME NEW price, UpdateOracle(price) PROVE PauseStep
            BY <3>2, Zenon DEF UpdateOracle, PauseStep
        <3>3. ASSUME NEW m, NEW price, UpdateMarketOracle(m, price) PROVE PauseStep
            BY <3>3, Zenon DEF UpdateMarketOracle, PauseStep
        <3>4. ASSUME NEW m, CheckAndPause(m) PROVE PauseStep
            BY <3>4, Zenon DEF CheckAndPause, PauseStep
        <3>5. ASSUME NEW new, NEW pause, UpdateParams(new, pause) PROVE PauseStep
            BY <3>5, Zenon DEF UpdateParams, PauseStep
        <3>6. QED
            BY <2>2, <3>1, <3>2, <3>3, <3>4, <3>5, Zenon DEF ControlNext
    <2>3. QED
        BY <2>1, <2>2, Zenon DEF Next, PauseStep
<1>2. QED
    BY <1>1, PTL DEF Spec, ManualPauseHeld, PauseStep

-----------------------------------------------------------------------------
(* What becomes of one slot in a step                                      *)

SlotStays(u, s) ==
    /\ positions'[u][s] = EmptySlot <=> positions[u][s] = EmptySlot
    /\ positions'[u][s].entry_price = positions[u][s].entry_price

SlotOpens(u, s) ==
    \E c \in Nat, m \in Markets :
        /\ positions[u][s] = EmptySlot
        /\ margin[u] >= c
        /\ margin' = [margin EXCEPT ![u] = @ - c]
        /\ total_user_collateral' = SatSub(total_user_collateral, Bps(c, params.fee_bps))
        /\ positions'[u][s].entry_price = oracle[m].price

SlotSettles(u, s) == IsOpen(u, s) /\ SettlePosition(u, s, 0)

(* It is closed by a trigger, a liquidation or the funding it owes.        *)
SlotGoes(u, s) ==
    /\ positions[u][s] # EmptySlot /\ positions'[u][s] = EmptySlot
    /\ \/ Triggered(positions[u][s]) \/ PositionLiquidatable(positions[u][s])
       \/ FundingOwed(positions[u][s]) # 0

Fate(u, s) == SlotStays(u, s) \/ SlotOpens(u, s) \/ SlotSettles(u, s) \/ SlotGoes(u, s)

LEMMA PositionIsThere ==
    ASSUME NEW p \in Position
    PROVE  p # EmptySlot /\ p.direction # "none"
BY PositionFields DEF EmptySlot, Direction

LEMMA OpenIsThere ==
    ASSUME TypeOK, NEW u \in Users, NEW s \in Slots
    PROVE  IsOpen(u, s) <=> positions[u][s] # EmptySlot
<1>1. positions[u][s] \in Slot
    BY SlotType
<1>2. EmptySlot.direction = "none"
    BY DEF EmptySlot
<1>3. QED
    BY <1>1, <1>2, PositionIsThere DEF IsOpen, Slot

(* A slot whose position is rewritten without its entry price.             *)
LEMMA RewrittenStays ==
    ASSUME TypeOK, NEW u \in Users, NEW s \in Slots, IsOpen(u, s), NEW q \in Position,
           q.entry_price = positions[u][s].entry_price,
           positions' = [positions EXCEPT ![u][s] = q],
           NEW v \in Users, NEW t \in Slots
    PROVE  SlotStays(v, t)
<1>1. CASE v = u /\ t = s
    <2>1. positions'[v][t] = q /\ positions[v][t] # EmptySlot
        BY <1>1, OpenIsThere DEF TypeOK
    <2>2. QED
        BY <1>1, <2>1, PositionIsThere DEF SlotStays
<1>2. CASE ~(v = u /\ t = s)
    <2>1. positions'[v][t] = positions[v][t]
        BY <1>2 DEF TypeOK
    <2>2. QED
        BY <2>1 DEF SlotStays
<1>3. QED
    BY <1>1, <1>2

LEMMA WithFieldsKeepEntry ==
    ASSUME NEW p \in Position, NEW a \in Nat, NEW b \in Nat
    PROVE  /\ WithCollateral(p, a) \in Position
           /\ WithCollateral(p, a).entry_price = p.entry_price
           /\ WithTriggers(p, a, b) \in Position
           /\ WithTriggers(p, a, b).entry_price = p.entry_price
<1>1. WithCollateral(p, a) \in Position /\ WithTriggers(p, a, b) \in Position
    BY WithCollateralType, WithTriggersType
<1>2. WithCollateral(p, a).entry_price = p.entry_price
    BY DEF WithCollateral, Position
<1>3. WithTriggers(p, a, b).entry_price = p.entry_price
    BY DEF WithTriggers, Position
<1>4. QED
    BY <1>1, <1>2, <1>3

LEMMA MarginFate ==
    ASSUME TypeOK, NEW u \in Users, NEW s \in Slots, NEW amount \in Nat,
           AddMargin(u, s, amount) \/ RemoveMargin(u, s, amount),
           NEW v \in Users, NEW t \in Slots
    PROVE  SlotStays(v, t)
<1>. DEFINE p == positions[u][s]
<1>1. IsOpen(u, s) /\ p \in Position
    BY OpenSlotType DEF AddMargin, RemoveMargin
<1>2. PICK c \in Nat : positions' = [positions EXCEPT ![u][s] = WithCollateral(p, c)]
    <2>1. CASE AddMargin(u, s, amount)
        <3>1. positions' = [positions EXCEPT ![u][s] = WithCollateral(p, p.collateral + amount)]
            BY <2>1 DEF AddMargin
        <3>2. p.collateral + amount \in Nat
            BY <1>1, PositionFields
        <3>3. QED
            BY <3>1, <3>2
    <2>2. CASE RemoveMargin(u, s, amount)
        <3>1. positions' = [positions EXCEPT ![u][s] = WithCollateral(p, p.collateral - amount)]
            BY <2>2 DEF RemoveMargin
        <3>2. p.collateral - amount \in Nat
            BY <1>1, <2>2, PositionFields DEF RemoveMargin
        <3>3. QED
            BY <3>1, <3>2
    <2>3. QED
        BY <2>1, <2>2
<1>3. /\ WithCollateral(p, c) \in Position
      /\ WithCollateral(p, c).entry_price = positions[u][s].entry_price
    BY <1>1, WithFieldsKeepEntry
<1>4. QED
    BY <1>1, <1>2, <1>3, RewrittenStays

LEMMA StopsFate ==
    ASSUME TypeOK, NEW u \in Users, NEW s \in Slots, NEW o \in Oracles,
           NEW sl \in Nat, NEW tp \in Nat, SetSlTp(u, s, o, sl, tp),
           NEW v \in Users, NEW t \in Slots
    PROVE  SlotStays(v, t)
<1>. DEFINE p == positions[u][s]
<1>1. IsOpen(u, s) /\ p \in Position
    BY OpenSlotType DEF SetSlTp
<1>2. positions' = [positions EXCEPT ![u][s] = WithTriggers(p, sl, tp)]
    BY DEF SetSlTp
<1>3. /\ WithTriggers(p, sl, tp) \in Position
      /\ WithTriggers(p, sl, tp).entry_price = positions[u][s].entry_price
    BY <1>1, WithFieldsKeepEntry
<1>4. QED
    BY <1>1, <1>2, <1>3, RewrittenStays

LEMMA OpeningFate ==
    ASSUME TypeOK,
           NEW u \in Users, NEW s \in Slots, NEW m \in Markets, NEW d \in Direction,
           NEW c \in Nat, NEW l \in Nat, NEW sl \in Nat, NEW tp \in Nat,
           NEW r \in Users \cup {0}, NEW withTracker \in BOOLEAN,
           OpenPosition(u, s, m, d, c, l, sl, tp, r, withTracker),
           NEW v \in Users, NEW t \in Slots
    PROVE  SlotStays(v, t) \/ SlotOpens(v, t)
<1>. DEFINE net == c - Bps(c, params.fee_bps)
            new == [direction |-> d, market |-> m, collateral |-> net,
                    notional |-> net * l, entry_price |-> oracle[m].price,
                    last_funding_timestamp |-> now, sl_price |-> sl, tp_price |-> tp]
<1>1. positions' = [positions EXCEPT ![u][s] = new]
    BY DEF OpenPosition
<1>2. /\ margin[u] >= c /\ ~IsOpen(u, s)
      /\ margin' = [margin EXCEPT ![u] = @ - c]
      /\ total_user_collateral' = SatSub(total_user_collateral, Bps(c, params.fee_bps))
    BY DEF OpenPosition, FirstOpenSlot
<1>3. CASE v = u /\ t = s
    <2>1. positions[u][s] = EmptySlot
        BY <1>2, SlotsNotOpen
    <2>2. positions'[u][s] = new
        BY <1>1 DEF TypeOK
    <2>3. positions'[u][s].entry_price = oracle[m].price
        BY <2>2
    <2>4. SlotOpens(u, s)
        BY <1>2, <2>1, <2>3 DEF SlotOpens
    <2>5. QED
        BY <1>3, <2>4
<1>4. CASE ~(v = u /\ t = s)
    <2>1. positions'[v][t] = positions[v][t]
        BY <1>1, <1>4 DEF TypeOK
    <2>2. QED
        BY <2>1 DEF SlotStays
<1>5. QED
    BY <1>3, <1>4

(* A position that ends and leaves the other slots alone.                  *)
LEMMA EndingFate ==
    ASSUME TypeOK, NEW u \in Users, NEW s \in Slots,
           \/ ClosePosition(u, s) \/ ExecuteSlTp(u, s)
           \/ AdminClosePosition(u, s) \/ Liquidate(u, s),
           NEW v \in Users, NEW t \in Slots
    PROVE  SlotStays(v, t) \/ SlotSettles(v, t) \/ SlotGoes(v, t)
<1>1. positions' = [positions EXCEPT ![u][s] = EmptySlot] /\ IsOpen(u, s)
    BY DEF ClosePosition, ExecuteSlTp, AdminClosePosition, SettlePosition, Liquidate
<1>2. CASE ~(v = u /\ t = s)
    <2>1. positions'[v][t] = positions[v][t]
        BY <1>1, <1>2 DEF TypeOK
    <2>2. QED
        BY <2>1 DEF SlotStays
<1>3. CASE v = u /\ t = s
    <2>1. positions'[u][s] = EmptySlot /\ positions[u][s] # EmptySlot
        BY <1>1, OpenIsThere DEF TypeOK
    <2>2. CASE ClosePosition(u, s) \/ AdminClosePosition(u, s)
        BY <1>1, <1>3, <2>2 DEF ClosePosition, AdminClosePosition, SlotSettles
    <2>3. CASE ExecuteSlTp(u, s)
        BY <1>3, <2>1, <2>3 DEF ExecuteSlTp, SlotGoes
    <2>4. CASE Liquidate(u, s)
        BY <1>3, <2>1, <2>4 DEF Liquidate, SlotGoes
    <2>5. QED
        BY <2>2, <2>3, <2>4
<1>4. QED
    BY <1>2, <1>3

LEMMA FundingFate ==
    ASSUME TypeOK, NEW u \in Users, NEW m \in Markets, SettleFunding(u, m),
           NEW v \in Users, NEW t \in Slots
    PROVE  SlotStays(v, t) \/ SlotGoes(v, t)
<1>. DEFINE p == positions[v][t]
<1>1. positions'[v][t] = p \/ positions'[v][t] = AfterFunding(p, m)
    <2>1. positions' = [positions EXCEPT ![u] =
                           [s \in Slots |-> AfterFunding(positions[u][s], m)]]
        BY DEF SettleFunding
    <2>2. QED
        BY <2>1 DEF TypeOK
<1>2. CASE positions'[v][t] = p
    BY <1>2 DEF SlotStays
<1>3. CASE positions'[v][t] = AfterFunding(p, m)
    <2>1. CASE Charge(p, m) = 0
        BY <1>3, <2>1 DEF AfterFunding, SlotStays
    <2>2. CASE Charge(p, m) # 0
        <3>1. p \in Position /\ FundingOwed(p) # 0 /\ Charge(p, m) \in Nat
            <4>1. p \in Slot
                BY SlotType
            <4>2. Charge(p, m) \in Nat /\ p \in Position
                BY <2>2, <4>1, ChargeNat
            <4>3. QED
                BY <2>2, <4>2 DEF Charge
        <3>2. CASE Drained(p, m)
            <4>1. positions'[v][t] = EmptySlot /\ p # EmptySlot
                BY <1>3, <2>2, <3>1, <3>2, PositionIsThere DEF AfterFunding
            <4>2. QED
                BY <3>1, <4>1 DEF SlotGoes
        <3>3. CASE ~Drained(p, m)
            <4>. DEFINE left == WithCollateral(p, p.collateral - Charge(p, m))
            <4>1. p.collateral - Charge(p, m) \in Nat
                BY <2>2, <3>1, <3>3, PositionFields DEF Drained
            <4>2. left \in Position /\ left.entry_price = p.entry_price
                BY <3>1, <4>1, WithFieldsKeepEntry
            <4>3. AfterFunding(p, m) = [left EXCEPT !.last_funding_timestamp = now]
                BY <2>2, <3>3, Zenon DEF AfterFunding
            <4>. HIDE DEF left
            <4>4. ASSUME NEW q \in Position, NEW w \in Nat
                  PROVE  [q EXCEPT !.last_funding_timestamp = w].entry_price = q.entry_price
                BY DEF Position
            <4>5. now \in Nat
                BY DEF TypeOK
            <4>6. AfterFunding(p, m) \in Position
                BY <4>2, <4>3, <4>5, ChargedTime
            <4>7. positions'[v][t].entry_price = p.entry_price
                BY <1>3, <4>2, <4>3, <4>4, <4>5
            <4>8. positions'[v][t] # EmptySlot /\ p # EmptySlot
                BY <1>3, <3>1, <4>6, PositionIsThere
            <4>9. QED
                BY <4>7, <4>8 DEF SlotStays
        <3>4. QED
            BY <3>2, <3>3
    <2>3. QED
        BY <2>1, <2>2
<1>4. QED
    BY <1>1, <1>2, <1>3

LEMMA Fates ==
    ASSUME TypeOK, TypedStep, NEW v \in Users, NEW t \in Slots
    PROVE  Fate(v, t)
<1>1. CASE \/ \E u \in Users, s \in Slots : ClosePosition(u, s)
           \/ \E u \in Users, s \in Slots : ExecuteSlTp(u, s)
           \/ \E u \in Users, s \in Slots : AdminClosePosition(u, s)
           \/ \E u \in Users, s \in Slots : Liquidate(u, s)
    BY <1>1, EndingFate DEF Fate
<1>2. CASE \E u \in Users : CloseMarginAccount(u)
    <2>1. PICK u \in Users : CloseMarginAccount(u)
        BY <1>2
    <2>2. /\ positions' = [positions EXCEPT ![u] = [s \in Slots |-> EmptySlot]]
          /\ \A s \in Slots : ~IsOpen(u, s)
        BY <2>1 DEF CloseMarginAccount
    <2>3. positions'[v][t] = positions[v][t]
        <3>1. CASE v = u
            BY <2>2, <3>1, SlotsNotOpen DEF TypeOK
        <3>2. CASE v # u
            BY <2>2, <3>2 DEF TypeOK
        <3>3. QED
            BY <3>1, <3>2
    <2>4. QED
        BY <2>3 DEF Fate, SlotStays
<1>3. CASE \E u \in Users, m \in Markets : SettleFunding(u, m)
    BY <1>3, FundingFate DEF Fate
<1>4. CASE \E u \in Users, s \in Slots, m \in Markets, d \in Direction,
              c \in Nat, l \in Nat, sl, tp \in Nat, r \in Users \cup {0},
              withTracker \in BOOLEAN :
              OpenPosition(u, s, m, d, c, l, sl, tp, r, withTracker)
    BY <1>4, OpeningFate DEF Fate
<1>5. CASE \/ \E u \in Users, s \in Slots, amount \in Nat : AddMargin(u, s, amount)
           \/ \E u \in Users, s \in Slots, amount \in Nat : RemoveMargin(u, s, amount)
    BY <1>5, MarginFate DEF Fate
<1>6. CASE \E u \in Users, s \in Slots, o \in Oracles, sl, tp \in Nat :
              SetSlTp(u, s, o, sl, tp)
    BY <1>6, StopsFate DEF Fate
<1>7. CASE \/ \E u \in Users, amount \in Nat : DepositCollateral(u, amount)
           \/ \E u \in Users, amount \in Nat : WithdrawCollateral(u, amount)
           \/ \E u \in Users, amount \in Nat : LpDeposit(u, amount)
           \/ \E u \in Users, n \in Nat : LpWithdraw(u, n)
           \/ \E u \in Users : ClaimFees(u)
           \/ \E amount \in Nat : WithdrawFees(amount)
           \/ \E amount \in Nat : WithdrawInsurance(amount)
           \/ \E u \in Users : RegisterReferral(u)
           \/ \E u \in Users, rate \in Nat : SetFeeShare(u, rate)
           \/ \E u \in Users : ClaimReferral(u)
           \/ Tick
           \/ \E price \in Nat : UpdateOracle(price)
           \/ \E m \in Markets, price \in Nat : UpdateMarketOracle(m, price)
           \/ \E m \in Markets : CheckAndPause(m)
           \/ \E new \in ParamSets, pause \in Pauses : UpdateParams(new, pause)
    <2>1. positions' = positions
        BY <1>7 DEF DepositCollateral, WithdrawCollateral, LpDeposit, LpWithdraw,
                    ClaimFees, WithdrawFees, WithdrawInsurance, RegisterReferral,
                    SetFeeShare, ClaimReferral, Tick, UpdateOracle, UpdateMarketOracle,
                    CheckAndPause, UpdateParams, money, accounts
    <2>2. QED
        BY <2>1 DEF Fate, SlotStays
<1>8. QED
    BY <1>1, <1>2, <1>3, <1>4, <1>5, <1>6, <1>7, Zenon DEF TypedStep

-----------------------------------------------------------------------------
(* No market is without a price, and no position was opened without one.   *)
EntriesPositive ==
    /\ \A m \in Markets : oracle[m].price > 0
    /\ \A u \in Users, s \in Slots :
          positions[u][s] # EmptySlot => positions[u][s].entry_price > 0

LEMMA OracleMoves ==
    ASSUME TypeOK, TypedStep
    PROVE  \/ oracle' = oracle
           \/ \E o \in Oracles, price \in Nat : price > 0 /\ SetPrice(o, price)
<1>1. CASE \E price \in Nat : UpdateOracle(price)
    BY <1>1 DEF UpdateOracle, AcceptablePrice, Oracles
<1>2. CASE \E m \in Markets, price \in Nat : UpdateMarketOracle(m, price)
    BY <1>2 DEF UpdateMarketOracle, AcceptablePrice, Oracles
<1>3. CASE \/ Tick
           \/ \E m \in Markets : CheckAndPause(m)
           \/ \E new \in ParamSets, pause \in Pauses : UpdateParams(new, pause)
    BY <1>3 DEF Tick, CheckAndPause, UpdateParams
<1>4. CASE \E u \in Users, s \in Slots :
              ClosePosition(u, s) \/ ExecuteSlTp(u, s) \/ AdminClosePosition(u, s)
    BY <1>4 DEF ClosePosition, ExecuteSlTp, AdminClosePosition, SettlePosition, control
<1>5. CASE \/ \E u \in Users, amount \in Nat : DepositCollateral(u, amount)
           \/ \E u \in Users, amount \in Nat : WithdrawCollateral(u, amount)
           \/ \E u \in Users, s \in Slots, amount \in Nat : AddMargin(u, s, amount)
           \/ \E u \in Users, s \in Slots, amount \in Nat : RemoveMargin(u, s, amount)
           \/ \E u \in Users, s \in Slots, o \in Oracles, sl, tp \in Nat :
                 SetSlTp(u, s, o, sl, tp)
           \/ \E u \in Users : CloseMarginAccount(u)
    BY <1>5 DEF DepositCollateral, WithdrawCollateral, AddMargin, RemoveMargin,
                SetSlTp, CloseMarginAccount, control
<1>6. CASE \/ \E u \in Users, s \in Slots, m \in Markets, d \in Direction,
                 c \in Nat, l \in Nat, sl, tp \in Nat, r \in Users \cup {0},
                 withTracker \in BOOLEAN :
                 OpenPosition(u, s, m, d, c, l, sl, tp, r, withTracker)
           \/ \E u \in Users, s \in Slots : Liquidate(u, s)
           \/ \E u \in Users, m \in Markets : SettleFunding(u, m)
    BY <1>6 DEF OpenPosition, Liquidate, SettleFunding, control
<1>7. CASE \/ \E u \in Users, amount \in Nat : LpDeposit(u, amount)
           \/ \E u \in Users, n \in Nat : LpWithdraw(u, n)
           \/ \E u \in Users : ClaimFees(u)
           \/ \E amount \in Nat : WithdrawFees(amount)
           \/ \E amount \in Nat : WithdrawInsurance(amount)
           \/ \E u \in Users : RegisterReferral(u)
           \/ \E u \in Users, rate \in Nat : SetFeeShare(u, rate)
           \/ \E u \in Users : ClaimReferral(u)
    BY <1>7 DEF LpDeposit, LpWithdraw, ClaimFees, WithdrawFees, WithdrawInsurance,
                RegisterReferral, SetFeeShare, ClaimReferral, control
<1>8. QED
    BY <1>1, <1>2, <1>3, <1>4, <1>5, <1>6, <1>7, Zenon DEF TypedStep

LEMMA EntryStep ==
    ASSUME TypeOK, EntriesPositive, NEW v \in Users, NEW t \in Slots, Fate(v, t),
           positions'[v][t] # EmptySlot
    PROVE  positions'[v][t].entry_price > 0
<1>1. CASE SlotStays(v, t)
    BY <1>1 DEF SlotStays, EntriesPositive
<1>2. CASE SlotOpens(v, t)
    BY <1>2 DEF SlotOpens, EntriesPositive
<1>3. CASE SlotSettles(v, t)
    <2>1. positions'[v][t] = EmptySlot
        BY <1>3 DEF SlotSettles, SettlePosition, TypeOK
    <2>2. QED
        BY <2>1
<1>4. QED
    BY <1>1, <1>2, <1>3 DEF Fate, SlotGoes

LEMMA EntriesStep == TypeOK /\ EntriesPositive /\ [Next]_vars => EntriesPositive'
<1>. SUFFICES ASSUME TypeOK, EntriesPositive, [Next]_vars PROVE EntriesPositive'
    OBVIOUS
<1>1. CASE UNCHANGED vars
    BY <1>1 DEF EntriesPositive, vars, control, accounts
<1>2. CASE Next
    <2>1. TypedStep
        BY <1>2, StepsAreTyped
    <2>2. \A m \in Markets : oracle'[m].price > 0
        <3>1. CASE oracle' = oracle
            BY <3>1 DEF EntriesPositive
        <3>2. CASE \E o \in Oracles, price \in Nat : price > 0 /\ SetPrice(o, price)
            BY <3>2 DEF EntriesPositive, SetPrice, TypeOK, Oracles
        <3>3. QED
            BY <2>1, <3>1, <3>2, OracleMoves
    <2>3. \A v \in Users, t \in Slots :
             positions'[v][t] # EmptySlot => positions'[v][t].entry_price > 0
        BY <2>1, Fates, EntryStep
    <2>4. QED
        BY <2>2, <2>3 DEF EntriesPositive
<1>3. QED
    BY <1>1, <1>2

LEMMA EntriesArePositive == Spec => []EntriesPositive
<1>1. Init => EntriesPositive
    <2>. SUFFICES ASSUME Init PROVE EntriesPositive
        OBVIOUS
    <2>1. \A m \in Markets : oracle[m].price > 0
        BY StateAssumption DEF Init, Oracles
    <2>2. \A u \in Users, s \in Slots : positions[u][s] = EmptySlot
        BY DEF Init
    <2>3. QED
        BY <2>1, <2>2 DEF EntriesPositive
<1>2. QED
    BY <1>1, EntriesStep, TypeCorrect, PTL DEF Spec

-----------------------------------------------------------------------------
(* The pool page                                                           *)

LEMMA PagesKnowClaims ==
    ASSUME TypeOK, NEW u \in Users
    PROVE  PaidFees(u) = Lesser(Claimable(u), fee_vault)
<1>1. lp[u] \in LpPosition /\ lp[u].shares \in Nat /\ total_shares \in Nat
    BY LpFields DEF TypeOK
<1>2. ShownClaimable(u) = Claimable(u)
    BY <1>1 DEF ShownClaimable, Claimable, Entitled, LpReserved
<1>3. QED
    BY <1>2 DEF PaidFees

PoolAsShown(u) == SharesAsShown(u) /\ WithdrawalAsShown(u) /\ ClaimAsShown(u)

LEMMA NothingShown ==
    ASSUME TypeOK, NEW v \in Users, lp'[v].shares = lp[v].shares,
           total_fees_claimed' = total_fees_claimed \/ wallet'[v] = wallet[v]
    PROVE  PoolAsShown(v)
<1>1. Minted(v) = 0
    BY LpFields DEF Minted
<1>2. total_fees_claimed' = total_fees_claimed => ~(total_fees_claimed' > total_fees_claimed)
    BY DEF TypeOK
<1>3. wallet'[v] = wallet[v] => ~(Received(v) > 0)
    BY DEF Received, TypeOK
<1>4. QED
    BY <1>1, <1>2, <1>3
       DEF PoolAsShown, SharesAsShown, WithdrawalAsShown, ClaimAsShown

LEMMA DepositAsShown ==
    ASSUME TypeOK, NEW u \in Users, NEW amount \in Nat, LpDeposit(u, amount),
           NEW v \in Users
    PROVE  PoolAsShown(v)
<1>1. CASE v # u
    <2>1. lp'[v] = lp[v] /\ wallet'[v] = wallet[v]
        BY <1>1 DEF LpDeposit, TypeOK
    <2>2. QED
        BY <2>1, NothingShown
<1>2. CASE v = u
    <2>1. lp[u].shares \in Nat /\ SharesFor(amount) \in Nat /\ SharesFor(amount) > 0
        BY LpFields, SharesForNat DEF LpDeposit
    <2>2. Minted(u) = SharesFor(amount)
        <3>1. lp'[u].shares = lp[u].shares + SharesFor(amount)
            BY DEF LpDeposit, TypeOK
        <3>2. QED
            BY <2>1, <3>1 DEF Minted
    <2>3. -Received(u) = amount
        <3>1. wallet'[u] = wallet[u] - amount /\ wallet[u] \in Nat
            BY DEF LpDeposit, TypeOK
        <3>2. QED
            BY <3>1 DEF Received
    <2>4. PreviewShares(amount) = SharesFor(amount)
        <3>1. total_shares \in Nat /\ (total_shares > 0 => total_usdc > 0)
            BY DEF LpDeposit, TypeOK
        <3>2. QED
            BY <3>1 DEF PreviewShares, SharesFor
    <2>5. QED
        BY <1>2, <2>1, <2>2, <2>3, <2>4
           DEF PoolAsShown, SharesAsShown, WithdrawalAsShown, ClaimAsShown
<1>3. QED
    BY <1>1, <1>2

LEMMA BurningAsShown ==
    ASSUME TypeOK, NEW u \in Users, NEW n \in Nat, LpWithdraw(u, n),
           NEW v \in Users
    PROVE  PoolAsShown(v)
<1>1. CASE v # u
    <2>1. lp'[v] = lp[v] /\ wallet'[v] = wallet[v]
        BY <1>1 DEF LpWithdraw, BurnShares, TypeOK
    <2>2. QED
        BY <2>1, NothingShown
<1>2. CASE v = u
    <2>1. lp[u].shares \in Nat /\ n > 0 /\ total_shares > 0
        BY LpFields DEF LpWithdraw
    <2>2. Minted(u) = -n
        <3>1. lp'[u].shares = lp[u].shares - n
            BY DEF LpWithdraw, BurnShares, TypeOK
        <3>2. QED
            BY <2>1, <3>1 DEF Minted
    <2>3. UsdcFor(n) \in Nat /\ WithdrawUsdcValue(n) = UsdcFor(n)
        <3>1. total_shares \in Nat
            BY DEF TypeOK
        <3>2. UsdcFor(n) \in Nat
            BY <2>1, UsdcForNat
        <3>3. QED
            BY <2>1, <3>2 DEF WithdrawUsdcValue, UsdcFor
    <2>4. Received(u) = UsdcFor(n) + PaidFees(u)
        <3>1. PaidFees(u) = Lesser(Claimable(u), fee_vault) /\ PaidFees(u) \in Nat
            BY PagesKnowClaims, ClaimableNat DEF Lesser, TypeOK
        <3>2. wallet'[u] = wallet[u] + Lesser(Claimable(u), fee_vault) + UsdcFor(n)
            BY DEF LpWithdraw, TypeOK
        <3>3. wallet[u] \in Nat
            BY DEF TypeOK
        <3>4. QED
            BY <2>3, <3>1, <3>2, <3>3 DEF Received
    <2>5. -Minted(u) = n /\ ~(Minted(u) > 0) /\ Minted(u) # 0
        BY <2>1, <2>2
    <2>6. QED
        BY <1>2, <2>3, <2>4, <2>5
           DEF PoolAsShown, SharesAsShown, WithdrawalAsShown, ClaimAsShown
<1>3. QED
    BY <1>1, <1>2

LEMMA PaymentAsShown ==
    ASSUME TypeOK, NEW u \in Users, ClaimFees(u), NEW v \in Users
    PROVE  PoolAsShown(v)
<1>1. CASE v # u
    <2>1. lp'[v] = lp[v] /\ wallet'[v] = wallet[v]
        BY <1>1 DEF ClaimFees, TypeOK
    <2>2. QED
        BY <2>1, NothingShown
<1>2. CASE v = u
    <2>1. Minted(u) = 0
        <3>1. lp'[u].shares = lp[u].shares
            BY DEF ClaimFees, TypeOK
        <3>2. QED
            BY <3>1, LpFields DEF Minted
    <2>2. Received(u) = PaidFees(u)
        <3>1. PaidFees(u) = Lesser(Claimable(u), fee_vault) /\ PaidFees(u) \in Nat
            BY PagesKnowClaims, ClaimableNat DEF Lesser, TypeOK
        <3>2. wallet'[u] = wallet[u] + Lesser(Claimable(u), fee_vault)
            BY DEF ClaimFees, TypeOK
        <3>3. wallet[u] \in Nat
            BY DEF TypeOK
        <3>4. QED
            BY <3>1, <3>2, <3>3 DEF Received
    <2>3. QED
        BY <1>2, <2>1, <2>2
           DEF PoolAsShown, SharesAsShown, WithdrawalAsShown, ClaimAsShown
<1>3. QED
    BY <1>1, <1>2

LEMMA PoolIsAsShown ==
    ASSUME TypeOK, TypedStep, NEW v \in Users
    PROVE  PoolAsShown(v)
<1>1. CASE FeesComeIn
    <2>1. lp' = lp /\ total_fees_claimed' = total_fees_claimed
        BY <1>1 DEF FeesComeIn, shares
    <2>2. QED
        BY <2>1, NothingShown
<1>2. CASE \E u \in Users, amount \in Nat : LpDeposit(u, amount)
    BY <1>2, DepositAsShown
<1>3. CASE \E u \in Users, n \in Nat : LpWithdraw(u, n)
    BY <1>3, BurningAsShown
<1>4. CASE \E u \in Users : ClaimFees(u)
    BY <1>4, PaymentAsShown
<1>5. QED
    BY <1>1, <1>2, <1>3, <1>4, StepsOfTheFees, Zenon DEF FeeStep

-----------------------------------------------------------------------------
(* The order form and a position's row                                     *)

LEMMA OpeningIsAsShown ==
    ASSUME TypeOK, CollateralLedger, NEW u \in Users, NEW s \in Slots, Fate(u, s)
    PROVE  OpeningAsShown(u, s)
<1>. SUFFICES ASSUME positions[u][s] = EmptySlot, positions'[u][s] # EmptySlot
              PROVE  total_user_collateral - total_user_collateral' =
                         OpenFeeShown(margin[u] - margin'[u])
    BY DEF OpeningAsShown
<1>1. SlotOpens(u, s)
    BY OpenIsThere DEF Fate, SlotStays, SlotSettles, SlotGoes
<1>2. PICK c \in Nat :
          /\ margin[u] >= c
          /\ margin' = [margin EXCEPT ![u] = @ - c]
          /\ total_user_collateral' = SatSub(total_user_collateral, Bps(c, params.fee_bps))
    BY <1>1 DEF SlotOpens
<1>3. Bps(c, params.fee_bps) \in Nat /\ Bps(c, params.fee_bps) <= c
    BY ShareType
<1>4. /\ margin[u] \in Nat /\ total_user_collateral \in Nat
      /\ margin[u] <= total_user_collateral
    BY TotalCoversParts
<1>5. total_user_collateral - total_user_collateral' = Bps(c, params.fee_bps)
    BY <1>2, <1>3, <1>4 DEF SatSub
<1>6. margin[u] - margin'[u] = c
    BY <1>2, <1>4 DEF TypeOK
<1>7. QED
    BY <1>5, <1>6 DEF OpenFeeShown, Bps

LEMMA QuotientBounds ==
    ASSUME NEW a \in Nat, NEW e \in Nat \ {0}
    PROVE  /\ a \div e \in Nat
           /\ (a \div e) * e <= a /\ a < (a \div e) * e + e
OBVIOUS

(* Truncation moves a quotient by less than one, towards zero.             *)
LEMMA TruncBounds ==
    ASSUME NEW x \in Int, NEW e \in Nat \ {0}
    PROVE  /\ TruncDiv(x, e) \in Int
           /\ (TruncDiv(x, e) - 1) * e < x
           /\ x < (TruncDiv(x, e) + 1) * e
<1>1. CASE x >= 0
    <2>1. PICK q \in Nat : q = x \div e /\ q * e <= x /\ x < q * e + e
        BY <1>1, QuotientBounds
    <2>2. TruncDiv(x, e) = q
        BY <1>1, <2>1 DEF TruncDiv
    <2>3. (q - 1) * e = q * e - e /\ (q + 1) * e = q * e + e /\ q * e \in Nat
        OBVIOUS
    <2>4. QED
        BY <2>1, <2>2, <2>3
<1>2. CASE x < 0
    <2>1. PICK k \in Nat : k = (-x) \div e /\ k * e <= -x /\ -x < k * e + e
        BY <1>2, QuotientBounds
    <2>2. TruncDiv(x, e) = -k
        BY <1>2, <2>1 DEF TruncDiv
    <2>3. (-k - 1) * e = -(k * e) - e /\ (-k + 1) * e = -(k * e) + e /\ k * e \in Nat
        OBVIOUS
    <2>4. QED
        BY <2>1, <2>2, <2>3
<1>3. QED
    BY <1>1, <1>2

LEMMA TruncCapped ==
    ASSUME NEW x \in Int, NEW e \in Nat \ {0}, NEW cap \in Nat, x <= cap * e
    PROVE  TruncDiv(x, e) <= cap
<1>1. PICK t \in Int : t = TruncDiv(x, e) /\ (t - 1) * e < x
    BY TruncBounds
<1>2. CASE x >= 0
    <2>1. PICK q \in Nat : q = x \div e /\ q * e <= x
        BY <1>2, QuotientBounds
    <2>2. q * e <= cap * e
        BY <2>1
    <2>3. q <= cap
        BY <2>2
    <2>4. QED
        BY <1>2, <2>1, <2>3 DEF TruncDiv
<1>3. CASE x < 0
    <2>1. PICK k \in Nat : k = (-x) \div e
        BY <1>3, QuotientBounds
    <2>2. QED
        BY <1>3, <2>1 DEF TruncDiv
<1>4. QED
    BY <1>2, <1>3

LEMMA ProfitIsShown ==
    ASSUME TypeOK, EntriesPositive, NEW u \in Users, NEW s \in Slots,
           NEW p, p = positions[u][s], p \in Position,
           PnlShown(p) <= Bps(p.collateral, params.profit_cap_bps) * p.entry_price
    PROVE  /\ CappedPnl(p) \in Int
           /\ (CappedPnl(p) - 1) * p.entry_price < PnlShown(p)
           /\ PnlShown(p) < (CappedPnl(p) + 1) * p.entry_price
<1>1. p.collateral \in Nat /\ p.notional \in Nat /\ p.market \in Oracles
    BY PositionFields DEF Oracles
<1>2. p.entry_price \in Nat \ {0}
    BY PositionFields, PositionIsThere DEF EntriesPositive
<1>3. oracle[p.market].price \in Nat
    BY <1>1 DEF TypeOK
<1>4. PICK x \in Int : x = PnlShown(p)
    BY <1>1, <1>2, <1>3 DEF PnlShown
<1>5. Pnl(p.direction, oracle[p.market].price, p.entry_price, p.notional)
          = TruncDiv(x, p.entry_price)
    BY <1>2, <1>4 DEF Pnl, PnlShown
<1>6. PICK cap \in Nat : cap = Bps(p.collateral, params.profit_cap_bps)
    BY <1>1, ShareType
<1>7. TruncDiv(x, p.entry_price) <= cap
    BY <1>2, <1>4, <1>6, TruncCapped
<1>8. CappedPnl(p) = TruncDiv(x, p.entry_price)
    BY <1>5, <1>6, <1>7 DEF CappedPnl, Lesser
<1>9. QED
    BY <1>2, <1>4, <1>8, TruncBounds

LEMMA ClosingIsAsShown ==
    ASSUME TypeOK, EntriesPositive, NEW u \in Users, NEW s \in Slots, Fate(u, s)
    PROVE  ClosingAsShown(u, s)
<1>. SUFFICES ASSUME ClosedEarly(u, s) PROVE ClosingAsShown(u, s)
    BY DEF ClosingAsShown
<1>1. PICK p : p = positions[u][s]
    OBVIOUS
<1>2. /\ p # EmptySlot /\ positions'[u][s] = EmptySlot
      /\ ~PositionLiquidatable(p) /\ ~Triggered(p)
      /\ FundingOwed(p) = 0 /\ Due(p, 0) >= 0
      /\ PnlShown(p) <= Bps(p.collateral, params.profit_cap_bps) * p.entry_price
      /\ Shortfall(p) = 0
    BY <1>1 DEF ClosedEarly
<1>3. SettlePosition(u, s, 0) /\ p \in Position
    <2>1. SlotSettles(u, s)
        BY <1>1, <1>2 DEF Fate, SlotStays, SlotOpens, SlotGoes
    <2>2. QED
        BY <1>1, <2>1, OpenSlotType DEF SlotSettles
<1>4. /\ CappedPnl(p) \in Int
      /\ (CappedPnl(p) - 1) * p.entry_price < PnlShown(p)
      /\ PnlShown(p) < (CappedPnl(p) + 1) * p.entry_price
    BY <1>1, <1>2, <1>3, ProfitIsShown
<1>5. p.collateral \in Nat /\ CloseFee(p) \in Nat /\ Due(p, 0) \in Int
    BY <1>3, PositionFields, SettlementTypes
<1>6. Due(p, 0) = p.collateral + CappedPnl(p) - CloseFee(p)
    BY <1>2, <1>4, <1>5 DEF Due
<1>7. Settlement(p, 0) = Due(p, 0)
    BY <1>2, <1>5 DEF Settlement, SatSub
<1>8. ToMargin(u) = Settlement(p, 0)
    <2>1. margin' = [margin EXCEPT ![u] = @ + Settlement(p, 0)]
        BY <1>1, <1>3 DEF SettlePosition
    <2>2. Settlement(p, 0) \in Int /\ margin[u] \in Nat
        BY <1>5, <1>7 DEF TypeOK
    <2>3. QED
        BY <2>1, <2>2 DEF ToMargin, TypeOK
<1>9. RowFigures(p).close_fee = CloseFee(p) /\ RowFigures(p).pnl = PnlShown(p)
    BY DEF RowFigures, CloseFee, Bps
<1>10. ToMargin(u) - p.collateral + RowFigures(p).close_fee = CappedPnl(p)
    BY <1>4, <1>5, <1>6, <1>7, <1>8, <1>9
<1>11. QED
    BY <1>1, <1>4, <1>9, <1>10 DEF ClosingAsShown

(* What the pages promise in one step.                                     *)
PromisedStep ==
    \A u \in Users :
        /\ SharesAsShown(u) /\ WithdrawalAsShown(u) /\ ClaimAsShown(u)
        /\ \A s \in Slots : OpeningAsShown(u, s) /\ ClosingAsShown(u, s)

(* The formulas of the pages agree with the program in every state it can  *)
(* reach: the shares and the USDC of the pool page, the fee of the order   *)
(* form, the profit and the fee on a position's row.  The totals they are  *)
(* computed from never saturate, and every entry price is positive.        *)
THEOREM PreviewsDoAgree == Spec => PreviewsAgree
<1>1. TypeOK /\ CollateralLedger /\ EntriesPositive /\ [Next]_vars => [PromisedStep]_vars
    <2>. SUFFICES ASSUME TypeOK, CollateralLedger, EntriesPositive, Next
                  PROVE  PromisedStep
        OBVIOUS
    <2>1. TypedStep
        BY StepsAreTyped
    <2>2. ASSUME NEW u \in Users
          PROVE  SharesAsShown(u) /\ WithdrawalAsShown(u) /\ ClaimAsShown(u)
        BY <2>1, PoolIsAsShown DEF PoolAsShown
    <2>3. ASSUME NEW u \in Users, NEW s \in Slots
          PROVE  OpeningAsShown(u, s) /\ ClosingAsShown(u, s)
        BY <2>1, Fates, OpeningIsAsShown, ClosingIsAsShown
    <2>4. QED
        BY <2>2, <2>3 DEF PromisedStep
<1>2. QED
    BY <1>1, TypeCorrect, CollateralIsCounted, EntriesArePositive, PTL
       DEF Spec, PreviewsAgree, PromisedStep

=============================================================================
