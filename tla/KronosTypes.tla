---------------------------- MODULE KronosTypes ----------------------------
(***************************************************************************)
(* Every variable of Kronos keeps its type.  First come the lemmas on the  *)
(* arithmetic of KronosMath (the ranges of the shares, the profit, the     *)
(* funding rate and the funding charge) and on Sum, the sum of the first n *)
(* values of a function, which all the proofs about the program cite; then *)
(* one lemma for each instruction.  The later proofs cite TypeCorrect and  *)
(* never look at types again.                                              *)
(***************************************************************************)
EXTENDS Kronos, WellFoundedInduction, TLAPS

-----------------------------------------------------------------------------
(* Shares, profit and funding                                              *)

LEMMA ProductNat ==
    ASSUME NEW a \in Nat, NEW b \in Nat
    PROVE  a * b \in Nat
OBVIOUS

LEMMA QuotientNat ==
    ASSUME NEW a \in Nat, NEW b \in Nat \ {0}
    PROVE  a \div b \in Nat
OBVIOUS

(* A share of an amount is a natural.                                      *)
LEMMA BpsNat ==
    ASSUME NEW x \in Nat, NEW rate \in Nat
    PROVE  Bps(x, rate) \in Nat
BY ProductNat, QuotientNat DEF Bps

(* Two shares whose rates sum to at most one whole take no more than the   *)
(* amount: rounding down never overspends.                                 *)
LEMMA BpsSplit ==
    ASSUME NEW x \in Nat, NEW a \in Nat, NEW b \in Nat, a + b <= 10000
    PROVE  Bps(x, a) + Bps(x, b) <= x
<1>1. /\ x * a \in Nat /\ x * b \in Nat
      /\ x * a + x * b = x * (a + b)
      /\ x * (a + b) <= x * 10000
    OBVIOUS
<1>2. QED
    BY <1>1 DEF Bps

(* Two shares taken one by one are no more than one of both rates.         *)
LEMMA BpsSum ==
    ASSUME NEW x \in Nat, NEW a \in Nat, NEW b \in Nat
    PROVE  Bps(x, a) + Bps(x, b) <= Bps(x, a + b)
<1>1. x * a \in Nat /\ x * b \in Nat /\ x * (a + b) = x * a + x * b
    OBVIOUS
<1>2. QED
    BY <1>1 DEF Bps

LEMMA BpsBound ==
    ASSUME NEW x \in Nat, NEW rate \in Nat, rate <= 10000
    PROVE  Bps(x, rate) <= x
<1>1. Bps(x, rate) + Bps(x, 0) <= x
    BY BpsSplit
<1>2. Bps(x, 0) = 0
    BY DEF Bps
<1>3. QED
    BY <1>1, <1>2, BpsNat

LEMMA TruncDivInt ==
    ASSUME NEW a \in Int, NEW b \in Nat \ {0}
    PROVE  TruncDiv(a, b) \in Int
BY DEF TruncDiv

LEMMA PnlInt ==
    ASSUME NEW dir, NEW price \in Nat, NEW entry \in Nat, NEW notional \in Nat
    PROVE  Pnl(dir, price, entry, notional) \in Int
<1>. DEFINE delta == IF dir = "long" THEN price - entry ELSE entry - price
<1>1. delta * notional \in Int
    OBVIOUS
<1>2. entry # 0 => TruncDiv(delta * notional, entry) \in Int
    BY <1>1, TruncDivInt
<1>3. QED
    BY <1>2 DEF Pnl

LEMMA HourlyRateNat ==
    ASSUME NEW sides \in [Direction -> Nat],
           NEW base \in Nat, NEW skewFactor \in Nat
    PROVE  HourlyRate(sides, base, skewFactor) \in Nat
<1>. DEFINE long  == sides["long"]
            short == sides["short"]
            diff  == IF long > short THEN long - short ELSE short - long
<1>1. long \in Nat /\ short \in Nat /\ diff \in Nat
    BY DEF Direction
<1>2. diff * skewFactor \in Nat
    BY <1>1, ProductNat
<1>3. long + short > 0 => (diff * skewFactor) \div (long + short) \in Nat
    <2>. HIDE DEF long, short, diff
    <2>1. long + short > 0 => long + short \in Nat \ {0}
        BY <1>1
    <2>2. QED
        BY <1>2, <2>1, QuotientNat
<1>4. QED
    BY <1>1, <1>3 DEF HourlyRate

LEMMA FundingNat ==
    ASSUME NEW notional \in Nat, NEW rate \in Nat, NEW elapsed \in Nat
    PROVE  Funding(notional, rate, elapsed) \in Nat
<1>1. notional * rate * elapsed \in Nat
    BY ProductNat
<1>2. SecondsPerHour * FundingScale \in Nat \ {0}
    BY ScaleAssumption
<1>3. QED
    BY <1>1, <1>2, QuotientNat DEF Funding

LEMMA SatSubNat ==
    ASSUME NEW a \in Nat, NEW b \in Nat
    PROVE  SatSub(a, b) \in Nat /\ SatSub(a, b) <= a
BY DEF SatSub

LEMMA SatSubInt ==
    ASSUME NEW a \in Int, NEW b \in Int
    PROVE  SatSub(a, b) \in Nat
BY DEF SatSub

-----------------------------------------------------------------------------
(* Sums                                                                    *)

(* Induction in the form of a set that holds zero and is closed under      *)
(* successor.                                                              *)
LEMMA SetInduction ==
    ASSUME NEW S, 0 \in S, \A n \in Nat : n \in S => n + 1 \in S
    PROVE  Nat \subseteq S
<1>. DEFINE Less == {p \in Nat \X Nat : p[1] < p[2]}
<1>0. IsWellFoundedOn(Less, Nat)
    BY NatLessThanWellFounded, Zenon DEF OpToRel
<1>. HIDE DEF Less
<1>1. SUFFICES ASSUME Nat \ S # {} PROVE FALSE
    OBVIOUS
<1>2. PICK x \in Nat \ S : \A y \in Nat \ S : <<y, x>> \notin Less
    BY <1>0, <1>1, WFMin, Zenon
<1>3. \A y \in Nat \ S : ~(y < x)
    BY <1>2 DEF Less
<1>4. x # 0 /\ x - 1 \in Nat /\ x - 1 < x
    OBVIOUS
<1>5. x - 1 \in S
    BY <1>3, <1>4
<1>6. (x - 1) + 1 \in S
    BY <1>4, <1>5
<1>7. QED
    BY <1>6

(* The recursive function in the definition of Sum exists.                 *)
LEMMA SumFunctionExists ==
    ASSUME NEW f, NEW n \in Nat
    PROVE  \E s : s = [i \in 0..n |-> IF i = 0 THEN 0 ELSE s[i-1] + f[i]]
<1>. DEFINE Body(s, i) == IF i = 0 THEN 0 ELSE s[i-1] + f[i]
            Has == {k \in Nat : \E s : s = [i \in 0..k |-> Body(s, i)]}
<1>1. 0 \in Has
    <2>1. [i \in 0..0 |-> 0] = [i \in 0..0 |-> Body([j \in 0..0 |-> 0], i)]
        OBVIOUS
    <2>2. QED
        BY <2>1
<1>2. ASSUME NEW k \in Nat, k \in Has PROVE k + 1 \in Has
    <2>1. PICK s : s = [i \in 0..k |-> Body(s, i)]
        BY <1>2
    <2>. DEFINE t == [i \in 0..(k+1) |-> IF i = k + 1 THEN s[k] + f[k+1] ELSE s[i]]
    <2>2. ASSUME NEW i \in 0..(k+1) PROVE t[i] = Body(t, i)
        <3>1. CASE i = k + 1
            BY <3>1
        <3>2. CASE i \in 0..k /\ i # 0
            <4>1. s[i] = s[i-1] + f[i]
                BY <2>1, <3>2
            <4>2. t[i] = s[i] /\ t[i-1] = s[i-1]
                BY <3>2
            <4>3. QED
                BY <4>1, <4>2, <3>2
        <3>3. CASE i = 0
            BY <3>3, <2>1
        <3>4. QED
            BY <3>1, <3>2, <3>3
    <2>3. t = [i \in 0..(k+1) |-> Body(t, i)]
        BY <2>2
    <2>4. \E z : z = [i \in 0..(k+1) |-> Body(z, i)]
        <3>. WITNESS t
        <3>. QED
            BY <2>3
    <2>5. QED
        BY <2>4
<1>3. Nat \subseteq Has
    <2>. HIDE DEF Has
    <2>1. QED
        BY <1>1, <1>2, SetInduction
<1>4. QED
    BY <1>3

(* Sum adds the values one after the other.                                *)
LEMMA SumStep ==
    ASSUME NEW f, NEW n \in Nat
    PROVE  Sum(f, 0) = 0 /\ Sum(f, n + 1) = Sum(f, n) + f[n + 1]
<1>. DEFINE Body(s, i) == IF i = 0 THEN 0 ELSE s[i-1] + f[i]
            S(k) == CHOOSE s : s = [i \in 0..k |-> Body(s, i)]
<1>1. ASSUME NEW k \in Nat PROVE S(k) = [i \in 0..k |-> Body(S(k), i)]
    <2>1. \E s : s = [i \in 0..k |-> Body(s, i)]
        BY SumFunctionExists
    <2>2. QED
        BY <2>1, Zenon
<1>2. ASSUME NEW k \in Nat PROVE Sum(f, k) = S(k)[k]
    BY Zenon DEF Sum
<1>. HIDE DEF S
<1>3. S(0)[0] = 0
    BY <1>1
<1>4. S(n+1)[n+1] = S(n+1)[n] + f[n+1]
    <2>1. S(n+1) = [i \in 0..(n+1) |-> Body(S(n+1), i)]
        BY <1>1
    <2>2. QED
        BY <2>1
<1>5. S(n+1)[n] = S(n)[n]
    <2>. DEFINE Agree == {i \in Nat : i <= n => S(n+1)[i] = S(n)[i]}
    <2>0. /\ S(n+1) = [i \in 0..(n+1) |-> Body(S(n+1), i)]
          /\ S(n) = [i \in 0..n |-> Body(S(n), i)]
        BY <1>1
    <2>1. 0 \in Agree
        BY <2>0
    <2>2. ASSUME NEW i \in Nat, i \in Agree PROVE i + 1 \in Agree
        <3>1. CASE i + 1 <= n
            <4>1. /\ S(n+1)[i+1] = S(n+1)[i] + f[i+1]
                  /\ S(n)[i+1] = S(n)[i] + f[i+1]
                BY <2>0, <3>1
            <4>2. QED
                BY <4>1, <2>2, <3>1
        <3>2. QED
            BY <3>1
    <2>3. Nat \subseteq Agree
        <3>. HIDE DEF Agree
        <3>1. QED
            BY <2>1, <2>2, SetInduction
    <2>4. QED
        BY <2>3
<1>6. QED
    BY <1>2, <1>3, <1>4, <1>5

(* A sum of naturals is a natural, no smaller than any of its terms.       *)
LEMMA SumNat ==
    ASSUME NEW f, NEW n \in Nat, \A i \in 1..n : f[i] \in Nat
    PROVE  /\ Sum(f, n) \in Nat
           /\ \A i \in 1..n : f[i] <= Sum(f, n)
<1>. DEFINE Good == {k \in Nat : k <= n =>
                        /\ Sum(f, k) \in Nat
                        /\ \A i \in 1..k : f[i] <= Sum(f, k)}
<1>1. 0 \in Good
    BY SumStep
<1>2. ASSUME NEW k \in Nat, k \in Good PROVE k + 1 \in Good
    <2>1. Sum(f, k + 1) = Sum(f, k) + f[k + 1]
        BY SumStep
    <2>2. QED
        BY <2>1, <1>2
<1>3. Nat \subseteq Good
    <2>. HIDE DEF Good
    <2>1. QED
        BY <1>1, <1>2, SetInduction
<1>4. QED
    BY <1>3

(* Two functions that agree have the same sum.                             *)
LEMMA SumEqual ==
    ASSUME NEW f, NEW g, NEW n \in Nat, \A i \in 1..n : f[i] = g[i]
    PROVE  Sum(f, n) = Sum(g, n)
<1>. DEFINE Good == {k \in Nat : k <= n => Sum(f, k) = Sum(g, k)}
<1>1. 0 \in Good
    BY SumStep
<1>2. ASSUME NEW k \in Nat, k \in Good PROVE k + 1 \in Good
    <2>1. /\ Sum(f, k + 1) = Sum(f, k) + f[k + 1]
          /\ Sum(g, k + 1) = Sum(g, k) + g[k + 1]
        BY SumStep
    <2>2. QED
        BY <2>1, <1>2
<1>3. Nat \subseteq Good
    <2>. HIDE DEF Good
    <2>1. QED
        BY <1>1, <1>2, SetInduction
<1>4. QED
    BY <1>3

(* Changing one term changes the sum by as much.                           *)
LEMMA SumUpdate ==
    ASSUME NEW n \in Nat, NEW f, NEW g, NEW j \in 1..n,
           \A i \in 1..n : f[i] \in Nat /\ g[i] \in Nat,
           \A i \in 1..n : i # j => g[i] = f[i]
    PROVE  Sum(g, n) = Sum(f, n) - f[j] + g[j]
<1>. DEFINE Good == {k \in Nat : k <= n =>
                        /\ Sum(f, k) \in Nat /\ Sum(g, k) \in Nat
                        /\ k < j => Sum(g, k) = Sum(f, k)
                        /\ k >= j => Sum(g, k) = Sum(f, k) - f[j] + g[j]}
<1>1. 0 \in Good
    BY SumStep
<1>2. ASSUME NEW k \in Nat, k \in Good PROVE k + 1 \in Good
    <2>1. /\ Sum(f, k + 1) = Sum(f, k) + f[k + 1]
          /\ Sum(g, k + 1) = Sum(g, k) + g[k + 1]
        BY SumStep
    <2>2. CASE k + 1 <= n
        <3>1. /\ f[k + 1] \in Nat /\ g[k + 1] \in Nat
              /\ f[j] \in Nat /\ g[j] \in Nat
            BY <2>2
        <3>2. k + 1 # j => g[k + 1] = f[k + 1]
            BY <2>2
        <3>3. QED
            BY <2>1, <1>2, <2>2, <3>1, <3>2
    <2>3. QED
        BY <2>2
<1>3. Nat \subseteq Good
    <2>. HIDE DEF Good
    <2>1. QED
        BY <1>1, <1>2, SetInduction
<1>4. QED
    BY <1>3

(* A sum of differences is the difference of the sums.                     *)
LEMMA SumDifference ==
    ASSUME NEW n \in Nat, NEW f, NEW g, NEW h,
           \A i \in 1..n : f[i] \in Nat /\ g[i] \in Nat /\ h[i] \in Nat,
           \A i \in 1..n : h[i] = f[i] - g[i]
    PROVE  Sum(h, n) = Sum(f, n) - Sum(g, n)
<1>. DEFINE Good == {k \in Nat : k <= n =>
                        /\ Sum(f, k) \in Nat /\ Sum(g, k) \in Nat
                        /\ Sum(h, k) = Sum(f, k) - Sum(g, k)}
<1>1. 0 \in Good
    BY SumStep
<1>2. ASSUME NEW k \in Nat, k \in Good PROVE k + 1 \in Good
    <2>1. /\ Sum(f, k + 1) = Sum(f, k) + f[k + 1]
          /\ Sum(g, k + 1) = Sum(g, k) + g[k + 1]
          /\ Sum(h, k + 1) = Sum(h, k) + h[k + 1]
        BY SumStep
    <2>2. QED
        BY <2>1, <1>2
<1>3. Nat \subseteq Good
    <2>. HIDE DEF Good
    <2>1. QED
        BY <1>1, <1>2, SetInduction
<1>4. QED
    BY <1>3

(* Terms that split others leave sums that split theirs.                   *)
LEMMA SumSplit ==
    ASSUME NEW n \in Nat, NEW f, NEW g, NEW h,
           \A i \in 1..n : f[i] \in Nat /\ g[i] \in Nat /\ h[i] \in Nat,
           \A i \in 1..n : g[i] + h[i] <= f[i]
    PROVE  Sum(g, n) + Sum(h, n) <= Sum(f, n)
<1>. DEFINE Good == {k \in Nat : k <= n =>
                        /\ Sum(f, k) \in Nat /\ Sum(g, k) \in Nat
                        /\ Sum(h, k) \in Nat
                        /\ Sum(g, k) + Sum(h, k) <= Sum(f, k)}
<1>1. 0 \in Good
    BY SumStep
<1>2. ASSUME NEW k \in Nat, k \in Good PROVE k + 1 \in Good
    <2>1. /\ Sum(f, k + 1) = Sum(f, k) + f[k + 1]
          /\ Sum(g, k + 1) = Sum(g, k) + g[k + 1]
          /\ Sum(h, k + 1) = Sum(h, k) + h[k + 1]
        BY SumStep
    <2>2. QED
        BY <2>1, <1>2
<1>3. Nat \subseteq Good
    <2>. HIDE DEF Good
    <2>1. QED
        BY <1>1, <1>2, SetInduction
<1>4. QED
    BY <1>3

LEMMA SumOfZeros ==
    ASSUME NEW f, NEW n \in Nat, \A i \in 1..n : f[i] = 0
    PROVE  Sum(f, n) = 0
<1>. DEFINE Good == {k \in Nat : k <= n => Sum(f, k) = 0}
<1>1. 0 \in Good
    BY SumStep
<1>2. ASSUME NEW k \in Nat, k \in Good PROVE k + 1 \in Good
    <2>1. Sum(f, k + 1) = Sum(f, k) + f[k + 1]
        BY SumStep
    <2>2. QED
        BY <2>1, <1>2
<1>3. Nat \subseteq Good
    <2>. HIDE DEF Good
    <2>1. QED
        BY <1>1, <1>2, SetInduction
<1>4. QED
    BY <1>3

-----------------------------------------------------------------------------
(* Types                                                                   *)

(* The type of one slot, spelled out for the provers.                      *)
LEMMA SlotType ==
    ASSUME TypeOK, NEW u \in Users, NEW s \in Slots
    PROVE  positions[u][s] \in Slot
BY DEF TypeOK

LEMMA PositionFields ==
    ASSUME NEW p \in Position
    PROVE  /\ p.direction \in Direction /\ p.market \in Markets
           /\ p.collateral \in Nat /\ p.notional \in Nat
           /\ p.entry_price \in Nat /\ p.last_funding_timestamp \in Nat
           /\ p.sl_price \in Nat /\ p.tp_price \in Nat
BY DEF Position

LEMMA OpenSlotType ==
    ASSUME TypeOK, NEW u \in Users, NEW s \in Slots, IsOpen(u, s)
    PROVE  positions[u][s] \in Position
BY SlotType DEF IsOpen, Slot, EmptySlot

LEMMA InitType == Init => TypeOK
<1>. SUFFICES ASSUME Init PROVE TypeOK
    OBVIOUS
<1>1. oracle \in [Oracles -> [price: Nat, last_updated: Nat]]
    BY StateAssumption DEF Init
<1>2. positions \in [Users -> [Slots -> Slot]]
    BY DEF Init, Slot
<1>3. lp \in [Users -> LpPosition] /\ referral \in [Users -> ReferralAccount]
    BY DEF Init, LpPosition, ReferralAccount
<1>4. /\ oi \in [Markets -> [Direction -> Nat]]
      /\ exposure \in [Direction -> Nat]
      /\ has_margin \in [Users -> BOOLEAN] /\ margin \in [Users -> Nat]
    BY DEF Init
<1>5. params \in AdmissibleParams /\ wallet \in [Users -> Nat]
    BY StateAssumption DEF Init
<1>6. is_paused \in BOOLEAN /\ manual_pause \in BOOLEAN
    BY Zenon DEF Init
<1>7. /\ now \in Nat \ {0}
      /\ fee_vault \in Nat /\ lp_vault \in Nat /\ insurance_fund \in Nat
      /\ total_user_collateral \in Nat /\ total_usdc \in Nat
      /\ total_shares \in Nat /\ accumulated_fees \in Nat
      /\ total_fees_claimed \in Nat /\ acc_fee_per_share \in Nat
      /\ tracked \subseteq Users \X Users
      /\ total_referral_pending \in Nat /\ deficit \in Nat
    BY DEF Init
<1>8. QED
    BY <1>1, <1>2, <1>3, <1>4, <1>5, <1>6, <1>7 DEF TypeOK

-----------------------------------------------------------------------------
(* Margin accounts                                                         *)

LEMMA DepositCollateralType ==
    ASSUME TypeOK, NEW u \in Users, NEW amount \in Nat, DepositCollateral(u, amount)
    PROVE  TypeOK'
BY DEF TypeOK, DepositCollateral, control, interest, shares, liquidity, lpFees,
       referrals

LEMMA WithdrawCollateralType ==
    ASSUME TypeOK, NEW u \in Users, NEW amount \in Nat, WithdrawCollateral(u, amount)
    PROVE  TypeOK'
<1>1. LpReserved \in Nat
    BY SatSubNat DEF TypeOK, LpReserved
<1>2. fee_vault - amount \in Nat
    BY <1>1 DEF TypeOK, WithdrawCollateral, SatSub
<1>3. SatSub(total_user_collateral, amount) \in Nat
    BY SatSubNat DEF TypeOK
<1>4. QED
    BY <1>2, <1>3 DEF TypeOK, WithdrawCollateral, control, interest, shares,
                      liquidity, lpFees, referrals

(* Writing well-typed positions leaves positions well typed.               *)
LEMMA PositionsUpdate ==
    ASSUME TypeOK, NEW u \in Users, NEW s \in Slots, NEW p \in Slot
    PROVE  [positions EXCEPT ![u][s] = p] \in [Users -> [Slots -> Slot]]
BY DEF TypeOK

LEMMA WithCollateralType ==
    ASSUME NEW p \in Position, NEW a \in Nat
    PROVE  WithCollateral(p, a) \in Position
BY DEF Position, WithCollateral

LEMMA ChargedTime ==
    ASSUME NEW p \in Position, NEW t \in Nat
    PROVE  [p EXCEPT !.last_funding_timestamp = t] \in Position
BY DEF Position

LEMMA WithTriggersType ==
    ASSUME NEW p \in Position, NEW a \in Nat, NEW b \in Nat
    PROVE  WithTriggers(p, a, b) \in Position
BY DEF Position, WithTriggers

LEMMA AddMarginType ==
    ASSUME TypeOK, NEW u \in Users, NEW s \in Slots, NEW amount \in Nat,
           AddMargin(u, s, amount)
    PROVE  TypeOK'
<1>1. margin' \in [Users -> Nat]
    BY DEF TypeOK, AddMargin
<1>2. positions' \in [Users -> [Slots -> Slot]]
    <2>1. /\ positions[u][s] \in Position
          /\ positions[u][s].collateral + amount \in Nat
        BY OpenSlotType, PositionFields DEF AddMargin
    <2>2. WithCollateral(positions[u][s], positions[u][s].collateral + amount)
              \in Position
        BY <2>1, WithCollateralType
    <2>3. QED
        BY <2>2, PositionsUpdate DEF Slot, AddMargin
<1>3. QED
    BY <1>1, <1>2 DEF TypeOK, AddMargin, control, vaults, interest, shares,
                      liquidity, lpFees, referrals

LEMMA RemoveMarginType ==
    ASSUME TypeOK, NEW u \in Users, NEW s \in Slots, NEW amount \in Nat,
           RemoveMargin(u, s, amount)
    PROVE  TypeOK'
<1>1. margin' \in [Users -> Nat]
    BY DEF TypeOK, RemoveMargin
<1>2. positions[u][s].collateral - amount \in Nat
    BY OpenSlotType, PositionFields DEF RemoveMargin
<1>3. positions' \in [Users -> [Slots -> Slot]]
    <2>1. WithCollateral(positions[u][s], positions[u][s].collateral - amount)
              \in Position
        BY <1>2, OpenSlotType, PositionFields, WithCollateralType
           DEF RemoveMargin
    <2>2. QED
        BY <2>1, PositionsUpdate DEF Slot, RemoveMargin
<1>4. QED
    BY <1>1, <1>3 DEF TypeOK, RemoveMargin, control, vaults, interest, shares,
                      liquidity, lpFees, referrals

LEMMA SetSlTpType ==
    ASSUME TypeOK, NEW u \in Users, NEW s \in Slots, NEW o \in Oracles,
           NEW sl \in Nat, NEW tp \in Nat, SetSlTp(u, s, o, sl, tp)
    PROVE  TypeOK'
<1>1. positions' \in [Users -> [Slots -> Slot]]
    <2>1. WithTriggers(positions[u][s], sl, tp) \in Position
        BY OpenSlotType, WithTriggersType DEF SetSlTp
    <2>2. QED
        BY <2>1, PositionsUpdate DEF Slot, SetSlTp
<1>2. QED
    BY <1>1 DEF TypeOK, SetSlTp, control, vaults, interest, shares,
                liquidity, lpFees, referrals

LEMMA CloseMarginAccountType ==
    ASSUME TypeOK, NEW u \in Users, CloseMarginAccount(u)
    PROVE  TypeOK'
<1>1. positions' \in [Users -> [Slots -> Slot]]
    BY DEF TypeOK, CloseMarginAccount, Slot
<1>2. QED
    BY <1>1 DEF TypeOK, CloseMarginAccount, control, vaults, interest, shares,
                liquidity, lpFees, referrals

-----------------------------------------------------------------------------
(* Fees, and the settlement of a position                                  *)

LEMMA PerShareNat ==
    ASSUME TypeOK, NEW fee \in Nat
    PROVE  PerShare(fee) \in Nat
<1>1. fee * Precision \in Nat
    BY StateAssumption, ProductNat
<1>2. total_shares \in Nat
    BY DEF TypeOK
<1>3. QED
    BY <1>1, <1>2, QuotientNat DEF PerShare

LEMMA AccrueLpFeeType ==
    ASSUME TypeOK, NEW fee \in Nat, AccrueLpFee(fee)
    PROVE  /\ accumulated_fees' \in Nat
           /\ acc_fee_per_share' \in Nat
           /\ total_fees_claimed' \in Nat
BY PerShareNat DEF AccrueLpFee, TypeOK

LEMMA ParamsType ==
    ASSUME TypeOK
    PROVE  /\ params.fee_bps \in Nat /\ params.fee_bps <= 500
           /\ params.base_funding_rate_per_hour \in Nat
           /\ params.skew_factor \in Nat
           /\ params.profit_cap_bps \in Nat
           /\ params.insurance_fund_bps \in Nat
           /\ params.insurance_fund_bps <= 5000
           /\ params.lp_fee_bps \in Nat /\ params.lp_fee_bps <= 8000
           /\ params.min_position_size \in Nat
<1>1. params \in AdmissibleParams
    BY DEF TypeOK
<1>2. QED
    BY <1>1 DEF AdmissibleParams, Parameters

LEMMA DropInterestType ==
    ASSUME TypeOK, NEW p \in Position, DropInterest(p)
    PROVE  /\ oi' \in [Markets -> [Direction -> Nat]]
           /\ exposure' \in [Direction -> Nat]
<1>1. p.notional \in Nat /\ p.market \in Markets /\ p.direction \in Direction
    BY PositionFields
<1>2. oi[p.market][p.direction] \in Nat /\ exposure[p.direction] \in Nat
    BY <1>1 DEF TypeOK
<1>3. SatSub(oi[p.market][p.direction], p.notional) \in Nat
    BY <1>1, <1>2, SatSubNat
<1>4. SatSub(exposure[p.direction], p.notional) \in Nat
    BY <1>1, <1>2, SatSubNat
<1>5. QED
    BY <1>1, <1>3, <1>4 DEF TypeOK, DropInterest

(* A share at one of the rates among the parameters.                       *)
LEMMA ShareType ==
    ASSUME TypeOK, NEW x \in Nat
    PROVE  /\ Bps(x, params.fee_bps) \in Nat /\ Bps(x, params.fee_bps) <= x
           /\ Bps(x, params.lp_fee_bps) \in Nat
           /\ Bps(x, params.insurance_fund_bps) \in Nat
           /\ Bps(x, params.profit_cap_bps) \in Nat
<1>1. params.fee_bps \in Nat
    BY ParamsType
<1>2. params.fee_bps <= 10000
    BY ParamsType
<1>3. /\ params.lp_fee_bps \in Nat /\ params.insurance_fund_bps \in Nat
      /\ params.profit_cap_bps \in Nat
    BY ParamsType
<1>4. Bps(x, params.fee_bps) \in Nat
    BY <1>1, BpsNat
<1>5. Bps(x, params.fee_bps) <= x
    BY <1>1, <1>2, BpsBound
<1>6. Bps(x, params.lp_fee_bps) \in Nat
    BY <1>3, BpsNat
<1>7. Bps(x, params.insurance_fund_bps) \in Nat
    BY <1>3, BpsNat
<1>8. Bps(x, params.profit_cap_bps) \in Nat
    BY <1>3, BpsNat
<1>9. QED
    BY <1>4, <1>5, <1>6, <1>7, <1>8

LEMMA FundingOwedNat ==
    ASSUME TypeOK, NEW p \in Position
    PROVE  FundingOwed(p) \in Nat
<1>1. HourlyRate(oi[p.market], params.base_funding_rate_per_hour,
                 params.skew_factor) \in Nat
    <2>1. oi[p.market] \in [Direction -> Nat]
        BY PositionFields DEF TypeOK
    <2>2. params.base_funding_rate_per_hour \in Nat /\ params.skew_factor \in Nat
        BY ParamsType
    <2>3. QED
        BY <2>1, <2>2, HourlyRateNat
<1>2. SatSub(now, p.last_funding_timestamp) \in Nat
    <2>1. now \in Nat /\ p.last_funding_timestamp \in Nat
        BY PositionFields DEF TypeOK
    <2>2. QED
        BY <2>1, SatSubNat
<1>3. p.notional \in Nat
    BY PositionFields
<1>4. QED
    BY <1>1, <1>2, <1>3, FundingNat DEF FundingOwed

LEMMA CappedPnlInt ==
    ASSUME TypeOK, NEW p \in Position
    PROVE  CappedPnl(p) \in Int
<1>1. /\ p.collateral \in Nat /\ p.notional \in Nat /\ p.entry_price \in Nat
      /\ p.market \in Oracles
    BY PositionFields DEF Oracles
<1>2. oracle[p.market].price \in Nat
    BY <1>1 DEF TypeOK
<1>3. Pnl(p.direction, oracle[p.market].price, p.entry_price, p.notional) \in Int
    BY <1>1, <1>2, PnlInt
<1>4. Bps(p.collateral, params.profit_cap_bps) \in Nat
    BY <1>1, ShareType
<1>5. QED
    BY <1>3, <1>4 DEF CappedPnl, Lesser

(* What the amounts of a settlement are.                                   *)
LEMMA SettlementTypes ==
    ASSUME TypeOK, NEW p \in Position, NEW reward \in Nat
    PROVE  /\ CloseFee(p) \in Nat
           /\ LpPortion(p) \in Nat /\ InsurancePortion(p) \in Nat
           /\ Profit(p) \in Nat /\ Loss(p) \in Nat
           /\ ProfitPaid(p) \in Nat /\ ProfitPaid(p) <= lp_vault
           /\ Shortfall(p) \in Nat
           /\ Due(p, reward) \in Int
           /\ Settlement(p, reward) \in Nat
<1>0. p.collateral \in Nat /\ lp_vault \in Nat
    BY PositionFields DEF TypeOK
<1>1. FundingOwed(p) \in Nat /\ CappedPnl(p) \in Int
    BY FundingOwedNat, CappedPnlInt
<1>2. CloseFee(p) \in Nat
    BY <1>0, ShareType DEF CloseFee
<1>3. LpPortion(p) \in Nat
    <2>1. Bps(CloseFee(p), params.lp_fee_bps) \in Nat
        BY <1>2, ShareType
    <2>2. FUNDING_LP_BPS \in Nat
        BY DEF FUNDING_LP_BPS
    <2>3. Bps(FundingOwed(p), FUNDING_LP_BPS) \in Nat
        BY <1>1, <2>2, BpsNat
    <2>4. QED
        BY <2>1, <2>3 DEF LpPortion
<1>4. InsurancePortion(p) \in Nat
    <2>1. Bps(CloseFee(p), params.insurance_fund_bps) \in Nat
        BY <1>2, ShareType
    <2>2. FUNDING_INSURANCE_BPS \in Nat
        BY DEF FUNDING_INSURANCE_BPS
    <2>3. Bps(FundingOwed(p), FUNDING_INSURANCE_BPS) \in Nat
        BY <1>1, <2>2, BpsNat
    <2>4. QED
        BY <2>1, <2>3 DEF InsurancePortion
<1>5. Profit(p) \in Nat /\ Loss(p) \in Nat
    BY <1>1 DEF Profit, Loss
<1>6. /\ ProfitPaid(p) \in Nat /\ ProfitPaid(p) <= lp_vault
      /\ Shortfall(p) \in Nat
    BY <1>0, <1>5 DEF ProfitPaid, Shortfall, Lesser
<1>7. Due(p, reward) \in Int
    BY <1>0, <1>1, <1>2 DEF Due
<1>8. Settlement(p, reward) \in Nat
    BY <1>6, <1>7 DEF Settlement, SatSub
<1>9. QED
    BY <1>2, <1>3, <1>4, <1>5, <1>6, <1>7, <1>8

(* What every way of settling a position changes keeps its type.           *)
LEMMA TotalAfterNat ==
    ASSUME TypeOK, NEW p, p.collateral \in Nat, NEW credited \in Nat
    PROVE  TotalAfter(p, credited) \in Nat
<1>1. CASE credited >= p.collateral
    BY <1>1 DEF TypeOK, TotalAfter
<1>2. CASE ~(credited >= p.collateral)
    <2>1. p.collateral - credited \in Nat
        BY <1>2
    <2>2. SatSub(total_user_collateral, p.collateral - credited) \in Nat
        BY <2>1, SatSubNat DEF TypeOK
    <2>3. QED
        BY <1>2, <2>2 DEF TotalAfter
<1>3. QED
    BY <1>1, <1>2

LEMMA MissedNat ==
    ASSUME TypeOK, NEW p \in Position, NEW reward \in Nat
    PROVE  /\ SatSub(Shortfall(p), Due(p, reward)) \in Nat
           /\ SatSub(InsurancePortion(p) + LpPortion(p), CloseFee(p) + FundingOwed(p)) \in Nat
           /\ Missed(p, reward) \in Nat
<1>1. /\ Shortfall(p) \in Int /\ Due(p, reward) \in Int
      /\ LpPortion(p) \in Nat /\ InsurancePortion(p) \in Nat
    BY SettlementTypes
<1>2. CloseFee(p) \in Nat /\ FundingOwed(p) \in Nat
    BY 0 \in Nat, SettlementTypes, FundingOwedNat
<1>3. /\ SatSub(Shortfall(p), Due(p, reward)) \in Nat
      /\ SatSub(InsurancePortion(p) + LpPortion(p), CloseFee(p) + FundingOwed(p)) \in Nat
    <2>1. InsurancePortion(p) + LpPortion(p) \in Int /\ CloseFee(p) + FundingOwed(p) \in Int
        BY <1>1, <1>2
    <2>2. QED
        BY <1>1, <2>1, SatSubInt
<1>4. QED
    BY <1>3 DEF Missed

LEMMA SettlePositionType ==
    ASSUME TypeOK, NEW u \in Users, NEW s \in Slots, IsOpen(u, s),
           NEW reward \in Nat, SettlePosition(u, s, reward)
    PROVE  TypeOK'
<1>. DEFINE p == positions[u][s]
<1>1. p \in Position
    BY OpenSlotType
<1>2. p.collateral \in Nat
    BY <1>1, PositionFields
<1>. HIDE DEF p
<1>3. /\ LpPortion(p) \in Nat /\ InsurancePortion(p) \in Nat
      /\ Loss(p) \in Nat /\ ProfitPaid(p) \in Nat
      /\ Settlement(p, reward) \in Nat
    BY <1>1, SettlementTypes
<1>4. ProfitPaid(p) <= lp_vault
    BY <1>1, SettlementTypes
<1>5. Missed(p, reward) \in Nat
    BY <1>1, MissedNat
<1>6. /\ fee_vault >= InsurancePortion(p) + reward + Loss(p)
      /\ fee_vault' = fee_vault - InsurancePortion(p) - reward - Loss(p)
                          + ProfitPaid(p)
      /\ insurance_fund' = insurance_fund + InsurancePortion(p)
      /\ lp_vault' = lp_vault - ProfitPaid(p) + Loss(p)
      /\ total_usdc' = SatSub(total_usdc, ProfitPaid(p)) + Loss(p)
      /\ AccrueLpFee(LpPortion(p))
      /\ margin' = [margin EXCEPT ![u] = @ + Settlement(p, reward)]
      /\ total_user_collateral' = TotalAfter(p, Settlement(p, reward))
      /\ DropInterest(p)
      /\ positions' = [positions EXCEPT ![u][s] = EmptySlot]
      /\ deficit' = deficit + Missed(p, reward)
      /\ UNCHANGED <<control, wallet, has_margin, shares, referrals>>
    BY DEF SettlePosition, p
<1>7. fee_vault' \in Nat /\ insurance_fund' \in Nat
    BY <1>3, <1>6 DEF TypeOK
<1>8. lp_vault' \in Nat
    BY <1>3, <1>4, <1>6 DEF TypeOK
<1>9. total_usdc' \in Nat
    <2>1. SatSub(total_usdc, ProfitPaid(p)) \in Nat
        BY <1>3, SatSubNat DEF TypeOK
    <2>2. QED
        BY <2>1, <1>3, <1>6
<1>10. /\ accumulated_fees' \in Nat /\ acc_fee_per_share' \in Nat
       /\ total_fees_claimed' \in Nat
    BY <1>3, <1>6, AccrueLpFeeType
<1>11. margin' \in [Users -> Nat]
    BY <1>3, <1>6 DEF TypeOK
<1>12. total_user_collateral' \in Nat
    BY <1>2, <1>3, <1>6, TotalAfterNat
<1>13. /\ oi' \in [Markets -> [Direction -> Nat]]
       /\ exposure' \in [Direction -> Nat]
    BY <1>1, <1>6, DropInterestType
<1>14. positions' \in [Users -> [Slots -> Slot]]
    BY <1>6, PositionsUpdate DEF Slot
<1>15. deficit' \in Nat
    BY <1>5, <1>6 DEF TypeOK
<1>16. UNCHANGED <<control, wallet, has_margin, shares, referrals>>
    BY <1>6
<1>17. QED
    BY <1>7, <1>8, <1>9, <1>10, <1>11, <1>12, <1>13, <1>14, <1>15, <1>16
       DEF TypeOK, control, shares, referrals

LEMMA ClosePositionType ==
    ASSUME TypeOK, NEW u \in Users, NEW s \in Slots, ClosePosition(u, s)
    PROVE  TypeOK'
BY SettlePositionType DEF ClosePosition

LEMMA AdminClosePositionType ==
    ASSUME TypeOK, NEW u \in Users, NEW s \in Slots, AdminClosePosition(u, s)
    PROVE  TypeOK'
BY SettlePositionType DEF AdminClosePosition

LEMMA ExecuteSlTpType ==
    ASSUME TypeOK, NEW u \in Users, NEW s \in Slots, ExecuteSlTp(u, s)
    PROVE  TypeOK'
<1>1. positions[u][s].collateral \in Nat
    BY OpenSlotType, PositionFields DEF ExecuteSlTp
<1>2. KEEPER_REWARD_BPS \in Nat
    BY DEF KEEPER_REWARD_BPS
<1>3. Bps(positions[u][s].collateral, KEEPER_REWARD_BPS) \in Nat
    BY <1>1, <1>2, BpsNat
<1>4. QED
    BY <1>3, SettlePositionType DEF ExecuteSlTp

LEMMA LiquidateType ==
    ASSUME TypeOK, NEW u \in Users, NEW s \in Slots, Liquidate(u, s)
    PROVE  TypeOK'
<1>. DEFINE p         == positions[u][s]
            reward    == Bps(p.collateral, LIQUIDATOR_REWARD_BPS)
            insurance == Bps(p.collateral, LIQUIDATION_INSURANCE_BPS)
            lpPart    == Bps(p.collateral, LIQUIDATION_LP_BPS)
<1>1. p \in Position
    BY OpenSlotType DEF Liquidate
<1>2. p.collateral \in Nat
    BY <1>1, PositionFields
<1>3. /\ LIQUIDATOR_REWARD_BPS \in Nat /\ LIQUIDATION_INSURANCE_BPS \in Nat
      /\ LIQUIDATION_LP_BPS \in Nat
    BY DEF LIQUIDATOR_REWARD_BPS, LIQUIDATION_INSURANCE_BPS, LIQUIDATION_LP_BPS
<1>4. reward \in Nat /\ insurance \in Nat /\ lpPart \in Nat
    BY <1>2, <1>3, BpsNat
<1>5. /\ fee_vault >= reward + insurance
      /\ fee_vault' = fee_vault - reward - insurance
      /\ insurance_fund' = insurance_fund + insurance
      /\ AccrueLpFee(lpPart)
      /\ total_user_collateral' = SatSub(total_user_collateral, p.collateral)
      /\ DropInterest(p)
      /\ positions' = [positions EXCEPT ![u][s] = EmptySlot]
      /\ UNCHANGED <<control, wallet, has_margin, margin, shares, liquidity,
                     referrals, deficit>>
    BY DEF Liquidate
<1>. HIDE DEF p, reward, insurance, lpPart
<1>6. fee_vault' \in Nat /\ insurance_fund' \in Nat
    BY <1>4, <1>5 DEF TypeOK
<1>7. /\ accumulated_fees' \in Nat /\ acc_fee_per_share' \in Nat
      /\ total_fees_claimed' \in Nat
    BY <1>4, <1>5, AccrueLpFeeType
<1>8. total_user_collateral' \in Nat
    BY <1>2, <1>5, SatSubNat DEF TypeOK
<1>9. /\ oi' \in [Markets -> [Direction -> Nat]]
      /\ exposure' \in [Direction -> Nat]
    BY <1>1, <1>5, DropInterestType
<1>10. positions' \in [Users -> [Slots -> Slot]]
    BY <1>5, PositionsUpdate DEF Slot
<1>11. QED
    BY <1>5, <1>6, <1>7, <1>8, <1>9, <1>10
       DEF TypeOK, control, shares, liquidity, referrals

-----------------------------------------------------------------------------
(* Opening a position                                                      *)

LEMMA EffectiveBpsNat ==
    ASSUME TypeOK, NEW r \in Users
    PROVE  EffectiveBps(r) \in Nat
BY DEF TypeOK, ReferralAccount, EffectiveBps, AUTO_UPGRADE_FEE_SHARE_BPS,
       REFERRAL_FEE_BPS

LEMMA ReferralPortionNat ==
    ASSUME TypeOK, NEW r \in Users \cup {0}, NEW u, NEW fee \in Nat
    PROVE  ReferralPortion(r, u, fee) \in Nat
<1>1. CASE Refers(r, u)
    <2>1. r \in Users
        BY <1>1 DEF Refers
    <2>2. Bps(fee, EffectiveBps(r)) \in Nat
        BY <2>1, EffectiveBpsNat, BpsNat
    <2>3. QED
        BY <1>1, <2>2 DEF ReferralPortion
<1>2. CASE ~Refers(r, u)
    BY <1>2 DEF ReferralPortion
<1>3. QED
    BY <1>1, <1>2

LEMMA CreditedType ==
    ASSUME NEW a \in ReferralAccount, NEW fee \in Nat, NEW portion \in Nat,
           NEW count \in Nat
    PROVE  Credited(a, fee, portion, count) \in ReferralAccount
<1>1. /\ a.pending_fees + portion \in Nat
      /\ a.total_fees_generated + fee \in Nat
      /\ a.unique_referrals + count \in Nat
    BY DEF ReferralAccount
<1>2. QED
    BY <1>1 DEF ReferralAccount, Credited

LEMMA CreditReferrerType ==
    ASSUME TypeOK, NEW r \in Users \cup {0}, NEW u \in Users, NEW fee \in Nat,
           NEW portion \in Nat, NEW withTracker,
           CreditReferrer(r, u, fee, portion, withTracker)
    PROVE  /\ referral' \in [Users -> ReferralAccount]
           /\ tracked' \subseteq Users \X Users
           /\ total_referral_pending' \in Nat
<1>1. CASE Refers(r, u)
    <2>0. r \in Users
        BY <1>1 DEF Refers
    <2>1. referral' \in [Users -> ReferralAccount]
        <3>. DEFINE count == IF withTracker /\ <<r, u>> \notin tracked THEN 1 ELSE 0
        <3>1. referral[r] \in ReferralAccount /\ count \in Nat
            BY <2>0 DEF TypeOK
        <3>2. Credited(referral[r], fee, portion, count) \in ReferralAccount
            BY <3>1, CreditedType
        <3>3. referral' = [referral EXCEPT ![r] =
                              Credited(referral[r], fee, portion, count)]
            BY <1>1 DEF CreditReferrer
        <3>. HIDE DEF count
        <3>4. QED
            BY <2>0, <3>2, <3>3 DEF TypeOK
    <2>2. tracked' \subseteq Users \X Users
        BY <1>1, <2>0 DEF TypeOK, CreditReferrer
    <2>3. total_referral_pending' \in Nat
        BY <1>1 DEF TypeOK, CreditReferrer
    <2>4. QED
        BY <2>1, <2>2, <2>3
<1>2. CASE ~Refers(r, u)
    BY <1>2 DEF TypeOK, CreditReferrer, referrals
<1>3. QED
    BY <1>1, <1>2

LEMMA OpenPositionType ==
    ASSUME TypeOK, NEW u \in Users, NEW s \in Slots, NEW m \in Markets,
           NEW dir \in Direction, NEW c \in Nat, NEW l \in Nat, NEW sl \in Nat,
           NEW tp \in Nat, NEW r \in Users \cup {0}, NEW withTracker,
           OpenPosition(u, s, m, dir, c, l, sl, tp, r, withTracker)
    PROVE  TypeOK'
<1>. DEFINE fee       == Bps(c, params.fee_bps)
            net       == c - fee
            notional  == net * l
            portion   == ReferralPortion(r, u, fee)
            insurance == SatSub(Bps(fee, params.insurance_fund_bps), portion)
            new       == [direction |-> dir, market |-> m, collateral |-> net,
                          notional |-> notional, entry_price |-> oracle[m].price,
                          last_funding_timestamp |-> now,
                          sl_price |-> sl, tp_price |-> tp]
<1>1. /\ margin[u] >= c
      /\ fee_vault >= insurance
      /\ fee_vault' = fee_vault - insurance
      /\ insurance_fund' = insurance_fund + insurance
      /\ AccrueLpFee(Bps(fee, params.lp_fee_bps))
      /\ margin' = [margin EXCEPT ![u] = @ - c]
      /\ positions' = [positions EXCEPT ![u][s] = new]
      /\ total_user_collateral' = SatSub(total_user_collateral, fee)
      /\ CreditReferrer(r, u, fee, portion, withTracker)
      /\ oi' = [oi EXCEPT ![m][dir] = @ + notional]
      /\ exposure' = [exposure EXCEPT ![dir] = @ + notional]
      /\ deficit' = deficit + SatSub(insurance + portion + Bps(fee, params.lp_fee_bps), fee)
      /\ UNCHANGED <<control, wallet, has_margin, shares, liquidity>>
    BY DEF OpenPosition
<1>2. fee \in Nat
    BY ShareType
<1>3. fee <= c
    BY ShareType
<1>. HIDE DEF fee
<1>4. net \in Nat
    BY <1>2, <1>3
<1>. HIDE DEF net
<1>5. notional \in Nat
    BY <1>4, ProductNat
<1>6. portion \in Nat
    BY <1>2, ReferralPortionNat
<1>7. insurance \in Nat
    <2>1. Bps(fee, params.insurance_fund_bps) \in Nat
        BY <1>2, ShareType
    <2>. HIDE DEF portion
    <2>2. QED
        BY <2>1, <1>6, SatSubNat
<1>8. Bps(fee, params.lp_fee_bps) \in Nat
    BY <1>2, ShareType
<1>9. new \in Position
    BY <1>4, <1>5 DEF Position, TypeOK, Oracles
<1>. HIDE DEF notional, portion, insurance, new
<1>10. fee_vault' \in Nat /\ insurance_fund' \in Nat
    BY <1>1, <1>7 DEF TypeOK
<1>11. /\ accumulated_fees' \in Nat /\ acc_fee_per_share' \in Nat
       /\ total_fees_claimed' \in Nat
    BY <1>1, <1>8, AccrueLpFeeType
<1>12. margin' \in [Users -> Nat]
    BY <1>1 DEF TypeOK
<1>13. positions' \in [Users -> [Slots -> Slot]]
    BY <1>1, <1>9, PositionsUpdate DEF Slot
<1>14. total_user_collateral' \in Nat
    BY <1>1, <1>2, SatSubNat DEF TypeOK
<1>15. /\ referral' \in [Users -> ReferralAccount]
       /\ tracked' \subseteq Users \X Users
       /\ total_referral_pending' \in Nat
    BY <1>1, <1>2, <1>6, CreditReferrerType
<1>16. /\ oi' \in [Markets -> [Direction -> Nat]]
       /\ exposure' \in [Direction -> Nat]
    BY <1>1, <1>5 DEF TypeOK
<1>17. deficit' \in Nat
    <2>1. insurance + portion + Bps(fee, params.lp_fee_bps) \in Int /\ fee \in Int
        BY <1>2, <1>6, <1>7, <1>8
    <2>2. SatSub(insurance + portion + Bps(fee, params.lp_fee_bps), fee) \in Nat
        BY <2>1, SatSubInt
    <2>3. QED
        BY <2>2, <1>1 DEF TypeOK
<1>18. QED
    BY <1>1, <1>10, <1>11, <1>12, <1>13, <1>14, <1>15, <1>16, <1>17
       DEF TypeOK, control, shares, liquidity

-----------------------------------------------------------------------------
(* The pool                                                                *)

LEMMA EntitledNat ==
    ASSUME TypeOK, NEW n \in Nat
    PROVE  Entitled(n) \in Nat
<1>1. n * acc_fee_per_share \in Nat
    BY ProductNat DEF TypeOK
<1>2. Precision \in Nat \ {0}
    BY StateAssumption
<1>3. QED
    BY <1>1, <1>2, QuotientNat DEF Entitled

LEMMA LpFields ==
    ASSUME TypeOK, NEW u \in Users
    PROVE  lp[u].shares \in Nat /\ lp[u].reward_debt \in Nat
BY DEF TypeOK, LpPosition

LEMMA LpReservedNat == ASSUME TypeOK PROVE LpReserved \in Nat
BY SatSubNat DEF TypeOK, LpReserved

LEMMA ClaimableNat ==
    ASSUME TypeOK, NEW u \in Users
    PROVE  Claimable(u) \in Nat
<1>1. CASE acc_fee_per_share > 0
    <2>1. Entitled(lp[u].shares) \in Nat /\ lp[u].reward_debt \in Nat
        BY LpFields, EntitledNat
    <2>2. SatSub(Entitled(lp[u].shares), lp[u].reward_debt) \in Nat
        BY <2>1, SatSubNat
    <2>3. QED
        BY <1>1, <2>2 DEF Claimable
<1>2. CASE ~(acc_fee_per_share > 0)
    <2>1. lp[u].shares * LpReserved \in Nat
        BY LpFields, LpReservedNat, ProductNat
    <2>2. total_shares # 0 => (lp[u].shares * LpReserved) \div total_shares \in Nat
        BY <2>1, QuotientNat DEF TypeOK
    <2>3. QED
        BY <1>2, <2>2 DEF Claimable
<1>3. QED
    BY <1>1, <1>2

LEMMA UsdcForNat ==
    ASSUME TypeOK, total_shares > 0, NEW n \in Nat
    PROVE  UsdcFor(n) \in Nat
<1>1. n * total_usdc \in Nat
    BY ProductNat DEF TypeOK
<1>2. total_shares \in Nat \ {0}
    BY DEF TypeOK
<1>3. QED
    BY <1>1, <1>2, QuotientNat DEF UsdcFor

LEMMA SharesForNat ==
    ASSUME TypeOK, NEW amount \in Nat, total_shares > 0 => total_usdc > 0
    PROVE  SharesFor(amount) \in Nat
<1>1. amount * total_shares \in Nat
    BY ProductNat DEF TypeOK
<1>2. total_shares # 0 => total_usdc \in Nat \ {0}
    BY DEF TypeOK
<1>3. total_shares # 0 => (amount * total_shares) \div total_usdc \in Nat
    BY <1>1, <1>2, QuotientNat
<1>4. QED
    BY <1>3 DEF SharesFor

LEMMA DebtForNat ==
    ASSUME TypeOK, NEW u \in Users, NEW owned \in Nat
    PROVE  DebtFor(u, owned) \in Nat
<1>. DEFINE debt == SatSub(Entitled(lp[u].shares), lp[u].reward_debt)
            pending == IF lp[u].shares > 0 /\ acc_fee_per_share > 0 THEN debt ELSE 0
<1>1. pending \in Nat
    <2>1. debt \in Nat
        BY LpFields, EntitledNat, SatSubNat
    <2>. HIDE DEF debt
    <2>2. QED
        BY <2>1
<1>2. Entitled(owned) \in Nat
    BY EntitledNat
<1>3. DebtFor(u, owned) = SatSub(Entitled(owned), pending)
    BY DEF DebtFor
<1>. HIDE DEF pending
<1>4. QED
    BY <1>1, <1>2, <1>3, SatSubNat

LEMMA LpDepositType ==
    ASSUME TypeOK, NEW u \in Users, NEW amount \in Nat, LpDeposit(u, amount)
    PROVE  TypeOK'
<1>. DEFINE owned   == lp[u].shares + SharesFor(amount)
            after   == DebtFor(u, owned)
<1>1. SharesFor(amount) \in Nat
    BY SharesForNat DEF LpDeposit
<1>2. owned \in Nat
    BY <1>1, LpFields
<1>4. after \in Nat
    BY <1>2, DebtForNat
<1>5. /\ wallet[u] >= amount
      /\ wallet' = [wallet EXCEPT ![u] = @ - amount]
      /\ lp_vault' = lp_vault + amount
      /\ total_usdc' = total_usdc + amount
      /\ total_shares' = total_shares + SharesFor(amount)
      /\ lp' = [lp EXCEPT ![u] = [shares |-> owned, reward_debt |-> after]]
      /\ UNCHANGED <<control, vaults, accounts, interest, lpFees, referrals,
                     deficit>>
    BY DEF LpDeposit
<1>. HIDE DEF owned, after
<1>6. wallet' \in [Users -> Nat]
    BY <1>5 DEF TypeOK
<1>7. lp' \in [Users -> LpPosition]
    BY <1>2, <1>4, <1>5 DEF TypeOK, LpPosition
<1>8. lp_vault' \in Nat /\ total_usdc' \in Nat /\ total_shares' \in Nat
    BY <1>1, <1>5 DEF TypeOK
<1>9. QED
    BY <1>5, <1>6, <1>7, <1>8
       DEF TypeOK, control, vaults, accounts, interest, lpFees, referrals

LEMMA LpWithdrawType ==
    ASSUME TypeOK, NEW u \in Users, NEW n \in Nat, LpWithdraw(u, n)
    PROVE  TypeOK'
<1>. DEFINE fees      == Lesser(Claimable(u), fee_vault)
            remaining == lp[u].shares - n
            debt      == IF remaining = 0 THEN 0 ELSE Entitled(remaining)
<1>1. fees \in Nat /\ fees <= fee_vault
    BY ClaimableNat DEF TypeOK, Lesser
<1>2. remaining \in Nat
    BY LpFields DEF LpWithdraw
<1>3. debt \in Nat
    BY <1>2, EntitledNat
<1>4. UsdcFor(n) \in Nat
    BY UsdcForNat DEF LpWithdraw
<1>5. /\ lp_vault >= UsdcFor(n) /\ total_shares >= n
      /\ fee_vault' = fee_vault - fees
      /\ total_fees_claimed' = total_fees_claimed + fees
      /\ lp_vault' = lp_vault - UsdcFor(n)
      /\ total_usdc' = SatSub(total_usdc, UsdcFor(n))
      /\ total_shares' = total_shares - n
      /\ lp' = [lp EXCEPT ![u] = [shares |-> remaining, reward_debt |-> debt]]
      /\ wallet' = [wallet EXCEPT ![u] = @ + fees + UsdcFor(n)]
      /\ UNCHANGED <<control, insurance_fund, accounts, interest,
                     accumulated_fees, acc_fee_per_share, referrals, deficit>>
    BY DEF LpWithdraw, BurnShares
<1>. HIDE DEF fees, remaining, debt
<1>6. /\ fee_vault' \in Nat /\ total_fees_claimed' \in Nat
      /\ lp_vault' \in Nat /\ total_shares' \in Nat
    BY <1>1, <1>4, <1>5 DEF TypeOK
<1>7. total_usdc' \in Nat
    BY <1>4, <1>5, SatSubNat DEF TypeOK
<1>8. lp' \in [Users -> LpPosition]
    BY <1>2, <1>3, <1>5 DEF TypeOK, LpPosition
<1>9. wallet' \in [Users -> Nat]
    BY <1>1, <1>4, <1>5 DEF TypeOK
<1>10. QED
    BY <1>5, <1>6, <1>7, <1>8, <1>9
       DEF TypeOK, control, accounts, interest, referrals

LEMMA ClaimFeesType ==
    ASSUME TypeOK, NEW u \in Users, ClaimFees(u)
    PROVE  TypeOK'
<1>. DEFINE fees == Lesser(Claimable(u), fee_vault)
<1>1. fees \in Nat /\ fees <= fee_vault
    BY ClaimableNat DEF TypeOK, Lesser
<1>2. Entitled(lp[u].shares) \in Nat
    BY LpFields, EntitledNat
<1>3. /\ fee_vault' = fee_vault - fees
      /\ wallet' = [wallet EXCEPT ![u] = @ + fees]
      /\ total_fees_claimed' = total_fees_claimed + fees
      /\ lp' = IF acc_fee_per_share > 0
               THEN [lp EXCEPT ![u] = [shares |-> lp[u].shares,
                                       reward_debt |-> Entitled(lp[u].shares)]]
               ELSE lp
      /\ UNCHANGED <<control, insurance_fund, accounts, interest, total_shares,
                     liquidity, accumulated_fees, acc_fee_per_share,
                     referrals, deficit>>
    BY DEF ClaimFees
<1>. HIDE DEF fees
<1>4. fee_vault' \in Nat /\ total_fees_claimed' \in Nat
    BY <1>1, <1>3 DEF TypeOK
<1>5. lp' \in [Users -> LpPosition]
    BY <1>2, <1>3, LpFields DEF TypeOK, LpPosition
<1>6. wallet' \in [Users -> Nat]
    BY <1>1, <1>3 DEF TypeOK
<1>7. QED
    BY <1>3, <1>4, <1>5, <1>6
       DEF TypeOK, control, accounts, interest, liquidity, referrals

-----------------------------------------------------------------------------
(* The treasury, the clock, the prices and the parameters                  *)

LEMMA WithdrawFeesType ==
    ASSUME TypeOK, NEW amount \in Nat, WithdrawFees(amount)
    PROVE  TypeOK'
<1>1. LpReserved + total_user_collateral + total_referral_pending \in Nat
    BY LpReservedNat DEF TypeOK
<1>2. SatSub(fee_vault, LpReserved + total_user_collateral
                            + total_referral_pending) <= fee_vault
    BY <1>1, SatSubNat DEF TypeOK
<1>3. fee_vault - amount \in Nat
    <2>1. SatSub(fee_vault, LpReserved + total_user_collateral
                              + total_referral_pending) \in Nat
        BY <1>1, SatSubNat DEF TypeOK
    <2>2. QED
        BY <1>2, <2>1 DEF TypeOK, WithdrawFees
<1>4. QED
    BY <1>3 DEF TypeOK, WithdrawFees, control, accounts, interest, shares,
                liquidity, lpFees, referrals

LEMMA WithdrawInsuranceType ==
    ASSUME TypeOK, NEW amount \in Nat, WithdrawInsurance(amount)
    PROVE  TypeOK'
BY DEF TypeOK, WithdrawInsurance, control, accounts, interest, shares,
       liquidity, lpFees, referrals

LEMMA RegisterReferralType ==
    ASSUME TypeOK, NEW u \in Users, RegisterReferral(u)
    PROVE  TypeOK'
<1>1. referral' \in [Users -> ReferralAccount]
    BY DEF TypeOK, ReferralAccount, RegisterReferral
<1>2. QED
    BY <1>1 DEF TypeOK, RegisterReferral, control, vaults, accounts, interest,
                shares, liquidity, lpFees

LEMMA SetFeeShareType ==
    ASSUME TypeOK, NEW u \in Users, NEW rate \in Nat, SetFeeShare(u, rate)
    PROVE  TypeOK'
<1>1. referral' \in [Users -> ReferralAccount]
    BY DEF TypeOK, ReferralAccount, SetFeeShare
<1>2. QED
    BY <1>1 DEF TypeOK, SetFeeShare, control, vaults, accounts, interest,
                shares, liquidity, lpFees

LEMMA ClaimReferralType ==
    ASSUME TypeOK, NEW u \in Users, ClaimReferral(u)
    PROVE  TypeOK'
<1>1. referral[u].pending_fees \in Nat
    BY DEF TypeOK, ReferralAccount
<1>2. referral' \in [Users -> ReferralAccount]
    BY DEF TypeOK, ReferralAccount, ClaimReferral
<1>3. fee_vault' \in Nat
    BY <1>1 DEF TypeOK, ClaimReferral
<1>4. wallet' \in [Users -> Nat]
    BY <1>1 DEF TypeOK, ClaimReferral
<1>5. total_referral_pending' \in Nat
    BY <1>1, SatSubNat DEF TypeOK, ClaimReferral
<1>6. QED
    BY <1>2, <1>3, <1>4, <1>5
       DEF TypeOK, ClaimReferral, control, accounts, interest, shares,
           liquidity, lpFees

LEMMA TickType == TypeOK /\ Tick => TypeOK'
BY DEF TypeOK, Tick, money, vaults, accounts, interest, shares, liquidity,
       lpFees, referrals

LEMMA SetPriceType ==
    ASSUME TypeOK, NEW o \in Oracles, NEW price \in Nat, SetPrice(o, price)
    PROVE  oracle' \in [Oracles -> [price: Nat, last_updated: Nat]]
BY DEF TypeOK, SetPrice

LEMMA UpdateOracleType ==
    ASSUME TypeOK, NEW price \in Nat, UpdateOracle(price)
    PROVE  TypeOK'
<1>1. oracle' \in [Oracles -> [price: Nat, last_updated: Nat]]
    BY SetPriceType DEF UpdateOracle, Oracles
<1>2. is_paused' \in BOOLEAN
    BY Zenon DEF UpdateOracle
<1>3. QED
    BY <1>1, <1>2 DEF TypeOK, UpdateOracle, money, vaults, accounts, interest,
       shares, liquidity, lpFees, referrals

LEMMA UpdateMarketOracleType ==
    ASSUME TypeOK, NEW m \in Markets, NEW price \in Nat,
           UpdateMarketOracle(m, price)
    PROVE  TypeOK'
<1>1. oracle' \in [Oracles -> [price: Nat, last_updated: Nat]]
    BY SetPriceType DEF UpdateMarketOracle, Oracles
<1>2. QED
    BY <1>1 DEF TypeOK, UpdateMarketOracle, money, vaults, accounts, interest,
       shares, liquidity, lpFees, referrals

LEMMA CheckAndPauseType ==
    ASSUME TypeOK, NEW m \in Markets, CheckAndPause(m)
    PROVE  TypeOK'
BY DEF TypeOK, CheckAndPause, money, vaults, accounts, interest, shares,
       liquidity, lpFees, referrals

LEMMA UpdateParamsType ==
    ASSUME TypeOK, NEW new \in ParamSets, NEW pause \in Pauses,
           UpdateParams(new, pause)
    PROVE  TypeOK'
<1>1. is_paused' \in BOOLEAN /\ manual_pause' \in BOOLEAN
    BY Zenon DEF UpdateParams, TypeOK
<1>2. QED
    BY <1>1 DEF TypeOK, UpdateParams, money, vaults, accounts, interest, shares,
       liquidity, lpFees, referrals

-----------------------------------------------------------------------------
(* settle_funding                                                          *)

(* What one slot contributes.                                              *)
LEMMA ChargeNat ==
    ASSUME TypeOK, NEW p \in Slot, NEW m \in Markets
    PROVE  /\ Charge(p, m) \in Nat
           /\ Charge(p, m) > 0 => p \in Position
<1>1. CASE Chargeable(p, m)
    <2>1. p \in Position
        BY <1>1 DEF Chargeable, Slot, EmptySlot
    <2>2. QED
        BY <1>1, <2>1, FundingOwedNat DEF Charge
<1>2. CASE ~Chargeable(p, m)
    BY <1>2 DEF Charge
<1>3. QED
    BY <1>1, <1>2

LEMMA TakenNat ==
    ASSUME TypeOK, NEW p \in Slot, NEW m \in Markets
    PROVE  /\ p.collateral \in Nat /\ p.notional \in Nat
           /\ Taken(p, m) \in Nat /\ Taken(p, m) <= p.collateral
<1>1. p.collateral \in Nat /\ p.notional \in Nat
    BY PositionFields DEF Slot, EmptySlot
<1>2. QED
    BY <1>1, ChargeNat DEF Taken, Drained

LEMMA CutsNat ==
    ASSUME TypeOK, NEW p \in Slot, NEW m \in Markets
    PROVE  /\ LpCut(p, m) \in Nat /\ InsuranceCut(p, m) \in Nat
           /\ PerShare(LpCut(p, m)) \in Nat
           /\ \A d \in Direction : DrainedNotional(p, m, d) \in Nat
<1>1. Taken(p, m) \in Nat /\ p.notional \in Nat
    BY TakenNat
<1>2. /\ FUNDING_LP_BPS \in Nat /\ LIQUIDATION_LP_BPS \in Nat
      /\ FUNDING_INSURANCE_BPS \in Nat /\ LIQUIDATION_INSURANCE_BPS \in Nat
    BY DEF FUNDING_LP_BPS, LIQUIDATION_LP_BPS, FUNDING_INSURANCE_BPS,
           LIQUIDATION_INSURANCE_BPS
<1>3. LpCut(p, m) \in Nat
    BY <1>1, <1>2, BpsNat DEF LpCut
<1>4. InsuranceCut(p, m) \in Nat
    BY <1>1, <1>2, BpsNat DEF InsuranceCut
<1>5. PerShare(LpCut(p, m)) \in Nat
    BY <1>3, PerShareNat
<1>6. QED
    BY <1>1, <1>3, <1>4, <1>5 DEF DrainedNotional

LEMMA AfterFundingType ==
    ASSUME TypeOK, NEW p \in Slot, NEW m \in Markets
    PROVE  AfterFunding(p, m) \in Slot
<1>1. CASE Charge(p, m) = 0
    BY <1>1 DEF AfterFunding
<1>2. CASE Charge(p, m) # 0 /\ Drained(p, m)
    BY <1>2 DEF AfterFunding, Slot
<1>3. CASE Charge(p, m) # 0 /\ ~Drained(p, m)
    <2>1. p \in Position /\ Charge(p, m) \in Nat /\ now \in Nat
        BY <1>3, ChargeNat DEF TypeOK
    <2>2. p.collateral - Charge(p, m) \in Nat
        BY <1>3, <2>1, PositionFields DEF Drained
    <2>3. WithCollateral(p, p.collateral - Charge(p, m)) \in Position
        BY <2>1, <2>2, WithCollateralType
    <2>4. AfterFunding(p, m) = [WithCollateral(p, p.collateral - Charge(p, m))
                                  EXCEPT !.last_funding_timestamp = now]
        BY <1>3, Zenon DEF AfterFunding
    <2>5. QED
        BY <2>1, <2>3, <2>4, ChargedTime DEF Slot
<1>4. QED
    BY <1>1, <1>2, <1>3

LEMMA SettleFundingType ==
    ASSUME TypeOK, NEW u \in Users, NEW m \in Markets, SettleFunding(u, m)
    PROVE  TypeOK'
<1>0. MaxPositions \in Nat /\ \A s \in 1..MaxPositions : positions[u][s] \in Slot
    BY SlotType, StateAssumption DEF Slots
<1>1. TakenSum(u, m) \in Nat
    <2>. DEFINE f == [s \in Slots |-> Taken(positions[u][s], m)]
    <2>1. \A s \in 1..MaxPositions : f[s] \in Nat
        BY <1>0, TakenNat DEF Slots
    <2>. HIDE DEF f
    <2>2. Sum(f, MaxPositions) \in Nat
        BY <1>0, <2>1, SumNat
    <2>3. QED
        BY <2>2 DEF TakenSum, f
<1>2. LpCutSum(u, m) \in Nat
    <2>. DEFINE f == [s \in Slots |-> LpCut(positions[u][s], m)]
    <2>1. \A s \in 1..MaxPositions : f[s] \in Nat
        BY <1>0, CutsNat DEF Slots
    <2>. HIDE DEF f
    <2>2. Sum(f, MaxPositions) \in Nat
        BY <1>0, <2>1, SumNat
    <2>3. QED
        BY <2>2 DEF LpCutSum, f
<1>3. PerShareSum(u, m) \in Nat
    <2>. DEFINE f == [s \in Slots |-> PerShare(LpCut(positions[u][s], m))]
    <2>1. \A s \in 1..MaxPositions : f[s] \in Nat
        BY <1>0, CutsNat DEF Slots
    <2>. HIDE DEF f
    <2>2. Sum(f, MaxPositions) \in Nat
        BY <1>0, <2>1, SumNat
    <2>3. QED
        BY <2>2 DEF PerShareSum, f
<1>4. InsuranceCutSum(u, m) \in Nat
    <2>. DEFINE f == [s \in Slots |-> InsuranceCut(positions[u][s], m)]
    <2>1. \A s \in 1..MaxPositions : f[s] \in Nat
        BY <1>0, CutsNat DEF Slots
    <2>. HIDE DEF f
    <2>2. Sum(f, MaxPositions) \in Nat
        BY <1>0, <2>1, SumNat
    <2>3. QED
        BY <2>2 DEF InsuranceCutSum, f
<1>5. ASSUME NEW d \in Direction PROVE DrainedSum(u, m, d) \in Nat
    <2>. DEFINE f == [s \in Slots |-> DrainedNotional(positions[u][s], m, d)]
    <2>1. \A s \in 1..MaxPositions : f[s] \in Nat
        BY <1>0, CutsNat DEF Slots
    <2>. HIDE DEF f
    <2>2. Sum(f, MaxPositions) \in Nat
        BY <1>0, <2>1, SumNat
    <2>3. QED
        BY <2>2 DEF DrainedSum, f
<1>6. /\ fee_vault' \in Nat /\ insurance_fund' \in Nat
      /\ accumulated_fees' \in Nat /\ acc_fee_per_share' \in Nat
    BY <1>2, <1>3, <1>4 DEF TypeOK, SettleFunding
<1>7. total_user_collateral' \in Nat
    BY <1>1, SatSubNat DEF TypeOK, SettleFunding
<1>8. positions' \in [Users -> [Slots -> Slot]]
    <2>1. \A s \in Slots : AfterFunding(positions[u][s], m) \in Slot
        BY SlotType, AfterFundingType
    <2>2. QED
        BY <2>1 DEF TypeOK, SettleFunding
<1>9. oi' \in [Markets -> [Direction -> Nat]]
    <2>1. ASSUME NEW d \in Direction
          PROVE  SatSub(oi[m][d], DrainedSum(u, m, d)) \in Nat
        <3>1. oi[m][d] \in Nat
            BY DEF TypeOK
        <3>2. QED
            BY <1>5, <3>1, SatSubNat
    <2>2. QED
        BY <2>1 DEF TypeOK, SettleFunding
<1>10. exposure' \in [Direction -> Nat]
    <2>1. \A d \in Direction : SatSub(exposure[d], DrainedSum(u, m, d)) \in Nat
        BY <1>5, SatSubNat DEF TypeOK
    <2>2. QED
        BY <2>1 DEF SettleFunding
<1>11. QED
    BY <1>6, <1>7, <1>8, <1>9, <1>10
       DEF TypeOK, SettleFunding, control, shares, liquidity, referrals

-----------------------------------------------------------------------------
(* A step of Next with its parameters in the widest sets they can be in:   *)
(* what the proofs about Kronos split a step into.                         *)
TypedStep ==
    \/ \E u \in Users, amount \in Nat : DepositCollateral(u, amount)
    \/ \E u \in Users, amount \in Nat : WithdrawCollateral(u, amount)
    \/ \E u \in Users, s \in Slots, amount \in Nat : AddMargin(u, s, amount)
    \/ \E u \in Users, s \in Slots, amount \in Nat : RemoveMargin(u, s, amount)
    \/ \E u \in Users, s \in Slots, o \in Oracles, sl, tp \in Nat :
          SetSlTp(u, s, o, sl, tp)
    \/ \E u \in Users : CloseMarginAccount(u)
    \/ \E u \in Users, s \in Slots, m \in Markets, d \in Direction, c \in Nat,
          l \in Nat, sl, tp \in Nat, r \in Users \cup {0}, withTracker \in BOOLEAN :
          OpenPosition(u, s, m, d, c, l, sl, tp, r, withTracker)
    \/ \E u \in Users, s \in Slots : ClosePosition(u, s)
    \/ \E u \in Users, s \in Slots : ExecuteSlTp(u, s)
    \/ \E u \in Users, s \in Slots : AdminClosePosition(u, s)
    \/ \E u \in Users, s \in Slots : Liquidate(u, s)
    \/ \E u \in Users, m \in Markets : SettleFunding(u, m)
    \/ \E u \in Users, amount \in Nat : LpDeposit(u, amount)
    \/ \E u \in Users, n \in Nat : LpWithdraw(u, n)
    \/ \E u \in Users : ClaimFees(u)
    \/ \E amount \in Nat : WithdrawFees(amount)
    \/ \E amount \in Nat : WithdrawInsurance(amount)
    \/ \E u \in Users : RegisterReferral(u)
    \/ \E u \in Users, rate \in Nat : SetFeeShare(u, rate)
    \/ \E u \in Users : ClaimReferral(u)
    \/ Tick
    \/ \E price \in Nat : UpdateOracle(price)
    \/ \E m \in Markets, price \in Nat : UpdateMarketOracle(m, price)
    \/ \E m \in Markets : CheckAndPause(m)
    \/ \E new \in ParamSets, pause \in Pauses : UpdateParams(new, pause)

LEMMA StepsAreTyped == TypeOK /\ Next => TypedStep
<1>. SUFFICES ASSUME TypeOK, Next PROVE TypedStep
    OBVIOUS
<1>0. \A u \in Users : margin[u] \in Nat /\ lp[u].shares \in Nat
    BY LpFields DEF TypeOK
<1>1. CASE MarginNext
    <2>1. PICK u \in Traders : MarginNext!(u)
        BY <1>1, Zenon DEF MarginNext
    <2>2. u \in Users /\ margin[u] \in Nat
        BY <1>0, <2>1, InputAssumption
    <2>3. CASE \E amount \in DepositAmounts : DepositCollateral(u, amount)
        BY <2>2, <2>3, InputAssumption DEF TypedStep
    <2>4. CASE \E amount \in MarginAmounts \cup {margin[u]} :
                  WithdrawCollateral(u, amount)
        BY <2>2, <2>4, InputAssumption DEF TypedStep
    <2>5. CASE \E s \in Slots, amount \in MarginAmounts : AddMargin(u, s, amount)
        BY <2>2, <2>5, InputAssumption DEF TypedStep
    <2>6. CASE \E s \in Slots, amount \in MarginAmounts : RemoveMargin(u, s, amount)
        BY <2>2, <2>6, InputAssumption DEF TypedStep
    <2>7. CASE \E s \in Slots, o \in Oracles, sl, tp \in Stops \cup {0} :
                  SetSlTp(u, s, o, sl, tp)
        BY <2>2, <2>7, InputAssumption DEF TypedStep
    <2>8. CASE CloseMarginAccount(u)
        BY <2>2, <2>8 DEF TypedStep
    <2>9. QED
        BY <2>1, <2>3, <2>4, <2>5, <2>6, <2>7, <2>8
<1>2. CASE TradingNext
    <2>1. PICK u \in Traders : TradingNext!(u)
        BY <1>2, Zenon DEF TradingNext
    <2>2. u \in Users
        BY <2>1, InputAssumption
    <2>3. CASE \E s \in Slots, m \in Markets, d \in Direction, c \in OpenSizes,
                  l \in Leverages, sl, tp \in Stops \cup {0},
                  r \in Referrers \cup {0}, withTracker \in BOOLEAN :
                  OpenPosition(u, s, m, d, c, l, sl, tp, r, withTracker)
        <3>1. PICK s \in Slots, m \in Markets, d \in Direction, c \in OpenSizes,
                   l \in Leverages, sl, tp \in Stops \cup {0},
                   r \in Referrers \cup {0}, withTracker \in BOOLEAN :
                   OpenPosition(u, s, m, d, c, l, sl, tp, r, withTracker)
            BY <2>3, Zenon
        <3>2. /\ c \in Nat /\ l \in Nat /\ sl \in Nat /\ tp \in Nat
              /\ r \in Users \cup {0}
            BY <3>1, InputAssumption
        <3>3. \E r1 \in Users \cup {0}, w1 \in BOOLEAN :
                 OpenPosition(u, s, m, d, c, l, sl, tp, r1, w1)
            BY <3>1, <3>2, Zenon
        <3>4. QED
            BY <2>2, <3>1, <3>2, <3>3 DEF TypedStep
    <2>4. CASE \E s \in Slots : ClosePosition(u, s)
        BY <2>2, <2>4 DEF TypedStep
    <2>5. CASE \E s \in Slots : ExecuteSlTp(u, s)
        BY <2>2, <2>5 DEF TypedStep
    <2>6. CASE \E s \in Slots : AdminClosePosition(u, s)
        BY <2>2, <2>6 DEF TypedStep
    <2>7. CASE \E s \in Slots : Liquidate(u, s)
        BY <2>2, <2>7 DEF TypedStep
    <2>8. CASE \E m \in Markets : SettleFunding(u, m)
        BY <2>2, <2>8 DEF TypedStep
    <2>9. QED
        BY <2>1, <2>3, <2>4, <2>5, <2>6, <2>7, <2>8
<1>3. CASE PoolNext
    <2>1. PICK u \in Providers : PoolNext!(u)
        BY <1>3, Zenon DEF PoolNext
    <2>2. u \in Users /\ lp[u].shares \in Nat
        BY <1>0, <2>1, InputAssumption
    <2>3. CASE \E amount \in LpAmounts : LpDeposit(u, amount)
        BY <2>2, <2>3, InputAssumption DEF TypedStep
    <2>4. CASE \E n \in BurnAmounts \cup {lp[u].shares} : LpWithdraw(u, n)
        BY <2>2, <2>4, InputAssumption DEF TypedStep
    <2>5. CASE ClaimFees(u)
        BY <2>2, <2>5 DEF TypedStep
    <2>6. QED
        BY <2>1, <2>3, <2>4, <2>5
<1>4. CASE TreasuryNext
    BY <1>4, InputAssumption DEF TreasuryNext, TypedStep
<1>5. CASE ControlNext
    BY <1>5, InputAssumption DEF ControlNext, TypedStep
<1>6. QED
    BY <1>1, <1>2, <1>3, <1>4, <1>5 DEF Next

(* Every step keeps the types, whatever the constants.                     *)
LEMMA NextType == TypeOK /\ [Next]_vars => TypeOK'
<1>1. ASSUME TypeOK, TypedStep PROVE TypeOK'
    <2>1. CASE \E u \in Users, s \in Slots, m \in Markets, d \in Direction, c \in Nat,
                  l \in Nat, sl, tp \in Nat, r \in Users \cup {0},
                  withTracker \in BOOLEAN :
                  OpenPosition(u, s, m, d, c, l, sl, tp, r, withTracker)
        BY <1>1, <2>1, OpenPositionType
    <2>2. QED
        BY <1>1, <2>1, DepositCollateralType, WithdrawCollateralType,
           AddMarginType, RemoveMarginType, SetSlTpType, CloseMarginAccountType,
           ClosePositionType, ExecuteSlTpType, AdminClosePositionType,
           LiquidateType, SettleFundingType, LpDepositType, LpWithdrawType,
           ClaimFeesType, WithdrawFeesType, WithdrawInsuranceType,
           RegisterReferralType, SetFeeShareType, ClaimReferralType, TickType,
           UpdateOracleType, UpdateMarketOracleType, CheckAndPauseType,
           UpdateParamsType DEF TypedStep
<1>2. TypeOK /\ UNCHANGED vars => TypeOK'
    BY DEF TypeOK, vars, control, vaults, accounts, interest, shares,
           liquidity, lpFees, referrals
<1>3. QED
    BY <1>1, <1>2, StepsAreTyped

(* TypeOK is an invariant of the program: in particular no token account   *)
(* and no running total ever goes below zero.                              *)
THEOREM TypeCorrect == Spec => []TypeOK
BY InitType, NextType, PTL DEF Spec
=============================================================================
