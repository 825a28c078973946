---------------------------- MODULE LedgerProofs ----------------------------
(***************************************************************************)
(* What the program counts, for any number of users, slots and markets.    *)
(*                                                                         *)
(* That total_user_collateral, by which every withdrawal is limited, is    *)
(* the USDC the margin accounts hold together.  Each handler moves         *)
(* collateral within one account, and by a formula of its own changes the  *)
(* total; the saturated subtractions among them never saturate because the *)
(* total covers what any one account holds.                                *)
(*                                                                         *)
(* That the open interest of a market, which sets its funding rate, and    *)
(* the protocol's exposure, which sets the insurance reserve, are those of *)
(* the open positions.  Both counters are a sum of notionals over a group  *)
(* of markets: one market, or all of them.  Here too no subtraction ever   *)
(* saturates: a counter covers whatever one handler takes off it.          *)
(*                                                                         *)
(* And what the liquidity providers rely on: the pool's accounting of its  *)
(* USDC is the balance of its vault, every share is somebody's, and a      *)
(* provider who comes or goes never takes value from the shares of the     *)
(* others, nor do they together earn more than the fees that come in.      *)
(***************************************************************************)
EXTENDS KronosTypes

-----------------------------------------------------------------------------
(* What one account holds                                                  *)

(* The collateral of the positions in the slots q of an account.           *)
InSlots(q) == Sum([s \in Slots |-> q[s].collateral], MaxPositions)

LEMMA SlotCollateral ==
    ASSUME NEW q \in [Slots -> Slot], NEW s \in Slots
    PROVE  q[s] \in Slot /\ q[s].collateral \in Nat
BY PositionFields DEF Slot, EmptySlot

LEMMA InSlotsNat ==
    ASSUME NEW q \in [Slots -> Slot]
    PROVE  /\ InSlots(q) \in Nat
           /\ \A s \in Slots : q[s].collateral <= InSlots(q)
<1>. DEFINE f == [s \in Slots |-> q[s].collateral]
<1>1. MaxPositions \in Nat /\ \A s \in 1..MaxPositions : f[s] \in Nat
    BY StateAssumption, SlotCollateral DEF Slots
<1>2. \A s \in Slots : f[s] = q[s].collateral
    OBVIOUS
<1>. HIDE DEF f
<1>3. /\ Sum(f, MaxPositions) \in Nat
      /\ \A s \in 1..MaxPositions : f[s] <= Sum(f, MaxPositions)
    BY <1>1, SumNat
<1>4. InSlots(q) = Sum(f, MaxPositions)
    BY DEF InSlots, f
<1>5. QED
    BY <1>2, <1>3, <1>4 DEF Slots

(* One slot is rewritten.                                                  *)
LEMMA InSlotsUpdate ==
    ASSUME NEW q \in [Slots -> Slot], NEW r \in [Slots -> Slot], NEW s \in Slots,
           \A t \in Slots : t # s => r[t] = q[t]
    PROVE  InSlots(r) = InSlots(q) - q[s].collateral + r[s].collateral
<1>. DEFINE f == [t \in Slots |-> q[t].collateral]
            g == [t \in Slots |-> r[t].collateral]
<1>1. /\ MaxPositions \in Nat /\ s \in 1..MaxPositions
      /\ \A t \in 1..MaxPositions : f[t] \in Nat /\ g[t] \in Nat
    BY StateAssumption, SlotCollateral DEF Slots
<1>2. \A t \in 1..MaxPositions : t # s => g[t] = f[t]
    BY DEF Slots
<1>3. f[s] = q[s].collateral /\ g[s] = r[s].collateral
    OBVIOUS
<1>. HIDE DEF f, g
<1>4. Sum(g, MaxPositions) = Sum(f, MaxPositions) - f[s] + g[s]
    BY <1>1, <1>2, SumUpdate
<1>5. InSlots(q) = Sum(f, MaxPositions) /\ InSlots(r) = Sum(g, MaxPositions)
    BY DEF InSlots, f, g
<1>6. QED
    BY <1>3, <1>4, <1>5

LEMMA HeldIs ==
    ASSUME NEW u \in Users
    PROVE  Held(u) = margin[u] + InSlots(positions[u])
BY DEF Held, InSlots

LEMMA HeldNat ==
    ASSUME TypeOK, NEW u \in Users
    PROVE  /\ margin[u] \in Nat /\ InSlots(positions[u]) \in Nat
           /\ Held(u) \in Nat
<1>1. margin[u] \in Nat /\ positions[u] \in [Slots -> Slot]
    BY DEF TypeOK
<1>2. QED
    BY <1>1, InSlotsNat, HeldIs

(* The total covers every single account.                                  *)
LEMMA TotalCovers ==
    ASSUME TypeOK, CollateralLedger, NEW u \in Users
    PROVE  margin[u] + InSlots(positions[u]) <= total_user_collateral
<1>. DEFINE f == [v \in Users |-> Held(v)]
<1>1. NumUsers \in Nat /\ \A v \in 1..NumUsers : f[v] \in Nat
    BY StateAssumption, HeldNat DEF Users
<1>2. f[u] = Held(u) /\ u \in 1..NumUsers
    BY DEF Users
<1>. HIDE DEF f
<1>3. f[u] <= Sum(f, NumUsers)
    BY <1>1, <1>2, SumNat
<1>4. total_user_collateral = Sum(f, NumUsers)
    BY DEF CollateralLedger, f
<1>5. QED
    BY <1>2, <1>3, <1>4, HeldIs

-----------------------------------------------------------------------------
(* A step that moves the collateral of one account                         *)

LEMMA AccountMoves ==
    ASSUME TypeOK, TypeOK', CollateralLedger, NEW u \in Users,
           \A v \in Users : v # u => /\ margin'[v] = margin[v]
                                     /\ positions'[v] = positions[v],
           total_user_collateral' = total_user_collateral
               - (margin[u] + InSlots(positions[u]))
               + (margin'[u] + InSlots(positions'[u]))
    PROVE  CollateralLedger'
<1>. DEFINE held(v)    == margin[v] + InSlots(positions[v])
            heldNow(v) == margin'[v] + InSlots(positions'[v])
            f == [v \in Users |-> held(v)]
            g == [v \in Users |-> heldNow(v)]
<1>1. NumUsers \in Nat /\ u \in 1..NumUsers
    BY StateAssumption DEF Users
<1>2. \A v \in Users : held(v) \in Nat /\ heldNow(v) \in Nat
    <2>1. \A v \in Users : /\ margin[v] \in Nat /\ margin'[v] \in Nat
                           /\ positions[v] \in [Slots -> Slot]
                           /\ positions'[v] \in [Slots -> Slot]
        BY DEF TypeOK
    <2>2. \A v \in Users : /\ InSlots(positions[v]) \in Nat
                           /\ InSlots(positions'[v]) \in Nat
        BY <2>1, InSlotsNat
    <2>3. QED
        BY <2>1, <2>2
<1>3. \A v \in Users : v # u => heldNow(v) = held(v)
    OBVIOUS
<1>4. CollateralLedger <=> total_user_collateral = Sum(f, NumUsers)
    <2>1. [v \in Users |-> Held(v)] = f
        BY HeldIs
    <2>2. QED
        BY <2>1 DEF CollateralLedger
<1>5. CollateralLedger' <=> total_user_collateral' = Sum(g, NumUsers)
    BY DEF CollateralLedger, Held, InSlots
<1>6. f[u] = held(u) /\ g[u] = heldNow(u)
    OBVIOUS
<1>7. total_user_collateral' = total_user_collateral - held(u) + heldNow(u)
    OBVIOUS
<1>. HIDE DEF held, heldNow
<1>8. /\ \A v \in 1..NumUsers : f[v] \in Nat /\ g[v] \in Nat
      /\ \A v \in 1..NumUsers : v # u => g[v] = f[v]
    BY <1>2, <1>3 DEF Users
<1>. HIDE DEF f, g
<1>9. Sum(g, NumUsers) = Sum(f, NumUsers) - f[u] + g[u]
    BY <1>1, <1>8, SumUpdate
<1>10. QED
    BY <1>4, <1>5, <1>6, <1>7, <1>9

(* Free collateral comes in or goes out.                                   *)
LEMMA MarginMoves ==
    ASSUME TypeOK, TypeOK', CollateralLedger, NEW u \in Users,
           \A v \in Users : v # u => margin'[v] = margin[v],
           positions' = positions,
           total_user_collateral' = total_user_collateral - margin[u] + margin'[u]
    PROVE  CollateralLedger'
<1>1. /\ margin[u] \in Nat /\ InSlots(positions[u]) \in Nat
      /\ margin'[u] \in Nat /\ total_user_collateral \in Nat
    BY HeldNat DEF TypeOK
<1>2. InSlots(positions'[u]) = InSlots(positions[u])
    OBVIOUS
<1>3. total_user_collateral' = total_user_collateral
               - (margin[u] + InSlots(positions[u]))
               + (margin'[u] + InSlots(positions'[u]))
    BY <1>1, <1>2
<1>4. QED
    BY <1>3, AccountMoves

(* One slot and the free collateral of its owner change.                   *)
LEMMA SlotMoves ==
    ASSUME TypeOK, TypeOK', CollateralLedger, NEW u \in Users, NEW s \in Slots,
           NEW new \in Slot,
           \A v \in Users : v # u => margin'[v] = margin[v],
           positions' = [positions EXCEPT ![u][s] = new],
           total_user_collateral' = total_user_collateral - margin[u] + margin'[u]
               - positions[u][s].collateral + new.collateral
    PROVE  CollateralLedger'
<1>1. /\ positions[u] \in [Slots -> Slot] /\ positions'[u] \in [Slots -> Slot]
      /\ margin[u] \in Nat /\ margin'[u] \in Nat /\ total_user_collateral \in Nat
    BY DEF TypeOK
<1>2. /\ positions'[u][s] = new
      /\ \A t \in Slots : t # s => positions'[u][t] = positions[u][t]
      /\ \A v \in Users : v # u => positions'[v] = positions[v]
    BY DEF TypeOK
<1>3. InSlots(positions'[u]) = InSlots(positions[u])
          - positions[u][s].collateral + positions'[u][s].collateral
    BY <1>1, <1>2, InSlotsUpdate
<1>4. /\ InSlots(positions[u]) \in Nat /\ InSlots(positions'[u]) \in Nat
      /\ positions[u][s].collateral \in Nat /\ new.collateral \in Nat
    BY <1>1, <1>2, InSlotsNat, SlotCollateral
<1>5. total_user_collateral' = total_user_collateral
               - (margin[u] + InSlots(positions[u]))
               + (margin'[u] + InSlots(positions'[u]))
    BY <1>1, <1>2, <1>3, <1>4
<1>6. QED
    BY <1>2, <1>5, AccountMoves

(* What a position or the free collateral holds can be taken off the total *)
(* without saturation.                                                     *)
LEMMA TotalCoversParts ==
    ASSUME TypeOK, CollateralLedger, NEW u \in Users, NEW s \in Slots
    PROVE  /\ margin[u] \in Nat /\ positions[u][s].collateral \in Nat
           /\ total_user_collateral \in Nat
           /\ margin[u] <= total_user_collateral
           /\ positions[u][s].collateral <= total_user_collateral
<1>1. positions[u] \in [Slots -> Slot] /\ total_user_collateral \in Nat
    BY DEF TypeOK
<1>2. /\ margin[u] \in Nat /\ InSlots(positions[u]) \in Nat
      /\ margin[u] + InSlots(positions[u]) <= total_user_collateral
    BY HeldNat, TotalCovers
<1>3. /\ positions[u][s].collateral \in Nat
      /\ positions[u][s].collateral <= InSlots(positions[u])
    BY <1>1, InSlotsNat, SlotCollateral
<1>4. QED
    BY <1>1, <1>2, <1>3

-----------------------------------------------------------------------------
(* The handlers                                                            *)

LEMMA SlotsNotOpen ==
    ASSUME TypeOK, NEW u \in Users, NEW s \in Slots, ~IsOpen(u, s)
    PROVE  positions[u][s] = EmptySlot
BY SlotType DEF IsOpen, Slot, Position, Direction

LEMMA WithCollateralFields ==
    ASSUME NEW p \in Position, NEW a \in Nat
    PROVE  WithCollateral(p, a) \in Slot /\ WithCollateral(p, a).collateral = a
<1>1. WithCollateral(p, a) \in Slot
    BY WithCollateralType DEF Slot
<1>2. WithCollateral(p, a).collateral = a
    BY DEF WithCollateral, Position
<1>3. QED
    BY <1>1, <1>2

LEMMA MarginLedger ==
    ASSUME TypeOK, TypeOK', CollateralLedger, NEW u \in Users, NEW amount \in Nat,
           DepositCollateral(u, amount) \/ WithdrawCollateral(u, amount)
    PROVE  CollateralLedger'
<1>1. margin[u] \in Nat /\ margin[u] <= total_user_collateral
    <2>1. margin[u] \in Nat /\ InSlots(positions[u]) \in Nat
        BY HeldNat
    <2>2. margin[u] + InSlots(positions[u]) <= total_user_collateral
        BY TotalCovers
    <2>3. QED
        BY <2>1, <2>2 DEF TypeOK
<1>2. positions' = positions /\ \A v \in Users : v # u => margin'[v] = margin[v]
    BY DEF DepositCollateral, WithdrawCollateral, TypeOK
<1>3. total_user_collateral' = total_user_collateral - margin[u] + margin'[u]
    <2>1. CASE DepositCollateral(u, amount)
        <3>1. /\ margin'[u] = margin[u] + amount
              /\ total_user_collateral' = total_user_collateral + amount
            BY <2>1 DEF DepositCollateral, TypeOK
        <3>2. QED
            BY <1>1, <3>1 DEF TypeOK
    <2>2. CASE WithdrawCollateral(u, amount)
        <3>1. /\ margin'[u] = margin[u] - amount /\ amount <= margin[u]
              /\ total_user_collateral' = SatSub(total_user_collateral, amount)
            BY <2>2 DEF WithdrawCollateral, TypeOK
        <3>2. QED
            BY <1>1, <3>1 DEF TypeOK, SatSub
    <2>3. QED
        BY <2>1, <2>2
<1>4. QED
    BY <1>2, <1>3, MarginMoves

LEMMA AddMarginLedger ==
    ASSUME TypeOK, TypeOK', CollateralLedger, NEW u \in Users, NEW s \in Slots,
           NEW amount \in Nat, AddMargin(u, s, amount)
    PROVE  CollateralLedger'
<1>. DEFINE p   == positions[u][s]
            new == WithCollateral(p, p.collateral + amount)
<1>1. p \in Position /\ p.collateral + amount \in Nat
    BY OpenSlotType, PositionFields DEF AddMargin
<1>2. new \in Slot /\ new.collateral = p.collateral + amount
    BY <1>1, WithCollateralFields
<1>3. positions' = [positions EXCEPT ![u][s] = new]
    BY DEF AddMargin
<1>4. /\ \A v \in Users : v # u => margin'[v] = margin[v]
      /\ margin'[u] = margin[u] - amount
      /\ total_user_collateral' = total_user_collateral
    BY DEF AddMargin, TypeOK
<1>5. margin[u] \in Nat /\ p.collateral \in Nat /\ total_user_collateral \in Nat
    BY TotalCoversParts
<1>. HIDE DEF new
<1>6. total_user_collateral' = total_user_collateral - margin[u] + margin'[u]
               - positions[u][s].collateral + new.collateral
    BY <1>2, <1>4, <1>5
<1>7. QED
    BY <1>2, <1>3, <1>4, <1>6, SlotMoves

LEMMA RemoveMarginLedger ==
    ASSUME TypeOK, TypeOK', CollateralLedger, NEW u \in Users, NEW s \in Slots,
           NEW amount \in Nat, RemoveMargin(u, s, amount)
    PROVE  CollateralLedger'
<1>. DEFINE p   == positions[u][s]
            new == WithCollateral(p, p.collateral - amount)
<1>1. p \in Position /\ p.collateral - amount \in Nat
    BY OpenSlotType, PositionFields DEF RemoveMargin
<1>2. new \in Slot /\ new.collateral = p.collateral - amount
    BY <1>1, WithCollateralFields
<1>3. positions' = [positions EXCEPT ![u][s] = new]
    BY DEF RemoveMargin
<1>4. /\ \A v \in Users : v # u => margin'[v] = margin[v]
      /\ margin'[u] = margin[u] + amount
      /\ total_user_collateral' = total_user_collateral
    BY DEF RemoveMargin, TypeOK
<1>5. margin[u] \in Nat /\ p.collateral \in Nat /\ total_user_collateral \in Nat
    BY TotalCoversParts
<1>. HIDE DEF new
<1>6. total_user_collateral' = total_user_collateral - margin[u] + margin'[u]
               - positions[u][s].collateral + new.collateral
    BY <1>2, <1>4, <1>5
<1>7. QED
    BY <1>2, <1>3, <1>4, <1>6, SlotMoves

LEMMA SetSlTpLedger ==
    ASSUME TypeOK, TypeOK', CollateralLedger, NEW u \in Users, NEW s \in Slots,
           NEW o \in Oracles, NEW sl \in Nat, NEW tp \in Nat,
           SetSlTp(u, s, o, sl, tp)
    PROVE  CollateralLedger'
<1>. DEFINE p   == positions[u][s]
            new == WithTriggers(p, sl, tp)
<1>1. p \in Position
    BY OpenSlotType DEF SetSlTp
<1>2. new \in Slot /\ new.collateral = p.collateral
    <2>1. new \in Position
        BY <1>1, WithTriggersType
    <2>2. new.collateral = p.collateral
        BY <1>1 DEF WithTriggers, Position
    <2>3. QED
        BY <2>1, <2>2 DEF Slot
<1>3. positions' = [positions EXCEPT ![u][s] = new]
    BY DEF SetSlTp
<1>4. margin' = margin /\ total_user_collateral' = total_user_collateral
    BY DEF SetSlTp
<1>5. margin[u] \in Nat /\ p.collateral \in Nat /\ total_user_collateral \in Nat
    BY TotalCoversParts
<1>. HIDE DEF new
<1>6. total_user_collateral' = total_user_collateral - margin[u] + margin'[u]
               - positions[u][s].collateral + new.collateral
    BY <1>2, <1>4, <1>5
<1>7. QED
    BY <1>2, <1>3, <1>4, <1>6, SlotMoves

(* An account that is deleted holds nothing.                               *)
LEMMA CloseMarginAccountLedger ==
    ASSUME TypeOK, TypeOK', CollateralLedger, NEW u \in Users, CloseMarginAccount(u)
    PROVE  CollateralLedger'
<1>1. positions[u] = [s \in Slots |-> EmptySlot]
    <2>1. positions[u] \in [Slots -> Slot]
        BY DEF TypeOK
    <2>2. \A s \in Slots : positions[u][s] = EmptySlot
        BY SlotsNotOpen DEF CloseMarginAccount
    <2>3. QED
        BY <2>1, <2>2
<1>2. positions' = positions
    BY <1>1 DEF CloseMarginAccount, TypeOK
<1>3. margin' = margin /\ total_user_collateral' = total_user_collateral
    BY DEF CloseMarginAccount, TypeOK
<1>4. QED
    BY <1>2, <1>3 DEF CollateralLedger, Held

(* The fee of an opened position leaves the user's funds.                  *)
LEMMA OpenPositionLedger ==
    ASSUME TypeOK, TypeOK', CollateralLedger,
           NEW u \in Users, NEW s \in Slots, NEW m \in Markets, NEW dir \in Direction,
           NEW c \in Nat, NEW l \in Nat, NEW sl \in Nat, NEW tp \in Nat,
           NEW r \in Users \cup {0}, NEW withTracker \in BOOLEAN,
           OpenPosition(u, s, m, dir, c, l, sl, tp, r, withTracker)
    PROVE  CollateralLedger'
<1>. DEFINE fee == Bps(c, params.fee_bps)
            new == [direction |-> dir, market |-> m, collateral |-> c - fee,
                    notional |-> (c - fee) * l, entry_price |-> oracle[m].price,
                    last_funding_timestamp |-> now,
                    sl_price |-> sl, tp_price |-> tp]
<1>1. /\ margin[u] >= c /\ ~IsOpen(u, s)
      /\ margin' = [margin EXCEPT ![u] = @ - c]
      /\ positions' = [positions EXCEPT ![u][s] = new]
      /\ total_user_collateral' = SatSub(total_user_collateral, fee)
    BY DEF OpenPosition, FirstOpenSlot
<1>2. fee \in Nat
    BY ShareType
<1>3. fee <= c
    BY ShareType
<1>4. new \in Slot /\ new.collateral = c - fee
    <2>1. new = positions'[u][s] /\ positions'[u][s] \in Slot
        BY <1>1 DEF TypeOK
    <2>2. QED
        BY <2>1
<1>5. positions[u][s].collateral = 0
    BY <1>1, SlotsNotOpen DEF EmptySlot
<1>6. /\ margin[u] \in Nat /\ total_user_collateral \in Nat
      /\ margin[u] <= total_user_collateral
    BY TotalCoversParts
<1>7. margin'[u] = margin[u] - c /\ \A v \in Users : v # u => margin'[v] = margin[v]
    BY <1>1 DEF TypeOK
<1>. HIDE DEF fee, new
<1>8. total_user_collateral' = total_user_collateral - fee
    BY <1>1, <1>2, <1>3, <1>6 DEF SatSub
<1>9. total_user_collateral' = total_user_collateral - margin[u] + margin'[u]
               - positions[u][s].collateral + new.collateral
    BY <1>2, <1>4, <1>5, <1>6, <1>7, <1>8
<1>10. QED
    BY <1>1, <1>4, <1>7, <1>9, SlotMoves

LEMMA TotalAfterIs ==
    ASSUME TypeOK, NEW p \in Position, NEW credited \in Nat,
           p.collateral <= total_user_collateral
    PROVE  TotalAfter(p, credited) = total_user_collateral - p.collateral + credited
<1>1. p.collateral \in Nat /\ total_user_collateral \in Nat
    BY PositionFields DEF TypeOK
<1>2. QED
    BY <1>1 DEF TotalAfter, SatSub

LEMMA EmptySlotFields == EmptySlot \in Slot /\ EmptySlot.collateral = 0
BY DEF EmptySlot, Slot

(* However a position is settled, the total exchanges its collateral for   *)
(* what is credited.                                                       *)
LEMMA SettlementLedger ==
    ASSUME TypeOK, TypeOK', CollateralLedger, NEW u \in Users, NEW s \in Slots,
           NEW reward \in Nat, IsOpen(u, s), SettlePosition(u, s, reward)
    PROVE  CollateralLedger'
<1>. DEFINE p == positions[u][s]
<1>1. p \in Position
    BY OpenSlotType
<1>2. /\ margin' = [margin EXCEPT ![u] = @ + Settlement(p, reward)]
      /\ total_user_collateral' = TotalAfter(p, Settlement(p, reward))
      /\ positions' = [positions EXCEPT ![u][s] = EmptySlot]
    BY DEF SettlePosition
<1>3. Settlement(p, reward) \in Nat
    BY <1>1, SettlementTypes
<1>4. /\ margin[u] \in Nat /\ p.collateral \in Nat
      /\ total_user_collateral \in Nat
      /\ p.collateral <= total_user_collateral
    BY TotalCoversParts
<1>5. /\ margin'[u] = margin[u] + Settlement(p, reward)
      /\ \A v \in Users : v # u => margin'[v] = margin[v]
    BY <1>2 DEF TypeOK
<1>6. total_user_collateral' =
          total_user_collateral - p.collateral + Settlement(p, reward)
    BY <1>1, <1>2, <1>3, <1>4, TotalAfterIs
<1>7. total_user_collateral' = total_user_collateral - margin[u] + margin'[u]
               - p.collateral + EmptySlot.collateral
    BY <1>3, <1>4, <1>5, <1>6, EmptySlotFields
<1>8. QED
    BY <1>2, <1>5, <1>7, EmptySlotFields, SlotMoves

LEMMA LiquidateLedger ==
    ASSUME TypeOK, TypeOK', CollateralLedger, NEW u \in Users, NEW s \in Slots,
           Liquidate(u, s)
    PROVE  CollateralLedger'
<1>1. /\ margin' = margin
      /\ total_user_collateral' =
             SatSub(total_user_collateral, positions[u][s].collateral)
      /\ positions' = [positions EXCEPT ![u][s] = EmptySlot]
    BY DEF Liquidate
<1>2. /\ margin[u] \in Nat /\ positions[u][s].collateral \in Nat
      /\ total_user_collateral \in Nat
      /\ positions[u][s].collateral <= total_user_collateral
    BY TotalCoversParts
<1>3. total_user_collateral' = total_user_collateral - margin[u] + margin'[u]
               - positions[u][s].collateral + EmptySlot.collateral
    BY <1>1, <1>2, EmptySlotFields DEF SatSub
<1>4. QED
    BY <1>1, <1>3, EmptySlotFields, SlotMoves

(* A slot loses what funding takes from it, and no more than it has.       *)
LEMMA FundingTakes ==
    ASSUME TypeOK, NEW p \in Slot, NEW m \in Markets
    PROVE  AfterFunding(p, m).collateral = p.collateral - Taken(p, m)
<1>1. p.collateral \in Nat /\ Charge(p, m) \in Nat
    BY TakenNat, ChargeNat
<1>2. CASE Charge(p, m) = 0
    BY <1>1, <1>2 DEF AfterFunding, Taken, Drained
<1>3. CASE Charge(p, m) # 0 /\ Drained(p, m)
    BY <1>1, <1>3, EmptySlotFields DEF AfterFunding, Taken
<1>4. CASE Charge(p, m) # 0 /\ ~Drained(p, m)
    <2>1. p \in Position /\ p.collateral - Charge(p, m) \in Nat /\ now \in Nat
        BY <1>1, <1>4, ChargeNat DEF Drained, TypeOK
    <2>. DEFINE q == WithCollateral(p, p.collateral - Charge(p, m))
    <2>2. q \in Position /\ q.collateral = p.collateral - Charge(p, m)
        BY <2>1, WithCollateralType, WithCollateralFields
    <2>3. AfterFunding(p, m) = [q EXCEPT !.last_funding_timestamp = now]
        BY <1>4, Zenon DEF AfterFunding
    <2>. HIDE DEF q
    <2>4. [q EXCEPT !.last_funding_timestamp = now].collateral = q.collateral
        BY <2>2 DEF Position
    <2>5. QED
        BY <1>4, <2>2, <2>3, <2>4 DEF Taken
<1>5. QED
    BY <1>2, <1>3, <1>4

LEMMA SettleFundingLedger ==
    ASSUME TypeOK, TypeOK', CollateralLedger, NEW u \in Users, NEW m \in Markets,
           SettleFunding(u, m)
    PROVE  CollateralLedger'
<1>. DEFINE q == positions[u]
            r == positions'[u]
            f == [s \in Slots |-> q[s].collateral]
            g == [s \in Slots |-> Taken(q[s], m)]
            h == [s \in Slots |-> r[s].collateral]
<1>1. /\ q \in [Slots -> Slot] /\ r \in [Slots -> Slot]
      /\ r = [s \in Slots |-> AfterFunding(q[s], m)]
      /\ \A v \in Users : v # u => positions'[v] = positions[v]
      /\ margin' = margin
      /\ total_user_collateral' = SatSub(total_user_collateral, TakenSum(u, m))
    BY DEF SettleFunding, TypeOK
<1>2. MaxPositions \in Nat /\ Slots = 1..MaxPositions
    BY StateAssumption DEF Slots
<1>3. TakenSum(u, m) = Sum(g, MaxPositions)
    BY DEF TakenSum
<1>4. InSlots(q) = Sum(f, MaxPositions) /\ InSlots(r) = Sum(h, MaxPositions)
    BY DEF InSlots
<1>5. ASSUME NEW s \in Slots
      PROVE  /\ f[s] \in Nat /\ g[s] \in Nat /\ h[s] \in Nat
             /\ h[s] = f[s] - g[s]
    <2>1. q[s] \in Slot /\ r[s] = AfterFunding(q[s], m) /\ r[s] \in Slot
        BY <1>1
    <2>2. q[s].collateral \in Nat /\ Taken(q[s], m) \in Nat
        BY <2>1, TakenNat
    <2>3. r[s].collateral \in Nat
        BY <1>1, SlotCollateral
    <2>4. r[s].collateral = q[s].collateral - Taken(q[s], m)
        BY <2>1, FundingTakes
    <2>5. QED
        BY <2>2, <2>3, <2>4
<1>6. InSlots(q) \in Nat /\ InSlots(r) \in Nat
    BY <1>1, InSlotsNat
<1>. HIDE DEF f, g, h
<1>7. Sum(h, MaxPositions) = Sum(f, MaxPositions) - Sum(g, MaxPositions)
    BY <1>2, <1>5, SumDifference
<1>8. Sum(g, MaxPositions) \in Nat
    BY <1>2, <1>5, SumNat
<1>9. /\ margin[u] \in Nat /\ total_user_collateral \in Nat
      /\ margin[u] + InSlots(q) <= total_user_collateral
    BY HeldNat, TotalCovers DEF TypeOK
<1>. HIDE DEF q, r
<1>10. total_user_collateral' = total_user_collateral - TakenSum(u, m)
    BY <1>1, <1>3, <1>4, <1>6, <1>7, <1>8, <1>9 DEF SatSub
<1>11. total_user_collateral' = total_user_collateral
               - (margin[u] + InSlots(q)) + (margin'[u] + InSlots(r))
    BY <1>1, <1>3, <1>4, <1>6, <1>7, <1>8, <1>9, <1>10
<1>12. QED
    BY <1>1, <1>11, AccountMoves DEF q, r

-----------------------------------------------------------------------------
(* The invariant                                                           *)

LEMMA TradingLedger ==
    ASSUME TypeOK, TypeOK', CollateralLedger, NEW u \in Users, NEW s \in Slots,
           ClosePosition(u, s) \/ ExecuteSlTp(u, s) \/ AdminClosePosition(u, s)
    PROVE  CollateralLedger'
<1>1. CASE ClosePosition(u, s)
    <2>1. IsOpen(u, s) /\ SettlePosition(u, s, 0)
        BY <1>1 DEF ClosePosition
    <2>2. QED
        BY <2>1, 0 \in Nat, SettlementLedger
<1>2. CASE AdminClosePosition(u, s)
    <2>1. IsOpen(u, s) /\ SettlePosition(u, s, 0)
        BY <1>2 DEF AdminClosePosition
    <2>2. QED
        BY <2>1, 0 \in Nat, SettlementLedger
<1>3. CASE ExecuteSlTp(u, s)
    <2>. DEFINE reward == Bps(positions[u][s].collateral, KEEPER_REWARD_BPS)
    <2>1. IsOpen(u, s) /\ SettlePosition(u, s, reward)
        BY <1>3 DEF ExecuteSlTp
    <2>2. reward \in Nat
        <3>1. positions[u][s].collateral \in Nat
            BY TotalCoversParts
        <3>2. KEEPER_REWARD_BPS \in Nat
            BY DEF KEEPER_REWARD_BPS
        <3>3. QED
            BY <3>1, <3>2, BpsNat
    <2>. HIDE DEF reward
    <2>3. QED
        BY <2>1, <2>2, SettlementLedger
<1>4. QED
    BY <1>1, <1>2, <1>3

(* The other handlers leave the accounts and their total alone.            *)
LEMMA OthersLedger ==
    ASSUME CollateralLedger, UNCHANGED accounts
    PROVE  CollateralLedger'
BY DEF CollateralLedger, Held, accounts

LEMMA LedgerStep ==
    TypeOK /\ TypeOK' /\ CollateralLedger /\ [Next]_vars => CollateralLedger'
<1>. SUFFICES ASSUME TypeOK, TypeOK', CollateralLedger, [Next]_vars
              PROVE  CollateralLedger'
    OBVIOUS
<1>1. CASE \/ \E u \in Users, amount \in Nat : DepositCollateral(u, amount)
           \/ \E u \in Users, amount \in Nat : WithdrawCollateral(u, amount)
    BY <1>1, MarginLedger, Zenon
<1>2. CASE \E u \in Users, s \in Slots, amount \in Nat : AddMargin(u, s, amount)
    BY <1>2, AddMarginLedger
<1>3. CASE \E u \in Users, s \in Slots, amount \in Nat : RemoveMargin(u, s, amount)
    BY <1>3, RemoveMarginLedger
<1>4. CASE \E u \in Users, s \in Slots, o \in Oracles, sl, tp \in Nat :
              SetSlTp(u, s, o, sl, tp)
    BY <1>4, SetSlTpLedger
<1>5. CASE \E u \in Users : CloseMarginAccount(u)
    BY <1>5, CloseMarginAccountLedger
<1>6. CASE \E u \in Users, s \in Slots, m \in Markets, d \in Direction,
              c \in Nat, l \in Nat, sl, tp \in Nat, r \in Users \cup {0},
              withTracker \in BOOLEAN :
              OpenPosition(u, s, m, d, c, l, sl, tp, r, withTracker)
    BY <1>6, OpenPositionLedger
<1>7. CASE \/ \E u \in Users, s \in Slots : ClosePosition(u, s)
           \/ \E u \in Users, s \in Slots : ExecuteSlTp(u, s)
           \/ \E u \in Users, s \in Slots : AdminClosePosition(u, s)
    BY <1>7, TradingLedger, Zenon
<1>8. CASE \E u \in Users, s \in Slots : Liquidate(u, s)
    BY <1>8, LiquidateLedger
<1>9. CASE \E u \in Users, m \in Markets : SettleFunding(u, m)
    BY <1>9, SettleFundingLedger
<1>10. CASE \/ \E u \in Users, amount \in Nat : LpDeposit(u, amount)
            \/ \E u \in Users, n \in Nat : LpWithdraw(u, n)
            \/ \E u \in Users : ClaimFees(u)
            \/ \E amount \in Nat : WithdrawFees(amount)
            \/ \E amount \in Nat : WithdrawInsurance(amount)
            \/ \E u \in Users : RegisterReferral(u)
            \/ \E u \in Users, rate \in Nat : SetFeeShare(u, rate)
            \/ \E u \in Users : ClaimReferral(u)
    <2>1. UNCHANGED accounts
        BY <1>10 DEF LpDeposit, LpWithdraw, ClaimFees, WithdrawFees,
                     WithdrawInsurance, RegisterReferral, SetFeeShare, ClaimReferral
    <2>2. QED
        BY <2>1, OthersLedger
<1>11. CASE \/ Tick
            \/ \E price \in Nat : UpdateOracle(price)
            \/ \E m \in Markets, price \in Nat : UpdateMarketOracle(m, price)
            \/ \E m \in Markets : CheckAndPause(m)
            \/ \E new \in ParamSets, pause \in Pauses : UpdateParams(new, pause)
            \/ UNCHANGED vars
    <2>1. UNCHANGED accounts
        BY <1>11 DEF Tick, UpdateOracle, UpdateMarketOracle, CheckAndPause,
                     UpdateParams, money, vars
    <2>2. QED
        BY <2>1, OthersLedger
<1>12. QED
    <2>1. TypedStep \/ UNCHANGED vars
        BY StepsAreTyped
    <2>2. QED
        BY <2>1, <1>1, <1>2, <1>3, <1>4, <1>5, <1>6, <1>7, <1>8, <1>9, <1>10,
           <1>11, Zenon DEF TypedStep

(* The limit of every withdrawal, total_user_collateral, is exactly what   *)
(* the users' accounts hold, whatever the handlers did to them and in      *)
(* whatever order.                                                         *)
THEOREM CollateralIsCounted == Spec => []CollateralLedger
<1>1. Init => CollateralLedger
    <2>. SUFFICES ASSUME Init PROVE CollateralLedger
        OBVIOUS
    <2>1. \A u \in Users : Held(u) = 0
        <3>. SUFFICES ASSUME NEW u \in Users PROVE Held(u) = 0
            OBVIOUS
        <3>. DEFINE f == [s \in Slots |-> positions[u][s].collateral]
        <3>1. MaxPositions \in Nat /\ \A s \in 1..MaxPositions : f[s] = 0
            BY StateAssumption, EmptySlotFields DEF Init, Slots
        <3>. HIDE DEF f
        <3>2. Sum(f, MaxPositions) = 0
            BY <3>1, SumOfZeros
        <3>3. QED
            BY <3>2 DEF Held, Init, f
    <2>. DEFINE g == [u \in Users |-> Held(u)]
    <2>2. NumUsers \in Nat /\ \A u \in 1..NumUsers : g[u] = 0
        BY <2>1, StateAssumption DEF Users
    <2>. HIDE DEF g
    <2>3. Sum(g, NumUsers) = 0
        BY <2>2, SumOfZeros
    <2>4. QED
        BY <2>3 DEF CollateralLedger, Init, g
<1>2. QED
    BY <1>1, LedgerStep, TypeCorrect, PTL DEF Spec

-----------------------------------------------------------------------------
(* The interest in a group M of markets                                    *)

(* What a slot adds to the interest on side d.                             *)
Weight(p, M, d) == IF p.market \in M /\ p.direction = d THEN p.notional ELSE 0

InAccount(q, M, d) == Sum([s \in Slots |-> Weight(q[s], M, d)], MaxPositions)

InterestIn(pos, M, d) == Sum([u \in Users |-> InAccount(pos[u], M, d)], NumUsers)

(* The invariant: every counter is the interest in its group.              *)
Counted ==
    /\ \A m \in Markets, d \in Direction : oi[m][d] = InterestIn(positions, {m}, d)
    /\ \A d \in Direction : exposure[d] = InterestIn(positions, Markets, d)

AllSlots == [Users -> [Slots -> Slot]]

LEMMA EmptyWeight ==
    ASSUME NEW M, NEW d \in Direction
    PROVE  Weight(EmptySlot, M, d) = 0
BY DEF Weight, EmptySlot, Direction

LEMMA WeightNat ==
    ASSUME NEW p \in Slot, NEW M, NEW d \in Direction
    PROVE  Weight(p, M, d) \in Nat
<1>1. CASE p = EmptySlot
    BY <1>1, EmptyWeight
<1>2. CASE p \in Position
    BY <1>2, PositionFields DEF Weight
<1>3. QED
    BY <1>1, <1>2 DEF Slot

LEMMA InAccountNat ==
    ASSUME NEW q \in [Slots -> Slot], NEW M, NEW d \in Direction
    PROVE  /\ InAccount(q, M, d) \in Nat
           /\ \A s \in Slots : Weight(q[s], M, d) <= InAccount(q, M, d)
<1>. DEFINE f == [s \in Slots |-> Weight(q[s], M, d)]
<1>1. MaxPositions \in Nat /\ \A s \in 1..MaxPositions : f[s] \in Nat
    BY StateAssumption, WeightNat DEF Slots
<1>2. \A s \in Slots : f[s] = Weight(q[s], M, d)
    OBVIOUS
<1>. HIDE DEF f
<1>3. /\ Sum(f, MaxPositions) \in Nat
      /\ \A s \in 1..MaxPositions : f[s] <= Sum(f, MaxPositions)
    BY <1>1, SumNat
<1>4. InAccount(q, M, d) = Sum(f, MaxPositions)
    BY DEF InAccount, f
<1>5. QED
    BY <1>2, <1>3, <1>4 DEF Slots

LEMMA InterestNat ==
    ASSUME NEW pos \in AllSlots, NEW M, NEW d \in Direction
    PROVE  /\ InterestIn(pos, M, d) \in Nat
           /\ \A u \in Users : InAccount(pos[u], M, d) <= InterestIn(pos, M, d)
<1>. DEFINE f == [u \in Users |-> InAccount(pos[u], M, d)]
<1>0. \A u \in Users : InAccount(pos[u], M, d) \in Nat
    BY InAccountNat DEF AllSlots
<1>1. NumUsers \in Nat /\ \A u \in 1..NumUsers : f[u] \in Nat
    BY <1>0, StateAssumption DEF Users
<1>2. \A u \in Users : f[u] = InAccount(pos[u], M, d)
    OBVIOUS
<1>. HIDE DEF f
<1>3. /\ Sum(f, NumUsers) \in Nat
      /\ \A u \in 1..NumUsers : f[u] <= Sum(f, NumUsers)
    BY <1>1, SumNat
<1>4. InterestIn(pos, M, d) = Sum(f, NumUsers)
    BY DEF InterestIn, f
<1>5. QED
    BY <1>2, <1>3, <1>4 DEF Users

(* The interest covers every single position.                              *)
LEMMA InterestCovers ==
    ASSUME NEW pos \in AllSlots, NEW M, NEW d \in Direction,
           NEW u \in Users, NEW s \in Slots
    PROVE  /\ Weight(pos[u][s], M, d) \in Nat
           /\ InterestIn(pos, M, d) \in Nat
           /\ Weight(pos[u][s], M, d) <= InterestIn(pos, M, d)
<1>1. pos[u] \in [Slots -> Slot] /\ pos[u][s] \in Slot
    BY DEF AllSlots
<1>2. Weight(pos[u][s], M, d) \in Nat
    BY <1>1, WeightNat
<1>3. /\ InAccount(pos[u], M, d) \in Nat
      /\ Weight(pos[u][s], M, d) <= InAccount(pos[u], M, d)
    BY <1>1, InAccountNat
<1>4. /\ InterestIn(pos, M, d) \in Nat
      /\ InAccount(pos[u], M, d) <= InterestIn(pos, M, d)
    BY InterestNat
<1>5. QED
    BY <1>2, <1>3, <1>4

(* One account changes.                                                    *)
LEMMA AccountInterest ==
    ASSUME NEW pos \in AllSlots, NEW new \in AllSlots, NEW u \in Users,
           \A v \in Users : v # u => new[v] = pos[v],
           NEW M, NEW d \in Direction
    PROVE  InterestIn(new, M, d) =
               InterestIn(pos, M, d) - InAccount(pos[u], M, d)
                                     + InAccount(new[u], M, d)
<1>. DEFINE f == [v \in Users |-> InAccount(pos[v], M, d)]
            g == [v \in Users |-> InAccount(new[v], M, d)]
<1>0. \A v \in Users : /\ InAccount(pos[v], M, d) \in Nat
                       /\ InAccount(new[v], M, d) \in Nat
    BY InAccountNat DEF AllSlots
<1>1. /\ NumUsers \in Nat /\ u \in 1..NumUsers
      /\ \A v \in 1..NumUsers : f[v] \in Nat /\ g[v] \in Nat
    BY <1>0, StateAssumption DEF Users
<1>2. \A v \in 1..NumUsers : v # u => g[v] = f[v]
    BY DEF Users
<1>3. f[u] = InAccount(pos[u], M, d) /\ g[u] = InAccount(new[u], M, d)
    OBVIOUS
<1>. HIDE DEF f, g
<1>4. Sum(g, NumUsers) = Sum(f, NumUsers) - f[u] + g[u]
    BY <1>1, <1>2, SumUpdate
<1>5. /\ InterestIn(pos, M, d) = Sum(f, NumUsers)
      /\ InterestIn(new, M, d) = Sum(g, NumUsers)
    BY DEF InterestIn, f, g
<1>6. QED
    BY <1>3, <1>4, <1>5

(* One slot is rewritten.                                                  *)
LEMMA SlotInterest ==
    ASSUME NEW pos \in AllSlots, NEW u \in Users, NEW s \in Slots, NEW p \in Slot,
           NEW M, NEW d \in Direction
    PROVE  InterestIn([pos EXCEPT ![u][s] = p], M, d) =
               InterestIn(pos, M, d) - Weight(pos[u][s], M, d) + Weight(p, M, d)
<1>. DEFINE q   == pos[u]
            new == [pos EXCEPT ![u][s] = p]
            f   == [t \in Slots |-> Weight(q[t], M, d)]
            g   == [t \in Slots |-> Weight(new[u][t], M, d)]
<1>1. /\ new \in AllSlots
      /\ \A v \in Users : v # u => new[v] = pos[v]
      /\ new[u] \in [Slots -> Slot] /\ q \in [Slots -> Slot]
      /\ new[u][s] = p /\ \A t \in Slots : t # s => new[u][t] = q[t]
    BY DEF AllSlots
<1>. HIDE DEF new, q
<1>2. /\ MaxPositions \in Nat /\ s \in 1..MaxPositions
      /\ \A t \in 1..MaxPositions : f[t] \in Nat /\ g[t] \in Nat
    <2>1. \A t \in Slots : /\ Weight(q[t], M, d) \in Nat
                           /\ Weight(new[u][t], M, d) \in Nat
        BY <1>1, WeightNat
    <2>2. QED
        BY <2>1, StateAssumption DEF Slots
<1>3. \A t \in 1..MaxPositions : t # s => g[t] = f[t]
    BY <1>1 DEF Slots
<1>4. f[s] = Weight(q[s], M, d) /\ g[s] = Weight(p, M, d)
    BY <1>1
<1>. HIDE DEF f, g
<1>5. Sum(g, MaxPositions) = Sum(f, MaxPositions) - f[s] + g[s]
    BY <1>2, <1>3, SumUpdate
<1>6. /\ InAccount(q, M, d) = Sum(f, MaxPositions)
      /\ InAccount(new[u], M, d) = Sum(g, MaxPositions)
    BY DEF InAccount, f, g
<1>7. /\ InAccount(q, M, d) \in Nat /\ InAccount(new[u], M, d) \in Nat
      /\ f[s] \in Nat /\ g[s] \in Nat
    BY <1>1, <1>2, InAccountNat
<1>8. InterestIn(new, M, d) =
          InterestIn(pos, M, d) - InAccount(q, M, d) + InAccount(new[u], M, d)
    BY <1>1, AccountInterest DEF q
<1>9. InterestIn(pos, M, d) \in Nat
    BY InterestNat
<1>10. InterestIn(new, M, d) =
           InterestIn(pos, M, d) - Weight(q[s], M, d) + Weight(p, M, d)
    BY <1>4, <1>5, <1>6, <1>7, <1>8, <1>9
<1>11. QED
    BY <1>10 DEF new, q

-----------------------------------------------------------------------------
(* Steps that rewrite one slot                                             *)

LEMMA TypedPositions ==
    ASSUME TypeOK
    PROVE  positions \in AllSlots
BY DEF TypeOK, AllSlots

LEMMA PositionWeight ==
    ASSUME NEW p \in Position, NEW d \in Direction
    PROVE  /\ \A m \in Markets :
                 Weight(p, {m}, d) =
                     IF p.market = m /\ p.direction = d THEN p.notional ELSE 0
           /\ Weight(p, Markets, d) =
                     IF p.direction = d THEN p.notional ELSE 0
BY PositionFields DEF Weight

(* The other handlers leave the positions and the counters alone.          *)
LEMMA OthersCounted ==
    ASSUME Counted, positions' = positions, oi' = oi, exposure' = exposure
    PROVE  Counted'
BY DEF Counted

(* A position that keeps its market, side and size.                        *)
LEMMA KeepsCounted ==
    ASSUME TypeOK, Counted, NEW u \in Users, NEW s \in Slots, NEW p \in Slot,
           p.market = positions[u][s].market,
           p.direction = positions[u][s].direction,
           p.notional = positions[u][s].notional,
           positions' = [positions EXCEPT ![u][s] = p],
           oi' = oi, exposure' = exposure
    PROVE  Counted'
<1>1. ASSUME NEW M, NEW d \in Direction
      PROVE  InterestIn(positions', M, d) = InterestIn(positions, M, d)
    <2>1. Weight(p, M, d) = Weight(positions[u][s], M, d)
        BY DEF Weight
    <2>2. /\ Weight(positions[u][s], M, d) \in Nat
          /\ InterestIn(positions, M, d) \in Nat
        BY TypedPositions, InterestCovers
    <2>3. InterestIn(positions', M, d) = InterestIn(positions, M, d)
              - Weight(positions[u][s], M, d) + Weight(p, M, d)
        BY TypedPositions, SlotInterest, ZenonT(60)
    <2>4. QED
        BY <2>1, <2>2, <2>3
<1>2. QED
    BY <1>1 DEF Counted

(* A position that leaves takes its notional off both counters.            *)
LEMMA DropCounted ==
    ASSUME TypeOK, Counted, NEW u \in Users, NEW s \in Slots, IsOpen(u, s),
           positions' = [positions EXCEPT ![u][s] = EmptySlot],
           DropInterest(positions[u][s])
    PROVE  Counted'
<1>. DEFINE p == positions[u][s]
<1>1. /\ p \in Position /\ p.notional \in Nat
      /\ p.market \in Markets /\ p.direction \in Direction
    BY OpenSlotType, PositionFields
<1>2. ASSUME NEW M, NEW d \in Direction
      PROVE  /\ Weight(p, M, d) \in Nat
             /\ InterestIn(positions, M, d) \in Nat
             /\ Weight(p, M, d) <= InterestIn(positions, M, d)
             /\ InterestIn(positions', M, d) =
                    InterestIn(positions, M, d) - Weight(p, M, d)
    <2>1. /\ Weight(p, M, d) \in Nat
          /\ InterestIn(positions, M, d) \in Nat
          /\ Weight(p, M, d) <= InterestIn(positions, M, d)
        BY TypedPositions, InterestCovers
    <2>2. Weight(EmptySlot, M, d) = 0
        BY EmptyWeight
    <2>3. InterestIn(positions', M, d) =
              InterestIn(positions, M, d) - Weight(p, M, d)
                                          + Weight(EmptySlot, M, d)
        BY TypedPositions, EmptySlotFields, SlotInterest, ZenonT(60)
    <2>4. QED
        BY <2>1, <2>2, <2>3
<1>3. ASSUME NEW m \in Markets, NEW d \in Direction
      PROVE  oi'[m][d] = InterestIn(positions', {m}, d)
    <2>1. oi[m][d] = InterestIn(positions, {m}, d)
        BY DEF Counted
    <2>2. Weight(p, {m}, d) =
              IF p.market = m /\ p.direction = d THEN p.notional ELSE 0
        BY <1>1, PositionWeight
    <2>3. oi'[m][d] = IF p.market = m /\ p.direction = d
                      THEN SatSub(oi[m][d], p.notional) ELSE oi[m][d]
        BY <1>1 DEF DropInterest, TypeOK
    <2>4. /\ InterestIn(positions, {m}, d) \in Nat
          /\ Weight(p, {m}, d) <= InterestIn(positions, {m}, d)
          /\ InterestIn(positions', {m}, d) =
                 InterestIn(positions, {m}, d) - Weight(p, {m}, d)
        BY <1>2
    <2>. HIDE DEF p
    <2>5. QED
        BY <1>1, <2>1, <2>2, <2>3, <2>4 DEF SatSub
<1>4. ASSUME NEW d \in Direction
      PROVE  exposure'[d] = InterestIn(positions', Markets, d)
    <2>1. exposure[d] = InterestIn(positions, Markets, d)
        BY DEF Counted
    <2>2. Weight(p, Markets, d) = IF p.direction = d THEN p.notional ELSE 0
        BY <1>1, PositionWeight
    <2>3. exposure'[d] = IF p.direction = d
                         THEN SatSub(exposure[d], p.notional) ELSE exposure[d]
        BY <1>1 DEF DropInterest, TypeOK
    <2>4. /\ InterestIn(positions, Markets, d) \in Nat
          /\ Weight(p, Markets, d) <= InterestIn(positions, Markets, d)
          /\ InterestIn(positions', Markets, d) =
                 InterestIn(positions, Markets, d) - Weight(p, Markets, d)
        BY <1>2
    <2>. HIDE DEF p
    <2>5. QED
        BY <1>1, <2>1, <2>2, <2>3, <2>4 DEF SatSub
<1>5. QED
    BY <1>3, <1>4 DEF Counted

(* The reverse: a position that arrives in an empty slot.                  *)
LEMMA OpenPositionCounted ==
    ASSUME TypeOK, TypeOK', Counted,
           NEW u \in Users, NEW s \in Slots, NEW m \in Markets, NEW dir \in Direction,
           NEW c \in Nat, NEW l \in Nat, NEW sl \in Nat, NEW tp \in Nat,
           NEW r \in Users \cup {0}, NEW withTracker \in BOOLEAN,
           OpenPosition(u, s, m, dir, c, l, sl, tp, r, withTracker)
    PROVE  Counted'
<1>. DEFINE net == c - Bps(c, params.fee_bps)
            n   == net * l
            new == [direction |-> dir, market |-> m, collateral |-> net,
                    notional |-> n, entry_price |-> oracle[m].price,
                    last_funding_timestamp |-> now,
                    sl_price |-> sl, tp_price |-> tp]
<1>1. /\ ~IsOpen(u, s)
      /\ positions' = [positions EXCEPT ![u][s] = new]
      /\ oi' = [oi EXCEPT ![m][dir] = @ + n]
      /\ exposure' = [exposure EXCEPT ![dir] = @ + n]
    BY DEF OpenPosition, FirstOpenSlot
<1>2. new \in Slot
    <2>1. new = positions'[u][s] /\ positions'[u][s] \in Slot
        BY <1>1 DEF TypeOK
    <2>2. QED
        BY <2>1
<1>3. n \in Nat
    <2>1. Bps(c, params.fee_bps) \in Nat /\ Bps(c, params.fee_bps) <= c
        BY ShareType
    <2>2. net \in Nat
        BY <2>1
    <2>. HIDE DEF net
    <2>3. QED
        BY <2>2, ProductNat
<1>. HIDE DEF n
<1>4. ASSUME NEW M, NEW d \in Direction
      PROVE  /\ InterestIn(positions, M, d) \in Nat
             /\ InterestIn(positions', M, d) = InterestIn(positions, M, d)
                    + (IF m \in M /\ dir = d THEN n ELSE 0)
    <2>1. InterestIn(positions, M, d) \in Nat
        BY TypedPositions, InterestNat
    <2>2. Weight(positions[u][s], M, d) = 0
        BY <1>1, SlotsNotOpen, EmptyWeight
    <2>3. Weight(new, M, d) = IF m \in M /\ dir = d THEN n ELSE 0
        BY DEF Weight
    <2>. HIDE DEF new
    <2>4. InterestIn([positions EXCEPT ![u][s] = new], M, d) =
              InterestIn(positions, M, d) - Weight(positions[u][s], M, d)
                                          + Weight(new, M, d)
        BY <1>2, TypedPositions, SlotInterest
    <2>5. InterestIn(positions', M, d) = InterestIn(positions, M, d)
              - Weight(positions[u][s], M, d) + Weight(new, M, d)
        BY <1>1, <2>4, Zenon
    <2>6. QED
        BY <1>3, <2>1, <2>2, <2>3, <2>5
<1>. HIDE DEF new
<1>5. ASSUME NEW m2 \in Markets, NEW d \in Direction
      PROVE  oi'[m2][d] = InterestIn(positions', {m2}, d)
    <2>1. oi[m2][d] = InterestIn(positions, {m2}, d)
        BY DEF Counted
    <2>2. oi'[m2][d] = oi[m2][d] + (IF m \in {m2} /\ dir = d THEN n ELSE 0)
        BY <1>1, <1>3 DEF TypeOK
    <2>3. QED
        BY <1>4, <2>1, <2>2
<1>6. ASSUME NEW d \in Direction
      PROVE  exposure'[d] = InterestIn(positions', Markets, d)
    <2>1. exposure[d] = InterestIn(positions, Markets, d)
        BY DEF Counted
    <2>2. exposure'[d] = exposure[d] + (IF m \in Markets /\ dir = d THEN n ELSE 0)
        BY <1>1, <1>3 DEF TypeOK
    <2>3. QED
        BY <1>4, <2>1, <2>2
<1>7. QED
    BY <1>5, <1>6 DEF Counted

LEMMA AccountCounted ==
    ASSUME TypeOK, Counted, NEW u \in Users, NEW s \in Slots, NEW amount \in Nat,
           AddMargin(u, s, amount) \/ RemoveMargin(u, s, amount)
    PROVE  Counted'
<1>. DEFINE p == positions[u][s]
<1>1. PICK a \in Nat : /\ positions' = [positions EXCEPT ![u][s] = WithCollateral(p, a)]
                       /\ p \in Position /\ oi' = oi /\ exposure' = exposure
    <2>1. p \in Position /\ p.collateral \in Nat
        BY OpenSlotType, PositionFields DEF AddMargin, RemoveMargin
    <2>2. CASE AddMargin(u, s, amount)
        <3>1. p.collateral + amount \in Nat
            BY <2>1
        <3>2. /\ positions' = [positions EXCEPT
                      ![u][s] = WithCollateral(p, p.collateral + amount)]
              /\ oi' = oi /\ exposure' = exposure
            BY <2>2 DEF AddMargin, interest
        <3>3. QED
            BY <2>1, <3>1, <3>2, Zenon
    <2>3. CASE RemoveMargin(u, s, amount)
        <3>1. p.collateral - amount \in Nat
            BY <2>1, <2>3 DEF RemoveMargin
        <3>2. /\ positions' = [positions EXCEPT
                      ![u][s] = WithCollateral(p, p.collateral - amount)]
              /\ oi' = oi /\ exposure' = exposure
            BY <2>3 DEF RemoveMargin, interest
        <3>3. QED
            BY <2>1, <3>1, <3>2, Zenon
    <2>4. QED
        BY <2>2, <2>3
<1>. DEFINE new == WithCollateral(p, a)
<1>2. /\ new \in Slot /\ new.market = p.market
      /\ new.direction = p.direction /\ new.notional = p.notional
    BY <1>1, WithCollateralFields DEF WithCollateral, Position
<1>. HIDE DEF new
<1>3. positions' = [positions EXCEPT ![u][s] = new]
    BY <1>1 DEF new
<1>4. QED
    BY <1>1, <1>2, <1>3, KeepsCounted

LEMMA SetSlTpCounted ==
    ASSUME TypeOK, Counted, NEW u \in Users, NEW s \in Slots,
           NEW o \in Oracles, NEW sl \in Nat, NEW tp \in Nat,
           SetSlTp(u, s, o, sl, tp)
    PROVE  Counted'
<1>. DEFINE p   == positions[u][s]
            new == WithTriggers(p, sl, tp)
<1>1. p \in Position
    BY OpenSlotType DEF SetSlTp
<1>2. /\ new.market = p.market
      /\ new.direction = p.direction /\ new.notional = p.notional
    BY <1>1 DEF WithTriggers, Position
<1>3. new \in Slot
    BY <1>1, WithTriggersType DEF Slot
<1>4. /\ positions' = [positions EXCEPT ![u][s] = new]
      /\ oi' = oi /\ exposure' = exposure
    BY DEF SetSlTp, interest
<1>. HIDE DEF new
<1>5. QED
    BY <1>2, <1>3, <1>4, KeepsCounted

-----------------------------------------------------------------------------
(* Funding, which rewrites every slot of an account                        *)

(* A slot loses its weight in a group with the market when funding drains  *)
(* it, and keeps it otherwise.                                             *)
LEMMA FundingWeight ==
    ASSUME TypeOK, NEW p \in Slot, NEW m \in Markets, NEW M, NEW d \in Direction
    PROVE  Weight(AfterFunding(p, m), M, d) =
               Weight(p, M, d) - (IF m \in M THEN DrainedNotional(p, m, d) ELSE 0)
<1>1. p.collateral \in Nat /\ Charge(p, m) \in Nat /\ Weight(p, M, d) \in Nat
    BY TakenNat, ChargeNat, WeightNat
<1>2. CASE Charge(p, m) = 0
    <2>1. DrainedNotional(p, m, d) = 0 /\ AfterFunding(p, m) = p
        BY <1>1, <1>2 DEF DrainedNotional, Drained, AfterFunding
    <2>2. QED
        BY <1>1, <2>1
<1>3. CASE Charge(p, m) # 0 /\ Drained(p, m)
    <2>1. p.market = m /\ p \in Position /\ p.notional \in Nat
        <3>1. p.direction # "none" /\ p.market = m
            BY <1>3 DEF Charge, Chargeable
        <3>2. p \in Position
            BY <3>1 DEF Slot, EmptySlot
        <3>3. QED
            BY <3>1, <3>2, PositionFields
    <2>2. Weight(AfterFunding(p, m), M, d) = 0
        BY <1>3, EmptyWeight DEF AfterFunding
    <2>3. Weight(p, M, d) = IF m \in M THEN DrainedNotional(p, m, d) ELSE 0
        BY <1>3, <2>1 DEF Weight, DrainedNotional
    <2>4. QED
        BY <1>1, <2>2, <2>3
<1>4. CASE Charge(p, m) # 0 /\ ~Drained(p, m)
    <2>1. p \in Position /\ p.collateral - Charge(p, m) \in Nat /\ now \in Nat
        BY <1>1, <1>4, ChargeNat DEF Drained, TypeOK
    <2>. DEFINE q == WithCollateral(p, p.collateral - Charge(p, m))
    <2>2. /\ q \in Position /\ q.market = p.market
          /\ q.direction = p.direction /\ q.notional = p.notional
        BY <2>1, WithCollateralType DEF WithCollateral, Position
    <2>3. AfterFunding(p, m) = [q EXCEPT !.last_funding_timestamp = now]
        BY <1>4, Zenon DEF AfterFunding
    <2>. HIDE DEF q
    <2>4. /\ AfterFunding(p, m).market = p.market
          /\ AfterFunding(p, m).direction = p.direction
          /\ AfterFunding(p, m).notional = p.notional
        BY <2>2, <2>3 DEF Position
    <2>5. Weight(AfterFunding(p, m), M, d) = Weight(p, M, d)
        BY <2>4 DEF Weight
    <2>6. DrainedNotional(p, m, d) = 0
        BY <1>4 DEF DrainedNotional
    <2>7. QED
        BY <1>1, <2>5, <2>6
<1>5. QED
    BY <1>2, <1>3, <1>4

(* What the interest in a group loses to the funding of one account, and   *)
(* that it is there to lose.                                               *)
LEMMA FundingInterest ==
    ASSUME TypeOK, TypeOK', NEW u \in Users, NEW m \in Markets,
           SettleFunding(u, m), NEW M, NEW d \in Direction
    PROVE  /\ InterestIn(positions, M, d) \in Nat
           /\ m \in M => /\ DrainedSum(u, m, d) \in Nat
                         /\ DrainedSum(u, m, d) <= InterestIn(positions, M, d)
           /\ InterestIn(positions', M, d) = InterestIn(positions, M, d)
                  - (IF m \in M THEN DrainedSum(u, m, d) ELSE 0)
<1>. DEFINE q == positions[u]
            r == positions'[u]
            f == [s \in Slots |-> Weight(q[s], M, d)]
            g == [s \in Slots |-> DrainedNotional(q[s], m, d)]
            h == [s \in Slots |-> Weight(r[s], M, d)]
<1>1. /\ q \in [Slots -> Slot] /\ r \in [Slots -> Slot]
      /\ r = [s \in Slots |-> AfterFunding(q[s], m)]
      /\ \A v \in Users : v # u => positions'[v] = positions[v]
      /\ positions \in AllSlots /\ positions' \in AllSlots
    BY DEF SettleFunding, TypeOK, AllSlots
<1>2. MaxPositions \in Nat /\ Slots = 1..MaxPositions
    BY StateAssumption DEF Slots
<1>3. /\ InAccount(q, M, d) = Sum(f, MaxPositions)
      /\ InAccount(r, M, d) = Sum(h, MaxPositions)
      /\ DrainedSum(u, m, d) = Sum(g, MaxPositions)
    BY DEF InAccount, DrainedSum
<1>4. ASSUME NEW s \in Slots
      PROVE  /\ f[s] \in Nat /\ g[s] \in Nat /\ h[s] \in Nat
             /\ h[s] = f[s] - (IF m \in M THEN g[s] ELSE 0)
    <2>1. q[s] \in Slot /\ r[s] = AfterFunding(q[s], m) /\ r[s] \in Slot
        BY <1>1
    <2>2. /\ Weight(q[s], M, d) \in Nat /\ Weight(r[s], M, d) \in Nat
          /\ DrainedNotional(q[s], m, d) \in Nat
        BY <2>1, WeightNat, CutsNat
    <2>3. Weight(r[s], M, d) = Weight(q[s], M, d)
              - (IF m \in M THEN DrainedNotional(q[s], m, d) ELSE 0)
        BY <2>1, FundingWeight
    <2>4. QED
        BY <2>2, <2>3
<1>5. /\ InAccount(q, M, d) \in Nat /\ InAccount(r, M, d) \in Nat
      /\ InterestIn(positions, M, d) \in Nat
      /\ InAccount(q, M, d) <= InterestIn(positions, M, d)
    BY <1>1, InAccountNat, InterestNat
<1>6. InterestIn(positions', M, d) = InterestIn(positions, M, d)
          - InAccount(q, M, d) + InAccount(r, M, d)
    BY <1>1, AccountInterest
<1>. HIDE DEF f, g, h, q, r
<1>7. CASE m \in M
    <2>1. Sum(h, MaxPositions) = Sum(f, MaxPositions) - Sum(g, MaxPositions)
        BY <1>2, <1>4, <1>7, SumDifference
    <2>2. Sum(g, MaxPositions) \in Nat
        BY <1>2, <1>4, SumNat
    <2>3. QED
        BY <1>3, <1>5, <1>6, <1>7, <2>1, <2>2
<1>8. CASE m \notin M
    <2>1. Sum(h, MaxPositions) = Sum(f, MaxPositions)
        <3>1. \A s \in 1..MaxPositions : h[s] = f[s]
            BY <1>2, <1>4, <1>8
        <3>2. QED
            BY <1>2, <3>1, SumEqual
    <2>2. QED
        BY <1>3, <1>5, <1>6, <1>8, <2>1
<1>9. QED
    BY <1>7, <1>8

LEMMA SettleFundingCounted ==
    ASSUME TypeOK, TypeOK', Counted, NEW u \in Users, NEW m \in Markets,
           SettleFunding(u, m)
    PROVE  Counted'
<1>1. ASSUME NEW m2 \in Markets, NEW d \in Direction
      PROVE  oi'[m2][d] = InterestIn(positions', {m2}, d)
    <2>1. oi[m2][d] = InterestIn(positions, {m2}, d)
        BY DEF Counted
    <2>2. oi'[m2][d] = IF m2 = m THEN SatSub(oi[m2][d], DrainedSum(u, m, d))
                                 ELSE oi[m2][d]
        BY DEF SettleFunding, TypeOK
    <2>3. /\ InterestIn(positions, {m2}, d) \in Nat
          /\ m \in {m2} => /\ DrainedSum(u, m, d) \in Nat
                           /\ DrainedSum(u, m, d) <= InterestIn(positions, {m2}, d)
          /\ InterestIn(positions', {m2}, d) = InterestIn(positions, {m2}, d)
                 - (IF m \in {m2} THEN DrainedSum(u, m, d) ELSE 0)
        BY FundingInterest
    <2>4. QED
        BY <2>1, <2>2, <2>3 DEF SatSub
<1>2. ASSUME NEW d \in Direction
      PROVE  exposure'[d] = InterestIn(positions', Markets, d)
    <2>1. exposure[d] = InterestIn(positions, Markets, d)
        BY DEF Counted
    <2>2. exposure'[d] = SatSub(exposure[d], DrainedSum(u, m, d))
        BY DEF SettleFunding
    <2>3. /\ InterestIn(positions, Markets, d) \in Nat
          /\ m \in Markets => /\ DrainedSum(u, m, d) \in Nat
                              /\ DrainedSum(u, m, d) <=
                                     InterestIn(positions, Markets, d)
          /\ InterestIn(positions', Markets, d) =
                 InterestIn(positions, Markets, d)
                 - (IF m \in Markets THEN DrainedSum(u, m, d) ELSE 0)
        BY FundingInterest
    <2>4. QED
        BY <2>1, <2>2, <2>3 DEF SatSub
<1>3. QED
    BY <1>1, <1>2 DEF Counted

-----------------------------------------------------------------------------
(* The invariant                                                           *)

(* The three ways of settling a position, and liquidation.                 *)
LEMMA ClosingCounted ==
    ASSUME TypeOK, Counted, NEW u \in Users, NEW s \in Slots,
           \/ ClosePosition(u, s) \/ ExecuteSlTp(u, s)
           \/ AdminClosePosition(u, s) \/ Liquidate(u, s)
    PROVE  Counted'
<1>1. /\ IsOpen(u, s) /\ DropInterest(positions[u][s])
      /\ positions' = [positions EXCEPT ![u][s] = EmptySlot]
    BY DEF ClosePosition, ExecuteSlTp, AdminClosePosition, SettlePosition, Liquidate
<1>2. QED
    BY <1>1, DropCounted

(* An account is deleted when its slots are empty already.                 *)
LEMMA CloseMarginAccountCounted ==
    ASSUME TypeOK, Counted, NEW u \in Users, CloseMarginAccount(u)
    PROVE  Counted'
<1>1. positions[u] = [s \in Slots |-> EmptySlot]
    <2>1. positions[u] \in [Slots -> Slot]
        BY DEF TypeOK
    <2>2. \A s \in Slots : positions[u][s] = EmptySlot
        BY SlotsNotOpen DEF CloseMarginAccount
    <2>3. QED
        BY <2>1, <2>2
<1>2. positions' = positions /\ oi' = oi /\ exposure' = exposure
    BY <1>1 DEF CloseMarginAccount, TypeOK, interest
<1>3. QED
    BY <1>2, OthersCounted

LEMMA CountedStep ==
    TypeOK /\ TypeOK' /\ Counted /\ [Next]_vars => Counted'
<1>. SUFFICES ASSUME TypeOK, TypeOK', Counted, [Next]_vars
              PROVE  Counted'
    OBVIOUS
<1>1. CASE \/ \E u \in Users, s \in Slots, amount \in Nat : AddMargin(u, s, amount)
           \/ \E u \in Users, s \in Slots, amount \in Nat : RemoveMargin(u, s, amount)
    BY <1>1, AccountCounted, Zenon
<1>2. CASE \E u \in Users, s \in Slots, o \in Oracles, sl, tp \in Nat :
              SetSlTp(u, s, o, sl, tp)
    BY <1>2, SetSlTpCounted
<1>3. CASE \E u \in Users : CloseMarginAccount(u)
    BY <1>3, CloseMarginAccountCounted
<1>4. CASE \E u \in Users, s \in Slots, m \in Markets, d \in Direction,
              c \in Nat, l \in Nat, sl, tp \in Nat, r \in Users \cup {0},
              withTracker \in BOOLEAN :
              OpenPosition(u, s, m, d, c, l, sl, tp, r, withTracker)
    BY <1>4, OpenPositionCounted
<1>5. CASE \/ \E u \in Users, s \in Slots : ClosePosition(u, s)
           \/ \E u \in Users, s \in Slots : ExecuteSlTp(u, s)
           \/ \E u \in Users, s \in Slots : AdminClosePosition(u, s)
           \/ \E u \in Users, s \in Slots : Liquidate(u, s)
    BY <1>5, ClosingCounted, Zenon
<1>6. CASE \E u \in Users, m \in Markets : SettleFunding(u, m)
    BY <1>6, SettleFundingCounted
<1>7. CASE \/ \E u \in Users, amount \in Nat : DepositCollateral(u, amount)
           \/ \E u \in Users, amount \in Nat : WithdrawCollateral(u, amount)
           \/ \E u \in Users, amount \in Nat : LpDeposit(u, amount)
           \/ \E u \in Users, n \in Nat : LpWithdraw(u, n)
           \/ \E u \in Users : ClaimFees(u)
           \/ \E amount \in Nat : WithdrawFees(amount)
           \/ \E amount \in Nat : WithdrawInsurance(amount)
           \/ \E u \in Users : RegisterReferral(u)
           \/ \E u \in Users, rate \in Nat : SetFeeShare(u, rate)
           \/ \E u \in Users : ClaimReferral(u)
    <2>1. positions' = positions /\ oi' = oi /\ exposure' = exposure
        BY <1>7 DEF DepositCollateral, WithdrawCollateral, LpDeposit, LpWithdraw,
                    ClaimFees, WithdrawFees, WithdrawInsurance, RegisterReferral,
                    SetFeeShare, ClaimReferral, accounts, interest
    <2>2. QED
        BY <2>1, OthersCounted
<1>8. CASE \/ Tick
           \/ \E price \in Nat : UpdateOracle(price)
           \/ \E m \in Markets, price \in Nat : UpdateMarketOracle(m, price)
           \/ \E m \in Markets : CheckAndPause(m)
           \/ \E new \in ParamSets, pause \in Pauses : UpdateParams(new, pause)
           \/ UNCHANGED vars
    <2>1. positions' = positions /\ oi' = oi /\ exposure' = exposure
        BY <1>8 DEF Tick, UpdateOracle, UpdateMarketOracle, CheckAndPause,
                    UpdateParams, money, vars, accounts, interest
    <2>2. QED
        BY <2>1, OthersCounted
<1>9. QED
    <2>1. TypedStep \/ UNCHANGED vars
        BY StepsAreTyped
    <2>2. QED
        BY <2>1, <1>1, <1>2, <1>3, <1>4, <1>5, <1>6, <1>7, <1>8,
           Zenon DEF TypedStep

LEMMA InitCounted == Init => Counted
<1>. SUFFICES ASSUME Init PROVE Counted
    OBVIOUS
<1>1. ASSUME NEW M, NEW d \in Direction PROVE InterestIn(positions, M, d) = 0
    <2>1. \A u \in Users : InAccount(positions[u], M, d) = 0
        <3>. SUFFICES ASSUME NEW u \in Users PROVE InAccount(positions[u], M, d) = 0
            OBVIOUS
        <3>. DEFINE f == [s \in Slots |-> Weight(positions[u][s], M, d)]
        <3>1. MaxPositions \in Nat /\ \A s \in 1..MaxPositions : f[s] = 0
            BY StateAssumption, EmptyWeight DEF Init, Slots
        <3>. HIDE DEF f
        <3>2. Sum(f, MaxPositions) = 0
            BY <3>1, SumOfZeros
        <3>3. QED
            BY <3>2 DEF InAccount, f
    <2>. DEFINE g == [u \in Users |-> InAccount(positions[u], M, d)]
    <2>2. NumUsers \in Nat /\ \A u \in 1..NumUsers : g[u] = 0
        BY <2>1, StateAssumption DEF Users
    <2>. HIDE DEF g
    <2>3. Sum(g, NumUsers) = 0
        BY <2>2, SumOfZeros
    <2>4. QED
        BY <2>3 DEF InterestIn, g
<1>2. QED
    BY <1>1 DEF Counted, Init

(* The invariant of the runs, which spells the sums out, is this one.      *)
LEMMA CountedIsLedger == TypeOK /\ Counted => InterestLedger
<1>. SUFFICES ASSUME TypeOK, Counted PROVE InterestLedger
    OBVIOUS
<1>1. ASSUME NEW m \in Markets, NEW d \in Direction
      PROVE  oi[m][d] = NotionalIn(m, d)
    <2>1. \A u \in Users : NotionalOf(u, m, d) = InAccount(positions[u], {m}, d)
        BY DEF NotionalOf, InAccount, Weight
    <2>2. NotionalIn(m, d) = InterestIn(positions, {m}, d)
        BY <2>1 DEF NotionalIn, InterestIn
    <2>3. QED
        BY <2>2 DEF Counted
<1>2. ASSUME NEW d \in Direction
      PROVE  exposure[d] = Sum([u \in Users |->
                 Sum([s \in Slots |-> IF positions[u][s].direction = d
                                      THEN positions[u][s].notional ELSE 0],
                     MaxPositions)], NumUsers)
    <2>. DEFINE f(u) == [s \in Slots |-> Weight(positions[u][s], Markets, d)]
                g(u) == [s \in Slots |-> IF positions[u][s].direction = d
                                         THEN positions[u][s].notional ELSE 0]
    <2>1. \A u \in Users : f(u) = g(u)
        <3>1. ASSUME NEW p \in Slot
              PROVE  Weight(p, Markets, d) =
                         IF p.direction = d THEN p.notional ELSE 0
            <4>1. CASE p = EmptySlot
                BY <4>1 DEF Weight, EmptySlot, Direction
            <4>2. CASE p \in Position
                BY <4>2, PositionWeight
            <4>3. QED
                BY <3>1, <4>1, <4>2 DEF Slot
        <3>2. QED
            BY <3>1, SlotType
    <2>2. InterestIn(positions, Markets, d) =
              Sum([u \in Users |-> Sum(f(u), MaxPositions)], NumUsers)
        BY DEF InterestIn, InAccount
    <2>3. [u \in Users |-> Sum(f(u), MaxPositions)] =
              [u \in Users |-> Sum(g(u), MaxPositions)]
        <3>. HIDE DEF f, g
        <3>1. QED
            BY <2>1
    <2>4. exposure[d] = InterestIn(positions, Markets, d)
        BY DEF Counted
    <2>5. QED
        BY <2>2, <2>3, <2>4, Zenon
<1>3. QED
    BY <1>1, <1>2, Zenon DEF InterestLedger

(* The open interest and the exposure are those of the open positions      *)
(* after any sequence of handlers: nothing is left behind by a position    *)
(* settled, liquidated or drained, and no subtraction is cut short.        *)
THEOREM InterestIsCounted == Spec => []InterestLedger
<1>1. Spec => []Counted
    BY InitCounted, CountedStep, TypeCorrect, PTL DEF Spec
<1>2. QED
    BY <1>1, TypeCorrect, CountedIsLedger, PTL

-----------------------------------------------------------------------------
(* The steps that touch the pool                                           *)

Settles ==
    \E u \in Users, s \in Slots, reward \in Nat :
        IsOpen(u, s) /\ SettlePosition(u, s, reward)

(* A step leaves the pool alone, settles a position against its vault, or  *)
(* is one of the provider's own three instructions.                        *)
PoolStep ==
    \/ UNCHANGED <<liquidity, shares>>
    \/ UNCHANGED shares /\ Settles
    \/ \E u \in Users, amount \in Nat : LpDeposit(u, amount)
    \/ \E u \in Users, n \in Nat : LpWithdraw(u, n)
    \/ \E u \in Users : ClaimFees(u)

LEMMA KeeperRewardNat ==
    ASSUME TypeOK, NEW u \in Users, NEW s \in Slots, IsOpen(u, s)
    PROVE  Bps(positions[u][s].collateral, KEEPER_REWARD_BPS) \in Nat
<1>1. positions[u][s].collateral \in Nat
    BY OpenSlotType, PositionFields
<1>2. KEEPER_REWARD_BPS \in Nat
    BY DEF KEEPER_REWARD_BPS
<1>3. QED
    BY <1>1, <1>2, BpsNat

(* The owner, a trigger and the admin settle a position the same way.      *)
LEMMA SettlingSteps ==
    ASSUME TypeOK, NEW u \in Users, NEW s \in Slots,
           \/ ClosePosition(u, s)
           \/ ExecuteSlTp(u, s)
           \/ AdminClosePosition(u, s)
    PROVE  Settles
<1>1. CASE ClosePosition(u, s)
    <2>1. IsOpen(u, s) /\ SettlePosition(u, s, 0)
        BY <1>1 DEF ClosePosition
    <2>2. QED
        BY <2>1, 0 \in Nat, Zenon DEF Settles
<1>2. CASE ExecuteSlTp(u, s)
    <2>1. /\ IsOpen(u, s)
          /\ SettlePosition(u, s, Bps(positions[u][s].collateral, KEEPER_REWARD_BPS))
        BY <1>2 DEF ExecuteSlTp
    <2>2. QED
        BY <2>1, KeeperRewardNat, Zenon DEF Settles
<1>3. CASE AdminClosePosition(u, s)
    <2>1. IsOpen(u, s) /\ SettlePosition(u, s, 0)
        BY <1>3 DEF AdminClosePosition
    <2>2. QED
        BY <2>1, 0 \in Nat, Zenon DEF Settles
<1>4. QED
    BY <1>1, <1>2, <1>3

LEMMA StepsOfThePool == TypeOK /\ TypedStep => PoolStep
<1>. SUFFICES ASSUME TypeOK, TypedStep PROVE PoolStep
    OBVIOUS
<1>1. CASE \E u \in Users, s \in Slots :
              ClosePosition(u, s) \/ ExecuteSlTp(u, s) \/ AdminClosePosition(u, s)
    <2>1. Settles
        BY <1>1, SettlingSteps, Zenon
    <2>2. UNCHANGED shares
        BY <2>1 DEF Settles, SettlePosition
    <2>3. QED
        BY <2>1, <2>2 DEF PoolStep
<1>2. CASE \/ \E u \in Users, amount \in Nat : LpDeposit(u, amount)
           \/ \E u \in Users, n \in Nat : LpWithdraw(u, n)
           \/ \E u \in Users : ClaimFees(u)
    BY <1>2 DEF PoolStep
<1>3. CASE \/ \E u \in Users, amount \in Nat : DepositCollateral(u, amount)
           \/ \E u \in Users, amount \in Nat : WithdrawCollateral(u, amount)
           \/ \E u \in Users, s \in Slots, amount \in Nat : AddMargin(u, s, amount)
           \/ \E u \in Users, s \in Slots, amount \in Nat : RemoveMargin(u, s, amount)
           \/ \E u \in Users, s \in Slots, o \in Oracles, sl, tp \in Nat :
                 SetSlTp(u, s, o, sl, tp)
           \/ \E u \in Users : CloseMarginAccount(u)
    BY <1>3 DEF PoolStep, DepositCollateral, WithdrawCollateral, AddMargin,
                RemoveMargin, SetSlTp, CloseMarginAccount
<1>4. CASE \E u \in Users, s \in Slots, m \in Markets, d \in Direction,
              c \in Nat, l \in Nat, sl, tp \in Nat, r \in Users \cup {0},
              withTracker \in BOOLEAN :
              OpenPosition(u, s, m, d, c, l, sl, tp, r, withTracker)
    BY <1>4 DEF PoolStep, OpenPosition
<1>5. CASE \/ \E u \in Users, s \in Slots : Liquidate(u, s)
           \/ \E u \in Users, m \in Markets : SettleFunding(u, m)
    BY <1>5 DEF PoolStep, Liquidate, SettleFunding
<1>6. CASE \/ \E amount \in Nat : WithdrawFees(amount)
           \/ \E amount \in Nat : WithdrawInsurance(amount)
           \/ \E u \in Users : RegisterReferral(u)
           \/ \E u \in Users, rate \in Nat : SetFeeShare(u, rate)
           \/ \E u \in Users : ClaimReferral(u)
    BY <1>6 DEF PoolStep, WithdrawFees, WithdrawInsurance, RegisterReferral,
                SetFeeShare, ClaimReferral
<1>7. CASE \/ Tick
           \/ \E price \in Nat : UpdateOracle(price)
           \/ \E m \in Markets, price \in Nat : UpdateMarketOracle(m, price)
           \/ \E m \in Markets : CheckAndPause(m)
           \/ \E new \in ParamSets, pause \in Pauses : UpdateParams(new, pause)
    BY <1>7 DEF PoolStep, Tick, UpdateOracle, UpdateMarketOracle, CheckAndPause,
                UpdateParams, money
<1>8. QED
    BY <1>1, <1>2, <1>3, <1>4, <1>5, <1>6, <1>7, Zenon DEF TypedStep

-----------------------------------------------------------------------------
(* The vault                                                               *)

LEMMA PoolBackedStep == TypeOK /\ PoolBacked /\ [Next]_vars => PoolBacked'
<1>. SUFFICES ASSUME TypeOK, PoolBacked, [Next]_vars PROVE PoolBacked'
    OBVIOUS
<1>1. CASE UNCHANGED <<liquidity, shares>>
    BY <1>1 DEF PoolBacked, liquidity
<1>2. CASE Settles
    <2>1. PICK u \in Users, s \in Slots, reward \in Nat :
              IsOpen(u, s) /\ SettlePosition(u, s, reward)
        BY <1>2, Zenon DEF Settles
    <2>. DEFINE p == positions[u][s]
    <2>2. p \in Position
        BY <2>1, OpenSlotType
    <2>3. /\ lp_vault' = lp_vault - ProfitPaid(p) + Loss(p)
          /\ total_usdc' = SatSub(total_usdc, ProfitPaid(p)) + Loss(p)
        BY <2>1 DEF SettlePosition
    <2>. HIDE DEF p
    <2>4. /\ ProfitPaid(p) \in Nat /\ ProfitPaid(p) <= lp_vault
          /\ Loss(p) \in Nat
        BY <2>2, SettlementTypes, 0 \in Nat
    <2>5. QED
        BY <2>3, <2>4 DEF TypeOK, PoolBacked, SatSub
<1>3. CASE \E u \in Users, amount \in Nat : LpDeposit(u, amount)
    BY <1>3 DEF PoolBacked, LpDeposit, TypeOK
<1>4. CASE \E u \in Users, n \in Nat : LpWithdraw(u, n)
    <2>1. PICK u \in Users, n \in Nat : LpWithdraw(u, n)
        BY <1>4
    <2>2. /\ lp_vault >= UsdcFor(n)
          /\ lp_vault' = lp_vault - UsdcFor(n)
          /\ total_usdc' = SatSub(total_usdc, UsdcFor(n))
        BY <2>1 DEF LpWithdraw
    <2>3. UsdcFor(n) \in Nat
        BY <2>1, UsdcForNat DEF LpWithdraw
    <2>4. QED
        BY <2>2, <2>3 DEF PoolBacked, SatSub, TypeOK
<1>5. CASE \E u \in Users : ClaimFees(u)
    BY <1>5 DEF PoolBacked, ClaimFees, liquidity
<1>6. CASE UNCHANGED vars
    BY <1>6 DEF PoolBacked, vars, liquidity
<1>7. QED
    BY <1>1, <1>2, <1>3, <1>4, <1>5, <1>6, StepsAreTyped, StepsOfThePool
       DEF PoolStep

(* The pool never accounts for USDC its vault does not hold: the saturated *)
(* subtractions of the handlers never saturate, whatever is paid out.      *)
THEOREM PoolIsBacked == Spec => []PoolBacked
<1>1. Init => PoolBacked
    BY DEF Init, PoolBacked
<1>2. QED
    BY <1>1, PoolBackedStep, TypeCorrect, PTL DEF Spec

-----------------------------------------------------------------------------
(* The shares                                                              *)

LEMMA DivisionBound ==
    ASSUME NEW a \in Nat, NEW b \in Nat \ {0}
    PROVE  (a \div b) * b <= a
OBVIOUS

(* Buying shares costs at least what they are worth, burning them pays at  *)
(* most that.                                                              *)
LEMMA BuyingCosts ==
    ASSUME NEW U \in Nat \ {0}, NEW S \in Nat, NEW a \in Nat,
           NEW s \in Nat, s * U <= a * S
    PROVE  (U + a) * S >= U * (S + s)
<1>1. /\ (U + a) * S = U * S + a * S
      /\ U * (S + s) = U * S + s * U
    OBVIOUS
<1>2. U * S \in Nat /\ a * S \in Nat /\ s * U \in Nat
    OBVIOUS
<1>3. QED
    BY <1>1, <1>2

LEMMA BurningPays ==
    ASSUME NEW U \in Nat, NEW S \in Nat, NEW n \in Nat, NEW u \in Nat,
           u * S <= n * U
    PROVE  (U - u) * S >= U * (S - n)
<1>1. /\ (U - u) * S = U * S - u * S
      /\ U * (S - n) = U * S - n * U
    OBVIOUS
<1>2. U * S \in Nat /\ u * S \in Nat /\ n * U \in Nat
    OBVIOUS
<1>3. QED
    BY <1>1, <1>2

ShareValueStep ==
    (total_shares' # total_shares /\ total_shares > 0) =>
        total_usdc' * total_shares >= total_usdc * total_shares'

LEMMA DepositKeepsValue ==
    ASSUME TypeOK, NEW u \in Users, NEW amount \in Nat, LpDeposit(u, amount)
    PROVE  ShareValueStep
<1>. SUFFICES ASSUME total_shares > 0
              PROVE  total_usdc' * total_shares >= total_usdc * total_shares'
    BY DEF ShareValueStep
<1>1. /\ total_usdc \in Nat \ {0} /\ total_shares \in Nat \ {0}
      /\ SharesFor(amount) \in Nat
    BY SharesForNat DEF LpDeposit, TypeOK
<1>2. SharesFor(amount) * total_usdc <= amount * total_shares
    <2>1. SharesFor(amount) = (amount * total_shares) \div total_usdc
        BY <1>1 DEF SharesFor
    <2>2. amount * total_shares \in Nat
        BY <1>1
    <2>3. QED
        BY <1>1, <2>1, <2>2, DivisionBound
<1>3. /\ total_usdc' = total_usdc + amount
      /\ total_shares' = total_shares + SharesFor(amount)
    BY DEF LpDeposit
<1>4. QED
    BY <1>1, <1>2, <1>3, BuyingCosts

LEMMA WithdrawalKeepsValue ==
    ASSUME TypeOK, NEW u \in Users, NEW n \in Nat, LpWithdraw(u, n), PoolBacked
    PROVE  ShareValueStep
<1>1. /\ total_usdc \in Nat /\ total_shares \in Nat \ {0}
      /\ UsdcFor(n) \in Nat
    BY UsdcForNat DEF LpWithdraw, TypeOK
<1>2. UsdcFor(n) * total_shares <= n * total_usdc
    <2>1. n * total_usdc \in Nat
        BY <1>1
    <2>2. QED
        BY <1>1, <2>1, DivisionBound DEF UsdcFor
<1>3. /\ total_usdc' = total_usdc - UsdcFor(n)
      /\ total_shares' = total_shares - n
    BY <1>1 DEF LpWithdraw, BurnShares, PoolBacked, SatSub
<1>4. total_usdc' * total_shares >= total_usdc * total_shares'
    BY <1>1, <1>2, <1>3, BurningPays
<1>5. QED
    BY <1>4 DEF ShareValueStep

(* A provider who buys or burns shares never lowers the value of a share:  *)
(* every rounding is in the pool's favour, whatever the sizes.             *)
THEOREM ShareValueIsKept == Spec => ShareValueKept
<1>1. TypeOK /\ PoolBacked /\ [Next]_vars => [ShareValueStep]_vars
    <2>. SUFFICES ASSUME TypeOK, PoolBacked, Next PROVE ShareValueStep
        OBVIOUS
    <2>1. CASE total_shares' = total_shares
        BY <2>1 DEF ShareValueStep
    <2>2. CASE \E u \in Users, amount \in Nat : LpDeposit(u, amount)
        BY <2>2, DepositKeepsValue
    <2>3. CASE \E u \in Users, n \in Nat : LpWithdraw(u, n)
        BY <2>3, WithdrawalKeepsValue
    <2>4. CASE \E u \in Users : ClaimFees(u)
        BY <2>4 DEF ClaimFees, ShareValueStep
    <2>5. QED
        BY <2>1, <2>2, <2>3, <2>4, StepsAreTyped, StepsOfThePool
           DEF PoolStep, shares
<1>2. QED
    BY <1>1, TypeCorrect, PoolIsBacked, PTL DEF Spec, ShareValueKept, ShareValueStep

-----------------------------------------------------------------------------
(* Who owns them                                                           *)

LEMMA SharesChange ==
    ASSUME TypeOK, TypeOK', SharesLedger, NEW u \in Users, NEW new \in LpPosition,
           lp' = [lp EXCEPT ![u] = new],
           total_shares' = total_shares - lp[u].shares + new.shares
    PROVE  SharesLedger'
<1>. DEFINE f == [v \in Users |-> lp[v].shares]
            g == [v \in Users |-> lp'[v].shares]
<1>1. NumUsers \in Nat /\ u \in 1..NumUsers
    BY StateAssumption DEF Users
<1>2. \A v \in 1..NumUsers : f[v] \in Nat /\ g[v] \in Nat
    BY DEF TypeOK, Users, LpPosition
<1>3. \A v \in 1..NumUsers : v # u => g[v] = f[v]
    BY DEF TypeOK, Users
<1>4. f[u] = lp[u].shares /\ g[u] = new.shares
    BY DEF TypeOK
<1>. HIDE DEF f, g
<1>5. Sum(g, NumUsers) = Sum(f, NumUsers) - f[u] + g[u]
    BY <1>1, <1>2, <1>3, SumUpdate
<1>6. QED
    BY <1>4, <1>5 DEF SharesLedger, f, g

LEMMA SharesLedgerStep == TypeOK /\ TypeOK' /\ SharesLedger /\ [Next]_vars => SharesLedger'
<1>. SUFFICES ASSUME TypeOK, TypeOK', SharesLedger, [Next]_vars PROVE SharesLedger'
    OBVIOUS
<1>1. CASE UNCHANGED shares
    BY <1>1 DEF SharesLedger, shares
<1>2. CASE \E u \in Users, amount \in Nat : LpDeposit(u, amount)
    <2>1. PICK u \in Users, amount \in Nat : LpDeposit(u, amount)
        BY <1>2
    <2>2. PICK debt : lp' = [lp EXCEPT ![u] =
                [shares |-> lp[u].shares + SharesFor(amount), reward_debt |-> debt]]
        BY <2>1 DEF LpDeposit
    <2>. DEFINE new == [shares |-> lp[u].shares + SharesFor(amount), reward_debt |-> debt]
    <2>3. SharesFor(amount) \in Nat
        BY <2>1, SharesForNat DEF LpDeposit
    <2>4. new \in LpPosition
        <3>1. lp'[u] = new /\ lp'[u] \in LpPosition
            BY <2>2 DEF TypeOK
        <3>2. QED
            BY <3>1
    <2>5. total_shares' = total_shares - lp[u].shares + new.shares
        BY <2>1, <2>3, LpFields DEF LpDeposit, TypeOK
    <2>. HIDE DEF new
    <2>6. lp' = [lp EXCEPT ![u] = new]
        BY <2>2 DEF new
    <2>7. QED
        BY <2>4, <2>5, <2>6, SharesChange
<1>3. CASE \E u \in Users, n \in Nat : LpWithdraw(u, n)
    <2>1. PICK u \in Users, n \in Nat : LpWithdraw(u, n)
        BY <1>3
    <2>2. PICK debt : lp' = [lp EXCEPT ![u] =
                [shares |-> lp[u].shares - n, reward_debt |-> debt]]
        BY <2>1 DEF LpWithdraw, BurnShares
    <2>. DEFINE new == [shares |-> lp[u].shares - n, reward_debt |-> debt]
    <2>3. new \in LpPosition
        <3>1. lp'[u] = new /\ lp'[u] \in LpPosition
            BY <2>2 DEF TypeOK
        <3>2. QED
            BY <3>1
    <2>4. total_shares' = total_shares - lp[u].shares + new.shares
        BY <2>1, LpFields DEF LpWithdraw, BurnShares, TypeOK
    <2>. HIDE DEF new
    <2>5. lp' = [lp EXCEPT ![u] = new]
        BY <2>2 DEF new
    <2>6. QED
        BY <2>3, <2>4, <2>5, SharesChange
<1>4. CASE \E u \in Users : ClaimFees(u)
    <2>1. PICK u \in Users : ClaimFees(u)
        BY <1>4
    <2>2. CASE acc_fee_per_share > 0
        <3>. DEFINE new == [shares |-> lp[u].shares,
                            reward_debt |-> Entitled(lp[u].shares)]
        <3>1. lp' = [lp EXCEPT ![u] = new]
            BY <2>1, <2>2 DEF ClaimFees
        <3>2. new \in LpPosition
            BY LpFields, EntitledNat DEF LpPosition
        <3>3. total_shares' = total_shares - lp[u].shares + new.shares
            BY <2>1, LpFields DEF ClaimFees, TypeOK
        <3>. HIDE DEF new
        <3>4. QED
            BY <3>1, <3>2, <3>3, SharesChange
    <2>3. CASE ~(acc_fee_per_share > 0)
        <3>1. lp' = lp /\ total_shares' = total_shares
            BY <2>1, <2>3 DEF ClaimFees
        <3>2. QED
            BY <3>1 DEF SharesLedger
    <2>4. QED
        BY <2>2, <2>3
<1>5. CASE UNCHANGED vars
    BY <1>5 DEF SharesLedger, vars, shares
<1>6. QED
    BY <1>1, <1>2, <1>3, <1>4, <1>5, StepsAreTyped, StepsOfThePool DEF PoolStep, shares

(* The shares outstanding are those of the providers: what a share is      *)
(* worth, and what it earns, is reckoned with the right number of them.    *)
THEOREM SharesAreOwned == Spec => []SharesLedger
<1>1. Init => SharesLedger
    <2>. SUFFICES ASSUME Init PROVE SharesLedger
        OBVIOUS
    <2>. DEFINE f == [u \in Users |-> lp[u].shares]
    <2>1. NumUsers \in Nat /\ \A u \in 1..NumUsers : f[u] = 0
        BY StateAssumption DEF Init, Users
    <2>. HIDE DEF f
    <2>2. Sum(f, NumUsers) = 0
        BY <2>1, SumOfZeros
    <2>3. QED
        BY <2>2 DEF SharesLedger, Init, f
<1>2. QED
    BY <1>1, SharesLedgerStep, TypeCorrect, PTL DEF Spec

-----------------------------------------------------------------------------
(* What the providers earn                                                 *)

(* Dividing a sum rounds up at most one unit more than dividing the parts. *)
LEMMA QuotientOfSum ==
    ASSUME NEW a \in Nat, NEW b \in Nat, NEW n \in Nat \ {0}
    PROVE  (a + b) \div n <= (a \div n) + (b \div n) + 1
<1>1. PICK p \in Nat : p = a \div n
    BY QuotientNat
<1>2. PICK q \in Nat : q = b \div n
    BY QuotientNat
<1>3. PICK r \in Nat : r = (a + b) \div n
    BY QuotientNat
<1>4. a < n * p + n /\ b < n * q + n
    BY <1>1, <1>2
<1>5. r * n <= a + b
    BY <1>3, DivisionBound
<1>6. n * p \in Nat /\ n * q \in Nat /\ r * n \in Nat /\ n * (p + q + 2) = n * p + n * q + 2 * n
    OBVIOUS
<1>7. r * n < n * (p + q + 2)
    BY <1>4, <1>5, <1>6
<1>8. ~(r >= p + q + 2)
    <2>. SUFFICES ASSUME r >= p + q + 2 PROVE FALSE
        OBVIOUS
    <2>1. PICK e \in Nat : r = (p + q + 2) + e
        <3>1. r - (p + q + 2) \in Nat /\ r = (p + q + 2) + (r - (p + q + 2))
            OBVIOUS
        <3>2. QED
            BY <3>1
    <2>2. r * n = n * (p + q + 2) + e * n /\ e * n \in Nat
        BY <2>1
    <2>3. QED
        BY <1>6, <1>7, <2>2
<1>9. QED
    BY <1>1, <1>2, <1>3, <1>8

(* What a provider can claim grows with the accumulator, but for one unit, *)
(* by its part of the growth.                                              *)
LEMMA ClaimGrows ==
    ASSUME NEW n \in Nat, NEW acc \in Nat, NEW d \in Nat, NEW debt \in Nat,
           NEW p \in Nat \ {0}
    PROVE  SatSub((n * (acc + d)) \div p, debt) <=
               SatSub((n * acc) \div p, debt) + ((n * d) \div p) + 1
<1>1. n * acc \in Nat /\ n * d \in Nat /\ n * (acc + d) = n * acc + n * d
    OBVIOUS
<1>2. PICK x \in Nat : x = n * acc
    BY <1>1
<1>3. PICK y \in Nat : y = n * d
    BY <1>1
<1>4. (x + y) \div p <= (x \div p) + (y \div p) + 1
    BY QuotientOfSum
<1>5. x \div p \in Nat /\ y \div p \in Nat /\ (x + y) \div p \in Nat
    BY QuotientNat
<1>6. QED
    BY <1>1, <1>2, <1>3, <1>4, <1>5 DEF SatSub

LEMMA SumGrows ==
    ASSUME NEW n \in Nat, NEW f, NEW g, NEW h,
           \A i \in 1..n : f[i] \in Nat /\ g[i] \in Nat /\ h[i] \in Nat,
           \A i \in 1..n : g[i] <= f[i] + h[i] + 1
    PROVE  Sum(g, n) <= Sum(f, n) + Sum(h, n) + n
<1>. DEFINE Good == {k \in Nat : k <= n =>
                        /\ Sum(f, k) \in Nat /\ Sum(g, k) \in Nat /\ Sum(h, k) \in Nat
                        /\ Sum(g, k) <= Sum(f, k) + Sum(h, k) + k}
<1>1. 0 \in Good
    BY SumStep
<1>2. ASSUME NEW k \in Nat, k \in Good PROVE k + 1 \in Good
    <2>1. /\ Sum(f, k + 1) = Sum(f, k) + f[k + 1]
          /\ Sum(g, k + 1) = Sum(g, k) + g[k + 1]
          /\ Sum(h, k + 1) = Sum(h, k) + h[k + 1]
        BY SumStep
    <2>2. CASE k + 1 <= n
        <3>1. /\ f[k + 1] \in Nat /\ g[k + 1] \in Nat /\ h[k + 1] \in Nat
              /\ g[k + 1] <= f[k + 1] + h[k + 1] + 1
            BY <2>2
        <3>2. QED
            BY <2>1, <1>2, <2>2, <3>1
    <2>3. QED
        BY <2>2
<1>3. Nat \subseteq Good
    <2>. HIDE DEF Good
    <2>1. QED
        BY <1>1, <1>2, SetInduction
<1>4. QED
    BY <1>3

(* If each part, times p, is at most d times its weight, the sum of the    *)
(* parts, times p, is at most d times the sum of the weights.              *)
LEMMA SumOfParts ==
    ASSUME NEW n \in Nat, NEW f, NEW g, NEW p \in Nat, NEW d \in Nat,
           \A i \in 1..n : f[i] \in Nat /\ g[i] \in Nat,
           \A i \in 1..n : g[i] * p <= f[i] * d
    PROVE  Sum(f, n) \in Nat /\ Sum(g, n) \in Nat /\ Sum(g, n) * p <= Sum(f, n) * d
<1>. DEFINE Good == {k \in Nat : k <= n =>
                        /\ Sum(f, k) \in Nat /\ Sum(g, k) \in Nat
                        /\ Sum(g, k) * p <= Sum(f, k) * d}
<1>1. 0 \in Good
    BY SumStep
<1>2. ASSUME NEW k \in Nat, k \in Good PROVE k + 1 \in Good
    <2>1. CASE k + 1 <= n
        <3>1. PICK a \in Nat : a = Sum(f, k)
            BY <1>2, <2>1
        <3>2. PICK b \in Nat : b = Sum(g, k)
            BY <1>2, <2>1
        <3>3. PICK x \in Nat : x = f[k + 1]
            BY <2>1
        <3>4. PICK y \in Nat : y = g[k + 1]
            BY <2>1
        <3>5. Sum(f, k + 1) = a + x /\ Sum(g, k + 1) = b + y
            BY <3>1, <3>2, <3>3, <3>4, SumStep
        <3>6. b * p <= a * d /\ y * p <= x * d
            BY <1>2, <2>1, <3>1, <3>2, <3>3, <3>4
        <3>7. (b + y) * p = b * p + y * p /\ (a + x) * d = a * d + x * d
            OBVIOUS
        <3>8. b * p \in Nat /\ y * p \in Nat /\ a * d \in Nat /\ x * d \in Nat
            OBVIOUS
        <3>9. (b + y) * p <= (a + x) * d
            BY <3>6, <3>7, <3>8
        <3>10. QED
            BY <3>5, <3>9
    <2>2. CASE ~(k + 1 <= n)
        BY <2>2
    <2>3. QED
        BY <2>1, <2>2
<1>3. Nat \subseteq Good
    <2>. HIDE DEF Good
    <2>1. QED
        BY <1>1, <1>2, SetInduction
<1>4. QED
    BY <1>3

(* A step in which the providers buy and burn no shares and are paid       *)
(* nothing: fees come in, and the accumulator grows by no more than they   *)
(* are worth to every share.                                               *)
FeesComeIn ==
    \E fee \in Nat, d \in Nat :
        /\ accumulated_fees' = accumulated_fees + fee
        /\ acc_fee_per_share' = acc_fee_per_share + d
        /\ d * total_shares <= fee * Precision
        /\ UNCHANGED <<shares, total_fees_claimed>>

LEMMA PerShareWorth ==
    ASSUME TypeOK, NEW fee \in Nat
    PROVE  PerShare(fee) \in Nat /\ PerShare(fee) * total_shares <= fee * Precision
<1>1. fee * Precision \in Nat
    BY StateAssumption, ProductNat
<1>2. total_shares \in Nat /\ PerShare(fee) \in Nat
    BY PerShareNat DEF TypeOK
<1>3. CASE total_shares > 0
    <2>1. PerShare(fee) = (fee * Precision) \div total_shares
        BY <1>3 DEF PerShare
    <2>2. QED
        BY <1>1, <1>2, <1>3, <2>1, DivisionBound
<1>4. CASE total_shares = 0
    BY <1>1, <1>2, <1>4
<1>5. QED
    BY <1>2, <1>3, <1>4

LEMMA AccruingBrings ==
    ASSUME TypeOK, NEW fee \in Nat, AccrueLpFee(fee), UNCHANGED shares
    PROVE  FeesComeIn
<1>1. PerShare(fee) \in Nat /\ PerShare(fee) * total_shares <= fee * Precision
    BY PerShareWorth
<1>2. QED
    BY <1>1 DEF AccrueLpFee, FeesComeIn

-----------------------------------------------------------------------------
(* Once the accumulator is in use                                          *)

(* What n shares have earned, less what was earned when they were bought   *)
(* or last paid.                                                           *)
Earned(n, acc, debt) == SatSub((n * acc) \div Precision, debt)

LEMMA EarnedNat ==
    ASSUME NEW n \in Nat, NEW acc \in Nat, NEW debt \in Nat
    PROVE  Earned(n, acc, debt) \in Nat
<1>1. Precision \in Nat \ {0} /\ n * acc \in Nat
    BY StateAssumption, ProductNat
<1>2. (n * acc) \div Precision \in Nat
    BY <1>1, QuotientNat
<1>3. QED
    BY <1>2, SatSubNat DEF Earned

LEMMA ClaimableIs ==
    ASSUME acc_fee_per_share > 0, NEW u
    PROVE  Claimable(u) = Earned(lp[u].shares, acc_fee_per_share, lp[u].reward_debt)
BY DEF Claimable, Entitled, Earned

LEMMA ClaimsAre ==
    ASSUME acc_fee_per_share > 0
    PROVE  LpClaims = total_fees_claimed +
               Sum([u \in Users |->
                      Earned(lp[u].shares, acc_fee_per_share, lp[u].reward_debt)], NumUsers)
<1>1. [u \in Users |-> Claimable(u)] =
          [u \in Users |->
             Earned(lp[u].shares, acc_fee_per_share, lp[u].reward_debt)]
    BY ClaimableIs
<1>2. QED
    BY <1>1 DEF LpClaims

LEMMA ClaimsAreNow ==
    ASSUME acc_fee_per_share' > 0
    PROVE  LpClaims' = total_fees_claimed' +
               Sum([u \in Users |->
                      Earned(lp'[u].shares, acc_fee_per_share', lp'[u].reward_debt)],
                   NumUsers)
<1>1. ASSUME NEW u \in Users
      PROVE  Claimable(u)' =
                 Earned(lp'[u].shares, acc_fee_per_share', lp'[u].reward_debt)
    BY DEF Claimable, Entitled, Earned
<1>2. [u \in Users |-> Claimable(u)'] =
          [u \in Users |->
             Earned(lp'[u].shares, acc_fee_per_share', lp'[u].reward_debt)]
    BY <1>1
<1>3. LpClaims' = total_fees_claimed' + Sum([u \in Users |-> Claimable(u)'], NumUsers)
    BY DEF LpClaims
<1>4. QED
    BY <1>2, <1>3

LEMMA FactorLess ==
    ASSUME NEW x \in Nat, NEW y \in Nat, NEW p \in Nat \ {0}, x * p <= y * p
    PROVE  x <= y
<1>. SUFFICES ASSUME x >= y + 1 PROVE FALSE
    OBVIOUS
<1>1. PICK e \in Nat : x = (y + 1) + e
    <2>1. x - (y + 1) \in Nat /\ x = (y + 1) + (x - (y + 1))
        OBVIOUS
    <2>2. QED
        BY <2>1
<1>2. x * p = y * p + p + e * p /\ e * p \in Nat /\ y * p \in Nat
    BY <1>1
<1>3. QED
    BY <1>2

(* Fees that come in are worth no more to all the shares than they are:    *)
(* the shares of the growth are rounded down, and each provider's claim    *)
(* grows by its share and at most one unit.                                *)
LEMMA FeesAreEarned ==
    ASSUME TypeOK, TypeOK', SharesLedger, acc_fee_per_share > 0, FeesComeIn
    PROVE  LpClaims' - LpClaims <= accumulated_fees' - accumulated_fees + NumUsers
<1>1. PICK fee \in Nat, d \in Nat :
          /\ accumulated_fees' = accumulated_fees + fee
          /\ acc_fee_per_share' = acc_fee_per_share + d
          /\ d * total_shares <= fee * Precision
          /\ UNCHANGED <<shares, total_fees_claimed>>
    BY DEF FeesComeIn
<1>2. PICK acc \in Nat : acc = acc_fee_per_share
    BY DEF TypeOK
<1>3. lp' = lp /\ total_fees_claimed' = total_fees_claimed
    BY <1>1 DEF shares
<1>. DEFINE f == [u \in Users |-> Earned(lp[u].shares, acc, lp[u].reward_debt)]
            g == [u \in Users |-> Earned(lp[u].shares, acc + d, lp[u].reward_debt)]
            h == [u \in Users |-> (lp[u].shares * d) \div Precision]
            w == [u \in Users |-> lp[u].shares]
<1>4. LpClaims = total_fees_claimed + Sum(f, NumUsers)
    BY <1>2, ClaimsAre
<1>5. LpClaims' = total_fees_claimed + Sum(g, NumUsers)
    <2>1. acc_fee_per_share' > 0
        BY <1>1, <1>2
    <2>2. LpClaims' = total_fees_claimed' +
               Sum([u \in Users |->
                      Earned(lp'[u].shares, acc_fee_per_share', lp'[u].reward_debt)],
                   NumUsers)
        BY <2>1, ClaimsAreNow
    <2>3. [u \in Users |->
              Earned(lp'[u].shares, acc_fee_per_share', lp'[u].reward_debt)] = g
        BY <1>1, <1>2, <1>3
    <2>4. QED
        BY <1>3, <2>2, <2>3
<1>6. NumUsers \in Nat /\ Users = 1..NumUsers /\ Precision \in Nat \ {0}
    BY StateAssumption DEF Users
<1>7. ASSUME NEW u \in Users
      PROVE  /\ f[u] \in Nat /\ g[u] \in Nat /\ h[u] \in Nat /\ w[u] \in Nat
             /\ g[u] <= f[u] + h[u] + 1
             /\ h[u] * Precision <= w[u] * d
    <2>1. PICK n \in Nat : n = lp[u].shares
        BY LpFields
    <2>2. PICK debt \in Nat : debt = lp[u].reward_debt
        BY LpFields
    <2>3. /\ f[u] = Earned(n, acc, debt) /\ g[u] = Earned(n, acc + d, debt)
          /\ h[u] = (n * d) \div Precision /\ w[u] = n
        BY <2>1, <2>2
    <2>4. n * d \in Nat
        BY ProductNat
    <2>5. (n * d) \div Precision \in Nat
        BY <1>6, <2>4, QuotientNat
    <2>6. ((n * d) \div Precision) * Precision <= n * d
        BY <1>6, <2>4, DivisionBound
    <2>7. Earned(n, acc, debt) \in Nat /\ Earned(n, acc + d, debt) \in Nat
        <3>1. acc + d \in Nat
            OBVIOUS
        <3>2. QED
            BY <3>1, EarnedNat
    <2>8. Earned(n, acc + d, debt) <= Earned(n, acc, debt) + ((n * d) \div Precision) + 1
        BY <1>6, ClaimGrows DEF Earned
    <2>9. QED
        BY <2>3, <2>5, <2>6, <2>7, <2>8
<1>8. total_shares = Sum(w, NumUsers)
    BY DEF SharesLedger
<1>. HIDE DEF f, g, h, w
<1>9. Sum(g, NumUsers) <= Sum(f, NumUsers) + Sum(h, NumUsers) + NumUsers
    BY <1>6, <1>7, SumGrows
<1>10. Sum(h, NumUsers) * Precision <= Sum(w, NumUsers) * d
    <2>1. \A u \in 1..NumUsers : h[u] \in Nat /\ w[u] \in Nat
        BY <1>6, <1>7
    <2>2. \A u \in 1..NumUsers : h[u] * Precision <= w[u] * d
        BY <1>6, <1>7
    <2>3. QED
        BY <1>6, <2>1, <2>2, SumOfParts
<1>11. Sum(f, NumUsers) \in Nat /\ Sum(g, NumUsers) \in Nat /\ Sum(h, NumUsers) \in Nat
    BY <1>6, <1>7, SumNat
<1>12. Sum(h, NumUsers) <= fee
    <2>1. PICK x \in Nat : x = Sum(h, NumUsers)
        BY <1>11
    <2>2. PICK y \in Nat : y = total_shares
        BY DEF TypeOK
    <2>3. x * Precision <= y * d
        BY <1>8, <1>10, <2>1, <2>2
    <2>4. y * d <= fee * Precision
        BY <1>1, <2>2
    <2>5. x * Precision <= fee * Precision
        <3>1. x * Precision \in Nat /\ y * d \in Nat /\ fee * Precision \in Nat
            BY <1>6, ProductNat
        <3>2. QED
            BY <2>3, <2>4, <3>1
    <2>6. x <= fee
        BY <1>6, <2>5, FactorLess
    <2>7. QED
        BY <2>1, <2>6
<1>13. QED
    <2>1. PICK x \in Nat, y \in Nat, z \in Nat, k \in Nat, a \in Nat :
              /\ x = total_fees_claimed /\ y = Sum(f, NumUsers) /\ z = Sum(g, NumUsers)
              /\ k = Sum(h, NumUsers) /\ a = accumulated_fees
        BY <1>11 DEF TypeOK
    <2>2. /\ LpClaims = x + y /\ LpClaims' = x + z
          /\ z <= y + k + NumUsers /\ k <= fee
          /\ accumulated_fees = a /\ accumulated_fees' = a + fee
        BY <1>1, <1>4, <1>5, <1>9, <1>12, <2>1
    <2>3. QED
        BY <1>6, <2>2

(* One value falls by paid at least, and the sum with it.                  *)
LEMMA OneFalls ==
    ASSUME NEW f, NEW g, NEW u \in Users, NEW paid \in Nat,
           \A v \in Users : f[v] \in Nat /\ g[v] \in Nat,
           \A v \in Users : v # u => g[v] = f[v],
           g[u] + paid <= f[u]
    PROVE  /\ Sum(f, NumUsers) \in Nat /\ Sum(g, NumUsers) \in Nat
           /\ Sum(g, NumUsers) + paid <= Sum(f, NumUsers)
<1>1. NumUsers \in Nat /\ u \in 1..NumUsers
    BY StateAssumption DEF Users
<1>2. /\ \A v \in 1..NumUsers : f[v] \in Nat /\ g[v] \in Nat
      /\ \A v \in 1..NumUsers : v # u => g[v] = f[v]
    BY DEF Users
<1>3. Sum(g, NumUsers) = Sum(f, NumUsers) - f[u] + g[u]
    BY <1>1, <1>2, SumUpdate
<1>4. Sum(f, NumUsers) \in Nat /\ Sum(g, NumUsers) \in Nat
    BY <1>1, <1>2, SumNat
<1>5. f[u] \in Nat /\ g[u] \in Nat
    OBVIOUS
<1>6. QED
    BY <1>3, <1>4, <1>5

(* A provider's own instruction: only its claim changes, and what it is    *)
(* paid comes off the claim.                                               *)
LEMMA ClaimsMove ==
    ASSUME TypeOK, TypeOK', acc_fee_per_share > 0, NEW u \in Users, NEW paid \in Nat,
           UNCHANGED <<accumulated_fees, acc_fee_per_share>>,
           total_fees_claimed' = total_fees_claimed + paid,
           \A v \in Users : v # u => lp'[v] = lp[v],
           Earned(lp'[u].shares, acc_fee_per_share, lp'[u].reward_debt) + paid <=
               Claimable(u)
    PROVE  LpClaims' - LpClaims <= accumulated_fees' - accumulated_fees + NumUsers
<1>1. PICK acc \in Nat : acc = acc_fee_per_share /\ acc = acc_fee_per_share'
    BY DEF TypeOK
<1>. DEFINE f == [v \in Users |-> Earned(lp[v].shares, acc, lp[v].reward_debt)]
            g == [v \in Users |-> Earned(lp'[v].shares, acc, lp'[v].reward_debt)]
<1>2. LpClaims = total_fees_claimed + Sum(f, NumUsers)
    BY <1>1, ClaimsAre
<1>3. LpClaims' = total_fees_claimed' + Sum(g, NumUsers)
    <2>1. acc_fee_per_share' > 0
        BY <1>1
    <2>2. QED
        BY <1>1, <2>1, ClaimsAreNow
<1>4. NumUsers \in Nat /\ Users = 1..NumUsers
    BY StateAssumption DEF Users
<1>5. \A v \in Users : f[v] \in Nat /\ g[v] \in Nat
    <2>1. \A v \in Users : /\ lp[v].shares \in Nat /\ lp[v].reward_debt \in Nat
                           /\ lp'[v].shares \in Nat /\ lp'[v].reward_debt \in Nat
        BY DEF TypeOK, LpPosition
    <2>2. QED
        BY <2>1, EarnedNat
<1>6. \A v \in Users : v # u => g[v] = f[v]
    OBVIOUS
<1>7. g[u] + paid <= f[u]
    <2>1. f[u] = Claimable(u)
        BY <1>1, ClaimableIs
    <2>2. g[u] = Earned(lp'[u].shares, acc_fee_per_share, lp'[u].reward_debt)
        BY <1>1
    <2>. HIDE DEF f, g
    <2>3. QED
        BY <2>1, <2>2
<1>. HIDE DEF f, g
<1>8. /\ Sum(f, NumUsers) \in Nat /\ Sum(g, NumUsers) \in Nat
      /\ Sum(g, NumUsers) + paid <= Sum(f, NumUsers)
    BY <1>5, <1>6, <1>7, OneFalls
<1>9. QED
    <2>1. PICK x \in Nat, y \in Nat, z \in Nat :
              /\ x = total_fees_claimed /\ y = Sum(f, NumUsers) /\ z = Sum(g, NumUsers)
        BY <1>8 DEF TypeOK
    <2>2. /\ LpClaims = x + y /\ LpClaims' = x + paid + z /\ z + paid <= y
        BY <1>2, <1>3, <1>8, <2>1
    <2>3. LpClaims' - LpClaims <= 0
        BY <2>2
    <2>4. accumulated_fees' - accumulated_fees + NumUsers >= 0
        BY <1>4 DEF TypeOK
    <2>5. LpClaims' - LpClaims \in Int
          /\ accumulated_fees' - accumulated_fees + NumUsers \in Int
        BY <1>4, <2>2 DEF TypeOK
    <2>6. QED
        BY <2>3, <2>4, <2>5

LEMMA DepositClaims ==
    ASSUME TypeOK, TypeOK', acc_fee_per_share > 0,
           NEW u \in Users, NEW amount \in Nat, LpDeposit(u, amount)
    PROVE  LpClaims' - LpClaims <= accumulated_fees' - accumulated_fees + NumUsers
<1>1. PICK owned : owned = lp[u].shares + SharesFor(amount)
    OBVIOUS
<1>2. owned \in Nat
    <2>1. SharesFor(amount) \in Nat
        BY SharesForNat DEF LpDeposit
    <2>2. QED
        BY <1>1, <2>1, LpFields
<1>3. lp' = [lp EXCEPT ![u] = [shares |-> owned, reward_debt |-> DebtFor(u, owned)]]
    BY <1>1 DEF LpDeposit
<1>4. /\ UNCHANGED <<accumulated_fees, acc_fee_per_share>>
      /\ total_fees_claimed' = total_fees_claimed + 0
    BY DEF LpDeposit, lpFees, TypeOK
<1>5. /\ \A v \in Users : v # u => lp'[v] = lp[v]
      /\ lp'[u].shares = owned /\ lp'[u].reward_debt = DebtFor(u, owned)
    BY <1>3 DEF TypeOK
<1>6. Earned(owned, acc_fee_per_share, DebtFor(u, owned)) <= Claimable(u)
    <2>. DEFINE debt == SatSub(Entitled(lp[u].shares), lp[u].reward_debt)
                pending == IF lp[u].shares > 0 /\ acc_fee_per_share > 0 THEN debt ELSE 0
    <2>1. Entitled(owned) \in Nat /\ debt \in Nat
        BY <1>2, EntitledNat, LpFields, SatSubNat
    <2>2. Claimable(u) = debt
        BY DEF Claimable
    <2>3. DebtFor(u, owned) = SatSub(Entitled(owned), pending)
        BY DEF DebtFor
    <2>4. Earned(owned, acc_fee_per_share, DebtFor(u, owned)) =
              SatSub(Entitled(owned), DebtFor(u, owned))
        BY DEF Earned, Entitled
    <2>. HIDE DEF debt
    <2>5. pending \in Nat /\ pending <= debt
        BY <2>1
    <2>. HIDE DEF pending
    <2>6. QED
        BY <2>1, <2>2, <2>3, <2>4, <2>5 DEF SatSub
<1>7. Claimable(u) \in Nat /\ Earned(owned, acc_fee_per_share, DebtFor(u, owned)) \in Nat
    BY <1>2, ClaimableNat, DebtForNat, EarnedNat DEF TypeOK
<1>8. Earned(lp'[u].shares, acc_fee_per_share, lp'[u].reward_debt) + 0 <= Claimable(u)
    BY <1>5, <1>6, <1>7
<1>9. QED
    BY <1>4, <1>5, <1>8, 0 \in Nat, ClaimsMove

(* The fees a provider is paid are part of its claim.                      *)
LEMMA PaidOfClaim ==
    ASSUME TypeOK, NEW u \in Users
    PROVE  /\ Lesser(Claimable(u), fee_vault) \in Nat
           /\ Lesser(Claimable(u), fee_vault) <= Claimable(u)
BY ClaimableNat DEF TypeOK, Lesser

(* Nothing is left of a claim reckoned afresh.                             *)
LEMMA NothingEarned ==
    ASSUME TypeOK, NEW n \in Nat
    PROVE  /\ Earned(n, acc_fee_per_share, Entitled(n)) = 0
           /\ Earned(0, acc_fee_per_share, 0) = 0
<1>1. Entitled(n) \in Nat
    BY EntitledNat
<1>2. Earned(n, acc_fee_per_share, Entitled(n)) = 0
    BY <1>1 DEF Earned, Entitled, SatSub
<1>3. (0 * acc_fee_per_share) \div Precision = 0
    <2>1. 0 * acc_fee_per_share = 0
        BY DEF TypeOK
    <2>2. QED
        BY <2>1, StateAssumption
<1>4. QED
    BY <1>2, <1>3 DEF Earned, SatSub

LEMMA WithdrawalClaims ==
    ASSUME TypeOK, TypeOK', acc_fee_per_share > 0,
           NEW u \in Users, NEW n \in Nat, LpWithdraw(u, n)
    PROVE  LpClaims' - LpClaims <= accumulated_fees' - accumulated_fees + NumUsers
<1>1. PICK left : left = lp[u].shares - n
    OBVIOUS
<1>2. left \in Nat
    BY <1>1, LpFields DEF LpWithdraw
<1>3. PICK paid : paid = Lesser(Claimable(u), fee_vault)
    OBVIOUS
<1>4. paid \in Nat /\ paid <= Claimable(u) /\ Claimable(u) \in Nat
    BY <1>3, PaidOfClaim, ClaimableNat
<1>5. /\ UNCHANGED <<accumulated_fees, acc_fee_per_share>>
      /\ total_fees_claimed' = total_fees_claimed + paid
    BY <1>3 DEF LpWithdraw
<1>6. lp' = [lp EXCEPT ![u] = [shares |-> left,
                 reward_debt |-> IF left = 0 THEN 0 ELSE Entitled(left)]]
    BY <1>1 DEF LpWithdraw, BurnShares
<1>7. /\ \A v \in Users : v # u => lp'[v] = lp[v]
      /\ lp'[u].shares = left
      /\ lp'[u].reward_debt = IF left = 0 THEN 0 ELSE Entitled(left)
    BY <1>6 DEF TypeOK
<1>8. Earned(lp'[u].shares, acc_fee_per_share, lp'[u].reward_debt) = 0
    BY <1>2, <1>7, NothingEarned
<1>9. Earned(lp'[u].shares, acc_fee_per_share, lp'[u].reward_debt) + paid <= Claimable(u)
    BY <1>4, <1>8
<1>10. QED
    BY <1>4, <1>5, <1>7, <1>9, ClaimsMove

LEMMA ClaimingClaims ==
    ASSUME TypeOK, TypeOK', acc_fee_per_share > 0, NEW u \in Users, ClaimFees(u)
    PROVE  LpClaims' - LpClaims <= accumulated_fees' - accumulated_fees + NumUsers
<1>1. PICK n \in Nat : n = lp[u].shares
    BY LpFields
<1>2. PICK paid : paid = Lesser(Claimable(u), fee_vault)
    OBVIOUS
<1>3. paid \in Nat /\ paid <= Claimable(u) /\ Claimable(u) \in Nat
    BY <1>2, PaidOfClaim, ClaimableNat
<1>4. /\ UNCHANGED <<accumulated_fees, acc_fee_per_share>>
      /\ total_fees_claimed' = total_fees_claimed + paid
    BY <1>2 DEF ClaimFees
<1>5. lp' = [lp EXCEPT ![u] = [shares |-> n, reward_debt |-> Entitled(n)]]
    BY <1>1 DEF ClaimFees
<1>6. /\ \A v \in Users : v # u => lp'[v] = lp[v]
      /\ lp'[u].shares = n /\ lp'[u].reward_debt = Entitled(n)
    BY <1>5 DEF TypeOK
<1>7. Earned(lp'[u].shares, acc_fee_per_share, lp'[u].reward_debt) + paid <= Claimable(u)
    BY <1>3, <1>6, NothingEarned
<1>8. QED
    BY <1>3, <1>4, <1>6, <1>7, ClaimsMove

-----------------------------------------------------------------------------
(* Where fees come from                                                    *)

LEMMA SettlingBrings ==
    ASSUME TypeOK, Settles
    PROVE  FeesComeIn
<1>1. PICK u \in Users, s \in Slots, reward \in Nat :
          IsOpen(u, s) /\ SettlePosition(u, s, reward)
    BY Zenon DEF Settles
<1>2. positions[u][s] \in Position
    BY <1>1, OpenSlotType
<1>3. LpPortion(positions[u][s]) \in Nat
    BY <1>1, <1>2, SettlementTypes
<1>4. AccrueLpFee(LpPortion(positions[u][s])) /\ UNCHANGED shares
    BY <1>1 DEF SettlePosition
<1>5. QED
    BY <1>3, <1>4, AccruingBrings

LEMMA LiquidatingBrings ==
    ASSUME TypeOK, NEW u \in Users, NEW s \in Slots, Liquidate(u, s)
    PROVE  FeesComeIn
<1>1. positions[u][s].collateral \in Nat
    BY OpenSlotType, PositionFields DEF Liquidate
<1>2. LIQUIDATION_LP_BPS \in Nat
    BY DEF LIQUIDATION_LP_BPS
<1>3. Bps(positions[u][s].collateral, LIQUIDATION_LP_BPS) \in Nat
    BY <1>1, <1>2, BpsNat
<1>4. /\ AccrueLpFee(Bps(positions[u][s].collateral, LIQUIDATION_LP_BPS))
      /\ UNCHANGED shares
    BY DEF Liquidate
<1>5. QED
    BY <1>3, <1>4, AccruingBrings

LEMMA OpeningBrings ==
    ASSUME TypeOK,
           NEW u \in Users, NEW s \in Slots, NEW m \in Markets, NEW dir \in Direction,
           NEW c \in Nat, NEW l \in Nat, NEW sl \in Nat, NEW tp \in Nat,
           NEW r \in Users \cup {0}, NEW withTracker \in BOOLEAN,
           OpenPosition(u, s, m, dir, c, l, sl, tp, r, withTracker)
    PROVE  FeesComeIn
<1>1. PICK fee \in Nat : fee = Bps(Bps(c, params.fee_bps), params.lp_fee_bps)
    <2>1. Bps(c, params.fee_bps) \in Nat
        BY ShareType
    <2>2. QED
        BY <2>1, ShareType
<1>2. AccrueLpFee(fee) /\ UNCHANGED shares
    BY <1>1 DEF OpenPosition
<1>3. QED
    BY <1>2, AccruingBrings

(* Funding adds to the accumulator slot by slot: each slot's addition is   *)
(* rounded down, so all of them are worth no more than all the cuts.       *)
LEMMA FundingBrings ==
    ASSUME TypeOK, NEW u \in Users, NEW m \in Markets, SettleFunding(u, m)
    PROVE  FeesComeIn
<1>. DEFINE f == [s \in Slots |-> LpCut(positions[u][s], m)]
            g == [s \in Slots |-> PerShare(LpCut(positions[u][s], m))]
<1>1. MaxPositions \in Nat /\ Precision \in Nat /\ total_shares \in Nat
    BY StateAssumption DEF TypeOK
<1>2. ASSUME NEW s \in 1..MaxPositions
      PROVE  /\ f[s] \in Nat /\ g[s] \in Nat
             /\ g[s] * total_shares <= f[s] * Precision
    <2>1. s \in Slots
        BY DEF Slots
    <2>2. positions[u][s] \in Slot
        BY <2>1, SlotType
    <2>3. LpCut(positions[u][s], m) \in Nat
        BY <2>2, CutsNat
    <2>4. /\ PerShare(LpCut(positions[u][s], m)) \in Nat
          /\ PerShare(LpCut(positions[u][s], m)) * total_shares <=
                 LpCut(positions[u][s], m) * Precision
        BY <2>3, PerShareWorth
    <2>5. f[s] = LpCut(positions[u][s], m) /\ g[s] = PerShare(LpCut(positions[u][s], m))
        BY <2>1
    <2>. HIDE DEF f, g
    <2>6. QED
        BY <2>3, <2>4, <2>5
<1>. HIDE DEF f, g
<1>3. /\ Sum(f, MaxPositions) \in Nat /\ Sum(g, MaxPositions) \in Nat
      /\ Sum(g, MaxPositions) * total_shares <= Sum(f, MaxPositions) * Precision
    <2>1. \A s \in 1..MaxPositions : f[s] \in Nat /\ g[s] \in Nat
        BY <1>2
    <2>2. \A s \in 1..MaxPositions : g[s] * total_shares <= f[s] * Precision
        BY <1>2
    <2>3. QED
        BY <1>1, <2>1, <2>2, SumOfParts
<1>4. LpCutSum(u, m) = Sum(f, MaxPositions) /\ PerShareSum(u, m) = Sum(g, MaxPositions)
    BY DEF LpCutSum, PerShareSum, f, g
<1>5. /\ accumulated_fees' = accumulated_fees + Sum(f, MaxPositions)
      /\ acc_fee_per_share' = acc_fee_per_share + Sum(g, MaxPositions)
      /\ UNCHANGED <<shares, total_fees_claimed>>
    BY <1>4 DEF SettleFunding
<1>6. QED
    BY <1>3, <1>5 DEF FeesComeIn

LEMMA NoFees ==
    ASSUME TypeOK, UNCHANGED <<shares, lpFees>>
    PROVE  FeesComeIn
<1>1. total_shares \in Nat /\ Precision \in Nat
    BY StateAssumption DEF TypeOK
<1>2. 0 * total_shares <= 0 * Precision
    BY <1>1
<1>3. /\ accumulated_fees' = accumulated_fees + 0
      /\ acc_fee_per_share' = acc_fee_per_share + 0
      /\ UNCHANGED <<shares, total_fees_claimed>>
    BY DEF TypeOK, lpFees
<1>4. QED
    BY <1>2, <1>3, 0 \in Nat, Zenon DEF FeesComeIn

(* For the providers, a step brings fees or is one of their own.           *)
FeeStep ==
    \/ FeesComeIn
    \/ \E u \in Users, amount \in Nat : LpDeposit(u, amount)
    \/ \E u \in Users, n \in Nat : LpWithdraw(u, n)
    \/ \E u \in Users : ClaimFees(u)

LEMMA StepsOfTheFees == TypeOK /\ TypedStep => FeeStep
<1>. SUFFICES ASSUME TypeOK, TypedStep PROVE FeeStep
    OBVIOUS
<1>1. CASE \E u \in Users, s \in Slots :
              ClosePosition(u, s) \/ ExecuteSlTp(u, s) \/ AdminClosePosition(u, s)
    <2>1. Settles
        BY <1>1, SettlingSteps, Zenon
    <2>2. QED
        BY <2>1, SettlingBrings DEF FeeStep
<1>2. CASE \/ \E u \in Users, amount \in Nat : LpDeposit(u, amount)
           \/ \E u \in Users, n \in Nat : LpWithdraw(u, n)
           \/ \E u \in Users : ClaimFees(u)
    BY <1>2 DEF FeeStep
<1>3. CASE \/ \E u \in Users, amount \in Nat : DepositCollateral(u, amount)
           \/ \E u \in Users, amount \in Nat : WithdrawCollateral(u, amount)
           \/ \E u \in Users, s \in Slots, amount \in Nat : AddMargin(u, s, amount)
           \/ \E u \in Users, s \in Slots, amount \in Nat : RemoveMargin(u, s, amount)
           \/ \E u \in Users, s \in Slots, o \in Oracles, sl, tp \in Nat :
                 SetSlTp(u, s, o, sl, tp)
           \/ \E u \in Users : CloseMarginAccount(u)
    <2>1. UNCHANGED <<shares, lpFees>>
        BY <1>3 DEF DepositCollateral, WithdrawCollateral, AddMargin,
                    RemoveMargin, SetSlTp, CloseMarginAccount
    <2>2. QED
        BY <2>1, NoFees DEF FeeStep
<1>4. CASE \E u \in Users, s \in Slots, m \in Markets, d \in Direction,
              c \in Nat, l \in Nat, sl, tp \in Nat, r \in Users \cup {0},
              withTracker \in BOOLEAN :
              OpenPosition(u, s, m, d, c, l, sl, tp, r, withTracker)
    BY <1>4, OpeningBrings DEF FeeStep
<1>5. CASE \/ \E u \in Users, s \in Slots : Liquidate(u, s)
           \/ \E u \in Users, m \in Markets : SettleFunding(u, m)
    BY <1>5, LiquidatingBrings, FundingBrings DEF FeeStep
<1>6. CASE \/ \E amount \in Nat : WithdrawFees(amount)
           \/ \E amount \in Nat : WithdrawInsurance(amount)
           \/ \E u \in Users : RegisterReferral(u)
           \/ \E u \in Users, rate \in Nat : SetFeeShare(u, rate)
           \/ \E u \in Users : ClaimReferral(u)
    <2>1. UNCHANGED <<shares, lpFees>>
        BY <1>6 DEF WithdrawFees, WithdrawInsurance, RegisterReferral,
                    SetFeeShare, ClaimReferral
    <2>2. QED
        BY <2>1, NoFees DEF FeeStep
<1>7. CASE \/ Tick
           \/ \E price \in Nat : UpdateOracle(price)
           \/ \E m \in Markets, price \in Nat : UpdateMarketOracle(m, price)
           \/ \E m \in Markets : CheckAndPause(m)
           \/ \E new \in ParamSets, pause \in Pauses : UpdateParams(new, pause)
    <2>1. UNCHANGED <<shares, lpFees>>
        BY <1>7 DEF Tick, UpdateOracle, UpdateMarketOracle, CheckAndPause,
                    UpdateParams, money
    <2>2. QED
        BY <2>1, NoFees DEF FeeStep
<1>8. QED
    BY <1>1, <1>2, <1>3, <1>4, <1>5, <1>6, <1>7, Zenon DEF TypedStep

(* What the action property says of one step.                              *)
EarnedStep ==
    acc_fee_per_share > 0 =>
        LpClaims' - LpClaims <= accumulated_fees' - accumulated_fees + NumUsers

(* From the first fee on that reached the accumulator, no buying, burning  *)
(* or claiming, in any order and by any providers, makes them together     *)
(* more than the fees that came in, but for one unit each when the         *)
(* accumulator moves.                                                      *)
THEOREM ProvidersEarnFees == Spec => ClaimsEarned
<1>1. TypeOK /\ TypeOK' /\ SharesLedger /\ [Next]_vars => [EarnedStep]_vars
    <2>. SUFFICES ASSUME TypeOK, TypeOK', SharesLedger, Next, acc_fee_per_share > 0
                  PROVE  LpClaims' - LpClaims <=
                             accumulated_fees' - accumulated_fees + NumUsers
        BY DEF EarnedStep
    <2>1. CASE FeesComeIn
        BY <2>1, FeesAreEarned
    <2>2. CASE \E u \in Users, amount \in Nat : LpDeposit(u, amount)
        BY <2>2, DepositClaims
    <2>3. CASE \E u \in Users, n \in Nat : LpWithdraw(u, n)
        BY <2>3, WithdrawalClaims
    <2>4. CASE \E u \in Users : ClaimFees(u)
        BY <2>4, ClaimingClaims
    <2>5. QED
        BY <2>1, <2>2, <2>3, <2>4, StepsAreTyped, StepsOfTheFees, Zenon DEF FeeStep
<1>2. QED
    BY <1>1, TypeCorrect, SharesAreOwned, PTL DEF Spec, ClaimsEarned, EarnedStep

=============================================================================
