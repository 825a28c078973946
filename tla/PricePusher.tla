---------------------------- MODULE PricePusher ----------------------------
(***************************************************************************)
(* watch-keeper.js: the process that pushes feed prices to the market      *)
(* oracles.  Each tick it computes one price for every market of a group   *)
(* from what it believes is on chain, sends them in one transaction, and   *)
(* when that fails sends each market alone.  The send returns before the   *)
(* transaction executes, and the interval timer starts the next tick       *)
(* whether or not the last has finished.                                   *)
(*                                                                         *)
(* Markets is one group (TX_CHUNK); the groups of a tick follow each other *)
(* and share nothing.  The node simulates a transaction before it accepts  *)
(* it, and update_market_oracle refuses a price that is more than a fifth  *)
(* away from the last.  A refusal for coming too soon after the last       *)
(* update is one of the ways a transaction is lost.                        *)
(***************************************************************************)
EXTENDS Integers, Sequences, SequencesExt

CONSTANTS
    Markets,
    Ticks,          \* ticks that may be under way at once
    Targets,        \* what the feed may say of each market, 0 for nothing
    InitPrice,      \* on chain when the keeper starts
    MaxInFlight,    \* bound on the transactions under way
    MaxLosses       \* bound on lost transactions, failed calls and restarts

ASSUME PusherAssumption ==
    /\ Targets \in [Markets -> SUBSET Nat] /\ InitPrice \in Nat \ {0}
    /\ MaxInFlight \in Nat \ {0} /\ MaxLosses \in Nat

VARIABLES
    price,      \* OracleAccount.price of each market
    believed,   \* state[marketId].price, what the keeper last pushed
    target,     \* priceFeeds.getTarget of each market
    inflight,   \* accepted transactions that have not executed, oldest first
    pc,         \* where each tick is: idle, sending, isolating
    batch,      \* the prices a tick has computed
    left,       \* markets a tick has yet to send alone
    faults      \* how much has gone wrong so far

pusherVars == <<price, believed, target, inflight, pc, batch, left, faults>>

PusherTypeOK ==
    /\ price \in [Markets -> Nat \ {0}]
    /\ believed \in [Markets -> Nat \ {0}]
    /\ \A m \in Markets : target[m] \in Targets[m] \cup {0}
    /\ pc \in [Ticks -> {"idle", "sending", "isolating"}]
    /\ left \in [Ticks -> SUBSET Markets]
    /\ \A i \in DOMAIN inflight : DOMAIN inflight[i] \subseteq Markets
    /\ faults \in 0 .. MaxLosses

PusherInit ==
    /\ price = [m \in Markets |-> InitPrice]
    /\ believed = price
    /\ target = [m \in Markets |-> 0]
    /\ inflight = << >>
    /\ pc = [k \in Ticks |-> "idle"]
    /\ batch = [k \in Ticks |-> << >>]
    /\ left = [k \in Ticks |-> {}]
    /\ faults = 0

-----------------------------------------------------------------------------
Distance(a, b) == IF a > b THEN a - b ELSE b - a

(* update_market_oracle: at most MAX_ORACLE_DEVIATION_BPS from the last.   *)
Acceptable(old, new) ==
    new > 0 /\ Distance(old, new) <= (old * 2000) \div 10000

(* The clamped step, MAX_STEP * 0.99 of the price, to the nearest unit.    *)
Step(p) == (p * 1485 + 5000) \div 10000

(* nextPrice: towards the target, at most MAX_STEP (15 percent) from what  *)
(* the keeper believes.                                                    *)
NextPrice(m) ==
    LET p == believed[m]  t == target[m]
    IN  IF t = 0 THEN p
        ELSE IF Distance(t, p) * 100 <= 15 * p THEN t
        ELSE IF t > p THEN p + Step(p) ELSE p - Step(p)

FeedMoves(m, t) ==
    /\ target' = [target EXCEPT ![m] = t]
    /\ UNCHANGED <<price, believed, inflight, pc, batch, left, faults>>

BeginTick(k) ==
    /\ pc[k] = "idle"
    /\ pc' = [pc EXCEPT ![k] = "sending"]
    /\ batch' = [batch EXCEPT ![k] = [m \in Markets |-> NextPrice(m)]]
    /\ UNCHANGED <<price, believed, target, inflight, left, faults>>

Part(k, M) == [m \in M |-> batch[k][m]]

(* The simulation of a transaction on the present state.                   *)
Simulates(tx) == \A m \in DOMAIN tx : Acceptable(price[m], tx[m])

Accept(tx) == inflight' = Append(inflight, tx)
HasRoom == Len(inflight) < MaxInFlight

(* Mutant: what is known of the other markets is forgotten.                *)
BelieveOnly(tx) == believed' = tx

(* Only an accepted transaction changes what the keeper believes.  (The    *)
(* answer comes after an await; a tick that begins in between behaves as   *)
(* one that began before.)                                                 *)
Believe(tx) ==
    believed' = [m \in Markets |-> IF m \in DOMAIN tx THEN tx[m] ELSE believed[m]]

Isolate(k) ==
    /\ pc' = [pc EXCEPT ![k] = "isolating"]
    /\ left' = [left EXCEPT ![k] = Markets]
    /\ UNCHANGED batch

(* A tick that is over keeps nothing.                                      *)
EndTick(k) ==
    /\ pc' = [pc EXCEPT ![k] = "idle"]
    /\ batch' = [batch EXCEPT ![k] = << >>]

SendGroup(k) ==
    /\ pc[k] = "sending" /\ HasRoom
    /\ Simulates(batch[k])
    /\ Accept(batch[k]) /\ Believe(batch[k])
    /\ EndTick(k)
    /\ UNCHANGED <<price, target, left, faults>>

(* Mutant: one bad price and the whole group waits for the next tick.      *)
GiveUpGroup(k) ==
    /\ pc[k] = "sending"
    /\ ~Simulates(batch[k])
    /\ EndTick(k)
    /\ UNCHANGED <<price, believed, target, inflight, left, faults>>

RefuseGroup(k) ==
    /\ pc[k] = "sending"
    /\ ~Simulates(batch[k])
    /\ Isolate(k)
    /\ UNCHANGED <<price, believed, target, inflight, faults>>

(* One market of a failed group is over, however it went.                  *)
DoneAlone(k, m) ==
    /\ left' = [left EXCEPT ![k] = @ \ {m}]
    /\ IF left[k] = {m} THEN EndTick(k) ELSE UNCHANGED <<pc, batch>>

SendAlone(k, m) ==
    /\ pc[k] = "isolating" /\ m \in left[k]
    /\ DoneAlone(k, m)
    /\ IF Simulates(Part(k, {m}))
       THEN /\ HasRoom
            /\ Accept(Part(k, {m})) /\ Believe(Part(k, {m}))
       ELSE UNCHANGED <<inflight, believed>>
    /\ UNCHANGED <<price, target, faults>>

(* An accepted transaction executes, not necessarily the oldest: all of it *)
(* or none.                                                                *)
Land(i) ==
    /\ i \in DOMAIN inflight
    /\ inflight' = RemoveAt(inflight, i)
    /\ LET tx == inflight[i] IN
       price' = IF Simulates(tx)
                THEN [m \in Markets |-> IF m \in DOMAIN tx THEN tx[m] ELSE price[m]]
                ELSE price
    /\ UNCHANGED <<believed, target, pc, batch, left, faults>>

-----------------------------------------------------------------------------
(* What goes wrong.                                                        *)
Fault == faults < MaxLosses /\ faults' = faults + 1

(* A transaction expires or is refused where it executes: nobody looks.    *)
Lose(i) ==
    /\ Fault
    /\ i \in DOMAIN inflight
    /\ inflight' = RemoveAt(inflight, i)
    /\ UNCHANGED <<price, believed, target, pc, batch, left>>

(* A call fails, before the node has accepted the transaction or after.    *)
FailGroup(k) ==
    /\ Fault
    /\ pc[k] = "sending"
    /\ \/ UNCHANGED inflight
       \/ Simulates(batch[k]) /\ HasRoom /\ Accept(batch[k])
    /\ Isolate(k)
    /\ UNCHANGED <<price, believed, target>>

FailAlone(k, m) ==
    /\ Fault
    /\ pc[k] = "isolating" /\ m \in left[k]
    /\ \/ UNCHANGED inflight
       \/ Simulates(Part(k, {m})) /\ HasRoom /\ Accept(Part(k, {m}))
    /\ DoneAlone(k, m)
    /\ UNCHANGED <<price, believed, target>>

(* A new process believes what it reads from the chain.                    *)
Restart ==
    /\ Fault
    /\ believed' = price
    /\ pc' = [k \in Ticks |-> "idle"]
    /\ batch' = [k \in Ticks |-> << >>]
    /\ left' = [k \in Ticks |-> {}]
    /\ UNCHANGED <<price, target, inflight>>

(* What a tick does of itself.                                             *)
Turn(k) ==
    \/ BeginTick(k) \/ SendGroup(k) \/ RefuseGroup(k)
    \/ \E m \in Markets : SendAlone(k, m)

Progress ==
    \/ \E k \in Ticks : Turn(k)
    \/ \E i \in 1 .. MaxInFlight : Land(i)

PusherNext ==
    \/ Progress
    \/ \E m \in Markets : \E t \in Targets[m] : FeedMoves(m, t)
    \/ \E i \in 1 .. MaxInFlight : Lose(i)
    \/ \E k \in Ticks : FailGroup(k)
    \/ \E k \in Ticks, m \in Markets : FailAlone(k, m)
    \/ Restart

(* The timer starts every tick, every call returns, and a transaction that *)
(* is not lost executes: the oldest is not overtaken for ever.             *)
PusherFairness ==
    /\ \A k \in Ticks : WF_pusherVars(Turn(k))
    /\ WF_pusherVars(Land(1))

PusherSpec == PusherInit /\ [][PusherNext]_pusherVars /\ PusherFairness

-----------------------------------------------------------------------------
(* Properties.                                                             *)

(* The keeper believes what is on chain or about to be.                    *)
Consistent(m) ==
    \/ believed[m] = price[m]
    \/ \E i \in DOMAIN inflight :
          m \in DOMAIN inflight[i] /\ inflight[i][m] = believed[m]

(* A price on chain reaches a target that stays.                           *)
Follows(m) ==
    \A t \in Targets[m] \ {0} : <>[](target[m] = t) => <>[](price[m] = t)

(* As watch-keeper.js says of itself: each tick ramps the price on chain   *)
(* toward the target, in steps so small that "the on-chain ~20% deviation  *)
(* guard never rejects an update".                                         *)
PricesFollow == \A m \in Markets : Follows(m)

(* A market about whose price the keeper is never mistaken is ramped to    *)
(* its target in one step or in many, even while its neighbour's updates   *)
(* are refused every time (runTick: "retry each market alone so one bad    *)
(* update can't freeze its neighbors").                                    *)
UnaffectedFollow == \A m \in Markets : []Consistent(m) => Follows(m)

=============================================================================
