----------------------------- MODULE Governance -----------------------------
(***************************************************************************)
(* Who may change the protocol and how soon: the admin key, its hand-over  *)
(* in two steps, the direct change of parameters, and the timelock through *)
(* which a change is proposed, waits, and is executed by anyone.           *)
(*                                                                         *)
(* fee_bps stands for the numbers among the parameters; a field that a     *)
(* call leaves alone is Option::None, here the empty set, and Some(v) is   *)
(* {v}.                                                                    *)
(***************************************************************************)
EXTENDS Integers

CONSTANTS
    Keys,               \* who may sign
    InitAdmin,
    Delay,              \* TIMELOCK_DELAY (86_400)
    MaxFeeBps,          \* largest fee update_params accepts (500)
    Fees,               \* fees the admin may ask for
    Vaults,             \* 0 is the fee vault, 1 the insurance fund
    Amounts,            \* sizes of withdrawals
    InitBalance,        \* what each vault can spare
    MaxTime             \* bound on the clock

ASSUME GovernanceAssumption ==
    /\ InitAdmin \in Keys
    /\ Delay \in Nat \ {0} /\ MaxFeeBps \in Nat
    /\ Fees \subseteq Nat /\ Amounts \subseteq Nat /\ InitBalance \in Nat
    /\ MaxTime \in Nat

VARIABLES
    now,
    admin, pending_admin,
    fee_bps, is_paused, manual_pause,
    pending_params, params_execute_after,
    pending_withdrawal, withdrawal_execute_after,   \* one for each vault
    balance,
    proposed_at     \* history: when the live proposal was made, 0 for none

authority   == <<admin, pending_admin>>
settings    == <<fee_bps, is_paused, manual_pause>>
proposal    == <<pending_params, params_execute_after, proposed_at>>
withdrawals == <<pending_withdrawal, withdrawal_execute_after>>
vars == <<now, authority, settings, proposal, withdrawals, balance>>

Option(S) == {option \in SUBSET S : \A v, w \in option : v = w}

ProtocolParams ==
    [fee_bps: Option(Nat), is_paused: Option(BOOLEAN), admin: Option(Keys)]

(* Those a caller chooses from.                                            *)
Requests ==
    [fee_bps: Option(Fees), is_paused: Option(BOOLEAN), admin: Option(Keys)]

TypeOK ==
    /\ now \in Nat \ {0}
    /\ admin \in Keys /\ pending_admin \in Option(Keys)
    /\ fee_bps \in Nat
    /\ is_paused \in BOOLEAN /\ manual_pause \in BOOLEAN
    /\ pending_params \in Option(ProtocolParams)
    /\ params_execute_after \in Nat /\ proposed_at \in Nat
    /\ pending_withdrawal \in [Vaults -> Nat]
    /\ withdrawal_execute_after \in [Vaults -> Nat]
    /\ balance \in [Vaults -> Nat]

Init ==
    /\ now = 1
    /\ admin = InitAdmin /\ pending_admin = {}
    /\ fee_bps = 0
    /\ is_paused = FALSE /\ manual_pause = FALSE
    /\ pending_params = {} /\ params_execute_after = 0 /\ proposed_at = 0
    /\ pending_withdrawal = [v \in Vaults |-> 0]
    /\ withdrawal_execute_after = [v \in Vaults |-> 0]
    /\ balance = [v \in Vaults |-> InitBalance]

-----------------------------------------------------------------------------
(* The value an optional field leaves in force.                            *)
Given(option, old) == IF option = {} THEN old ELSE CHOOSE v \in option : TRUE

Apply(p) ==
    /\ fee_bps' = Given(p.fee_bps, fee_bps)
    /\ is_paused' = Given(p.is_paused, is_paused)
    /\ manual_pause' = Given(p.is_paused, manual_pause)
    /\ pending_admin' = IF p.admin = {} THEN pending_admin ELSE p.admin

(* Mutant: the fee is not checked.                                         *)
AnyBounds(p) == TRUE

WithinBounds(p) == \A fee \in p.fee_bps : fee <= MaxFeeBps

(* update_params: at once, "kept for pause/unpause emergencies".           *)
UpdateParams(k, p) ==
    /\ k = admin
    /\ WithinBounds(p)
    /\ Apply(p)
    /\ UNCHANGED <<now, admin, proposal, withdrawals, balance>>

(* Mutant: new parameters inherit what is left of the old delay.           *)
ProposeWithinOldDelay(k, p) ==
    /\ k = admin /\ WithinBounds(p)
    /\ pending_params' = {p} /\ proposed_at' = now
    /\ params_execute_after' =
          IF pending_params = {} THEN now + Delay ELSE params_execute_after
    /\ UNCHANGED <<now, authority, settings, withdrawals, balance>>

(* A proposal replaces the pending one and starts the delay afresh.        *)
ProposeParams(k, p) ==
    /\ k = admin
    /\ WithinBounds(p)
    /\ pending_params' = {p}
    /\ params_execute_after' = now + Delay
    /\ proposed_at' = now
    /\ UNCHANGED <<now, authority, settings, withdrawals, balance>>

(* execute_params: anyone, once; the bounds are not looked at again.       *)
ExecuteParams ==
    /\ now >= params_execute_after
    /\ \E p \in pending_params : Apply(p)
    /\ pending_params' = {}
    /\ params_execute_after' = 0
    /\ proposed_at' = 0
    /\ UNCHANGED <<now, admin, withdrawals, balance>>

(* cancel_timelock clears everything pending at once.                      *)
CancelTimelock(k) ==
    /\ k = admin
    /\ pending_params' = {}
    /\ params_execute_after' = 0
    /\ pending_withdrawal' = [v \in Vaults |-> 0]
    /\ withdrawal_execute_after' = [v \in Vaults |-> 0]
    /\ proposed_at' = 0
    /\ UNCHANGED <<now, authority, settings, balance>>

ProposeWithdrawal(k, v, amount) ==
    /\ k = admin
    /\ pending_withdrawal' = [pending_withdrawal EXCEPT ![v] = amount]
    /\ withdrawal_execute_after' =
          [withdrawal_execute_after EXCEPT ![v] = now + Delay]
    /\ UNCHANGED <<now, authority, settings, proposal, balance>>

(* Mutant: the admin is paid whatever the vault holds.                     *)
Overdraw(k, v, amount) ==
    /\ k = admin
    /\ balance' = [balance EXCEPT ![v] = @ - amount]
    /\ UNCHANGED <<now, authority, settings, proposal, withdrawals>>

(* withdraw_fees and withdraw_insurance never read the timelock; what they *)
(* leave in the vaults is in Treasury.                                     *)
Withdraw(k, v, amount) ==
    /\ k = admin
    /\ balance[v] >= amount
    /\ balance' = [balance EXCEPT ![v] = @ - amount]
    /\ UNCHANGED <<now, authority, settings, proposal, withdrawals>>

(* accept_admin: signed by the key the admin named.                        *)
AcceptAdmin(k) ==
    /\ pending_admin = {k}
    /\ admin' = k
    /\ pending_admin' = {}
    /\ UNCHANGED <<now, settings, proposal, withdrawals, balance>>

Tick ==
    /\ now < MaxTime
    /\ now' = now + 1
    /\ UNCHANGED <<authority, settings, proposal, withdrawals, balance>>

Next ==
    \/ \E k \in Keys, p \in Requests : UpdateParams(k, p)
    \/ \E k \in Keys, p \in Requests : ProposeParams(k, p)
    \/ ExecuteParams
    \/ \E k \in Keys : CancelTimelock(k)
    \/ \E k \in Keys, v \in Vaults, amount \in Amounts :
          ProposeWithdrawal(k, v, amount)
    \/ \E k \in Keys, v \in Vaults, amount \in Amounts : Withdraw(k, v, amount)
    \/ \E k \in Keys : AcceptAdmin(k)
    \/ Tick

Spec == Init /\ [][Next]_vars

-----------------------------------------------------------------------------
(* Properties.                                                             *)

(* What is pending is the live proposal, and its own delay is running.     *)
OneDelayPerProposal ==
    /\ pending_params = {} <=> proposed_at = 0
    /\ pending_params # {} => params_execute_after = proposed_at + Delay

(* execute_params applies what was checked when it was proposed: the fee   *)
(* in force, and the fee waiting, are within the bound.                    *)
FeeBounded ==
    /\ fee_bps <= MaxFeeBps
    /\ \A p \in pending_params : WithinBounds(p)

(* The parameters, the pause and the nominated successor change in a call  *)
(* the admin signs for it, or by a proposal that is still live and has     *)
(* waited for its whole delay: replacing, cancelling or executing          *)
(* proposals in any order never shortens the wait of one or revives        *)
(* another.                                                                *)
ChangesWait ==
    [][(settings' # settings \/ pending_admin' \notin {pending_admin, {}}) =>
          \/ \E k \in Keys, p \in Requests : UpdateParams(k, p)
          \/ proposed_at > 0 /\ now >= proposed_at + Delay]_vars

(* As lib.rs announces withdrawals: what leaves a vault was proposed and   *)
(* has waited ("propose a timelocked withdrawal (24h delay)").             *)
WithdrawalsWait ==
    [][\A v \in Vaults : balance'[v] < balance[v] =>
          /\ pending_withdrawal[v] >= balance[v] - balance'[v]
          /\ now >= withdrawal_execute_after[v]]_vars

=============================================================================
