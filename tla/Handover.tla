------------------------------ MODULE Handover ------------------------------
(***************************************************************************)
(* How the protocol passes from the key it was deployed with to a multisig *)
(* of the team: the scripts that name the multisig's vault as the next     *)
(* admin, hand it the upgrade authority, check that this is done, and put  *)
(* calls to the vote, next to the program's own rules for its admin in     *)
(* Governance.                                                             *)
(*                                                                         *)
(* A script reads the chain, may wait, and sends one transaction: what it  *)
(* has read may be out of date.  The multisig is Squads: it numbers its    *)
(* transactions and executes each once, signed by the vault, when enough   *)
(* members approve.  One sent with a number that is taken by now changes   *)
(* nothing, so that reading the number and sending are one step here.      *)
(***************************************************************************)
EXTENDS Governance, Sequences, FiniteSets

CONSTANTS
    Vault,              \* MULTISIG_VAULT
    Members,            \* of the multisig: they run the scripts and vote
    Threshold,
    MaxTransactions     \* bound on the transactions put to the vote

ASSUME HandoverAssumption ==
    /\ Vault \in Keys \ Members /\ InitAdmin \in Members
    /\ Keys \cap {"none", "accept", "restore secondary", "upgrade", "elsewhere"} = {}
    /\ Threshold \in Nat /\ MaxTransactions \in Nat

VARIABLES
    script,             \* what each member's script is about to send
    transactions,       \* of the multisig: payload and approvals, or Executed
    keeper_key,         \* secondary_authority is the keeper's
    upgrade_authority,
    buffer,             \* a program buffer of the vault's is there
    version,            \* of the program
    seen,               \* what verify-multisig-setup.ts has seen first
    passed,             \* the last run of it has passed
    moved               \* history: the admin has changed since it looked

handoverVars == <<script, transactions, keeper_key, upgrade_authority, buffer,
                  version, seen, passed, moved>>

Idle0 == "idle"
Nothing0 == [fee_bps |-> {}, is_paused |-> {}, admin |-> {}]
Nominates(k) == [Nothing0 EXCEPT !.admin = {k}]

(* What the proposing scripts put to the vote, and what members write in   *)
(* the multisig's own interface: the vault accepts, or names a successor.  *)
Scripted == {"restore secondary", "upgrade", "elsewhere"}
Successors == Keys \cap Members
Payloads == Scripted \cup {"accept"} \cup Successors

Executed == [payload |-> "none", approvals |-> {}]

HandoverInit ==
    /\ script = [k \in Members |-> Idle0]
    /\ transactions = << >>
    /\ keeper_key = FALSE /\ upgrade_authority = InitAdmin
    /\ buffer = TRUE /\ version = 1
    /\ seen = FALSE /\ passed = FALSE /\ moved = FALSE

-----------------------------------------------------------------------------
Runs(k, what) == script[k] = Idle0 /\ script' = [script EXCEPT ![k] = what]
Ends(k) == script' = [script EXCEPT ![k] = Idle0]

AdminMoves == moved' = (moved \/ admin' # admin)

(* transfer-admin-to-multisig.ts as far as the pause of five seconds: the  *)
(* signer is the admin, and the vault is not.                              *)
TransferAdmin(k) ==
    /\ admin = k /\ admin # Vault
    /\ Runs(k, "nominate")
    /\ UNCHANGED <<vars, transactions, keeper_key, upgrade_authority, buffer, version,
                   seen, passed, moved>>

(* The call after the pause; the program may refuse it by now.             *)
SendNomination(k) ==
    /\ script[k] = "nominate"
    /\ IF admin = k THEN UpdateParams(k, Nominates(Vault)) ELSE UNCHANGED vars
    /\ Ends(k)
    /\ UNCHANGED <<transactions, keeper_key, upgrade_authority, buffer, version,
                   seen, passed, moved>>

(* set-secondary-authority.ts and update-fee-structure.ts.                 *)
SetSecondary(k) ==
    /\ UpdateParams(k, Nothing0) /\ keeper_key' = TRUE
    /\ UNCHANGED <<script, transactions, upgrade_authority, buffer, version,
                   seen, passed, moved>>

UpdateFees(k, fee) ==
    /\ UpdateParams(k, [Nothing0 EXCEPT !.fee_bps = {fee}])
    /\ UNCHANGED handoverVars

(* transfer-upgrade-authority.ts: signed by the authority there is.        *)
TransferUpgradeAuthority(k) ==
    /\ upgrade_authority = k /\ upgrade_authority' = Vault
    /\ UNCHANGED <<vars, script, transactions, keeper_key, buffer, version,
                   seen, passed, moved>>

(* Whoever holds the upgrade authority can replace the program.            *)
UpgradeAlone(k) ==
    /\ upgrade_authority = k /\ version = 1 /\ version' = 2
    /\ UNCHANGED <<vars, script, transactions, keeper_key, upgrade_authority, buffer,
                   seen, passed, moved>>

-----------------------------------------------------------------------------
(* Made, proposed and approved by its creator in one transaction.          *)
Proposes(k, payload) ==
    /\ Len(transactions) < MaxTransactions
    /\ transactions' = Append(transactions, [payload |-> payload, approvals |-> {k}])
    /\ UNCHANGED <<vars, script, keeper_key, upgrade_authority, buffer, version,
                   seen, passed, moved>>

ProposeRestoreSecondary(k) == Proposes(k, "restore secondary")
ProposeProgramUpgrade(k)   == buffer /\ Proposes(k, "upgrade")
ProposeSolTransfer(k)      == Proposes(k, "elsewhere")
ProposeVerifyProgram(k)    == Proposes(k, "elsewhere")
ProposeByHand(k)           == \E p \in Payloads \ Scripted : Proposes(k, p)

Approve(k, i) ==
    /\ transactions[i] # Executed
    /\ transactions' = [transactions EXCEPT ![i].approvals = @ \cup {k}]
    /\ UNCHANGED <<vars, script, keeper_key, upgrade_authority, buffer, version,
                   seen, passed, moved>>

(* What an executed transaction does, signed by the vault; its SOL and the *)
(* build information are no part of the protocol.                          *)
Does(payload) ==
    \/ /\ payload = "restore secondary"
       /\ UpdateParams(Vault, Nothing0) /\ keeper_key' = TRUE
       /\ UNCHANGED <<upgrade_authority, buffer, version>>
    \/ /\ payload = "upgrade"
       /\ buffer /\ upgrade_authority = Vault
       /\ version' = 2 /\ buffer' = FALSE
       /\ UNCHANGED <<vars, keeper_key, upgrade_authority>>
    \/ /\ payload = "elsewhere"
       /\ UNCHANGED <<vars, keeper_key, upgrade_authority, buffer, version>>
    \/ /\ payload = "accept"
       /\ AcceptAdmin(Vault)
       /\ UNCHANGED <<keeper_key, upgrade_authority, buffer, version>>
    \/ /\ payload \in Successors
       /\ UpdateParams(Vault, Nominates(payload))
       /\ UNCHANGED <<keeper_key, upgrade_authority, buffer, version>>

Execute(i) ==
    /\ Cardinality(transactions[i].approvals) >= Threshold
    /\ Does(transactions[i].payload)
    /\ transactions' = [transactions EXCEPT ![i] = Executed]
    /\ AdminMoves
    /\ UNCHANGED <<script, seen, passed>>

-----------------------------------------------------------------------------
(* verify-multisig-setup.ts reads the state of the program, and then the   *)
(* upgrade authority.                                                      *)
VerifyState ==
    /\ seen' = (admin = Vault /\ keeper_key)
    /\ passed' = FALSE /\ moved' = FALSE
    /\ UNCHANGED <<vars, script, transactions, keeper_key, upgrade_authority, buffer,
                   version>>

(* Mutant: the last check decides.                                         *)
LastCheckDecides == upgrade_authority = Vault

AllPass == seen /\ upgrade_authority = Vault

VerifyUpgrade ==
    /\ passed' = AllPass /\ seen' = FALSE
    /\ UNCHANGED <<vars, script, transactions, keeper_key, upgrade_authority, buffer,
                   version, moved>>

(* The clock matters only to what is in the timelock.                      *)
DelayPasses ==
    /\ pending_params # {} /\ now < params_execute_after
    /\ now' = params_execute_after /\ now' <= MaxTime
    /\ UNCHANGED <<authority, settings, proposal, withdrawals, balance>>

(* The program's own calls that no script makes: a nominee accepts, and an *)
(* admin names a successor by the timelock, which anyone executes.         *)
CallsOfGovernance ==
    /\ \/ \E k \in Members : AcceptAdmin(k)
       \/ \E k, j \in Successors : ProposeParams(k, Nominates(j))
       \/ ExecuteParams
       \/ \E k \in Members : CancelTimelock(k)
       \/ DelayPasses
    /\ AdminMoves
    /\ UNCHANGED <<script, transactions, keeper_key, upgrade_authority, buffer, version,
                   seen, passed>>

HandoverNext ==
    \/ \E k \in Members :
        \/ TransferAdmin(k) \/ SendNomination(k)
        \/ SetSecondary(k) \/ TransferUpgradeAuthority(k) \/ UpgradeAlone(k)
        \/ \E fee \in Fees : UpdateFees(k, fee)
        \/ ProposeRestoreSecondary(k) \/ ProposeProgramUpgrade(k)
        \/ ProposeSolTransfer(k) \/ ProposeVerifyProgram(k) \/ ProposeByHand(k)
        \/ \E i \in DOMAIN transactions : Approve(k, i)
    \/ \E i \in DOMAIN transactions : Execute(i)
    \/ VerifyState \/ VerifyUpgrade
    \/ CallsOfGovernance

HandoverSpec == Init /\ HandoverInit /\ [][HandoverNext]_<<vars, handoverVars>>

-----------------------------------------------------------------------------
Protocol == <<admin, pending_admin, settings, keeper_key, upgrade_authority, version>>

(* Once verify-multisig-setup.ts has passed, and until the admin moves on, *)
(* no key by itself changes the protocol or its program: what changes is   *)
(* what the members have voted, a successor they have named who accepts,   *)
(* or a change the former admin had put in the timelock, which outlives    *)
(* the hand-over.  Scripts that were already running, nominations half     *)
(* made and hand-overs taken back do not get round it.                     *)
MembersDecide ==
    [][passed /\ ~moved /\ Protocol' # Protocol =>
          \/ \E i \in DOMAIN transactions :
                transactions[i] # Executed /\ transactions'[i] = Executed
          \/ pending_params # {} /\ pending_params' = {}
          \/ \E k \in Keys : pending_admin = {k} /\ admin' = k]_<<vars, handoverVars>>
=============================================================================
