-------------------------- MODULE GovernanceProofs --------------------------
(***************************************************************************)
(* That the timelock keeps its delay, for every delay, set of keys and set *)
(* of proposals; that a hand-over and an upgrade need the votes of as many *)
(* members as the multisig asks for, however the scripts run around it;    *)
(* and that every market listed for the pages is on chain, wherever a run  *)
(* of the market scripts stops.                                            *)
(*                                                                         *)
(* The invariants: the deadline stored with a pending change is its own    *)
(* (OneDelayPerProposal), a transaction that was executed has its votes    *)
(* (Verified), and what a script has in hand it has found on chain or made *)
(* (ListingSound).                                                         *)
(***************************************************************************)
EXTENDS Handover, Operations, TLAPS

LEMMA GivenType ==
    ASSUME NEW S, NEW option \in Option(S), NEW old \in S
    PROVE  Given(option, old) \in S
BY DEF Option, Given

LEMMA RequestsTyped ==
    ASSUME NEW p \in Requests
    PROVE  p \in ProtocolParams
BY GovernanceAssumption DEF Requests, ProtocolParams, Option

(* The fields of a proposal.                                               *)
LEMMA ParamsFields ==
    ASSUME NEW p \in ProtocolParams
    PROVE  /\ p.fee_bps \in Option(Nat)
           /\ p.is_paused \in Option(BOOLEAN)
           /\ p.admin \in Option(Keys)
BY DEF ProtocolParams

LEMMA ApplyType ==
    ASSUME TypeOK, NEW p \in ProtocolParams, Apply(p)
    PROVE  /\ fee_bps' \in Nat
           /\ is_paused' \in BOOLEAN /\ manual_pause' \in BOOLEAN
           /\ pending_admin' \in Option(Keys)
<1>1. fee_bps' \in Nat
    BY ParamsFields, GivenType DEF Apply, TypeOK
<1>2. is_paused' \in BOOLEAN /\ manual_pause' \in BOOLEAN
    <2>1. is_paused \in BOOLEAN /\ manual_pause \in BOOLEAN
        BY Zenon DEF TypeOK
    <2>2. /\ Given(p.is_paused, is_paused) \in BOOLEAN
          /\ Given(p.is_paused, manual_pause) \in BOOLEAN
        BY <2>1, ParamsFields, GivenType, Zenon
    <2>3. QED
        BY <2>2, Zenon DEF Apply
<1>3. pending_admin' \in Option(Keys)
    BY ParamsFields DEF Apply, TypeOK
<1>4. QED
    BY <1>1, <1>2, <1>3

LEMMA SomeIsOption ==
    ASSUME NEW S, NEW v \in S
    PROVE  {v} \in Option(S) /\ {} \in Option(S)
BY DEF Option

LEMMA PickPending ==
    ASSUME TypeOK, NEW p \in pending_params
    PROVE  p \in ProtocolParams
BY DEF TypeOK, Option

LEMMA TypeStep == TypeOK /\ [Next]_vars => TypeOK'
<1>. SUFFICES ASSUME TypeOK, [Next]_vars PROVE TypeOK'
    OBVIOUS
<1>1. CASE \E k \in Keys, p \in Requests : UpdateParams(k, p)
    <2>1. PICK k \in Keys, p \in Requests : UpdateParams(k, p)
        BY <1>1
    <2>2. /\ fee_bps' \in Nat
          /\ is_paused' \in BOOLEAN /\ manual_pause' \in BOOLEAN
          /\ pending_admin' \in Option(Keys)
        BY <2>1, ApplyType, RequestsTyped DEF UpdateParams
    <2>3. UNCHANGED <<now, admin, proposal, withdrawals, balance>>
        BY <2>1 DEF UpdateParams
    <2>4. QED
        BY <2>2, <2>3 DEF TypeOK, proposal, withdrawals
<1>2. CASE \E k \in Keys, p \in Requests : ProposeParams(k, p)
    <2>1. PICK k \in Keys, p \in Requests : ProposeParams(k, p)
        BY <1>2
    <2>2. pending_params' \in Option(ProtocolParams)
        BY <2>1, RequestsTyped, SomeIsOption DEF ProposeParams
    <2>3. params_execute_after' \in Nat /\ proposed_at' \in Nat
        BY <2>1, GovernanceAssumption DEF ProposeParams, TypeOK
    <2>4. UNCHANGED <<now, authority, settings, withdrawals, balance>>
        BY <2>1 DEF ProposeParams
    <2>5. QED
        BY <2>2, <2>3, <2>4 DEF TypeOK, authority, settings, withdrawals
<1>3. CASE ExecuteParams
    <2>1. PICK p \in pending_params : Apply(p)
        BY <1>3 DEF ExecuteParams
    <2>2. /\ fee_bps' \in Nat
          /\ is_paused' \in BOOLEAN /\ manual_pause' \in BOOLEAN
          /\ pending_admin' \in Option(Keys)
        BY <2>1, ApplyType, PickPending
    <2>3. /\ pending_params' = {} /\ params_execute_after' = 0 /\ proposed_at' = 0
          /\ UNCHANGED <<now, admin, withdrawals, balance>>
        BY <1>3 DEF ExecuteParams
    <2>4. pending_params' \in Option(ProtocolParams)
        BY <2>3 DEF Option
    <2>5. QED
        BY <2>2, <2>3, <2>4 DEF TypeOK, withdrawals
<1>4. CASE \E k \in Keys : CancelTimelock(k)
    <2>1. pending_params' \in Option(ProtocolParams)
        BY <1>4 DEF CancelTimelock, Option
    <2>2. QED
        BY <1>4, <2>1 DEF CancelTimelock, TypeOK, authority, settings
<1>5. CASE \E k \in Keys, v \in Vaults, amount \in Amounts :
              ProposeWithdrawal(k, v, amount)
    BY <1>5, GovernanceAssumption
       DEF ProposeWithdrawal, TypeOK, authority, settings, proposal
<1>6. CASE \E k \in Keys, v \in Vaults, amount \in Amounts : Withdraw(k, v, amount)
    BY <1>6, GovernanceAssumption
       DEF Withdraw, TypeOK, authority, settings, proposal, withdrawals
<1>7. CASE \E k \in Keys : AcceptAdmin(k)
    <2>1. pending_admin' \in Option(Keys)
        BY <1>7 DEF AcceptAdmin, Option
    <2>2. QED
        BY <1>7, <2>1 DEF AcceptAdmin, TypeOK, settings, proposal, withdrawals
<1>8. CASE Tick
    BY <1>8 DEF Tick, TypeOK, authority, settings, proposal, withdrawals
<1>9. CASE UNCHANGED vars
    BY <1>9 DEF vars, TypeOK, authority, settings, proposal, withdrawals
<1>10. QED
    BY <1>1, <1>2, <1>3, <1>4, <1>5, <1>6, <1>7, <1>8, <1>9 DEF Next

LEMMA InitType == Init => TypeOK
<1>. SUFFICES ASSUME Init PROVE TypeOK
    OBVIOUS
<1>1. pending_admin \in Option(Keys) /\ pending_params \in Option(ProtocolParams)
    BY DEF Init, Option
<1>2. is_paused \in BOOLEAN /\ manual_pause \in BOOLEAN
    BY Zenon DEF Init
<1>3. QED
    BY <1>1, <1>2, GovernanceAssumption DEF Init, TypeOK

(* Every variable of the governance model keeps its type.                  *)
THEOREM GovernanceTypes == Spec => []TypeOK
BY InitType, TypeStep, PTL DEF Spec

-----------------------------------------------------------------------------
LEMMA DelayStep == TypeOK /\ OneDelayPerProposal /\ [Next]_vars => OneDelayPerProposal'
<1>. SUFFICES ASSUME TypeOK, OneDelayPerProposal, [Next]_vars
              PROVE  OneDelayPerProposal'
    OBVIOUS
<1>1. CASE UNCHANGED proposal
    BY <1>1 DEF proposal, OneDelayPerProposal
<1>2. CASE \E k \in Keys, p \in Requests : ProposeParams(k, p)
    BY <1>2, GovernanceAssumption DEF ProposeParams, OneDelayPerProposal, TypeOK
<1>3. CASE ExecuteParams
    BY <1>3 DEF ExecuteParams, OneDelayPerProposal
<1>4. CASE \E k \in Keys : CancelTimelock(k)
    BY <1>4 DEF CancelTimelock, OneDelayPerProposal
<1>5. QED
    BY <1>1, <1>2, <1>3, <1>4 DEF Next, vars, UpdateParams, ProposeWithdrawal,
       Withdraw, AcceptAdmin, Tick

(* The deadline that execute_params compares with the clock is always the  *)
(* one of the parameters it would apply.                                   *)
THEOREM OneDelay == Spec => []OneDelayPerProposal
<1>1. Init => OneDelayPerProposal
    BY DEF Init, OneDelayPerProposal
<1>2. QED
    BY <1>1, DelayStep, GovernanceTypes, PTL DEF Spec

ChangeStep ==
    (settings' # settings \/ pending_admin' \notin {pending_admin, {}}) =>
        \/ \E k \in Keys, p \in Requests : UpdateParams(k, p)
        \/ proposed_at > 0 /\ now >= proposed_at + Delay

(* No change but the admin's own takes force before it has waited its full *)
(* delay, however proposals replace and cancel each other.                 *)
THEOREM ChangesDoWait == Spec => ChangesWait
<1>1. TypeOK /\ OneDelayPerProposal /\ [Next]_vars => [ChangeStep]_vars
    <2>. SUFFICES ASSUME TypeOK, OneDelayPerProposal, Next PROVE ChangeStep
        OBVIOUS
    <2>1. CASE \E k \in Keys, p \in Requests : UpdateParams(k, p)
        BY <2>1 DEF ChangeStep
    <2>2. CASE ExecuteParams
        <3>1. now >= params_execute_after /\ pending_params # {}
            BY <2>2 DEF ExecuteParams
        <3>2. proposed_at > 0 /\ now >= proposed_at + Delay
            BY <3>1 DEF OneDelayPerProposal, TypeOK
        <3>3. QED
            BY <3>2 DEF ChangeStep
    <2>3. CASE UNCHANGED <<settings, pending_admin>>
        BY <2>3 DEF ChangeStep
    <2>4. CASE \E k \in Keys : AcceptAdmin(k)
        BY <2>4 DEF AcceptAdmin, ChangeStep
    <2>5. QED
        BY <2>1, <2>2, <2>3, <2>4 DEF Next, ProposeParams, CancelTimelock,
           ProposeWithdrawal, Withdraw, Tick, authority
<1>2. QED
    BY <1>1, OneDelay, GovernanceTypes, PTL DEF Spec, ChangesWait, ChangeStep

-----------------------------------------------------------------------------
LEMMA ApplyBounded ==
    ASSUME FeeBounded, NEW p, WithinBounds(p), Apply(p)
    PROVE  fee_bps' <= MaxFeeBps
<1>1. CASE p.fee_bps = {}
    BY <1>1 DEF Apply, Given, FeeBounded
<1>2. CASE p.fee_bps # {}
    BY <1>2 DEF Apply, Given, WithinBounds
<1>3. QED
    BY <1>1, <1>2

LEMMA BoundStep == FeeBounded /\ [Next]_vars => FeeBounded'
<1>. SUFFICES ASSUME FeeBounded, [Next]_vars PROVE FeeBounded'
    OBVIOUS
<1>1. CASE \E k \in Keys, p \in Requests : UpdateParams(k, p)
    BY <1>1, ApplyBounded DEF UpdateParams, FeeBounded, proposal, WithinBounds
<1>2. CASE \E k \in Keys, p \in Requests : ProposeParams(k, p)
    BY <1>2 DEF ProposeParams, FeeBounded, WithinBounds, settings
<1>3. CASE ExecuteParams
    <2>1. PICK p \in pending_params : Apply(p)
        BY <1>3 DEF ExecuteParams
    <2>2. fee_bps' <= MaxFeeBps
        BY <2>1, ApplyBounded DEF FeeBounded
    <2>3. QED
        BY <1>3, <2>2 DEF ExecuteParams, FeeBounded
<1>4. CASE \E k \in Keys : CancelTimelock(k)
    BY <1>4 DEF CancelTimelock, FeeBounded, settings
<1>5. CASE UNCHANGED <<settings, proposal>>
    BY <1>5 DEF FeeBounded, settings, proposal, WithinBounds
<1>6. QED
    BY <1>1, <1>2, <1>3, <1>4, <1>5 DEF Next, vars, ProposeWithdrawal, Withdraw,
       AcceptAdmin, Tick

(* The fee in force stays within its bound though execute_params applies   *)
(* what is pending unchecked.                                              *)
THEOREM FeeIsBounded == Spec => []FeeBounded
<1>1. Init => FeeBounded
    BY GovernanceAssumption DEF Init, FeeBounded
<1>2. QED
    BY <1>1, BoundStep, PTL DEF Spec

-----------------------------------------------------------------------------
(* The hand-over to the multisig (Handover).  Its scripts call the program *)
(* as Next allows, except that its clock jumps.                            *)
LEMMA NothingIsRequest ==
    /\ Nothing0 \in Requests
    /\ \A k \in Keys : Nominates(k) \in Requests
    /\ \A fee \in Fees : [Nothing0 EXCEPT !.fee_bps = {fee}] \in Requests
BY DEF Nothing0, Nominates, Requests, Option

LEMMA DoesStep ==
    ASSUME TypeOK, NEW payload, Does(payload)
    PROVE  Next \/ UNCHANGED vars
<1>1. CASE payload = "restore secondary" /\ UpdateParams(Vault, Nothing0)
    BY <1>1, NothingIsRequest, HandoverAssumption DEF Next
<1>2. CASE payload = "accept" /\ AcceptAdmin(Vault)
    BY <1>2, HandoverAssumption DEF Next
<1>3. CASE payload \in Successors /\ UpdateParams(Vault, Nominates(payload))
    BY <1>3, NothingIsRequest, HandoverAssumption DEF Next, Successors
<1>4. QED
    BY <1>1, <1>2, <1>3, Zenon DEF Does

LEMMA CallStep ==
    ASSUME TypeOK, CallsOfGovernance
    PROVE  Next \/ DelayPasses
<1>1. CASE \E k \in Members : AcceptAdmin(k)
    <2>1. PICK k \in Members : AcceptAdmin(k)
        BY <1>1
    <2>2. k \in Keys
        BY <2>1 DEF AcceptAdmin, TypeOK, Option
    <2>3. QED
        BY <2>1, <2>2 DEF Next
<1>2. CASE \E k, j \in Successors : ProposeParams(k, Nominates(j))
    BY <1>2, NothingIsRequest DEF Next, Successors
<1>3. CASE \E k \in Members : CancelTimelock(k)
    BY <1>3 DEF Next, CancelTimelock, TypeOK
<1>4. QED
    BY <1>1, <1>2, <1>3, Zenon DEF CallsOfGovernance, Next

LEMMA HandoverStep ==
    TypeOK /\ [HandoverNext]_<<vars, handoverVars>> => [Next]_vars \/ DelayPasses
<1>. SUFFICES ASSUME TypeOK, [HandoverNext]_<<vars, handoverVars>>
              PROVE  [Next]_vars \/ DelayPasses
    OBVIOUS
<1>0. ASSUME NEW k, NEW p \in Requests, UpdateParams(k, p) PROVE Next
    BY <1>0 DEF Next, UpdateParams, TypeOK
<1>1. ASSUME NEW k \in Members, SendNomination(k) PROVE [Next]_vars
    BY <1>1, <1>0, NothingIsRequest, HandoverAssumption DEF SendNomination
<1>2. ASSUME NEW k \in Members, SetSecondary(k) PROVE Next
    BY <1>2, <1>0, NothingIsRequest DEF SetSecondary
<1>3. ASSUME NEW k \in Members, NEW fee \in Fees, UpdateFees(k, fee) PROVE Next
    BY <1>3, <1>0, NothingIsRequest DEF UpdateFees
<1>4. ASSUME NEW i \in DOMAIN transactions, Execute(i) PROVE [Next]_vars
    BY <1>4, DoesStep DEF Execute
<1>5. CASE CallsOfGovernance
    BY <1>5, CallStep
<1>6. CASE UNCHANGED vars
    BY <1>6
<1>7. QED
    BY <1>1, <1>2, <1>3, <1>4, <1>5, <1>6, Zenon DEF HandoverNext, TransferAdmin,
       TransferUpgradeAuthority, UpgradeAlone, ProposeRestoreSecondary,
       ProposeProgramUpgrade, ProposeSolTransfer, ProposeVerifyProgram, ProposeByHand,
       Proposes, Approve, VerifyState, VerifyUpgrade

LEMMA HandoverTypeStep ==
    TypeOK /\ [HandoverNext]_<<vars, handoverVars>> => TypeOK'
<1>1. TypeOK /\ DelayPasses => TypeOK'
    BY DEF DelayPasses, TypeOK, authority, settings, proposal, withdrawals
<1>2. QED
    BY <1>1, HandoverStep, TypeStep

(* Why what verify-multisig-setup.ts saw still holds when it passes: what  *)
(* it has seen of the state is undone only by a move of the admin, and an  *)
(* upgrade authority the vault has never leaves it.                        *)
Verified ==
    /\ seen /\ ~moved => admin = Vault
    /\ passed /\ ~moved => admin = Vault /\ upgrade_authority = Vault

LEMMA AdminKept ==
    ASSUME [HandoverNext]_<<vars, handoverVars>>,
           ~VerifyState, ~moved'
    PROVE  admin' = admin /\ ~moved
<1>1. CASE UNCHANGED <<admin, moved>>
    BY <1>1
<1>2. CASE AdminMoves
    BY <1>2 DEF AdminMoves
<1>3. QED
    BY <1>1, <1>2 DEF HandoverNext, TransferAdmin, SendNomination, SetSecondary, UpdateFees,
       TransferUpgradeAuthority, UpgradeAlone, ProposeRestoreSecondary,
       ProposeProgramUpgrade, ProposeSolTransfer, ProposeVerifyProgram, ProposeByHand,
       Proposes, Approve, Execute, VerifyUpgrade, CallsOfGovernance, UpdateParams,
       vars, authority, handoverVars

LEMMA AuthorityKept ==
    ASSUME [HandoverNext]_<<vars, handoverVars>>, upgrade_authority = Vault
    PROVE  upgrade_authority' = Vault
BY HandoverAssumption DEF HandoverNext, TransferAdmin, SendNomination, SetSecondary,
   UpdateFees, TransferUpgradeAuthority, UpgradeAlone, ProposeRestoreSecondary,
   ProposeProgramUpgrade, ProposeSolTransfer, ProposeVerifyProgram, ProposeByHand,
   Proposes, Approve, Execute, Does, VerifyState, VerifyUpgrade, CallsOfGovernance,
   handoverVars

LEMMA VerifiedStep ==
    Verified /\ [HandoverNext]_<<vars, handoverVars>> => Verified'
<1>. SUFFICES ASSUME Verified, [HandoverNext]_<<vars, handoverVars>> PROVE Verified'
    OBVIOUS
<1>1. CASE VerifyState
    BY <1>1, Zenon DEF VerifyState, Verified, vars, authority
<1>2. CASE VerifyUpgrade
    BY <1>2, Zenon DEF VerifyUpgrade, AllPass, Verified, vars, authority
<1>3. CASE UNCHANGED <<seen, passed>> /\ ~VerifyState
    BY <1>3, AdminKept, AuthorityKept, Zenon DEF Verified
<1>4. QED
    BY <1>1, <1>2, <1>3, Zenon DEF HandoverNext, TransferAdmin, SendNomination, SetSecondary,
       UpdateFees, TransferUpgradeAuthority, UpgradeAlone, ProposeRestoreSecondary,
       ProposeProgramUpgrade, ProposeSolTransfer, ProposeVerifyProgram, ProposeByHand,
       Proposes, Approve, Execute, CallsOfGovernance, handoverVars

(* The types hold through the hand-over, whose clock jumps.                *)
LEMMA HandoverTypes == HandoverSpec => []TypeOK
BY InitType, HandoverTypeStep, PTL DEF HandoverSpec

LEMMA VerifiedHolds == HandoverSpec => []Verified
<1>1. HandoverInit => Verified
    BY DEF HandoverInit, Verified
<1>2. QED
    BY <1>1, VerifiedStep, PTL DEF HandoverSpec

MembersStep ==
    passed /\ ~moved /\ Protocol' # Protocol =>
        \/ \E i \in DOMAIN transactions :
              transactions[i] # Executed /\ transactions'[i] = Executed
        \/ pending_params # {} /\ pending_params' = {}
        \/ \E k \in Keys : pending_admin = {k} /\ admin' = k

(* An executed transaction was not executed before: it does something.     *)
LEMMA ExecutesOnce ==
    ASSUME NEW i \in DOMAIN transactions, Execute(i)
    PROVE  transactions[i] # Executed /\ transactions'[i] = Executed
<1>1. ~Does("none")
    BY HandoverAssumption DEF Does, Successors
<1>2. transactions[i].payload # "none"
    BY <1>1 DEF Execute
<1>3. QED
    BY <1>2 DEF Execute, Executed

LEMMA VoteDecides ==
    TypeOK /\ Verified /\ [HandoverNext]_<<vars, handoverVars>>
        => [MembersStep]_<<vars, handoverVars>>
<1>. SUFFICES ASSUME TypeOK, Verified, HandoverNext, passed, ~moved
              PROVE  MembersStep
    BY DEF MembersStep
<1>0. admin = Vault /\ upgrade_authority = Vault /\ Vault \notin Members
    BY HandoverAssumption DEF Verified
<1>1. ASSUME NEW i \in DOMAIN transactions, Execute(i) PROVE MembersStep
    BY <1>1, ExecutesOnce, Zenon DEF MembersStep
<1>2. CASE CallsOfGovernance
    <2>1. ASSUME NEW k \in Members, AcceptAdmin(k) PROVE MembersStep
        <3>1. k \in Keys
            BY <2>1 DEF AcceptAdmin, TypeOK, Option
        <3>2. QED
            BY <2>1, <3>1 DEF AcceptAdmin, MembersStep
    <2>2. CASE ExecuteParams
        BY <2>2 DEF ExecuteParams, MembersStep
    <2>3. CASE UNCHANGED Protocol
        BY <2>3 DEF MembersStep
    <2>4. QED
        BY <1>2, <2>1, <2>2, <2>3, Zenon DEF CallsOfGovernance, ProposeParams, CancelTimelock,
           DelayPasses, Protocol, authority, settings
<1>3. CASE UNCHANGED Protocol
    BY <1>3 DEF MembersStep
<1>4. ASSUME NEW k \in Members, SendNomination(k) PROVE UNCHANGED Protocol
    BY <1>0, <1>4, Zenon DEF SendNomination, Protocol, vars, authority, settings
<1>5. QED
    BY <1>0, <1>1, <1>2, <1>3, <1>4, Zenon DEF HandoverNext, TransferAdmin, SetSecondary,
       UpdateFees, TransferUpgradeAuthority, UpgradeAlone, ProposeRestoreSecondary,
       ProposeProgramUpgrade, ProposeSolTransfer, ProposeVerifyProgram, ProposeByHand,
       Proposes, Approve, VerifyState, VerifyUpgrade, UpdateParams, Protocol, vars,
       authority, settings

(* Once the check of the hand-over has passed, no key by itself changes    *)
(* the protocol or its program, whoever the members are and however many   *)
(* scripts were under way.                                                 *)
THEOREM MembersDoDecide == HandoverSpec => MembersDecide
<1>1. TypeOK /\ Verified /\ [HandoverNext]_<<vars, handoverVars>>
          => [MembersStep]_<<vars, handoverVars>>
    BY VoteDecides
<1>2. QED
    BY <1>1, HandoverTypes, VerifiedHolds, PTL DEF HandoverSpec, MembersDecide, MembersStep

-----------------------------------------------------------------------------
(* The scripts that put markets on chain (Operations).  Accounts are never *)
(* taken off the chain; a script that is past an account has it there, and *)
(* so have the markets a script has seen to, and every file made of them.  *)
Grows == chain \subseteq chain'

Complete(markets) ==
    \A m \in markets : {PoolAccount, Oracle(m), State(m)} \subseteq chain

ScriptOfEach ==
    DOMAIN at = Operators /\ DOMAIN todo = Operators /\ DOMAIN created = Operators

(* What an operator's script is past.                                      *)
ScriptSound(o) ==
    /\ at[o] \in {"oracle", "market"} =>
          PoolAccount \in chain /\ Complete(created[o])
    /\ at[o] = "market" => Oracle(Min(todo[o])) \in chain

FilesSound == Complete(manifest \cup reading \cup listed \cup mapped \cup pushing)

ListingSound ==
    /\ ScriptOfEach
    /\ \A o \in Operators : at[o] = "pool" => created[o] = {}
    /\ \A o \in Operators : ScriptSound(o)
    /\ FilesSound

LEMMA ChainGrows == [OperationsNext]_operationsVars => Grows
BY DEF Grows, OperationsNext, operationsVars, Bootstrap, BootstrapPool, SkipMarket,
   BootstrapOracle, BootstrapMarket, WriteManifest, GenerateMarkets, GenerateChain,
   Stopped, InitPool, KeeperStarts, Seen, Ensures, Rejected

LEMMA ScriptOfEachStep ==
    ScriptOfEach /\ [OperationsNext]_operationsVars => ScriptOfEach'
BY DEF ScriptOfEach, OperationsNext, operationsVars, Bootstrap, BootstrapPool, SkipMarket,
   BootstrapOracle, BootstrapMarket, WriteManifest, GenerateMarkets, GenerateChain,
   Stopped, InitPool, KeeperStarts, Seen, Ensures, Rejected, GoesTo

(* A step leaves the scripts of the others where they are.                 *)
ScriptKept(o) == at'[o] = at[o] /\ todo'[o] = todo[o] /\ created'[o] = created[o]

LEMMA KeptSound ==
    ASSUME NEW o \in Operators, ScriptSound(o), Grows, ScriptKept(o)
    PROVE  ScriptSound(o)'
BY DEF ScriptSound, Grows, ScriptKept, Complete

LEMMA OwnStep ==
    ASSUME ListingSound, NEW o \in Operators, Grows,
           \/ Bootstrap(o) \/ BootstrapPool(o) \/ SkipMarket(o)
           \/ BootstrapOracle(o) \/ BootstrapMarket(o) \/ WriteManifest(o)
           \/ GenerateMarkets(o) \/ GenerateChain(o)
           \/ Stopped(o)
    PROVE  /\ ScriptSound(o)'
           /\ at'[o] = "pool" => created'[o] = {}
           /\ \A j \in Operators \ {o} : ScriptKept(j)
<1>1. \A j \in Operators \ {o} : ScriptKept(j)
    BY DEF ListingSound, ScriptOfEach, ScriptKept, Bootstrap, BootstrapPool, SkipMarket,
       BootstrapOracle, BootstrapMarket, WriteManifest, GenerateMarkets, GenerateChain,
       Stopped, Seen, Ensures, Rejected, GoesTo
<1>2. CASE Bootstrap(o)
    BY <1>1, <1>2 DEF Bootstrap, GoesTo, ListingSound, ScriptOfEach, ScriptSound
<1>3. CASE BootstrapPool(o)
    BY <1>1, <1>3 DEF BootstrapPool, Seen, Ensures, Rejected, GoesTo, ListingSound,
       ScriptOfEach, ScriptSound, Complete
<1>4. CASE SkipMarket(o)
    BY <1>1, <1>4 DEF SkipMarket, ListingSound, ScriptOfEach, ScriptSound, Complete
<1>5. CASE BootstrapOracle(o)
    <2>1. Complete(created[o])' /\ PoolAccount \in chain'
        BY <1>5 DEF BootstrapOracle, Grows, ListingSound, ScriptSound, Complete
    <2>2. at'[o] = "market" => Oracle(Min(todo'[o])) \in chain'
        BY <1>5 DEF BootstrapOracle, Seen, Ensures, Rejected, GoesTo, ListingSound,
           ScriptOfEach
    <2>3. at'[o] # "pool"
        BY <1>5 DEF BootstrapOracle, Seen, Ensures, Rejected, GoesTo, ListingSound,
           ScriptOfEach
    <2>4. QED
        BY <1>1, <2>1, <2>2, <2>3 DEF ScriptSound
<1>6. CASE BootstrapMarket(o)
    <2>1. at'[o] \in {"oracle", "idle"}
        BY <1>6 DEF BootstrapMarket, Seen, Ensures, Rejected, GoesTo, ListingSound,
           ScriptOfEach
    <2>2. at'[o] = "oracle" => State(Min(todo[o])) \in chain'
        BY <1>6 DEF BootstrapMarket, Seen, Ensures, Rejected, GoesTo, ListingSound,
           ScriptOfEach
    <2>3. PoolAccount \in chain' /\ Oracle(Min(todo[o])) \in chain'
        BY <1>6 DEF BootstrapMarket, Grows, ListingSound, ScriptSound
    <2>4. at'[o] = "oracle" => created'[o] = created[o] \cup {Min(todo[o])}
        BY <1>6, <2>1 DEF BootstrapMarket, ListingSound, ScriptOfEach
    <2>5. \A m \in created[o] : {PoolAccount, Oracle(m), State(m)} \subseteq chain'
        BY <1>6 DEF BootstrapMarket, Grows, ListingSound, ScriptSound, Complete
    <2>6. at'[o] = "oracle" => Complete(created[o])'
        BY <2>2, <2>3, <2>4, <2>5 DEF Complete
    <2>7. QED
        BY <1>1, <2>1, <2>3, <2>6 DEF ScriptSound
<1>7. CASE WriteManifest(o) \/ GenerateMarkets(o) \/ GenerateChain(o) \/ Stopped(o)
    <2>1. at'[o] \in {"idle", "generating"}
        BY <1>7 DEF WriteManifest, GenerateMarkets, GenerateChain, Stopped, GoesTo,
           ListingSound, ScriptOfEach
    <2>2. QED
        BY <1>1, <2>1 DEF ScriptSound
<1>8. QED
    BY <1>2, <1>3, <1>4, <1>5, <1>6, <1>7

LEMMA FilesStep ==
    ListingSound /\ [OperationsNext]_operationsVars => FilesSound'
<1>. SUFFICES ASSUME ListingSound, [OperationsNext]_operationsVars PROVE FilesSound'
    OBVIOUS
<1>1. FilesSound /\ Grows
    BY ChainGrows DEF ListingSound
<1>2. CASE UNCHANGED outputVars
    BY <1>1, <1>2 DEF outputVars, FilesSound, Complete, Grows
<1>3. ASSUME NEW o \in Operators, WriteManifest(o) PROVE FilesSound'
    <2>1. Complete(created[o])
        BY <1>3 DEF WriteManifest, ListingSound, ScriptSound
    <2>2. QED
        BY <1>1, <1>3, <2>1 DEF WriteManifest, FilesSound, Complete, Grows
<1>4. CASE KeeperStarts
    BY <1>1, <1>4 DEF KeeperStarts, FilesSound, Complete
<1>5. ASSUME NEW o \in Operators, GenerateMarkets(o) \/ GenerateChain(o) PROVE FilesSound'
    BY <1>1, <1>5 DEF GenerateMarkets, GenerateChain, FilesSound, Complete
<1>6. QED
    BY <1>2, <1>3, <1>4, <1>5 DEF OperationsNext, operationsVars, outputVars, Bootstrap,
       BootstrapPool, SkipMarket, BootstrapOracle, BootstrapMarket, Stopped, InitPool

LEMMA ListingStep ==
    ListingSound /\ [OperationsNext]_operationsVars => ListingSound'
<1>. SUFFICES ASSUME ListingSound, [OperationsNext]_operationsVars PROVE ListingSound'
    OBVIOUS
<1>1. Grows /\ ScriptOfEach' /\ FilesSound'
    BY ChainGrows, ScriptOfEachStep, FilesStep DEF ListingSound
<1>2. ASSUME NEW o \in Operators,
             \A j \in Operators \ {o} : ScriptKept(j),
             ScriptSound(o)', at'[o] = "pool" => created'[o] = {}
      PROVE  ListingSound'
    <2>1. ASSUME NEW j \in Operators PROVE ScriptSound(j)'
        BY <1>1, <1>2, KeptSound DEF ListingSound
    <2>2. ASSUME NEW j \in Operators PROVE at'[j] = "pool" => created'[j] = {}
        BY <1>2 DEF ListingSound, ScriptKept
    <2>3. QED
        BY <1>1, <2>1, <2>2 DEF ListingSound
<1>3. CASE UNCHANGED <<at, todo, created>>
    BY <1>1, <1>3, KeptSound DEF ListingSound, ScriptKept
<1>4. QED
    BY <1>1, <1>2, <1>3, OwnStep DEF OperationsNext, InitPool, KeeperStarts, operationsVars

(* Whatever is listed, mapped or priced can be traded, for every list of   *)
(* markets and any number of people who run the scripts at once.           *)
THEOREM ManifestIsSound == OperationsSpec => []ManifestSound
<1>1. OperationsInit => ListingSound
    BY DEF OperationsInit, ListingSound, ScriptOfEach, ScriptSound, FilesSound, Complete
<1>2. ListingSound => ManifestSound
    BY DEF ListingSound, FilesSound, Complete, ManifestSound
<1>3. QED
    BY <1>1, <1>2, ListingStep, PTL DEF OperationsSpec

=============================================================================
