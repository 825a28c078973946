------------------------------- MODULE Parts -------------------------------
(***************************************************************************)
(* Parts of the system that share no state: the timelock and the payout    *)
(* queue of the program, the routes for accounts on the server, in the     *)
(* browser the session wallet, the price cache and the chart, and the      *)
(* scripts the team runs.  Where one meets another, as the wallet meets    *)
(* the routes, each takes any call or any answer, so that a behaviour may  *)
(* be looked at from one part at a time: part says from which, and the     *)
(* others rest.                                                            *)
(***************************************************************************)
EXTENDS Governance, PayoutQueue, Accounts, Wallet, Tape, Chart, Operations,
        Handover

VARIABLE part

partsVars == <<part, vars, queueVars, accountVars, walletVars, tapeVars, chartVars,
               operationsVars, handoverVars>>

\* A part at rest starts with nothing in it.  In the account of an earlier
\* deployment one password and one wallet stand, by symmetry, for the others.
PartsInit ==
    /\ part \in {"timelock", "payouts", "accounts", "wallet", "tape", "chart",
                "operations", "handover"}
    /\ Init /\ QueueInit /\ AccountsInit /\ WalletInit /\ TapeInit /\ ChartInit
    /\ OperationsInit /\ HandoverInit
    /\ part # "accounts" => \A e \in Emails : rows[e] = NoRow
    /\ \A e \in Emails : rows[e] # NoRow =>
          /\ rows[e].hash.password = CHOOSE p \in Passwords : TRUE
          /\ rows[e].wallet = CHOOSE w \in Wallets : TRUE
    /\ part # "wallet" => backup = None /\ lastWallet = None
    /\ part # "chart" => trader = FALSE

Alone(p) ==
    /\ part = p /\ UNCHANGED part
    /\ IF p \in {"timelock", "handover"} THEN TRUE ELSE UNCHANGED vars
    /\ IF p = "payouts"  THEN TRUE ELSE UNCHANGED queueVars
    /\ IF p = "accounts" THEN TRUE ELSE UNCHANGED accountVars
    /\ IF p = "wallet"   THEN TRUE ELSE UNCHANGED walletVars
    /\ IF p = "tape"     THEN TRUE ELSE UNCHANGED tapeVars
    /\ IF p = "chart"    THEN TRUE ELSE UNCHANGED chartVars
    /\ IF p = "operations" THEN TRUE ELSE UNCHANGED operationsVars
    /\ IF p = "handover" THEN TRUE ELSE UNCHANGED handoverVars

PartsNext ==
    \/ Alone("timelock") /\ Next
    \/ Alone("payouts")  /\ QueueNext
    \/ Alone("accounts") /\ AccountsNext
    \/ Alone("wallet")   /\ WalletNext
    \/ Alone("tape")     /\ TapeNext
    \/ Alone("chart")    /\ ChartNext
    \/ Alone("operations") /\ OperationsNext
    \/ Alone("handover") /\ HandoverNext

PartsSpec == PartsInit /\ [][PartsNext]_partsVars
=============================================================================
