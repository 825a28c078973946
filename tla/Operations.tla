----------------------------- MODULE Operations -----------------------------
(***************************************************************************)
(* How the team puts markets on chain and in front of users: the script    *)
(* bootstrap-watch-markets.ts makes the pool, and for each market of its   *)
(* list the oracle and the market state, and then writes the manifest;     *)
(* gen-app-markets.js makes the market lists of the application and of the *)
(* static site from the manifest; the keeper reads it when it starts.      *)
(*                                                                         *)
(* Scripts are run by hand, at the same time by several people, stopped at *)
(* any point and run again.  An account that cannot be fetched is taken to *)
(* be missing; a transaction may land though its confirmation is lost.     *)
(***************************************************************************)
EXTENDS Integers, FiniteSetsExt

CONSTANTS
    Listing,        \* MARKETS of the script, numbered in its order
    TooLong,        \* those with a market_id of more than 32 bytes
    Operators,      \* people who run scripts
    MaxExits        \* bound on the scripts that stop half way

ASSUME OperationsAssumption ==
    /\ Listing \subseteq Nat \ {0} /\ TooLong \subseteq Listing
    /\ MaxExits \in Nat

VARIABLES
    chain,      \* the accounts that exist
    at,         \* where each operator's script is
    todo,       \* markets it has yet to look at
    created,    \* markets it has seen to
    manifest,   \* markets.bootstrap.json
    reading,    \* the manifest gen-app-markets.js has read
    listed,     \* MARKETS of markets.ts
    mapped,     \* oracles of chain.js
    pushing,    \* active markets of the keeper
    exits

operationsVars ==
    <<chain, at, todo, created, manifest, reading, listed, mapped, pushing, exits>>
outputVars == <<manifest, reading, listed, mapped, pushing>>

PoolAccount == <<"pool", 0>>
Oracle(m)   == <<"oracle", m>>
State(m)    == <<"market", m>>

OperationsInit ==
    /\ chain = {} /\ exits = 0
    /\ at = [o \in Operators |-> "idle"]
    /\ todo = [o \in Operators |-> {}]
    /\ created = [o \in Operators |-> {}]
    /\ manifest = {} /\ reading = {} /\ listed = {} /\ mapped = {} /\ pushing = {}

-----------------------------------------------------------------------------
GoesTo(o, step) == at' = [at EXCEPT ![o] = step]

(* The account is there, or is made now.                                   *)
Ensures(o, a, step) ==
    /\ chain' = chain \cup {a}
    /\ GoesTo(o, step)
    /\ UNCHANGED exits

(* It cannot be made, because the call fails or because it was there after *)
(* all, or it is made and the confirmation lost.                           *)
RejectedThenOn(o, a, step) ==
    /\ exits < MaxExits /\ exits' = exits + 1
    /\ chain' \in {chain, chain \cup {a}}
    /\ GoesTo(o, step)

(* main().catch: the script prints the error and exits.                    *)
Rejected(o, a, step) ==
    /\ exits < MaxExits /\ exits' = exits + 1
    /\ chain' \in {chain, chain \cup {a}}
    /\ GoesTo(o, "idle")

Seen(o, a, step) == Ensures(o, a, step) \/ Rejected(o, a, step)

Bootstrap(o) ==
    /\ at[o] = "idle" /\ GoesTo(o, "pool")
    /\ todo' = [todo EXCEPT ![o] = Listing]
    /\ created' = [created EXCEPT ![o] = {}]
    /\ UNCHANGED <<chain, exits, outputVars>>

BootstrapPool(o) ==
    /\ at[o] = "pool" /\ Seen(o, PoolAccount, "oracle")
    /\ UNCHANGED <<todo, created, outputVars>>

SkipMarket(o) ==
    /\ at[o] = "oracle" /\ todo[o] # {} /\ Min(todo[o]) \in TooLong
    /\ todo' = [todo EXCEPT ![o] = @ \ {Min(@)}]
    /\ UNCHANGED <<chain, at, created, exits, outputVars>>

BootstrapOracle(o) ==
    /\ at[o] = "oracle" /\ todo[o] # {} /\ Min(todo[o]) \notin TooLong
    /\ Seen(o, Oracle(Min(todo[o])), "market")
    /\ UNCHANGED <<todo, created, outputVars>>

BootstrapMarket(o) ==
    /\ at[o] = "market" /\ Seen(o, State(Min(todo[o])), "oracle")
    /\ IF at'[o] = "idle" THEN UNCHANGED <<todo, created>>
       ELSE /\ created' = [created EXCEPT ![o] = @ \cup {Min(todo[o])}]
            /\ todo' = [todo EXCEPT ![o] = @ \ {Min(@)}]
    /\ UNCHANGED outputVars

WriteManifest(o) ==
    /\ at[o] = "oracle" /\ todo[o] = {}
    /\ manifest' = created[o]
    /\ GoesTo(o, "idle")
    /\ UNCHANGED <<chain, todo, created, exits, reading, listed, mapped, pushing>>

(* init-pool.ts: the pool alone.                                           *)
InitPool ==
    /\ chain' = chain \cup {PoolAccount}
    /\ UNCHANGED <<at, todo, created, exits, outputVars>>

(* gen-app-markets.js: the manifest is read once and the two files written *)
(* one after the other.                                                    *)
GenerateMarkets(o) ==
    /\ at[o] = "idle" /\ manifest # {}
    /\ reading' = manifest /\ listed' = manifest
    /\ GoesTo(o, "generating")
    /\ UNCHANGED <<chain, todo, created, exits, manifest, mapped, pushing>>

GenerateChain(o) ==
    /\ at[o] = "generating"
    /\ mapped' = reading /\ GoesTo(o, "idle")
    /\ UNCHANGED <<chain, todo, created, exits, manifest, reading, listed, pushing>>

(* Any script is stopped.                                                  *)
Stopped(o) ==
    /\ at[o] # "idle" /\ GoesTo(o, "idle")
    /\ exits < MaxExits /\ exits' = exits + 1
    /\ UNCHANGED <<chain, todo, created, outputVars>>

(* main of the keeper: the markets of the manifest whose oracle is there.  *)
KeeperStarts ==
    /\ manifest # {}
    /\ pushing' = {m \in manifest : Oracle(m) \in chain}
    /\ UNCHANGED <<chain, at, todo, created, exits, manifest, reading, listed, mapped>>

OperationsNext ==
    \/ \E o \in Operators :
        \/ Bootstrap(o) \/ BootstrapPool(o) \/ SkipMarket(o)
        \/ BootstrapOracle(o) \/ BootstrapMarket(o) \/ WriteManifest(o)
        \/ GenerateMarkets(o) \/ GenerateChain(o)
        \/ Stopped(o)
    \/ InitPool
    \/ KeeperStarts

OperationsSpec == OperationsInit /\ [][OperationsNext]_operationsVars

-----------------------------------------------------------------------------
(* Whatever scripts were stopped, failed or run side by side, what the     *)
(* application, the static site or the keeper is told of can be traded:    *)
(* the pool, the oracle and the market state are on chain.                 *)
ManifestSound ==
    \A m \in manifest \cup listed \cup mapped \cup pushing :
        {PoolAccount, Oracle(m), State(m)} \subseteq chain
=============================================================================
