------------------------------- MODULE Crank -------------------------------
(***************************************************************************)
(* crank-keeper.js: the process that settles funding, liquidates and       *)
(* executes triggers.  Each run takes one snapshot of the margin accounts  *)
(* and then works through the positions it read, one transaction after     *)
(* another, swallowing the failure of each; the interval timer starts the  *)
(* next run whether or not the last has ended.                             *)
(*                                                                         *)
(* The snapshot is read at fixed offsets (parsePositions) from accounts    *)
(* that the program writes in Borsh, where an empty option takes one byte  *)
(* and where a write leaves the bytes behind its end as they were.  What   *)
(* an account shows at those offsets is kept in view.                      *)
(*                                                                         *)
(* The program is reduced to what the crank can tell apart: which calls    *)
(* are due for a position.                                                 *)
(***************************************************************************)
EXTENDS Integers, Sequences, FiniteSetsExt, SequencesExt

CONSTANTS
    Owners, Markets,
    First,          \* manifest.markets[0]
    MaxPositions,   \* MAX_POSITIONS of the program
    Triggers,       \* how many triggers a position may have
    Runs,           \* runs that may be under way at once
    MaxInFlight,    \* bound on the transactions under way
    MaxFaults       \* bound on lost transactions, failed calls and restarts

ASSUME CrankAssumption ==
    /\ First \in Markets /\ Triggers \subseteq 0 .. 2
    /\ MaxPositions \in Nat \ {0} /\ MaxInFlight \in Nat \ {0} /\ MaxFaults \in Nat

VARIABLES
    positions,  \* the positions of each owner on chain
    view,       \* what parsePositions finds in each owner's account
    fresh,      \* whether the oracle of a market is recent enough
    paused,
    hasAta,     \* the crank's token account exists
    inflight,   \* accepted transactions that have not executed
    pc,         \* where each run is
    todo,       \* positions of its snapshot that a run has yet to treat
    timer,      \* the interval timer is set
    faults

chain  == <<positions, view, fresh, paused>>
runs   == <<pc, todo, timer>>
vars   == <<chain, hasAta, inflight, runs, faults>>

Slots == 1 .. MaxPositions
None  == [open |-> FALSE]
Calls == {"liquidate", "execute_sl_tp"}

(* A position has up to two triggers, sl_price and tp_price; only one that *)
(* has any can have one crossed.                                           *)
Positions ==
    {p \in [open: {TRUE}, market: Markets, triggers: Triggers, due: SUBSET Calls] :
        "execute_sl_tp" \in p.due => p.triggers > 0}

Read(p) == [open |-> TRUE, market |-> p.market, triggers |-> p.triggers]
Reads == {Read(p) : p \in Positions}

Items == [owner: Owners, index: Slots, market: Markets, trig: BOOLEAN]
Stages == {"settle", "liquidate", "sltp"}
Transactions == [call: Calls \cup {"settle_funding"}, owner: Owners, index: Slots, market: Markets]
                \cup [call: {"create_ata", "check_and_pause"}]

TypeOK ==
    /\ positions \in [Owners -> [Slots -> Positions \cup {None}]]
    /\ view \in [Owners -> [Slots -> Reads \cup {None}]]
    /\ fresh \in [Markets -> BOOLEAN] /\ paused \in BOOLEAN /\ hasAta \in BOOLEAN
    /\ inflight \subseteq Transactions
    /\ pc \in [Runs -> {"idle", "ata", "scan", "pause"} \cup Stages]
    /\ \A r \in Runs : /\ todo[r] \in Seq(Items)
                       /\ pc[r] \in Stages <=> todo[r] # << >>
    /\ timer \in BOOLEAN
    /\ faults \in 0 .. MaxFaults

Init ==
    /\ positions = [o \in Owners |-> [i \in Slots |-> None]]
    /\ view = positions
    /\ fresh = [m \in Markets |-> TRUE] /\ paused = FALSE
    /\ hasAta = FALSE
    /\ inflight = {}
    /\ pc = [r \in Runs |-> "idle"]
    /\ todo = [r \in Runs |-> << >>]
    /\ timer = FALSE
    /\ faults = 0

-----------------------------------------------------------------------------
(* The account as bytes: an option is its tag and, when it is there, its   *)
(* value; POSITION_SPACE and the tag make the stride of the reader.        *)
Stride == 93
Size(p) == IF p.open THEN 75 + 2 + 8 * p.triggers ELSE 1
Start(ps, k) == MapThenSumSet(LAMBDA j : Size(ps[j]), 1 .. k - 1)
End(ps) == Start(ps, MaxPositions + 1) + 1

(* What the reader finds in slot i once ps is written over an account that *)
(* showed old: what was there when it reads behind the end, a position     *)
(* when one starts exactly there; elsewhere it meets the tag of an empty   *)
(* slot or bytes whose oracle is in no manifest.                           *)
Found(ps, old, i) ==
    LET at == Stride * (i - 1)
        hit == {k \in Slots : ps[k].open /\ Start(ps, k) = at}
    IN  IF at >= End(ps) THEN old[i]
        ELSE IF hit # {} THEN Read(ps[CHOOSE k \in hit : TRUE])
        ELSE None

(* Mutant: an account is read wherever its positions start.                *)
FoundAnywhere(ps, old, i) == IF ps[i].open THEN Read(ps[i]) ELSE None

(* The program writes the whole account of an owner.                       *)
Write(o, ps) ==
    /\ positions' = [positions EXCEPT ![o] = ps]
    /\ view' = [view EXCEPT ![o] = [i \in Slots |-> Found(ps, view[o], i)]]

-----------------------------------------------------------------------------
(* Traders and prices.  A position opens healthy in the first empty slot.  *)
Opens(o, p) ==
    /\ ~paused /\ p.due = {}
    /\ \E i \in Slots :
        /\ ~positions[o][i].open /\ \A j \in 1 .. i - 1 : positions[o][j].open
        /\ Write(o, [positions[o] EXCEPT ![i] = p])
    /\ UNCHANGED <<fresh, paused, hasAta, inflight, runs, faults>>

Closes(o, i) ==
    /\ positions[o][i].open
    /\ Write(o, [positions[o] EXCEPT ![i] = None])
    /\ UNCHANGED <<fresh, paused, hasAta, inflight, runs, faults>>

(* set_sl_tp, or a price that crosses a threshold of the position.         *)
Becomes(o, i, p) ==
    /\ positions[o][i].open /\ positions[o][i].market = p.market /\ positions[o][i] # p
    /\ Write(o, [positions[o] EXCEPT ![i] = p])
    /\ UNCHANGED <<fresh, paused, hasAta, inflight, runs, faults>>

OracleAges(m) ==
    /\ fresh[m] /\ fresh' = [fresh EXCEPT ![m] = FALSE]
    /\ UNCHANGED <<positions, view, paused, hasAta, inflight, runs, faults>>

OracleUpdated(m) ==
    /\ ~fresh[m] /\ fresh' = [fresh EXCEPT ![m] = TRUE]
    /\ UNCHANGED <<positions, view, paused, hasAta, inflight, runs, faults>>

Unpaused ==
    /\ paused /\ paused' = FALSE
    /\ UNCHANGED <<positions, view, fresh, hasAta, inflight, runs, faults>>

-----------------------------------------------------------------------------
(* The execution of a transaction by the cluster, and whether it succeeds. *)
At(tx) == positions[tx.owner][tx.index]

Executes(tx) ==
    CASE tx.call = "create_ata"      -> ~hasAta
      [] tx.call = "check_and_pause" -> ~fresh[First]
      [] tx.call = "settle_funding"  -> ~paused /\ fresh[tx.market]
      [] OTHER -> /\ ~paused /\ fresh[tx.market] /\ hasAta
                  /\ At(tx).open /\ At(tx).market = tx.market /\ tx.call \in At(tx).due

(* Funding may empty a position of the account or bring it close to it.    *)
Settled(tx, ps) ==
    {[i \in Slots |-> IF i \in D THEN None
                      ELSE IF i \in L THEN [ps[i] EXCEPT !.due = @ \cup {"liquidate"}] ELSE ps[i]] :
        <<D, L>> \in LET S == {i \in Slots : ps[i].open /\ ps[i].market = tx.market}
                     IN  (SUBSET S) \X (SUBSET S)}

Land(tx) ==
    /\ tx \in inflight
    /\ inflight' = inflight \ {tx}
    /\ IF ~Executes(tx) THEN UNCHANGED <<chain, hasAta>>
       ELSE \/ tx.call = "create_ata" /\ hasAta' = TRUE /\ UNCHANGED chain
            \/ /\ tx.call = "check_and_pause" /\ paused' = TRUE
               /\ UNCHANGED <<positions, view, fresh, hasAta>>
            \/ /\ tx.call = "settle_funding"
               /\ \E ps \in Settled(tx, positions[tx.owner]) : Write(tx.owner, ps)
               /\ UNCHANGED <<fresh, paused, hasAta>>
            \/ /\ tx.call \in Calls
               /\ Write(tx.owner, [positions[tx.owner] EXCEPT ![tx.index] = None])
               /\ UNCHANGED <<fresh, paused, hasAta>>
    /\ UNCHANGED <<runs, faults>>

Fault == faults < MaxFaults /\ faults' = faults + 1

Lose(tx) ==
    /\ tx \in inflight /\ Fault
    /\ inflight' = inflight \ {tx}
    /\ UNCHANGED <<chain, hasAta, runs>>

-----------------------------------------------------------------------------
(* A run.  sendIx: the node simulates a transaction and accepts it, or the *)
(* call throws because the transaction is refused or the node fails.       *)
Sends(tx) ==
    /\ Executes(tx)
    /\ tx \in inflight \/ Cardinality(inflight) < MaxInFlight
    /\ inflight' = inflight \cup {tx} /\ UNCHANGED faults

Throws(tx) ==
    /\ IF Executes(tx) THEN Fault ELSE UNCHANGED faults
    /\ UNCHANGED inflight

Goes(r, stage) == pc' = [pc EXCEPT ![r] = stage] /\ UNCHANGED timer

(* The end of a run, whole or cut short by the outer catch; the timer is   *)
(* set after the first.                                                    *)
Ends(r) ==
    /\ pc' = [pc EXCEPT ![r] = "idle"]
    /\ todo' = [todo EXCEPT ![r] = << >>]
    /\ timer' = TRUE

StartRun(r) ==
    /\ pc[r] = "idle"
    /\ timer \/ \A q \in Runs : pc[q] = "idle"
    /\ Goes(r, "ata")
    /\ UNCHANGED <<chain, hasAta, inflight, todo, faults>>

(* ensureAta: a lookup that fails counts as a missing account, and the     *)
(* creation of one that exists is refused, which ends the run.             *)
EnsureAta(r) ==
    /\ pc[r] = "ata"
    /\ \/ hasAta /\ Goes(r, "scan") /\ UNCHANGED <<inflight, todo, faults>>
       \/ hasAta /\ Fault /\ Ends(r) /\ UNCHANGED inflight
       \/ Sends([call |-> "create_ata"]) /\ Goes(r, "scan") /\ UNCHANGED todo
       \/ ~hasAta /\ Throws([call |-> "create_ata"]) /\ Ends(r)
    /\ UNCHANGED <<chain, hasAta>>

(* Where a run goes with the positions it has left.                        *)
Continues(r, rest) ==
    /\ todo' = [todo EXCEPT ![r] = rest]
    /\ Goes(r, IF rest = << >> THEN "pause" ELSE "settle")

(* The positions read in one account, in the order of their slots.         *)
ItemsOf(o) ==
    LET seen == SelectSeq([i \in Slots |-> i], LAMBDA i : view[o][i].open)
    IN  [n \in DOMAIN seen |->
            LET v == view[o][seen[n]]
            IN  [owner |-> o, index |-> seen[n], market |-> v.market, trig |-> v.triggers > 0]]

Orders == {q \in [1 .. Cardinality(Owners) -> Owners] : IsInjective(q)}

Scan(r) ==
    /\ pc[r] = "scan"
    /\ \/ /\ \E q \in Orders : Continues(r, FlattenSeq([n \in DOMAIN q |-> ItemsOf(q[n])]))
          /\ UNCHANGED faults
       \/ Fault /\ Ends(r)
    /\ UNCHANGED <<chain, hasAta, inflight>>

Tx(call, it) == [call |-> call, owner |-> it.owner, index |-> it.index, market |-> it.market]

(* Mutant: a failed call ends the run.                                     *)
AttemptOrAbort(r, call, next) ==
    LET tx == Tx(call, Head(todo[r]))
    IN  /\ \/ Sends(tx) /\ next
           \/ Throws(tx) /\ Ends(r)
        /\ UNCHANGED <<chain, hasAta>>

(* One call of the run for the position at its head, and what follows it   *)
(* whether or not it succeeds.                                             *)
Attempt(r, call, next) ==
    LET tx == Tx(call, Head(todo[r]))
    IN  /\ Sends(tx) \/ Throws(tx)
        /\ next
        /\ UNCHANGED <<chain, hasAta>>

SettleFunding(r) ==
    /\ pc[r] = "settle"
    /\ Attempt(r, "settle_funding", Goes(r, "liquidate") /\ UNCHANGED todo)

Liquidate(r) ==
    /\ pc[r] = "liquidate"
    /\ Attempt(r, "liquidate", IF Head(todo[r]).trig THEN Goes(r, "sltp") /\ UNCHANGED todo
                               ELSE Continues(r, Tail(todo[r])))

ExecuteSlTp(r) ==
    /\ pc[r] = "sltp"
    /\ Attempt(r, "execute_sl_tp", Continues(r, Tail(todo[r])))

(* Only the oracle of the first market is ever reported as stale.          *)
CheckAndPause(r) ==
    /\ pc[r] = "pause"
    /\ Sends([call |-> "check_and_pause"]) \/ Throws([call |-> "check_and_pause"])
    /\ Ends(r)
    /\ UNCHANGED <<chain, hasAta>>

(* The process manager restarts a process that died.                       *)
Restart ==
    /\ Fault
    /\ pc' = [r \in Runs |-> "idle"] /\ todo' = [r \in Runs |-> << >>]
    /\ timer' = FALSE
    /\ UNCHANGED <<chain, hasAta, inflight>>

RunStep(r) ==
    \/ EnsureAta(r) \/ Scan(r)
    \/ SettleFunding(r) \/ Liquidate(r) \/ ExecuteSlTp(r) \/ CheckAndPause(r)

Environment ==
    \/ \E o \in Owners, p \in Positions : Opens(o, p) \/ \E i \in Slots : Becomes(o, i, p)
    \/ \E o \in Owners, i \in Slots : Closes(o, i)
    \/ \E m \in Markets : OracleAges(m) \/ OracleUpdated(m)
    \/ Unpaused
    \/ \E tx \in inflight : Land(tx) \/ Lose(tx)

Next ==
    \/ Environment
    \/ \E r \in Runs : StartRun(r) \/ RunStep(r)
    \/ Restart

(* The timer fires for ever, a run that has begun goes on, and an accepted *)
(* transaction executes or is lost; nothing is asked of traders or prices. *)
Fairness ==
    /\ \A r \in Runs : WF_vars(StartRun(r)) /\ WF_vars(RunStep(r))
    /\ \A tx \in Transactions : WF_vars(Land(tx))

Spec == Init /\ [][Next]_vars /\ Fairness

-----------------------------------------------------------------------------
(* A call is due for a position and the program would accept it.           *)
Waiting(o, i, call) ==
    /\ positions[o][i].open /\ call \in positions[o][i].due
    /\ ~paused /\ fresh[positions[o][i].market]

(* A call that stays due for a position that the account shows where the   *)
(* crank looks for it is made in the end: also when runs overlap, when the *)
(* calls for other positions fail, when transactions are lost, and when    *)
(* the snapshot names positions that are gone (runCrank).                  *)
SeenAreServed ==
    \A o \in Owners, i \in Slots, call \in Calls :
        []<>~(Waiting(o, i, call) /\ view[o][i] = Read(positions[o][i]))

(* The crank scans the margin accounts and attempts liquidate and          *)
(* execute_sl_tp for their positions (the header of crank-keeper.js): no   *)
(* position whose liquidation is due waits for ever.                       *)
EveryoneIsServed ==
    \A o \in Owners, i \in Slots : []<>~Waiting(o, i, "liquidate")
=============================================================================
