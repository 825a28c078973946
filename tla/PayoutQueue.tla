----------------------------- MODULE PayoutQueue -----------------------------
(***************************************************************************)
(* The ring buffer of payouts the LP vault could not make at once, and     *)
(* process_payouts, which anyone may call to pay the oldest of them.       *)
(*                                                                         *)
(* PayoutQueue.push is not called by any instruction of the program: this  *)
(* module says what the queue does for a caller that uses its methods.     *)
(***************************************************************************)
EXTENDS Integers, Functions

CONSTANTS
    Users, Nobody,  \* the wallets, Pubkey::default()
    Size,           \* PAYOUT_QUEUE_SIZE (16)
    QueueAmounts,        \* debts, and deposits into the LP vault
    MaxOwed,        \* bound on all that was ever queued
    MaxVault        \* bound on the LP vault

ASSUME QueueAssumption ==
    /\ Nobody \notin Users /\ Size \in Nat \ {0}
    /\ QueueAmounts \subseteq Nat /\ MaxOwed \in Nat /\ MaxVault \in Nat

VARIABLES
    head, tail, count, entries,
    lp_vault, total_usdc,
    received,       \* what each user's token account got
    granted         \* history: what was queued for each user

queue == <<head, tail, count, entries>>
pool  == <<lp_vault, total_usdc>>
queueVars  == <<queue, pool, received, granted>>

Entry == [user: Users \cup {Nobody}, amount: Nat]
DefaultEntry == [user |-> Nobody, amount |-> 0]
Cells == 0 .. Size - 1

QueueTypeOK ==
    /\ head \in Cells /\ tail \in Cells /\ count \in 0 .. Size
    /\ entries \in [Cells -> Entry]
    /\ lp_vault \in Nat /\ total_usdc \in Nat
    /\ received \in [Users -> Nat] /\ granted \in [Users -> Nat]

QueueInit ==
    /\ head = 0 /\ tail = 0 /\ count = 0
    /\ entries = [i \in Cells |-> DefaultEntry]
    /\ lp_vault = 0 /\ total_usdc = 0
    /\ received = [u \in Users |-> 0] /\ granted = [u \in Users |-> 0]

-----------------------------------------------------------------------------
Push(u, amount) ==
    /\ count < Size
    /\ entries' = [entries EXCEPT ![tail] = [user |-> u, amount |-> amount]]
    /\ tail' = (tail + 1) % Size
    /\ count' = count + 1
    /\ granted' = [granted EXCEPT ![u] = @ + amount]
    /\ UNCHANGED <<head, pool, received>>

(* Mutant: the head does not wrap around.                                  *)
PopUnwrapped ==
    /\ entries' = [entries EXCEPT ![head] = DefaultEntry]
    /\ head' = head + 1
    /\ count' = count - 1
    /\ UNCHANGED tail

(* Mutant: the emptied cell is left behind by the head but still counted.  *)
PopUncounted ==
    /\ entries' = [entries EXCEPT ![head] = DefaultEntry]
    /\ head' = (head + 1) % Size
    /\ UNCHANGED <<tail, count>>

Pop ==
    /\ entries' = [entries EXCEPT ![head] = DefaultEntry]
    /\ head' = (head + 1) % Size
    /\ count' = count - 1
    /\ UNCHANGED tail

(* Mutant: a partly paid debt stays as it was.                             *)
KeepWhole(pay) == UNCHANGED queue

Keep(pay) ==
    /\ entries' = [entries EXCEPT ![head].amount = @ - pay]
    /\ UNCHANGED <<head, tail, count>>

(* process_payouts has nothing to do when the queue or the LP vault is     *)
(* empty.                                                                  *)
ProcessNothing ==
    /\ count = 0 \/ lp_vault = 0
    /\ UNCHANGED queueVars

(* The token account passed in must be that of the oldest entry.           *)
ProcessPayouts(account) ==
    LET owedNow == entries[head].amount
        pay     == IF owedNow <= lp_vault THEN owedNow ELSE lp_vault
    IN  /\ count > 0
        /\ account = entries[head].user
        /\ lp_vault > 0
        /\ lp_vault' = lp_vault - pay
        /\ total_usdc' = IF pay <= total_usdc THEN total_usdc - pay ELSE 0
        /\ received' = [received EXCEPT ![account] = @ + pay]
        /\ IF pay >= owedNow THEN Pop ELSE Keep(pay)
        /\ UNCHANGED granted

(* The LP vault fills by deposits and by the traders' losses.              *)
Fill(amount) ==
    /\ lp_vault + amount <= MaxVault
    /\ amount > 0
    /\ lp_vault' = lp_vault + amount
    /\ total_usdc' = total_usdc + amount
    /\ UNCHANGED <<queue, received, granted>>

QueueNext ==
    \/ \E u \in Users, amount \in QueueAmounts :
          SumFunction(granted) + amount <= MaxOwed /\ Push(u, amount)
    \/ \E u \in Users : ProcessPayouts(u)
    \/ ProcessNothing
    \/ \E amount \in QueueAmounts : Fill(amount)

QueueSpec == QueueInit /\ [][QueueNext]_queueVars

-----------------------------------------------------------------------------
(* Properties.                                                             *)

(* The queue as a sequence, oldest first.                                  *)
Waiting == [i \in 1..count |-> entries[(head + i - 1) % Size]]

Fifo == INSTANCE PayoutFifo WITH
    Payees <- Users, Capacity <- Size, Debts <- QueueAmounts,
    owed <- Waiting, funds <- lp_vault

(* The ring keeps the promise of a queue: whatever the positions of head   *)
(* and tail and however often they have wrapped around, payouts are made   *)
(* oldest first, in part when the vault runs short, and an entry is        *)
(* neither overwritten nor paid twice.                                     *)
IsFifo == Fifo!Spec

(* The sum of what the cells of a ring hold.                               *)
Total(f) ==
    LET upTo[n \in 0 .. Size] == IF n = 0 THEN 0 ELSE upTo[n - 1] + f[n - 1]
    IN  upTo[Size]

DebtsIn(ring, u) == [i \in Cells |-> IF ring[i].user = u THEN ring[i].amount ELSE 0]

(* What a user was promised is what they got and what still waits for them.*)
NothingLost ==
    \A u \in Users : granted[u] = received[u] + Total(DebtsIn(entries, u))

=============================================================================
