----------------------------- MODULE PayoutFifo -----------------------------
(***************************************************************************)
(* What a payout queue promises: whoever is owed money is paid in the      *)
(* order in which the debts arose, nobody is paid before the debts ahead   *)
(* of theirs are settled in full, and nothing is lost or paid twice.       *)
(***************************************************************************)
EXTENDS Integers, Sequences

CONSTANTS
    Payees, Capacity,
    Debts               \* sizes of debts

VARIABLES
    owed,       \* debts still open, oldest first
    funds,      \* what there is to pay from
    received    \* what each payee has been paid

vars == <<owed, funds, received>>

Init ==
    /\ owed = << >>
    /\ funds \in Nat
    /\ received = [u \in Payees |-> 0]

Owe(u, amount) ==
    /\ Len(owed) < Capacity
    /\ owed' = Append(owed, [user |-> u, amount |-> amount])
    /\ UNCHANGED <<funds, received>>

Less(debt, paid) == [debt EXCEPT !.amount = @ - paid]

(* The oldest debt is paid as far as the funds reach.                      *)
Pay ==
    /\ owed # << >> /\ funds > 0
    /\ LET debt == Head(owed)
           paid == IF debt.amount <= funds THEN debt.amount ELSE funds
       IN  /\ owed' = IF paid = debt.amount THEN Tail(owed)
                      ELSE [owed EXCEPT ![1] = Less(debt, paid)]
           /\ funds' = funds - paid
           /\ received' = [received EXCEPT ![debt.user] = @ + paid]

Fund == funds' \in Nat /\ funds' > funds /\ UNCHANGED <<owed, received>>

Next == (\E u \in Payees, amount \in Debts : Owe(u, amount)) \/ Pay \/ Fund

Spec == Init /\ [][Next]_vars

=============================================================================
